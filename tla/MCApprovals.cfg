SPECIFICATION Spec
CONSTANTS
  Proposals = {p1, p2}
  Cells = {"c1"}
  Actors = {a1, a2}
  Proposer <- MCProposer
  FounderOf <- MCFounderOf
  Kind <- MCKind
  Channel <- MCNoChannel
  Cost <- MCCost
  Claim <- MCClaim
  GenomeClaim <- MCGenomeClaim
  Summary <- MCSummary
  RealCells = {}
  Unlisted = {}
  Life <- MCLife
  Window = 0
  Alarm = 6
  SplitMin = 2
  FloodLimit = 2
  Backlogs = {{}}
  Exposed = {"c1"}
  Mortal = {}
  Sinkless = {p2}
  Hoarders = {"c1"}
  LastProposal = 1
  MaxClock = 1
  Flags = {}
  FlagOf <- MCFlagOf
  Hosts = {}
  HostOf <- MCEmpty
  Artifacts = {}
  MakerOf <- MCEmpty
  Tainted = {}
  Subjects = {"colony"}
  RightsOn <- MCEmpty
  Channels = {}
  TargetKind <- MCEmpty
  WindowCap <- MCEmpty
  OpenCap <- MCEmpty
  Billable <- MCEmpty
  Targets = {}
  Artifact <- MCArtifact
  Records = {}
  RecordChannel <- MCEmpty
  Minutes = {}
  Budget <- MCBudget
  CallCost = 1
INVARIANT BatchedExposureStaysLow
PROPERTY ImplementsPermits
SYMMETRY MCSymmetry
CHECK_DEADLOCK FALSE
