SPECIFICATION Spec
CONSTANTS
  Proposals = {"tool", "mail1", "mail2"}
  Cells = {"c1", "c2"}
  Actors = {a1, a2}
  Proposer <- MCProposer
  FounderOf <- MCFounderOf
  Kind <- MCKind
  Channel <- MCChannel
  Cost <- MCCost
  Claim <- MCClaim
  GenomeClaim <- MCGenomeClaim
  Summary <- MCSummary
  RealCells = {}
  Unlisted = {}
  Life <- MCLife
  Window = 1
  Alarm = 4
  SplitMin = 3
  FloodLimit = 5
  Backlogs <- MCBacklogs
  Exposed = {}
  Mortal = {"c1"}
  Sinkless = {}
  Hoarders = {}
  LastProposal = 0
  MaxClock = 1
  Flags = {"public_web_read"}
  FlagOf <- MCFlagOf
  Hosts = {"site"}
  HostOf <- MCHostOf
  Artifacts = {"report"}
  MakerOf <- MCMakerOf
  Tainted = {}
  Subjects = {}
  RightsOn <- MCRightsOn
  Channels = {"email"}
  TargetKind <- MCTargetKind
  WindowCap <- MCTwo
  OpenCap <- MCTwo
  Billable <- MCTwo
  Targets = {"person"}
  Artifact <- MCArtifact
  Records = {"r"}
  RecordChannel <- MCRecordChannel
  Minutes = {1, 3}
  Budget <- MCBudget
  CallCost = 1
INVARIANTS
  TypeOK
  OneBusiness
  WorkIsPaidFor
PROPERTIES
  ImplementsPermits
CHECK_DEADLOCK FALSE
SYMMETRY MCSymmetry
