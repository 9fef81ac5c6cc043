----------------------------- MODULE MCApprovals -----------------------------
(***************************************************************************)
(* Two requests of one lineage, each trivial alone, which together reach   *)
(* the MEDIUM threshold; one was recorded without the queue's sink.        *)
(***************************************************************************)
EXTENDS GrantedWork, TLC

MCProposer == [p \in Proposals |-> "c1"]
MCKind == [p \in Proposals |-> "experiment"]
MCFounderOf == [c \in Cells |-> c]
MCNoChannel == [p \in Proposals |-> "none"]
MCCost == [p \in Proposals |-> 2]
MCClaim == [p \in Proposals |-> Low]
MCGenomeClaim == [c \in Cells |-> Unclaimed]
MCLife == [t \in Tiers |-> 1]
MCSummary == [p \in Proposals |-> p]
MCFlagOf == [p \in Proposals |-> "none"]
MCEmpty == [x \in {} |-> 0]
MCArtifact == [x \in Acts |-> "none"]
MCBudget == [c \in Cells |-> 1]
MCSymmetry == Permutations(Actors)
=============================================================================
