---------------------------- MODULE MCGrantedWork ----------------------------
(***************************************************************************)
(* Either a tool request or two e-mails to one person from two lineages,   *)
(* one of them delivering a report, which a person may also deliver; two   *)
(* processes; room for two open claims on the channel.                      *)
(***************************************************************************)
EXTENDS GrantedWork, TLC

MCProposer == [p \in Proposals |-> IF p = "mail2" THEN "c2" ELSE "c1"]
MCKind == [p \in Proposals |-> IF p = "tool" THEN "tool_request" ELSE "external_action"]
MCChannel == [p \in Proposals |-> IF p = "tool" THEN "none" ELSE "email"]
MCFounderOf == [c \in Cells |-> c]
MCCost == [p \in Proposals |-> 0]
MCClaim == [p \in Proposals |-> High]
MCGenomeClaim == [c \in Cells |-> Unclaimed]
MCLife == [t \in Tiers |-> 1]
MCSummary == [p \in Proposals |-> p]
MCBacklogs == {{"tool"}, {"mail1", "mail2"}}
MCFlagOf == [p \in Proposals |-> "public_web_read"]
MCHostOf == [p \in Proposals |-> "site"]
MCMakerOf == [x \in Artifacts |-> "c1"]
MCRightsOn == [x \in Artifacts |-> Subjects]
MCTargetKind == [ch \in Channels |-> "counterparty"]
MCTwo == [ch \in Channels |-> 2]
MCArtifact == [x \in Acts |-> IF x \in {"mail1", "r"} THEN "report" ELSE "none"]
MCRecordChannel == [r \in Records |-> "email"]
MCSymmetry == Permutations(Actors)
MCBudget == [c \in Cells |-> 3]
=============================================================================
