----------------------------- MODULE MCEventInbox -----------------------------
(***************************************************************************)
(* Three event ids, two of them enqueued under one dedupe key by racing    *)
(* producers; two events produce an outbox row.                            *)
(***************************************************************************)
EXTENDS EventInbox

CONSTANTS e1, e2, e3, c1, k1, k2

MCDedupeOf == [e \in Events |-> IF e = e3 THEN k2 ELSE k1]
MCCellOf == [e \in Events |-> IF e = e3 THEN NoCell ELSE c1]
=============================================================================
