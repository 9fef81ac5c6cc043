--------------------------- MODULE MCReservations ---------------------------
(***************************************************************************)
(* Cell c1 with two real-money holds, one of them with nothing external    *)
(* behind it, and Cell c2 with the RESOURCE side of a model call.  Two     *)
(* requests of 2 fit in the cash (4) and not in the breaker's caps (3), an *)
(* estate takes the cash away before the caps bind, amounts 0..2 give      *)
(* empty, partial and full settlements and metering, and either Cell may   *)
(* die while the other's holds are open.                                   *)
(***************************************************************************)
EXTENDS Reservations

MCCells == {"c1", "c2"}
MCRids == {"real", "internal", "model"}
MCCellOf == [r \in MCRids |-> IF r = "model" THEN "c2" ELSE "c1"]
MCBookOf == [r \in MCRids |-> IF r = "model" THEN "RESOURCE" ELSE "USD_REAL"]
MCOperationOf ==
  [r \in MCRids |-> IF r = "internal" THEN "none" ELSE "model_call"]
MCFunding == [c \in MCCells |-> [b \in Books |-> 4]]
MCAmounts == 0 .. 2
=============================================================================
