----------------------------- MODULE MCModelCalls -----------------------------
(***************************************************************************)
(* One Cell whose calls are worth 2 at worst, cost 1 or 3 (a partial       *)
(* settlement or an overrun), and are invoiced at 0, 1 or 3.  It can fund  *)
(* two such calls, and the mirror of one of them.                          *)
(***************************************************************************)
EXTENDS ModelCalls, TLC

CONSTANT c1

MCRids == Calls \X {"real", "resource"}
MCCellOf == [r \in Rids |-> c1]
MCBookOf == [r \in Rids |-> IF r[2] = "real" THEN "USD_REAL" ELSE "RESOURCE"]
MCOperationOf == [r \in Rids |-> "model_call"]
MCFunding ==
  [c \in Cells |-> [b \in Books |-> IF b = "USD_SIM" THEN 2 ELSE 4]]

\* Every invocation replays one key, and none follows another.
MCSameKey == [a \in Calls |-> CHOOSE k \in Keys : TRUE]
MCNoPrior == [a \in Calls |-> NoCall]

MCCosts == {1, 3}
MCInvoices == {0, 1, 3}

MCSymmetry == Permutations(Calls)
=============================================================================
