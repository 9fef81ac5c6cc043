------------------------------- MODULE Escrow -------------------------------
(***************************************************************************)
(* What the reservation kernel promises, without its state machine: money  *)
(* put on hold for an operation leaves the hold only by being paid out or  *)
(* given back, every unit of it exactly once, and a hold that has been     *)
(* emptied is never opened again.  One transaction may move several holds. *)
(***************************************************************************)
EXTENDS Integers

CONSTANT Holds   \* one per reservation

VARIABLE escrow  \* [Holds -> Accounts]

Phases == {"none", "open", "closed"}

Accounts == [phase : Phases, held : Nat, paid : Nat, returned : Nat]

Unopened == [phase |-> "none", held |-> 0, paid |-> 0, returned |-> 0]

Init == escrow = [h \in Holds |-> Unopened]

\* A hold is opened for a positive amount, of which nothing has moved yet.
Open(a, b) ==
  /\ a = Unopened
  /\ b.phase = "open"
  /\ b.held > 0 /\ b.paid = 0 /\ b.returned = 0

\* Money leaves an open hold, none of it is lost or made, and the hold is
\* closed exactly when nothing is left in it.
Draw(a, b) ==
  /\ a.phase = "open"
  /\ b.phase \in {"open", "closed"}
  /\ b.paid >= a.paid
  /\ b.returned >= a.returned
  /\ b.held + b.paid + b.returned = a.held + a.paid + a.returned
  /\ b.phase = "closed" <=> b.held = 0

Move(h) ==
  \/ escrow'[h] = escrow[h]
  \/ Open(escrow[h], escrow'[h])
  \/ Draw(escrow[h], escrow'[h])

Next == \A h \in Holds : Move(h)

Spec == Init /\ [][Next]_escrow
=============================================================================
