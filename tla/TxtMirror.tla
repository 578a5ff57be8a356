------------------------------ MODULE TxtMirror ------------------------------
(***************************************************************************)
(* What the challenge TXT machinery promises: one store of values per name  *)
(* and a public copy of it.  The store changes at will; the copy of any     *)
(* names changes only to what the store holds at that moment, never to a    *)
(* past or a mixed state, and the whole copy may be lost.                   *)
(***************************************************************************)
CONSTANTS Names, Values
VARIABLES stored, served

Init ==
  /\ stored = [n \in Names |-> {}]
  /\ served = [n \in Names |-> {}]

\* A request or the sweep changes the store; the copy follows later.
Write ==
  /\ stored' \in [Names -> SUBSET Values]
  /\ UNCHANGED served

\* The copies of some names catch up with the store.
Publish ==
  /\ \E S \in SUBSET Names :
       served' = [n \in Names |-> IF n \in S THEN stored[n] ELSE served[n]]
  /\ UNCHANGED stored

\* The copy is lost with pdns.sqlite3.
Lose ==
  /\ served' = [n \in Names |-> {}]
  /\ UNCHANGED stored

Next == Write \/ Publish \/ Lose

Spec == Init /\ [][Next]_<<stored, served>>
=============================================================================
