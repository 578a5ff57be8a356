---------------------------- MODULE MCZoneRecords ----------------------------
(* Instances of ZoneRecords for TLC. *)
EXTENDS ZoneRecords

CONSTANTS z1, k1, a1, a2

\* One actor begins everything, the other what meets it in a different order.
OpsOfActors ==
  [a \in Actors |-> IF a = a1 THEN AllOps ELSE {"addkey", "delkey", "sync"}]

\* What may be chosen for the one zone
OwnNames == [z \in Zones |-> KeyNames]
=============================================================================
