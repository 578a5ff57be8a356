--------------------------- MODULE MCZoneLifecycle ---------------------------
(* Instances of ZoneLifecycle for TLC. *)
EXTENDS ZoneLifecycle, TLC

Perms == Permutations(Zones)
=============================================================================
