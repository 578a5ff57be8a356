--------------------------- MODULE MCChallengeTxt ---------------------------
(* Instances of ChallengeTxt for TLC. *)
EXTENDS ChallengeTxt

\* Operations that write and push a single name
OneName == AllOps \ {"sweep", "delete_user"}
=============================================================================
