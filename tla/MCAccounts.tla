----------------------------- MODULE MCAccounts -----------------------------
(* Instances of Accounts for TLC. *)
EXTENDS Accounts

CONSTANTS n1, d1, s1, s2, a1, a2

\* One subdomain for all: what one user has, the other finds taken.
SubOfNames == [x \in (Usernames \cup {Anonymous}) \X Domains \X Salts |-> s1]

\* One task publishes, the other does what publishing meets.
OpsOfActors ==
  [a \in Actors |-> IF a = a1 THEN {"present"} ELSE AllOps \ {"present"}]

\* One task at a time, on the accounts of acme-dns clients
OpsOfOne == [a \in Actors |-> IF a = a1 THEN {"update", "sweep"} ELSE {}]
=============================================================================
