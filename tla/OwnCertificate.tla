--------------------------- MODULE OwnCertificate ---------------------------
(***************************************************************************)
(* Certo's own certificate: the manager that orders it from an ACME server, *)
(* renews it and keeps it on disk, the resolver that serves it, and the     *)
(* token that proves the domain, which certo publishes in its own base zone *)
(* through a hook.  The hook only spawns a task: nobody waits for the       *)
(* PowerDNS call, so publishing and withdrawing run in either order.        *)
(*                                                                          *)
(* The ACME server, its clock and the disk are the environment.  Retries    *)
(* are a minute apart and a PowerDNS call takes at most its timeout of ten  *)
(* seconds, so no task outlives a wait of the manager.                      *)
(***************************************************************************)
EXTENDS Naturals, Sequences, FiniteSets

CONSTANTS
  MinRetry, MaxRetry,  \* seconds; 60 and 3600 in the code
  MaxCert,             \* certificates to tell apart, more than are in use at a time
  MaxCrashes           \* bound on the ends of the process

ASSUME RetryAssumption == /\ MinRetry \in Nat \ {0} /\ MaxRetry \in Nat
                          /\ MinRetry <= MaxRetry
ASSUME BoundAssumption == MaxCert \in Nat /\ MaxCert >= 4 /\ MaxCrashes \in Nat

VARIABLES
  disk,     \* the cached files: which certificate's key and chain they hold, 0 for none
  blind,    \* history: the key on disk was written by a manager whose start could not
            \* read the pair that was there
  account,  \* the ACME account is stored
  served,   \* what the resolver serves, and the manager's current certificate
  due,      \* the certificates in use with less than a third of their lifetime left
  pc,       \* where the manager is
  new,      \* the certificate just issued
  retry,    \* the next wait after a failure
  calls,    \* set_own_challenge tasks that have not ended
  token,    \* the TXT value served: of this order, of an older one, or none
  authz,    \* the ACME server's authorization of the domain, pending if it has no valid one
  sync,     \* the base zone's sync, and whether its listing shows the token
  crashes

vars == <<disk, blind, account, served, due, pc, new, retry, calls, token, authz, sync,
          crashes>>
dns == <<calls, token>>
store == <<disk, blind, account, served, due, new>>

Certs == 1..MaxCert
NoPair == [key |-> 0, cert |-> 0]
Pair(c) == [key |-> c, cert |-> c]
IdleSync == [pc |-> "idle", found |-> FALSE]

\* No certificate, or one of which less than a third of the lifetime remains
OnlyRenews == served # NoPair /\ served.cert \in due  \* seeded fault: never the first
NeedsRenewal == served = NoPair \/ served.cert \in due

-----------------------------------------------------------------------------
(* The manager: run, account and issue                                      *)

Obtain ==
  /\ pc = "check"
  /\ pc' = IF NeedsRenewal THEN "account" ELSE "sleep"
  /\ UNCHANGED <<store, retry, dns, authz, sync, crashes>>

\* Stored, or created now and stored
UseAccount ==
  /\ pc = "account" /\ account' = TRUE /\ pc' = "order"
  /\ UNCHANGED <<disk, blind, served, due, new, retry, dns, authz, sync, crashes>>

\* With an authorization to prove, the token is handed to the hook at once; the
\* server may still know the domain from an order before.
NewOrder ==
  /\ pc = "order"
  /\ token' = IF token = "own" THEN "old" ELSE token
  /\ \/ /\ pc' = "ready" /\ authz' = "pending"
        /\ calls' = calls \cup {"set"}
     \/ /\ authz = "valid" /\ pc' = "poll"
        /\ UNCHANGED <<authz, calls>>
  /\ UNCHANGED <<store, retry, sync, crashes>>

SetReady ==
  /\ pc = "ready" /\ pc' = "poll" /\ authz' = "processing"
  /\ UNCHANGED <<store, retry, dns, sync, crashes>>

\* poll_ready has an answer, an error, or no answer in time; the token goes either way.
PollReady ==
  /\ pc = "poll"
  /\ calls' = calls \cup {"clear"}
  /\ \/ authz = "valid" /\ pc' = "finalize"
     \/ pc' = "retry"
  /\ UNCHANGED <<store, retry, token, authz, sync, crashes>>

Finalize ==
  LET free == Certs \ {served.key, served.cert, disk.key, disk.cert} IN
  /\ pc = "finalize" /\ pc' = "store1"
  /\ new' = CHOOSE c \in free : \A b \in free : c <= b
  /\ UNCHANGED <<disk, blind, account, served, due, retry, dns, authz, sync, crashes>>

\* Two files, each replaced at once by renaming; nothing joins the two.
ChainFirst == <<"cert", "key">>  \* seeded fault
WriteOrder == <<"key", "cert">>

\* The resolver gets the certificate when both are written.
ServedAtOnce(n) == Pair(new)  \* seeded fault
Installed(n) == IF n = 2 THEN Pair(new) ELSE served

Store(n) ==
  /\ pc = IF n = 1 THEN "store1" ELSE "store2"
  /\ disk' = [disk EXCEPT ![WriteOrder[n]] = new]
  /\ served' = Installed(n)
  /\ blind' = (n = 1 /\ served = NoPair /\ disk.key # 0 /\ disk.cert # 0)
  /\ IF n = 1
     THEN pc' = "store2" /\ UNCHANGED <<due, new, retry>>
     ELSE pc' = "sleep" /\ retry' = MinRetry /\ due' = {} /\ new' = 0
  /\ UNCHANGED <<account, dns, authz, sync, crashes>>

\* An error of the server or the disk ends the attempt.  Before poll_ready it leaves
\* the token where it is.
Fails ==
  /\ pc \in {"account", "order", "ready", "finalize", "store1", "store2"}
  /\ pc' = "retry" /\ new' = 0
  /\ UNCHANGED <<disk, blind, account, served, due, retry, dns, authz, sync, crashes>>

Uncapped == 2 * retry  \* seeded fault
NextRetry == IF 2 * retry > MaxRetry THEN MaxRetry ELSE 2 * retry

\* The waits: retry seconds after a failure, 12 hours otherwise
Waits ==
  /\ pc \in {"retry", "sleep"} /\ calls = {}
  /\ pc' = "check"
  /\ retry' = IF pc = "retry" THEN NextRetry ELSE retry
  /\ UNCHANGED <<store, dns, authz, sync, crashes>>

-----------------------------------------------------------------------------
(* The token in the base zone                                               *)

\* The spawned tasks; an error is only logged.
Sets ==
  /\ "set" \in calls /\ calls' = calls \ {"set"}
  /\ token' \in {"own", token}
  /\ UNCHANGED <<store, pc, retry, authz, sync, crashes>>

Clears ==
  /\ "clear" \in calls /\ calls' = calls \ {"clear"}
  /\ token' \in {"none", token}
  /\ UNCHANGED <<store, pc, retry, authz, sync, crashes>>

\* An administrator's sync of the base zone deletes what it listed and the database
\* does not want, the own token excepted.
NotProtected == FALSE  \* seeded fault
IsProtected == TRUE

SyncLists ==
  /\ pc # "down" /\ sync.pc = "idle"
  /\ sync' = [pc |-> "patch", found |-> token # "none"]
  /\ UNCHANGED <<store, pc, retry, dns, authz, crashes>>

SyncPatches ==
  /\ sync.pc = "patch" /\ sync' = IdleSync
  /\ token' = IF sync.found /\ ~IsProtected THEN "none" ELSE token
  /\ UNCHANGED <<store, pc, retry, calls, authz, crashes>>

-----------------------------------------------------------------------------
(* The environment                                                          *)

\* The ACME server looks once, at a time of its own.
Validates ==
  /\ authz = "processing" /\ token = "own" /\ authz' = "valid"
  /\ UNCHANGED <<store, pc, retry, dns, sync, crashes>>

Rejects ==
  /\ authz = "processing" /\ authz' = "pending"
  /\ UNCHANGED <<store, pc, retry, dns, sync, crashes>>

\* Two thirds of its lifetime have passed.
Ages(c) ==
  /\ c \notin due /\ c = disk.cert
  /\ due' = due \cup {c}
  /\ UNCHANGED <<disk, blind, account, served, pc, new, retry, dns, authz, sync, crashes>>

\* The process ends; a call under way takes effect or not.
Crash ==
  /\ pc # "down" /\ crashes < MaxCrashes
  /\ pc' = "down" /\ crashes' = crashes + 1
  /\ served' = NoPair /\ new' = 0 /\ calls' = {} /\ sync' = IdleSync
  /\ token' \in {token} \cup {"own" : c \in calls \cap {"set"}}
                        \cup {"none" : c \in calls \cap {"clear"}}
  /\ UNCHANGED <<disk, blind, account, due, retry, authz>>

\* load_cached: the two files are read; whether they belong together is not asked.  A
\* file that is missing, cannot be read or does not parse gives no certificate.
LoadCached ==
  {NoPair} \cup {d \in {disk} : d.key # 0 /\ d.cert # 0}

Start ==
  /\ pc = "down" /\ pc' = "check"
  /\ served' \in LoadCached /\ retry' = MinRetry
  /\ UNCHANGED <<disk, blind, account, due, new, dns, authz, sync, crashes>>

Init ==
  /\ disk = NoPair /\ blind = FALSE /\ account = FALSE /\ served = NoPair /\ due = {}
  /\ pc = "down" /\ new = 0 /\ retry = MinRetry
  /\ calls = {} /\ token = "none" /\ authz = "pending" /\ sync = IdleSync
  /\ crashes = 0

Manages == Obtain \/ UseAccount \/ NewOrder \/ SetReady \/ Finalize \/ Waits \/ Start

Next ==
  \/ Manages \/ PollReady \/ Fails
  \/ \E n \in 1..2 : Store(n)
  \/ Sets \/ Clears \/ SyncLists \/ SyncPatches
  \/ Validates \/ Rejects \/ Crash
  \/ \E c \in Certs : Ages(c)

Spec == Init /\ [][Next]_vars

\* Tasks end and waits are over some time.  Whatever is tried again and again, each
\* step in the state the one before it should leave, succeeds some time; of the token
\* this says that some attempt has it published before the server is told to look.
\* Certificates age.
Fairness ==
  /\ WF_vars(Obtain \/ Waits \/ Start) /\ WF_vars(PollReady \/ Fails)
  /\ WF_vars(Sets) /\ WF_vars(Clears)
  /\ SF_vars(UseAccount) /\ SF_vars(NewOrder)
  /\ SF_vars(pc = "ready" /\ Sets /\ token' = "own")
  /\ SF_vars(token = "own" /\ SetReady)
  /\ SF_vars(pc = "poll" /\ Validates)
  /\ SF_vars(PollReady /\ pc' = "finalize")
  /\ SF_vars(Finalize) /\ \A n \in 1..2 : SF_vars(Store(n))
  /\ WF_vars(\E c \in Certs : Ages(c))

FairSpec == Spec /\ Fairness

-----------------------------------------------------------------------------
(* Properties                                                               *)

\* The types of the variables; the wait after a failure stays within a minute and
\* an hour, however often the server fails.
TypeOK ==
  /\ disk \in [key : 0..MaxCert, cert : 0..MaxCert]
  /\ served \in [key : 0..MaxCert, cert : 0..MaxCert]
  /\ blind \in BOOLEAN /\ account \in BOOLEAN /\ due \subseteq Certs /\ new \in 0..MaxCert
  /\ pc \in {"down", "check", "account", "order", "ready", "poll", "finalize",
             "store1", "store2", "retry", "sleep"}
  /\ retry \in MinRetry..MaxRetry
  /\ calls \subseteq {"set", "clear"} /\ token \in {"none", "own", "old"}
  /\ authz \in {"pending", "processing", "valid"}
  /\ sync \in [pc : {"idle", "patch"}, found : BOOLEAN]
  /\ crashes \in 0..MaxCrashes

\* A process that ends between the two files, or a chain that cannot be written, leaves
\* a key and a chain that do not belong together, and the next start serves them: only
\* ever with a chain that is due, so that the manager replaces them at once and not in
\* two months.  The one exception is a start that could not read a good pair: its
\* manager replaces the key of a chain that need not be renewed.
MismatchDue == served.key # served.cert => served.cert \in due \/ blind

Good == served # NoPair /\ served.cert \notin due

\* A certificate that need not be renewed is on the disk as it is served: no restart
\* loses it, whatever failed while it was issued.
RestartKeeps == Good => disk = served

\* The token the ACME server is about to look for is not withdrawn under it, by a
\* late task of the attempt before nor by a sync of the base zone.  The first rests on
\* the waits (calls = {} in Waits): the shortest is six times a call's timeout.
OwnTokenStays ==
  [][(pc = "poll" /\ pc' = "poll" /\ token = "own") => token' = "own"]_vars

\* After a restart, a failure at any step, files that cannot be read, a token published
\* too late or certificates that run out, a good certificate is served again; at the
\* latest when the chain of a pair that does not belong together ages.
Renewed == []<>(Good /\ served.key = served.cert)
=============================================================================
