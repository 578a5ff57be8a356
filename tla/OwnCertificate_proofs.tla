------------------------ MODULE OwnCertificate_proofs ------------------------
(***************************************************************************)
(* Machine-checked proofs about OwnCertificate, for every retry delay, any  *)
(* number of certificates and any number of ends of the process.            *)
(***************************************************************************)
EXTENDS OwnCertificate, TLAPS

-----------------------------------------------------------------------------
(* The invariant                                                            *)

\* What the process serves, if anything, has the chain that is on the disk; a key is
\* never missing where a chain is.
ServesDisk ==
  /\ disk.key = 0 => disk.cert = 0
  /\ (pc = "down" \/ disk.cert = 0) => served = NoPair
  /\ served # NoPair => served.cert = disk.cert

\* A key and a chain that do not belong together, on the disk or in memory, and a key
\* on the disk other than the one served, come with a chain that is due; but for the
\* key of a manager that could not read the pair, of which none is served.
MixedAreDue ==
  /\ (disk.cert # 0 /\ disk.key # disk.cert) => disk.cert \in due \/ blind
  /\ (served # NoPair /\ served.key # disk.key) => served.cert \in due
  /\ served.key # served.cert => served.cert \in due \/ blind

\* From the account to the second file the manager works for a certificate it needs.
Attempt == {"account", "order", "ready", "poll", "finalize", "store1", "store2"}

IssuedWhenNeeded ==
  /\ pc \in Attempt => NeedsRenewal
  /\ pc \in {"store1", "store2"} => new \in Certs
  /\ pc = "store2" => disk.key = new

\* The withdrawal of an attempt's token starts after its poll and ends before the
\* next attempt.
ClearsLate ==
  "clear" \in calls => pc \in {"finalize", "store1", "store2", "retry", "sleep"}

Inv == TypeOK /\ ServesDisk /\ MixedAreDue /\ IssuedWhenNeeded /\ ClearsLate

-----------------------------------------------------------------------------

\* Among four certificates one is neither of three, and there is a smallest such.
LEMMA SmallestFree ==
  ASSUME NEW x \in Nat, NEW y \in Nat, NEW z \in Nat, NEW w \in Nat,
         y = w \/ y = 0
  PROVE  LET free == Certs \ {x, y, z, w}
         IN  \E c \in free : \A b \in free : c <= b
<1> DEFINE free == Certs \ {x, y, z, w}
<1>1. 1 \in Certs /\ 2 \in Certs /\ 3 \in Certs /\ 4 \in Certs
  BY BoundAssumption DEF Certs
<1>2. \A b \in free : b \in Nat /\ b >= 1
  BY DEF Certs
<1>3. CASE 1 \in free
  BY <1>2, <1>3
<1>4. CASE 1 \notin free /\ 2 \in free
  BY <1>2, <1>4
<1>5. CASE 1 \notin free /\ 2 \notin free /\ 3 \in free
  BY <1>2, <1>5
<1>6. CASE 1 \notin free /\ 2 \notin free /\ 3 \notin free
  <2>1. 4 \in free
    BY <1>1, <1>6
  <2> QED
    BY <1>2, <1>6, <2>1
<1> QED
  BY <1>3, <1>4, <1>5, <1>6

\* The certificate the server issues is one of Certs.
LEMMA FinalizeIssues ==
  ASSUME Inv, Finalize
  PROVE  new' \in Certs
<1> DEFINE free == Certs \ {served.key, served.cert, disk.key, disk.cert}
<1>1. /\ served.key \in Nat /\ served.cert \in Nat
      /\ disk.key \in Nat /\ disk.cert \in Nat
  BY BoundAssumption DEF Inv, TypeOK
<1>2. served.cert = disk.cert \/ served.cert = 0
  BY DEF Inv, ServesDisk, NoPair
<1>3. \E c \in free : \A b \in free : c <= b
  BY <1>1, <1>2, SmallestFree
<1>4. new' = CHOOSE c \in free : \A b \in free : c <= b
  BY DEF Finalize
<1> HIDE DEF free
<1>5. new' \in free
  BY <1>3, <1>4
<1> QED
  BY <1>5 DEF free

\* The initial states satisfy the invariant.
LEMMA InitInv == Init => Inv
<1> SUFFICES ASSUME Init PROVE Inv
  OBVIOUS
<1>1. TypeOK
  <2>1. NoPair \in [key : 0..MaxCert, cert : 0..MaxCert]
    BY BoundAssumption DEF NoPair
  <2>2. IdleSync \in [pc : {"idle", "patch"}, found : BOOLEAN]
    BY DEF IdleSync
  <2>3. MinRetry \in MinRetry..MaxRetry /\ 0 \in 0..MaxCert /\ 0 \in 0..MaxCrashes
    BY BoundAssumption, RetryAssumption
  <2> QED
    BY <2>1, <2>2, <2>3 DEF Init, TypeOK
<1>2. ServesDisk /\ MixedAreDue /\ IssuedWhenNeeded /\ ClearsLate
  BY DEF Init, ServesDisk, MixedAreDue, IssuedWhenNeeded, ClearsLate, Attempt, NoPair
<1> QED
  BY <1>1, <1>2 DEF Inv

-----------------------------------------------------------------------------
(* The steps                                                                *)

\* The steps of an attempt before a certificate is issued, and the waits, change
\* neither disk nor memory.
LEMMA ManagerKeeps ==
  ASSUME Inv, Obtain \/ UseAccount \/ NewOrder \/ SetReady \/ PollReady \/ Fails \/ Waits
  PROVE  Inv'
<1>1. TypeOK'
  <2>1. NextRetry \in MinRetry..MaxRetry
    BY RetryAssumption DEF Inv, TypeOK, NextRetry
  <2> USE DEF Obtain, UseAccount, NewOrder, SetReady, PollReady, Fails, Waits, store, dns
  <2>2. retry' \in MinRetry..MaxRetry
    BY <2>1 DEF Inv, TypeOK
  <2>3. account' \in BOOLEAN /\ new' \in 0..MaxCert
    <3>1. account' \in {account, TRUE} /\ new' \in {new, 0}
      OBVIOUS
    <3>2. account \in BOOLEAN /\ new \in 0..MaxCert /\ 0 \in 0..MaxCert
      BY BoundAssumption DEF Inv, TypeOK
    <3>3. new' \in 0..MaxCert
      BY <3>1, <3>2
    <3>4. account' \in BOOLEAN
      BY <3>1, <3>2
    <3> QED
      BY <3>3, <3>4
  <2>4. pc' \in {"check", "account", "order", "ready", "poll", "finalize", "retry", "sleep"}
    OBVIOUS
  <2>5. calls' \subseteq {"set", "clear"} /\ token' \in {"none", "own", "old"}
    BY DEF Inv, TypeOK
  <2>6. authz' \in {"pending", "processing", "valid"}
    BY DEF Inv, TypeOK
  <2>7. UNCHANGED <<disk, blind, served, due, sync, crashes>>
    OBVIOUS
  <2> QED
    BY <2>2, <2>3, <2>4, <2>5, <2>6, <2>7 DEF Inv, TypeOK, Certs
<1>2. UNCHANGED <<disk, blind, served, due>> /\ pc # "down" /\ pc' # "down"
  BY DEF Inv, TypeOK, Obtain, UseAccount, NewOrder, SetReady, PollReady, Fails, Waits,
     store, dns
<1>3. ServesDisk' /\ MixedAreDue'
  BY <1>2 DEF Inv, ServesDisk, MixedAreDue
<1>4. IssuedWhenNeeded'
  <2>1. pc' \in Attempt => NeedsRenewal
    BY DEF Inv, IssuedWhenNeeded, Obtain, UseAccount, NewOrder, SetReady, PollReady,
       Fails, Waits, Attempt
  <2>2. NeedsRenewal' = NeedsRenewal
    BY <1>2 DEF NeedsRenewal
  <2>3. pc' \notin {"store1", "store2"}
    BY DEF Obtain, UseAccount, NewOrder, SetReady, PollReady, Fails, Waits
  <2> QED
    BY <2>1, <2>2, <2>3 DEF IssuedWhenNeeded
<1>5. ClearsLate'
  BY DEF Inv, ClearsLate, Obtain, UseAccount, NewOrder, SetReady, PollReady, Fails,
     Waits, dns
<1> QED
  BY <1>1, <1>3, <1>4, <1>5 DEF Inv

\* Issuing changes neither disk nor memory.
LEMMA FinalizeKeeps ==
  ASSUME Inv, Finalize
  PROVE  Inv'
<1>1. new' \in Certs
  BY FinalizeIssues
<1>2. /\ pc = "finalize" /\ pc' = "store1"
      /\ UNCHANGED <<disk, blind, account, served, due, retry, dns, authz, sync, crashes>>
  BY DEF Finalize
<1>3. TypeOK'
  BY <1>1, <1>2, BoundAssumption DEF Inv, TypeOK, dns, Certs
<1>4. ServesDisk' /\ MixedAreDue'
  BY <1>2 DEF Inv, ServesDisk, MixedAreDue
<1>5. IssuedWhenNeeded' /\ ClearsLate'
  BY <1>1, <1>2 DEF Inv, IssuedWhenNeeded, ClearsLate, NeedsRenewal, Attempt, Certs, dns
<1> QED
  BY <1>3, <1>4, <1>5 DEF Inv

\* The first file: a new key under the old chain, which is due or not there, or which the
\* manager could not read.
LEMMA KeyKeeps ==
  ASSUME Inv, Store(1)
  PROVE  Inv'
<1>1. /\ pc = "store1" /\ pc' = "store2" /\ disk' = [disk EXCEPT !.key = new]
      /\ blind' = (served = NoPair /\ disk.key # 0 /\ disk.cert # 0)
      /\ UNCHANGED <<account, served, due, new, retry, dns, authz, sync, crashes>>
  <2>1. WriteOrder[1] = "key" /\ Installed(1) = served
    BY DEF WriteOrder, Installed
  <2> QED
    BY <2>1 DEF Store
<1>2. new \in Certs /\ NeedsRenewal
  BY <1>1 DEF Inv, IssuedWhenNeeded, Attempt
<1>3. /\ disk \in [key : 0..MaxCert, cert : 0..MaxCert]
      /\ disk' \in [key : 0..MaxCert, cert : 0..MaxCert]
      /\ disk'.key = new /\ disk'.cert = disk.cert
  BY <1>1, <1>2 DEF Inv, TypeOK, Certs
<1>4. TypeOK'
  BY <1>1, <1>3 DEF Inv, TypeOK, dns, Certs
<1>5. new # 0
  BY <1>2 DEF Certs
<1>6. ServesDisk'
  BY <1>1, <1>3, <1>5 DEF Inv, ServesDisk
<1>7. disk.cert # 0 => disk.cert \in due \/ blind'
  BY <1>1, <1>2 DEF Inv, ServesDisk, NeedsRenewal
<1>8. MixedAreDue'
  <2>1. (disk'.cert # 0 /\ disk'.key # disk'.cert) => disk'.cert \in due' \/ blind'
    BY <1>1, <1>3, <1>7
  <2>2. served' # NoPair => served'.cert \in due'
    BY <1>1, <1>2 DEF NeedsRenewal
  <2>3. NoPair.key = NoPair.cert
    BY DEF NoPair
  <2> QED
    BY <2>1, <2>2, <2>3 DEF MixedAreDue
<1>9. IssuedWhenNeeded' /\ ClearsLate'
  BY <1>1, <1>2, <1>3 DEF Inv, IssuedWhenNeeded, ClearsLate, NeedsRenewal, Certs, dns
<1> QED
  BY <1>4, <1>6, <1>8, <1>9 DEF Inv

\* The second file completes the pair, and it is served.
LEMMA ChainKeeps ==
  ASSUME Inv, Store(2)
  PROVE  Inv'
<1>1. /\ pc = "store2" /\ pc' = "sleep" /\ disk' = [disk EXCEPT !.cert = new]
      /\ served' = Pair(new) /\ due' = {} /\ new' = 0 /\ retry' = MinRetry
      /\ blind' = FALSE
      /\ UNCHANGED <<account, dns, authz, sync, crashes>>
  <2>1. WriteOrder[2] = "cert" /\ Installed(2) = Pair(new)
    BY DEF WriteOrder, Installed
  <2>2. pc = "store2" /\ pc' = "sleep" /\ due' = {} /\ new' = 0 /\ retry' = MinRetry
    BY DEF Store
  <2>3. disk' = [disk EXCEPT !.cert = new] /\ served' = Pair(new)
    BY <2>1 DEF Store
  <2> QED
    BY <2>2, <2>3 DEF Store
<1>2. new \in Certs /\ disk.key = new
  BY <1>1 DEF Inv, IssuedWhenNeeded
<1>3. new # 0 /\ new \in 0..MaxCert
  BY <1>2 DEF Certs
<1>4. disk' \in [key : 0..MaxCert, cert : 0..MaxCert] /\ disk'.key = new /\ disk'.cert = new
  BY <1>1, <1>2, <1>3 DEF Inv, TypeOK
<1>5. served' \in [key : 0..MaxCert, cert : 0..MaxCert]
      /\ served'.key = new /\ served'.cert = new /\ served' # NoPair
  BY <1>1, <1>3 DEF Pair, NoPair
<1>6. TypeOK'
  <2>1. blind' \in BOOLEAN
    BY <1>1
  <2>2. /\ due' \subseteq Certs /\ new' \in 0..MaxCert
        /\ pc' \in {"store2", "sleep"} /\ retry' \in MinRetry..MaxRetry
    BY <1>1, RetryAssumption, BoundAssumption
  <2> QED
    BY <1>1, <1>4, <1>5, <2>1, <2>2 DEF Inv, TypeOK, dns
<1>7. ServesDisk' /\ MixedAreDue'
  BY <1>1, <1>3, <1>4, <1>5 DEF ServesDisk, MixedAreDue
<1>8. IssuedWhenNeeded' /\ ClearsLate'
  BY <1>1 DEF IssuedWhenNeeded, ClearsLate, Attempt
<1> QED
  BY <1>6, <1>7, <1>8 DEF Inv

\* Nothing of the token's tasks, the base zone's sync or the ACME server touches a file.
LEMMA OthersKeep ==
  ASSUME Inv, Sets \/ Clears \/ SyncLists \/ SyncPatches \/ Validates \/ Rejects
  PROVE  Inv'
<1>1. UNCHANGED <<disk, blind, account, served, due, pc, new, retry, crashes>>
  BY DEF Sets, Clears, SyncLists, SyncPatches, Validates, Rejects, store
<1>2. calls' \subseteq calls
  BY DEF Sets, Clears, SyncLists, SyncPatches, Validates, Rejects, dns
<1>3. TypeOK'
  <2>1. token' \in {"none", "own", "old"}
    BY DEF Inv, TypeOK, Sets, Clears, SyncLists, SyncPatches, Validates, Rejects, dns
  <2>2. authz' \in {"pending", "processing", "valid"}
    BY DEF Inv, TypeOK, Sets, Clears, SyncLists, SyncPatches, Validates, Rejects
  <2>3. sync' \in [pc : {"idle", "patch"}, found : BOOLEAN]
    <3>1. CASE SyncLists
      BY <3>1 DEF SyncLists
    <3>2. CASE SyncPatches
      BY <3>2 DEF SyncPatches, IdleSync
    <3>3. CASE Sets \/ Clears \/ Validates \/ Rejects
      BY <3>3 DEF Inv, TypeOK, Sets, Clears, Validates, Rejects
    <3> QED
      BY <3>1, <3>2, <3>3
  <2> QED
    BY <1>1, <1>2, <2>1, <2>2, <2>3 DEF Inv, TypeOK, Certs
<1>4. ServesDisk' /\ MixedAreDue' /\ IssuedWhenNeeded' /\ ClearsLate'
  BY <1>1, <1>2 DEF Inv, ServesDisk, MixedAreDue, IssuedWhenNeeded, ClearsLate,
     NeedsRenewal, Attempt, Certs
<1> QED
  BY <1>3, <1>4 DEF Inv

\* A chain that becomes due only makes more of the due ones.
LEMMA AgesKeeps ==
  ASSUME Inv, NEW c \in Certs, Ages(c)
  PROVE  Inv'
<1>1. /\ due' = due \cup {c}
      /\ UNCHANGED <<disk, blind, account, served, pc, new, retry, dns, authz, sync, crashes>>
  BY DEF Ages
<1>2. TypeOK'
  BY <1>1 DEF Inv, TypeOK, dns, Certs
<1>3. ServesDisk' /\ MixedAreDue' /\ IssuedWhenNeeded' /\ ClearsLate'
  BY <1>1 DEF Inv, ServesDisk, MixedAreDue, IssuedWhenNeeded, ClearsLate, NeedsRenewal,
     Attempt, Certs, dns
<1> QED
  BY <1>2, <1>3 DEF Inv

\* The process ends with no more than the disk, and what was mixed there is due.
LEMMA CrashKeeps ==
  ASSUME Inv, Crash
  PROVE  Inv'
<1>1. /\ pc' = "down" /\ served' = NoPair /\ new' = 0 /\ calls' = {} /\ sync' = IdleSync
      /\ crashes' \in 0..MaxCrashes /\ UNCHANGED <<disk, blind, account, due, retry, authz>>
  BY BoundAssumption DEF Crash, Inv, TypeOK
<1>2. token' \in {"none", "own", "old"}
  BY DEF Crash, Inv, TypeOK
<1>3. NoPair \in [key : 0..MaxCert, cert : 0..MaxCert] /\ NoPair.key = NoPair.cert
  BY BoundAssumption DEF NoPair
<1>4. IdleSync \in [pc : {"idle", "patch"}, found : BOOLEAN]
  BY DEF IdleSync
<1>5. TypeOK'
  BY <1>1, <1>2, <1>3, <1>4, BoundAssumption DEF Inv, TypeOK, Certs
<1>6. ServesDisk' /\ MixedAreDue' /\ IssuedWhenNeeded' /\ ClearsLate'
  BY <1>1, <1>3 DEF Inv, ServesDisk, MixedAreDue, IssuedWhenNeeded, ClearsLate, Attempt
<1> QED
  BY <1>5, <1>6 DEF Inv

\* A start serves the files as they are, or nothing.
LEMMA StartKeeps ==
  ASSUME Inv, Start
  PROVE  Inv'
<1>1. /\ pc' = "check" /\ served' \in LoadCached /\ retry' = MinRetry /\ pc = "down"
      /\ UNCHANGED <<disk, blind, account, due, new, dns, authz, sync, crashes>>
  BY DEF Start
<1>2. NoPair \in [key : 0..MaxCert, cert : 0..MaxCert] /\ NoPair.key = NoPair.cert
      /\ NoPair.cert = 0
  BY BoundAssumption DEF NoPair
<1>3. TypeOK'
  BY <1>1, <1>2, RetryAssumption DEF Inv, TypeOK, LoadCached, dns, Certs
<1>4. served' = NoPair \/ (served' = disk /\ disk.key # 0 /\ disk.cert # 0)
  BY <1>1 DEF LoadCached
<1>6. ServesDisk' /\ MixedAreDue'
  BY <1>1, <1>2, <1>4 DEF Inv, ServesDisk, MixedAreDue
<1>7. IssuedWhenNeeded' /\ ClearsLate'
  BY <1>1 DEF Inv, IssuedWhenNeeded, ClearsLate, Attempt, dns
<1> QED
  BY <1>3, <1>6, <1>7 DEF Inv

\* Every step keeps the invariant.
LEMMA NextInv == Inv /\ [Next]_vars => Inv'
<1> SUFFICES ASSUME Inv, [Next]_vars PROVE Inv'
  OBVIOUS
<1>1. CASE Obtain \/ UseAccount \/ NewOrder \/ SetReady \/ PollReady \/ Fails \/ Waits
  BY <1>1, ManagerKeeps
<1>2. CASE Finalize
  BY <1>2, FinalizeKeeps
<1>3. CASE \E n \in 1..2 : Store(n)
  <2>1. Store(1) \/ Store(2)
    BY <1>3
  <2> QED
    BY <2>1, KeyKeeps, ChainKeeps
<1>4. CASE Sets \/ Clears \/ SyncLists \/ SyncPatches \/ Validates \/ Rejects
  BY <1>4, OthersKeep
<1>5. CASE \E c \in Certs : Ages(c)
  BY <1>5, AgesKeeps
<1>6. CASE Crash
  BY <1>6, CrashKeeps
<1>7. CASE Start
  BY <1>7, StartKeeps
<1>8. CASE UNCHANGED vars
  BY <1>8 DEF vars, Inv, TypeOK, ServesDisk, MixedAreDue, IssuedWhenNeeded, ClearsLate,
     NeedsRenewal, Attempt, Certs
<1> QED
  BY <1>1, <1>2, <1>3, <1>4, <1>5, <1>6, <1>7, <1>8 DEF Next, Manages

\* The invariant holds in every reachable state.
LEMMA Invariance == Spec => []Inv
  BY InitInv, NextInv, PTL DEF Spec

-----------------------------------------------------------------------------
(* Theorems                                                                 *)

\* Every variable keeps its type, and the wait after a failure stays between the
\* shortest and the longest delay (run of the manager).
THEOREM TypeCorrect == Spec => []TypeOK
<1>1. Inv => TypeOK
  BY DEF Inv
<1> QED
  BY <1>1, Invariance, PTL

\* A key and a chain that do not belong together are served only while the chain is
\* due, however the process ends between the two files and whatever a start can read
\* (issue, load_cached), unless the key was written by a manager that had read nothing.
THEOREM MismatchesAreDue == Spec => []MismatchDue
<1>1. Inv => MismatchDue
  BY DEF Inv, MixedAreDue, MismatchDue
<1> QED
  BY <1>1, Invariance, PTL

\* A certificate that needs no renewal is on the disk as it is served, so a restart
\* serves it again (store before the resolver gets it).
THEOREM RestartsKeep == Spec => []RestartKeeps
<1>1. ASSUME Inv, Good
      PROVE  disk = served
  <2>1. served # NoPair /\ served.cert \notin due
    BY <1>1 DEF Good
  <2>2. served.key = disk.key
    BY <1>1, <2>1 DEF Inv, MixedAreDue
  <2>3. served.cert = disk.cert
    BY <1>1, <2>1 DEF Inv, ServesDisk
  <2>4. disk = [key |-> disk.key, cert |-> disk.cert]
        /\ served = [key |-> served.key, cert |-> served.cert]
    BY <1>1 DEF Inv, TypeOK
  <2> QED
    BY <2>2, <2>3, <2>4
<1>2. Inv => RestartKeeps
  BY <1>1 DEF RestartKeeps
<1> QED
  BY <1>2, Invariance, PTL

\* While the manager waits for the ACME server's answer, nothing takes its token away:
\* the tasks that withdraw one have ended, and a sync leaves it alone.
THEOREM TokenStays == Spec => OwnTokenStays
<1>1. ASSUME Inv, [Next]_vars, pc = "poll", pc' = "poll", token = "own"
      PROVE  token' = "own"
  <2>1. "clear" \notin calls
    BY <1>1 DEF Inv, ClearsLate
  <2>2. ~Clears /\ ~Crash /\ ~NewOrder
    BY <1>1, <2>1 DEF Clears, Crash, NewOrder
  <2>3. CASE Sets \/ SyncPatches
    BY <1>1, <2>3 DEF Sets, SyncPatches, IsProtected
  <2>4. CASE Obtain \/ UseAccount \/ SetReady \/ PollReady \/ Fails \/ Waits \/ Finalize
             \/ Start \/ SyncLists \/ Validates \/ Rejects
    BY <1>1, <2>4 DEF Obtain, UseAccount, SetReady, PollReady, Fails, Waits, Finalize,
       Start, SyncLists, Validates, Rejects, dns
  <2>5. CASE \E n \in 1..2 : Store(n)
    BY <1>1, <2>5 DEF Store, dns
  <2>6. CASE \E c \in Certs : Ages(c)
    BY <1>1, <2>6 DEF Ages, dns
  <2>7. CASE UNCHANGED vars
    BY <1>1, <2>7 DEF vars
  <2> QED
    BY <1>1, <2>2, <2>3, <2>4, <2>5, <2>6, <2>7 DEF Next, Manages
<1>2. Inv /\ [Next]_vars =>
        [(pc = "poll" /\ pc' = "poll" /\ token = "own") => token' = "own"]_vars
  BY <1>1
<1> QED
  BY <1>2, Invariance, PTL DEF Spec, OwnTokenStays
=============================================================================
