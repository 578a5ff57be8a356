--------------------------- MODULE Accounts_proofs ---------------------------
(***************************************************************************)
(* Machine-checked proofs about Accounts, for every set of names, domains   *)
(* and subdomains, any number of tasks and every bound.                     *)
(***************************************************************************)
EXTENDS Accounts, WellFoundedInduction, TLAPS

-----------------------------------------------------------------------------
(* The invariant                                                            *)

\* The tables have their types.
TablesType ==
  /\ Ids \subseteq Nat /\ users \in [Ids -> UserRows]
  /\ DOMAIN keys \subseteq Nat /\ keys \in [DOMAIN keys -> [user : Nat, scope : Scopes]]
  /\ domains \subseteq [user : Nat, dom : Domains \cup Subs, sub : Subs]
  /\ txt \in [Subs -> {"none", "fresh", "old"}]
  /\ last \in [user : Nat, key : Nat]
  /\ tokens \subseteq [uid : Nat, usr : Usernames \cup {Anonymous}]
  /\ published \subseteq Nat /\ excused \subseteq Actors

\* Ids are counted up.
Counted ==
  /\ \A u \in Ids : u \in 1..last.user
  /\ last.user <= MaxId

\* A session names its user, who may be gone.
SessionsKnown ==
  \A s \in tokens : s.uid <= last.user /\ (s.uid \in Ids => users[s.uid].name = s.usr)

\* What a task carries fits where it is.
Shape(t) ==
  /\ t \in Tasks
  /\ t.pc = "write" => t.sub \in Subs
  /\ t.pc = "user" => t.op \in {"add", "remove", "newkey", "delkey", "leave"}
  /\ t.pc = "user" /\ t.op = "add" => t.dom \in Domains
  /\ t.pc = "key" => t.op \in LegoOps
  /\ t.pc = "resolve" => t.op \in {"present", "clear", "fetch"}
  /\ t.pc \in {"key", "resolve"} /\ t.op # "update" /\ t.sub = NoSub => t.dom \in Domains
  /\ t.pc = "create" => t.dom \in Domains /\ (t.op = "present" => t.sub = NoSub)
  /\ t.pc = "again" => t.sub = NoSub /\ t.op = "present"

\* A task that acts for the user it authenticated as
Acting == {"token", "key", "resolve", "find", "create", "again", "write", "remove",
           "newkey", "delkey"}

\* The user a task acts for is the one it authenticated as, or is gone.
Known(t) ==
  t.pc \in Acting =>
    t.uid <= last.user /\ (t.uid \in Ids => users[t.uid].name = t.who)

\* A present has its user, and after a conflict its domain, unless it is excused.
Backed(a, t, ex) ==
  \/ a \in ex
  \/ /\ t.op = "present" /\ t.pc \in {"key", "resolve", "create", "again"} => t.uid \in Ids
     /\ t.pc = "again" => RowOf(t.uid, t.dom) # {}
     /\ t.pc # "refused"

TasksInv ==
  /\ task \in [Actors -> Tasks]
  /\ \A a \in Actors : Shape(task[a]) /\ Known(task[a]) /\ Backed(a, task[a], excused)

Tables == TablesType /\ RowsOwned /\ Counted /\ SessionsKnown

Inv == Tables /\ TasksInv

\* The invariant implies the invariants the runs check.
LEMMA InvImplies == Inv => TypeOK /\ RowsOwned /\ IdentityKept /\ RaceForgiven
<1> SUFFICES ASSUME Inv PROVE TypeOK /\ RowsOwned /\ IdentityKept /\ RaceForgiven
  OBVIOUS
<1>1. TypeOK
  BY DEF Inv, Tables, TablesType, TasksInv, TypeOK, Shape, At
<1>2. RowsOwned
  BY DEF Inv, Tables
<1>3. IdentityKept
  BY DEF Inv, Tables, SessionsKnown, TasksInv, IdentityKept, Known, Acting
<1>4. RaceForgiven
  BY DEF Inv, TasksInv, RaceForgiven, Backed, At
<1> QED
  BY <1>1, <1>2, <1>3, <1>4

-----------------------------------------------------------------------------
(* Facts about the operators                                                *)

\* A non-empty set of natural numbers has a smallest.
LEMMA Smallest ==
  ASSUME NEW S \in SUBSET Nat, S # {}
  PROVE  \E n \in S : \A m \in S : n <= m
<1> DEFINE R == OpToRel(<, Nat)
<1>1. IsWellFoundedOn(R, Nat)
  BY NatLessThanWellFounded
<1>2. \A m, n \in Nat : m < n => <<m, n>> \in R
  BY DEF OpToRel
<1> HIDE DEF R
<1>3. \E n \in S : \A m \in S : ~ (<<m, n>> \in R)
  BY <1>1, WFMin
<1>4. PICK n \in S : \A m \in S : ~ (<<m, n>> \in R)
  BY <1>3
<1>5. n \in Nat /\ \A m \in S : m \in Nat
  OBVIOUS
<1>6. \A m \in S : ~ (m < n)
  BY <1>2, <1>4, <1>5
<1>7. \A m \in S : n <= m
  BY <1>5, <1>6
<1> QED
  BY <1>7

\* add_user_domain takes a subdomain that nobody has.
LEMMA FirstFreeFree ==
  ASSUME NEW who \in Usernames \cup {Anonymous}, NEW dom \in Domains,
         FreeSalts(who, dom) # {}
  PROVE  FirstFree(who, dom) \in Subs \ Taken
<1> DEFINE free == FreeSalts(who, dom)
<1> DEFINE n == CHOOSE n \in free : \A m \in free : n <= m
<1>1. free \subseteq Salts /\ \A m \in free : SubOf[<<who, dom, m>>] \notin Taken
  BY DEF FreeSalts
<1>2. free \in SUBSET Nat /\ free # {}
  BY <1>1, SaltsAssumption
<1> HIDE DEF free
<1>3. n \in free
  BY <1>2, Smallest
<1>4. FirstFree(who, dom) = SubOf[<<who, dom, n>>]
  BY DEF FirstFree, free
<1> HIDE DEF n
<1>5. <<who, dom, n>> \in (Usernames \cup {Anonymous}) \X Domains \X Salts
  BY <1>1, <1>3
<1>6. SubOf[<<who, dom, n>>] \in Subs
  BY <1>5, SubsAssumption
<1>7. SubOf[<<who, dom, n>>] \notin Taken
  BY <1>1, <1>3
<1> QED
  BY <1>4, <1>5, <1>6, <1>7

\* A task with nothing to do
LEMMA IdleFits ==
  /\ Idle \in Tasks /\ Shape(Idle) /\ Known(Idle)
  /\ \A a, ex : Backed(a, Idle, ex)
  /\ Idle.pc = "idle" /\ Idle.op = "none" /\ Idle.sub = NoSub /\ Idle.dom = NoDomain
  /\ Idle.scope = Global /\ Idle.uid = 0 /\ Idle.who = Anonymous /\ Idle.left = {}
<1>1. Idle \in Tasks
  BY DEF Idle, Tasks, Pcs, AllOps, Scopes
<1>2. Idle.pc = "idle" /\ Idle.op = "none" /\ Idle.sub = NoSub /\ Idle.dom = NoDomain
      /\ Idle.scope = Global /\ Idle.uid = 0 /\ Idle.who = Anonymous /\ Idle.left = {}
  BY DEF Idle
<1>3. Shape(Idle)
  BY <1>1, <1>2 DEF Shape
<1>4. Known(Idle)
  BY <1>2 DEF Known, Acting
<1>5. \A a, ex : Backed(a, Idle, ex)
  BY <1>2 DEF Backed
<1> QED
  BY <1>1, <1>2, <1>3, <1>4, <1>5

\* A step of one task that leaves users, keys and domains alone
LEMMA TaskStep ==
  ASSUME Inv, NEW a \in Actors, NEW t, Goto(a, t),
         UNCHANGED <<users, keys, domains, last, tokens>>,
         txt' \in [Subs -> {"none", "fresh", "old"}],
         published' \subseteq Nat,
         excused \ {a} \subseteq excused', excused' \subseteq Actors,
         Shape(t), Known(t), Backed(a, t, excused')
  PROVE  Inv'
<1>1. TablesType'
  BY DEF Inv, Tables, TablesType, Ids
<1>2. RowsOwned' /\ Counted' /\ SessionsKnown'
  BY DEF Inv, Tables, RowsOwned, Counted, SessionsKnown, Ids
<1>3. task' \in [Actors -> Tasks]
  BY DEF Inv, TasksInv, Goto, Shape
<1>4. ASSUME NEW b \in Actors
      PROVE  Shape(task[b])' /\ Known(task[b])' /\ Backed(b, task[b], excused)'
  <2>1. CASE b = a
    <3>1. task'[b] = t
      BY <2>1 DEF Goto, Inv, TasksInv
    <3>2. Shape(task[b])'
      BY <3>1 DEF Shape
    <3>3. Known(task[b])'
      BY <3>1 DEF Known, Ids
    <3>4. Backed(b, task[b], excused)'
      BY <2>1, <3>1 DEF Backed, RowOf, Ids
    <3> QED
      BY <3>2, <3>3, <3>4
  <2>2. CASE b # a
    <3>1. task'[b] = task[b]
      BY <2>2 DEF Goto, Inv, TasksInv
    <3>2. Shape(task[b]) /\ Known(task[b]) /\ Backed(b, task[b], excused)
      BY DEF Inv, TasksInv
    <3>3. Shape(task[b])'
      BY <3>1, <3>2 DEF Shape
    <3>4. Known(task[b])'
      BY <3>1, <3>2 DEF Known, Ids
    <3>5. Backed(b, task[b], excused)'
      BY <2>2, <3>1, <3>2 DEF Backed, RowOf, Ids
    <3> QED
      BY <3>3, <3>4, <3>5
  <2> QED
    BY <2>1, <2>2
<1>5. TasksInv'
  BY <1>3, <1>4 DEF TasksInv
<1> QED
  BY <1>1, <1>2, <1>5 DEF Inv, Tables

-----------------------------------------------------------------------------
(* Authentication                                                           *)

\* What a request with a session or a bearer key asks for
LEMMA ApiRequestFits ==
  ASSUME Inv, NEW req \in SessionRequests
  PROVE  /\ req \in Tasks /\ req.op \in ApiOps
         /\ req.op = "add" => req.dom \in Domains
         /\ req \in ApiRequests => req.op # "password"
<1>1. Taken \subseteq Subs
  BY DEF Taken, Inv, Tables, TablesType
<1>2. CASE req \in {[Idle EXCEPT !.op = x[1], !.dom = x[2]] : x \in {"add", "remove"} \X Domains}
  <2>1. PICK x \in {"add", "remove"} \X Domains : req = [Idle EXCEPT !.op = x[1], !.dom = x[2]]
    BY <1>2
  <2>2. req \in Tasks /\ req.op = x[1] /\ req.dom = x[2]
    BY <2>1, IdleFits DEF Tasks, AllOps, ApiOps
  <2> QED
    BY <2>2 DEF ApiOps
<1>3. CASE req \in {[Idle EXCEPT !.op = "remove", !.dom = s] : s \in Taken}
  <2>1. PICK s \in Taken : req = [Idle EXCEPT !.op = "remove", !.dom = s]
    BY <1>3
  <2>2. req \in Tasks /\ req.op = "remove"
    BY <1>1, <2>1, IdleFits DEF Tasks, AllOps, ApiOps
  <2> QED
    BY <2>2 DEF ApiOps
<1>4. CASE req \in {[Idle EXCEPT !.op = o] : o \in {"newkey", "delkey", "leave"}}
  <2>1. PICK o \in {"newkey", "delkey", "leave"} : req = [Idle EXCEPT !.op = o]
    BY <1>4
  <2>2. req \in Tasks /\ req.op = o
    BY <2>1, IdleFits DEF Tasks, AllOps, ApiOps
  <2> QED
    BY <2>2 DEF ApiOps
<1>5. CASE req = [Idle EXCEPT !.op = "password"] /\ req \notin ApiRequests
  <2>1. req \in Tasks /\ req.op = "password"
    BY <1>5, IdleFits DEF Tasks, AllOps, ApiOps
  <2> QED
    BY <1>5, <2>1 DEF ApiOps
<1> QED
  BY <1>2, <1>3, <1>4, <1>5 DEF SessionRequests, ApiRequests

\* What an ACME client asks for
LEMMA LegoRequestFits ==
  ASSUME Inv, NEW req \in LegoRequests
  PROVE  /\ req \in Tasks /\ req.op \in LegoOps
         /\ req.op # "update" /\ req.sub = NoSub => req.dom \in Domains
<1>1. Taken \subseteq Subs
  BY DEF Taken, Inv, Tables, TablesType
<1>2. CASE req \in {[Idle EXCEPT !.op = x[1], !.dom = x[2]]
                     : x \in {"present", "clear", "fetch"} \X Domains}
  <2>1. PICK x \in {"present", "clear", "fetch"} \X Domains :
          req = [Idle EXCEPT !.op = x[1], !.dom = x[2]]
    BY <1>2
  <2>2. req \in Tasks /\ req.op = x[1] /\ req.dom = x[2]
    BY <2>1, IdleFits DEF Tasks, AllOps, LegoOps
  <2> QED
    BY <2>2 DEF LegoOps
<1>3. CASE req \in {[Idle EXCEPT !.op = x[1], !.sub = x[2]]
                     : x \in {"present", "clear", "update"} \X Taken}
  <2>1. PICK x \in {"present", "clear", "update"} \X Taken :
          req = [Idle EXCEPT !.op = x[1], !.sub = x[2]]
    BY <1>3
  <2>2. req \in Tasks /\ req.op = x[1] /\ req.sub = x[2]
    BY <1>1, <2>1, IdleFits DEF Tasks, AllOps, LegoOps
  <2>3. x[2] # NoSub
    BY <1>1, NamesAssumption
  <2> QED
    BY <2>2, <2>3 DEF LegoOps
<1> QED
  BY <1>2, <1>3 DEF LegoRequests

\* A user there is has a row and a small id.
LEMMA UserThere ==
  ASSUME Inv, NEW u \in Ids
  PROVE  /\ u \in Nat /\ u <= last.user /\ users[u] \in UserRows
         /\ users[u].name \in Usernames \cup {Anonymous}
<1>1. u \in Nat /\ users[u] \in UserRows /\ last.user \in Nat
  BY DEF Inv, Tables, TablesType
<1>2. u \in 1..last.user
  BY DEF Inv, Tables, Counted
<1> QED
  BY <1>1, <1>2 DEF UserRows

\* Where a task goes that acts for the user there is by that id
LEMMA AuthenticatedFits ==
  ASSUME Inv, NEW u \in Ids, NEW t \in Tasks,
         t.uid = u, t.who = users[u].name,
         \/ t.op \in ApiOps /\ t.pc = First(t.op) /\ (t.op = "add" => t.dom \in Domains)
         \/ /\ t.op \in LegoOps /\ t.pc = "key"
            /\ t.op # "update" /\ t.sub = NoSub => t.dom \in Domains
  PROVE  Shape(t) /\ Known(t) /\ \A a : Backed(a, t, excused)
<1>1. u <= last.user
  BY UserThere
<1>2. Known(t)
  BY <1>1 DEF Known
<1>3. CASE t.op \in ApiOps /\ t.pc = First(t.op) /\ (t.op = "add" => t.dom \in Domains)
  <2>1. t.pc \in {"create", "remove", "newkey", "delkey", "zones", "password"}
        /\ (t.pc = "create" => t.op = "add")
    BY <1>3 DEF First, ApiOps
  <2>2. Shape(t)
    BY <1>3, <2>1 DEF Shape
  <2>3. t.op # "present"
    BY <1>3 DEF ApiOps
  <2> QED
    BY <1>2, <2>1, <2>2, <2>3 DEF Backed
<1>4. CASE /\ t.op \in LegoOps /\ t.pc = "key"
           /\ t.op # "update" /\ t.sub = NoSub => t.dom \in Domains
  <2>1. Shape(t)
    BY <1>4 DEF Shape
  <2> QED
    BY <1>2, <1>4, <2>1 DEF Backed
<1> QED
  BY <1>3, <1>4

LEMMA BearerKeeps ==
  ASSUME Inv, NEW a \in Actors, NEW s \in tokens, NEW req \in SessionRequests,
         Bearer(a, s, req)
  PROVE  Inv'
<1> DEFINE t == [req EXCEPT !.pc = First(req.op), !.uid = s.uid, !.who = users[s.uid].name]
<1>1. s.uid \in Ids /\ Goto(a, t)
      /\ UNCHANGED <<users, keys, domains, txt, last, tokens, published, excused>>
  BY DEF Bearer
<1>2. req \in Tasks /\ req.op \in ApiOps /\ (req.op = "add" => req.dom \in Domains)
  BY ApiRequestFits
<1>3. s.uid \in Nat /\ users[s.uid].name \in Usernames \cup {Anonymous}
  BY <1>1, UserThere
<1>4. First(req.op) \in Pcs
  BY <1>2 DEF First, ApiOps, Pcs
<1>5. t \in Tasks /\ t.uid = s.uid /\ t.who = users[s.uid].name /\ t.op = req.op
      /\ t.pc = First(t.op) /\ t.dom = req.dom
  BY <1>2, <1>3, <1>4 DEF Tasks
<1> HIDE DEF t
<1>6. Shape(t) /\ Known(t) /\ Backed(a, t, excused)
  BY <1>1, <1>2, <1>5, AuthenticatedFits
<1> QED
  BY <1>1, <1>6, TaskStep DEF Inv, Tables, TablesType

LEMMA BearerKeyKeeps ==
  ASSUME Inv, NEW a \in Actors, NEW k \in DOMAIN keys, NEW req \in ApiRequests,
         BearerKey(a, k, req)
  PROVE  Inv'
<1> DEFINE t == [req EXCEPT !.pc = "user", !.uid = keys[k].user]
<1>1. Goto(a, t) /\ UNCHANGED <<users, keys, domains, txt, last, tokens, published, excused>>
  BY DEF BearerKey
<1>2. req \in Tasks /\ req.op \in ApiOps \ {"password"}
      /\ (req.op = "add" => req.dom \in Domains)
  BY ApiRequestFits DEF SessionRequests
<1>3. keys[k].user \in Nat
  BY DEF Inv, Tables, TablesType
<1>4. t \in Tasks /\ t.op = req.op /\ t.pc = "user" /\ t.dom = req.dom
  BY <1>2, <1>3 DEF Tasks, Pcs
<1> HIDE DEF t
<1>5. Shape(t) /\ Known(t) /\ Backed(a, t, excused)
  BY <1>2, <1>4 DEF Shape, Known, Acting, Backed, ApiOps
<1> QED
  BY <1>1, <1>5, TaskStep DEF Inv, Tables, TablesType

LEMMA BearerUserKeeps ==
  ASSUME Inv, NEW a \in Actors, BearerUser(a)
  PROVE  Inv'
<1> DEFINE u == task[a].uid
<1> DEFINE t == [task[a] EXCEPT !.pc = First(task[a].op), !.who = users[u].name]
<1>1. At(a, "user") /\ u \in Ids /\ Goto(a, t)
      /\ UNCHANGED <<users, keys, domains, txt, last, tokens, published, excused>>
  BY DEF BearerUser
<1>2. task[a] \in Tasks /\ Shape(task[a])
  BY DEF Inv, TasksInv
<1>3. task[a].op \in ApiOps /\ (task[a].op = "add" => task[a].dom \in Domains)
  BY <1>1, <1>2 DEF Shape, At, ApiOps
<1>4. First(task[a].op) \in Pcs
  BY <1>3 DEF First, ApiOps, Pcs
<1>5. users[u].name \in Usernames \cup {Anonymous}
  BY <1>1, UserThere
<1>6. t \in Tasks /\ t.uid = u /\ t.who = users[u].name /\ t.op = task[a].op
      /\ t.pc = First(t.op) /\ t.dom = task[a].dom
  BY <1>2, <1>4, <1>5 DEF Tasks
<1> HIDE DEF t
<1>7. Shape(t) /\ Known(t) /\ Backed(a, t, excused)
  BY <1>1, <1>3, <1>6, AuthenticatedFits
<1> QED
  BY <1>1, <1>7, TaskStep DEF Inv, Tables, TablesType

LEMMA BasicUserKeeps ==
  ASSUME Inv, NEW a \in Actors, NEW u \in Ids, NEW req \in LegoRequests,
         BasicUser(a, u, req)
  PROVE  Inv'
<1> DEFINE t == [req EXCEPT !.pc = "key", !.uid = u, !.who = users[u].name]
<1>1. Goto(a, t)
      /\ UNCHANGED <<users, keys, domains, txt, last, tokens, published, excused>>
  BY DEF BasicUser
<1>2. /\ req \in Tasks /\ req.op \in LegoOps
      /\ req.op # "update" /\ req.sub = NoSub => req.dom \in Domains
  BY LegoRequestFits
<1>3. u \in Nat /\ users[u].name \in Usernames \cup {Anonymous}
  BY UserThere
<1>4. t \in Tasks /\ t.uid = u /\ t.who = users[u].name /\ t.op = req.op
      /\ t.pc = "key" /\ t.dom = req.dom /\ t.sub = req.sub
  BY <1>2, <1>3 DEF Tasks, Pcs
<1> HIDE DEF t
<1>5. Shape(t) /\ Known(t) /\ Backed(a, t, excused)
  BY <1>1, <1>2, <1>4, AuthenticatedFits
<1> QED
  BY <1>1, <1>5, TaskStep DEF Inv, Tables, TablesType

LEMMA BasicKeyKeeps ==
  ASSUME Inv, NEW a \in Actors, NEW k \in DOMAIN keys, BasicKey(a, k)
  PROVE  Inv'
<1> DEFINE scope == Kept(task[a], keys[k].scope)
<1> DEFINE t == [task[a] EXCEPT !.pc = First(task[a].op), !.scope = scope]
<1>1. At(a, "key") /\ Goto(a, t)
      /\ UNCHANGED <<users, keys, domains, txt, last, tokens, published, excused>>
  BY DEF BasicKey
<1>2. task[a] \in Tasks /\ Shape(task[a]) /\ Known(task[a]) /\ Backed(a, task[a], excused)
  BY DEF Inv, TasksInv
<1>3. task[a].op \in LegoOps
  BY <1>1, <1>2 DEF Shape, At
<1>4. First(task[a].op) \in {"resolve", "find"}
      /\ (First(task[a].op) = "resolve" => task[a].op \in {"present", "clear", "fetch"})
  BY <1>3 DEF First, LegoOps
<1>5. scope \in Scopes
  <2>1. keys[k].scope \in Scopes
    BY DEF Inv, Tables, TablesType
  <2> QED
    BY <2>1 DEF Kept, Scopes
<1> HIDE DEF scope
<1>6. t \in Tasks /\ t.uid = task[a].uid /\ t.who = task[a].who /\ t.op = task[a].op
      /\ t.pc = First(t.op) /\ t.dom = task[a].dom /\ t.sub = task[a].sub
  BY <1>2, <1>4, <1>5 DEF Tasks, Pcs
<1> HIDE DEF t
<1>7. Shape(t)
  BY <1>1, <1>2, <1>4, <1>6 DEF Shape, At
<1>8. Known(t) /\ Backed(a, t, excused)
  BY <1>1, <1>2, <1>4, <1>6 DEF Known, Acting, Backed, At
<1> QED
  BY <1>1, <1>7, <1>8, TaskStep DEF Inv, Tables, TablesType

-----------------------------------------------------------------------------
(* Steps that change tasks and values                                       *)

\* The end of a task
LEMMA DoneKeeps ==
  ASSUME Inv, NEW a \in Actors, Done(a),
         UNCHANGED <<users, keys, domains, last, tokens>>,
         txt' \in [Subs -> {"none", "fresh", "old"}], published' \subseteq Nat
  PROVE  Inv'
<1>1. Goto(a, Idle) /\ excused' = excused \ {a} /\ excused \subseteq Actors
  BY DEF Done, Inv, Tables, TablesType
<1> QED
  BY <1>1, IdleFits, TaskStep

\* From a found or made subdomain on
LEMMA WriteFits ==
  ASSUME Inv, NEW a \in Actors, NEW sub \in Subs, task[a].pc \in Acting
  PROVE  LET t == [task[a] EXCEPT !.pc = "write", !.dom = NoDomain, !.sub = sub,
                                  !.scope = Global]
         IN  /\ Shape(t) /\ Known(t) /\ \A ex : Backed(a, t, ex)
             /\ t.pc = "write" /\ t.uid = task[a].uid /\ t.who = task[a].who
<1> DEFINE t == [task[a] EXCEPT !.pc = "write", !.dom = NoDomain, !.sub = sub, !.scope = Global]
<1>1. task[a] \in Tasks /\ Known(task[a])
  BY DEF Inv, TasksInv
<1>2. t \in Tasks /\ t.pc = "write" /\ t.uid = task[a].uid /\ t.who = task[a].who
      /\ t.sub = sub
  BY <1>1 DEF Tasks, Pcs, Scopes
<1> HIDE DEF t
<1>3. Shape(t) /\ Known(t) /\ \A ex : Backed(a, t, ex)
  BY <1>1, <1>2 DEF Shape, Known, Acting, Backed
<1> QED
  BY <1>2, <1>3 DEF t

LEMMA ToWriteKeeps ==
  ASSUME Inv, NEW a \in Actors, NEW sub \in Subs, task[a].pc \in Acting, ToWrite(a, sub),
         UNCHANGED <<users, keys, domains, txt, last, tokens, published>>
  PROVE  Inv'
<1> DEFINE t == [task[a] EXCEPT !.pc = "write", !.dom = NoDomain, !.sub = sub, !.scope = Global]
<1>1. Goto(a, t) /\ excused' = excused \ {a} /\ excused \subseteq Actors
  BY DEF ToWrite, Inv, Tables, TablesType
<1>2. Shape(t) /\ Known(t) /\ Backed(a, t, excused')
  BY WriteFits
<1> HIDE DEF t
<1> QED
  BY <1>1, <1>2, TaskStep DEF Inv, Tables, TablesType

\* A request that does not authenticate as somebody, or works through a list
LEMMA PlainStep ==
  ASSUME Inv, NEW a \in Actors, NEW t \in Tasks, Goto(a, t),
         t.pc \in {"owners", "password", "stale", "next", "zones", "delete", "idle"},
         UNCHANGED <<users, keys, domains, last, tokens>>,
         txt' \in [Subs -> {"none", "fresh", "old"}],
         UNCHANGED <<published, excused>>
  PROVE  Inv'
<1>1. Shape(t) /\ Known(t) /\ Backed(a, t, excused')
  BY DEF Shape, Known, Acting, Backed
<1> QED
  BY <1>1, TaskStep DEF Inv, Tables, TablesType

LEMMA LoginKeeps ==
  ASSUME Inv, NEW a \in Actors, NEW u \in Ids, Login(a, u)
  PROVE  Inv'
<1> DEFINE t == [Idle EXCEPT !.pc = "token", !.op = "login", !.uid = u, !.who = users[u].name]
<1>1. Goto(a, t) /\ UNCHANGED <<users, keys, domains, txt, last, tokens, published, excused>>
  BY DEF Login
<1>2. u \in Nat /\ u <= last.user /\ users[u].name \in Usernames \cup {Anonymous}
  BY UserThere
<1>3. t \in Tasks /\ t.pc = "token" /\ t.op = "login" /\ t.uid = u /\ t.who = users[u].name
  BY <1>2, IdleFits DEF Tasks, Pcs, AllOps
<1> HIDE DEF t
<1>4. Shape(t) /\ Known(t) /\ Backed(a, t, excused)
  BY <1>2, <1>3 DEF Shape, Known, Backed
<1> QED
  BY <1>1, <1>4, TaskStep DEF Inv, Tables, TablesType

LEMMA AdminStepsKeep ==
  ASSUME Inv, NEW a \in Actors, Administers(a) \/ Sweep(a)
  PROVE  Inv'
<1>0. Ids \subseteq Nat
  BY DEF Inv, Tables, TablesType
<1>1. ASSUME NEW d \in Domains, AdminRemove(a, d)
      PROVE  Inv'
  <2> DEFINE t == [Idle EXCEPT !.pc = "owners", !.op = "adminremove", !.dom = d, !.left = Ids]
  <2>1. Goto(a, t) /\ UNCHANGED <<users, keys, domains, txt, last, tokens, published, excused>>
    BY <1>1 DEF AdminRemove
  <2>2. t \in Tasks /\ t.pc = "owners"
    BY <1>0, IdleFits DEF Tasks, Pcs, AllOps, AdminOps
  <2> HIDE DEF t
  <2> QED
    BY <2>1, <2>2, PlainStep DEF Inv, Tables, TablesType
<1>2. ASSUME NEW u \in Ids, NEW d \in Domains, AdminAdd(a, u, d)
      PROVE  Inv'
  <2> DEFINE t == [Idle EXCEPT !.pc = "create", !.op = "adminadd", !.dom = d,
                               !.uid = u, !.who = users[u].name]
  <2>1. Goto(a, t) /\ UNCHANGED <<users, keys, domains, txt, last, tokens, published, excused>>
    BY <1>2 DEF AdminAdd
  <2>2. u \in Nat /\ u <= last.user /\ users[u].name \in Usernames \cup {Anonymous}
    BY UserThere
  <2>3. t \in Tasks /\ t.pc = "create" /\ t.op = "adminadd" /\ t.dom = d /\ t.uid = u
        /\ t.who = users[u].name
    BY <2>2, IdleFits DEF Tasks, Pcs, AllOps, AdminOps
  <2> HIDE DEF t
  <2>4. Shape(t) /\ Known(t) /\ Backed(a, t, excused)
    BY <2>1, <2>2, <2>3 DEF Shape, Known, Backed
  <2> QED
    BY <2>1, <2>4, TaskStep DEF Inv, Tables, TablesType
<1>3. ASSUME NEW u \in Ids, ResetPassword(a, u)
      PROVE  Inv'
  <2> DEFINE t == [Idle EXCEPT !.pc = "password", !.op = "reset", !.uid = u]
  <2>1. Goto(a, t) /\ UNCHANGED <<users, keys, domains, txt, last, tokens, published, excused>>
    BY <1>3 DEF ResetPassword
  <2>2. t \in Tasks /\ t.pc = "password"
    BY <1>0, IdleFits DEF Tasks, Pcs, AllOps, AdminOps
  <2> HIDE DEF t
  <2> QED
    BY <2>1, <2>2, PlainStep DEF Inv, Tables, TablesType
<1>4. ASSUME NEW young \in BOOLEAN, AdminCleanup(a, young)
      PROVE  Inv'
  <2> DEFINE t == [Idle EXCEPT !.pc = "next", !.op = "cleanup", !.left = Stale(young)]
  <2>1. Goto(a, t) /\ UNCHANGED <<users, keys, domains, txt, last, tokens, published, excused>>
    BY <1>4 DEF AdminCleanup
  <2>2. Stale(young) \subseteq Nat
    BY <1>0 DEF Stale
  <2>3. t \in Tasks /\ t.pc = "next"
    BY <2>2, IdleFits DEF Tasks, Pcs, AllOps, AdminOps
  <2> HIDE DEF t
  <2> QED
    BY <2>1, <2>3, PlainStep DEF Inv, Tables, TablesType
<1>5. ASSUME NEW ids \in SUBSET Ids, Evict(a, ids)
      PROVE  Inv'
  <2> DEFINE t == [Idle EXCEPT !.pc = "next", !.op = "evict", !.left = ids]
  <2>1. Goto(a, t) /\ UNCHANGED <<users, keys, domains, txt, last, tokens, published, excused>>
    BY <1>5 DEF Evict
  <2>2. t \in Tasks /\ t.pc = "next"
    BY <1>0, IdleFits DEF Tasks, Pcs, AllOps, AdminOps
  <2> HIDE DEF t
  <2> QED
    BY <2>1, <2>2, PlainStep DEF Inv, Tables, TablesType
<1>6. ASSUME Sweep(a)
      PROVE  Inv'
  <2> DEFINE t == [Idle EXCEPT !.pc = "stale", !.op = "sweep"]
  <2>1. Goto(a, t) /\ txt' = Expired
        /\ UNCHANGED <<users, keys, domains, last, tokens, published, excused>>
    BY <1>6 DEF Sweep
  <2>2. t \in Tasks /\ t.pc = "stale"
    BY IdleFits DEF Tasks, Pcs, AllOps
  <2>3. Expired \in [Subs -> {"none", "fresh", "old"}]
    BY DEF Expired, Inv, Tables, TablesType
  <2> HIDE DEF t
  <2> QED
    BY <2>1, <2>2, <2>3, PlainStep
<1> QED
  BY <1>1, <1>2, <1>3, <1>4, <1>5, <1>6 DEF Administers

\* A pass over a list, up to the deletion of one of its users
LEMMA ListStepsKeep ==
  ASSUME Inv, NEW a \in Actors,
         ListStale(a) \/ ZonesRemoved(a) \/ \E u \in task[a].left : NextUser(a, u)
  PROVE  Inv'
<1>1. task[a] \in Tasks /\ task[a].left \subseteq Nat
  BY DEF Inv, TasksInv, Tasks
<1>2. CASE ListStale(a)
  <2> DEFINE t == IF Stale(FALSE) = {} THEN Idle
                  ELSE [task[a] EXCEPT !.pc = "next", !.left = Stale(FALSE)]
  <2>1. Goto(a, t) /\ UNCHANGED <<users, keys, domains, txt, last, tokens, published, excused>>
    BY <1>2 DEF ListStale
  <2>2. Stale(FALSE) \subseteq Nat
    BY DEF Stale, Inv, Tables, TablesType
  <2>3. [task[a] EXCEPT !.pc = "next", !.left = Stale(FALSE)] \in Tasks
        /\ [task[a] EXCEPT !.pc = "next", !.left = Stale(FALSE)].pc = "next"
    BY <1>1, <2>2 DEF Tasks, Pcs
  <2>4. t \in Tasks /\ t.pc \in {"next", "idle"}
    BY <2>3, IdleFits
  <2> HIDE DEF t
  <2> QED
    BY <2>1, <2>4, PlainStep DEF Inv, Tables, TablesType
<1>3. CASE ZonesRemoved(a)
  <2> DEFINE t == [task[a] EXCEPT !.pc = "delete"]
  <2>1. Goto(a, t) /\ UNCHANGED <<users, keys, domains, txt, last, tokens, published, excused>>
    BY <1>3 DEF ZonesRemoved, To
  <2>2. t \in Tasks /\ t.pc = "delete"
    BY <1>1 DEF Tasks, Pcs
  <2> HIDE DEF t
  <2> QED
    BY <2>1, <2>2, PlainStep DEF Inv, Tables, TablesType
<1>4. ASSUME NEW u \in task[a].left, NextUser(a, u)
      PROVE  Inv'
  <2> DEFINE t == [task[a] EXCEPT !.pc = "zones", !.uid = u, !.left = @ \ {u}]
  <2>1. Goto(a, t) /\ UNCHANGED <<users, keys, domains, txt, last, tokens, published, excused>>
    BY <1>4 DEF NextUser
  <2>2. t \in Tasks /\ t.pc = "zones"
    BY <1>1 DEF Tasks, Pcs
  <2> HIDE DEF t
  <2> QED
    BY <2>1, <2>2, PlainStep DEF Inv, Tables, TablesType
<1> QED
  BY <1>2, <1>3, <1>4

\* A request refused, or one that ends with a zone that cannot be removed
LEMMA EndsKeep ==
  ASSUME Inv, NEW a \in Actors, Denied(a) \/ ZonesFail(a) \/ Refuse(a)
  PROVE  Inv'
<1>1. Done(a) /\ UNCHANGED <<users, keys, domains, txt, last, tokens, published>>
  BY DEF Denied, ZonesFail, Refuse
<1> QED
  BY <1>1, DoneKeeps DEF Inv, Tables, TablesType

-----------------------------------------------------------------------------
(* Present, cleanup, fetch and update                                       *)

\* The rows a task looks for are domains.
LEMMA FoundRows ==
  ASSUME Inv, NEW t, NEW r \in Found(t)
  PROVE  r.sub \in Subs
<1>1. r \in domains
  BY DEF Found, RowsOf, RowOf
<1> QED
  BY <1>1 DEF Inv, Tables, TablesType

LEMMA ResolveKeeps ==
  ASSUME Inv, NEW a \in Actors, Resolve(a)
  PROVE  Inv'
<1>1. /\ task[a] \in Tasks /\ Shape(task[a]) /\ Known(task[a])
      /\ Backed(a, task[a], excused) /\ task[a].pc = "resolve"
  BY DEF Inv, TasksInv, Resolve, At
<1>2. UNCHANGED <<users, keys, domains, txt, last, tokens, published>>
  BY DEF Resolve
<1>3. CASE \E r \in Found(task[a]) : ToWrite(a, r.sub)
  BY <1>1, <1>2, <1>3, FoundRows, ToWriteKeeps DEF Acting
<1>4. CASE /\ task[a].op # "clear" /\ task[a].sub = NoSub
           /\ task[a].op # "fetch" \/ task[a].op = "fetch"
           /\ To(a, "create") /\ UNCHANGED excused
  <2> DEFINE t == [task[a] EXCEPT !.pc = "create"]
  <2>1. t \in Tasks /\ t.pc = "create" /\ t.op = task[a].op /\ t.dom = task[a].dom
        /\ t.sub = task[a].sub /\ t.who = task[a].who /\ t.uid = task[a].uid
    BY <1>1 DEF Tasks, Pcs
  <2>2. Goto(a, t)
    BY <1>4 DEF To
  <2> HIDE DEF t
  <2>3. Shape(t)
    BY <1>1, <1>4, <2>1 DEF Shape
  <2>4. Known(t) /\ Backed(a, t, excused)
    BY <1>1, <2>1 DEF Known, Acting, Backed
  <2> QED
    BY <1>2, <1>4, <2>2, <2>3, <2>4, TaskStep DEF Inv, Tables, TablesType
<1>5. CASE Done(a)
  BY <1>2, <1>5, DoneKeeps DEF Inv, Tables, TablesType
<1> QED
  BY <1>3, <1>4, <1>5 DEF Resolve

LEMMA LookAgainKeeps ==
  ASSUME Inv, NEW a \in Actors, LookAgain(a)
  PROVE  Inv'
<1>1. /\ task[a] \in Tasks /\ Shape(task[a]) /\ Backed(a, task[a], excused)
      /\ task[a].pc = "again"
  BY DEF Inv, TasksInv, LookAgain, At
<1>2. UNCHANGED <<users, keys, domains, txt, last, tokens, published>>
  BY DEF LookAgain
<1>3. CASE \E r \in Found(task[a]) : ToWrite(a, r.sub)
  BY <1>1, <1>2, <1>3, FoundRows, ToWriteKeeps DEF Acting
<1>4. CASE Found(task[a]) = {} /\ To(a, "refused") /\ UNCHANGED excused
  <2> DEFINE t == [task[a] EXCEPT !.pc = "refused"]
  <2>1. t \in Tasks /\ t.pc = "refused"
    BY <1>1 DEF Tasks, Pcs
  <2>2. Goto(a, t)
    BY <1>4 DEF To
  <2>3. RowOf(task[a].uid, task[a].dom) = {}
    BY <1>1, <1>4 DEF Found, Shape
  <2>4. a \in excused
    BY <1>1, <2>3 DEF Backed
  <2> HIDE DEF t
  <2>5. Shape(t) /\ Known(t) /\ Backed(a, t, excused)
    BY <2>1, <2>4 DEF Shape, Known, Acting, Backed
  <2> QED
    BY <1>2, <1>4, <2>2, <2>5, TaskStep DEF Inv, Tables, TablesType
<1> QED
  BY <1>3, <1>4 DEF LookAgain

LEMMA FindSubdomainKeeps ==
  ASSUME Inv, NEW a \in Actors, FindSubdomain(a)
  PROVE  Inv'
<1>1. UNCHANGED <<users, keys, domains, txt, last, tokens, published>>
      /\ task[a].pc \in Acting
  BY DEF FindSubdomain, At, Acting
<1>2. CASE Done(a)
  BY <1>1, <1>2, DoneKeeps DEF Inv, Tables, TablesType
<1>3. CASE \E r \in Found(task[a]) : ToWrite(a, r.sub)
  BY <1>1, <1>3, FoundRows, ToWriteKeeps
<1> QED
  BY <1>2, <1>3 DEF FindSubdomain

LEMMA WritesKeep ==
  ASSUME Inv, NEW a \in Actors, Write(a) \/ Cleanup(a)
  PROVE  Inv'
<1>1. Done(a) /\ UNCHANGED <<users, keys, domains, last, tokens>>
  BY DEF Write, Cleanup
<1>2. txt' \in [Subs -> {"none", "fresh", "old"}]
  BY DEF Write, Cleanup, Withdrawn, Inv, Tables, TablesType
<1>3. published' \subseteq Nat
  BY DEF Write, Cleanup, Inv, Tables, TablesType
<1> QED
  BY <1>1, <1>2, <1>3, DoneKeeps

\* A provisioning that fails: the row of a concurrent one is there, or the user is
\* gone or no subdomain free, which excuses the present.
LEMMA AddFailsKeeps ==
  ASSUME Inv, NEW a \in Actors, AddFails(a)
  PROVE  Inv'
<1>1. /\ task[a] \in Tasks /\ Shape(task[a]) /\ Known(task[a])
      /\ Backed(a, task[a], excused) /\ task[a].pc = "create" /\ ~CanAdd(task[a])
  BY DEF Inv, TasksInv, AddFails, At
<1>2. UNCHANGED <<users, keys, domains, txt, last, tokens, published>>
  BY DEF AddFails
<1>3. CASE task[a].op # "present"
  <2>1. Done(a)
    BY <1>3 DEF AddFails
  <2> QED
    BY <1>2, <2>1, DoneKeeps DEF Inv, Tables, TablesType
<1>4. CASE task[a].op = "present"
  <2> DEFINE t == [task[a] EXCEPT !.pc = "again"]
  <2>1. t \in Tasks /\ t.pc = "again" /\ t.op = task[a].op /\ t.dom = task[a].dom
        /\ t.sub = task[a].sub /\ t.who = task[a].who /\ t.uid = task[a].uid
    BY <1>1 DEF Tasks, Pcs
  <2>2. Goto(a, t)
    BY <1>4 DEF AddFails, To, AfterConflict
  <2>3. excused' = excused \cup {b \in {a} : RowOf(task[a].uid, task[a].dom) = {}
                                            /\ FreeSalts(task[a].who, task[a].dom) = {}}
    BY <1>4 DEF AddFails
  <2>4. excused \subseteq excused' /\ excused' \subseteq Actors
    BY <2>3 DEF Inv, Tables, TablesType
  <2> HIDE DEF t
  <2>5. Shape(t)
    BY <1>1, <1>4, <2>1 DEF Shape
  <2>6. Known(t)
    BY <1>1, <2>1 DEF Known, Acting
  <2>7. Backed(a, t, excused')
    <3>1. CASE a \in excused
      BY <2>4, <3>1 DEF Backed
    <3>2. CASE a \notin excused /\ RowOf(task[a].uid, task[a].dom) # {}
      BY <1>1, <1>4, <2>1, <3>2 DEF Backed
    <3>3. CASE a \notin excused /\ RowOf(task[a].uid, task[a].dom) = {}
      <4>1. task[a].uid \in Ids
        BY <1>1, <1>4, <3>3 DEF Backed
      <4>2. FreeSalts(task[a].who, task[a].dom) = {}
        BY <1>1, <3>3, <4>1 DEF CanAdd, ForeignKey
      <4>3. a \in excused'
        BY <2>3, <3>3, <4>2
      <4> QED
        BY <4>3 DEF Backed
    <3> QED
      BY <3>1, <3>2, <3>3
  <2> QED
    BY <1>2, <2>2, <2>4, <2>5, <2>6, <2>7, TaskStep DEF Inv, Tables, TablesType
<1> QED
  BY <1>3, <1>4

-----------------------------------------------------------------------------
(* Steps that change tables                                                 *)

\* Users keep their names; whoever is new has a new id.
NamesKept ==
  /\ last.user <= last'.user /\ last'.user \in Nat
  /\ \A u \in Ids' : u <= last.user => u \in Ids /\ users'[u].name = users[u].name

\* No present but the excused ones loses its user or its domain.
PresentsKept(b) ==
  \/ b \in excused'
  \/ /\ b \notin excused
     /\ task[b].op = "present" /\ task[b].pc # "write" =>
          /\ task[b].uid \in Ids => task[b].uid \in Ids'
          /\ RowOf(task[b].uid, task[b].dom) # {} => RowOf(task[b].uid, task[b].dom)' # {}

\* What a change of tables needs for a task that does not move
LEMMA StaysFit ==
  ASSUME Inv, NEW b \in Actors, task'[b] = task[b], NamesKept, PresentsKept(b)
  PROVE  Shape(task[b])' /\ Known(task[b])' /\ Backed(b, task[b], excused)'
<1>1. /\ task[b] \in Tasks /\ Shape(task[b]) /\ Known(task[b])
      /\ Backed(b, task[b], excused) /\ last.user \in Nat /\ task[b].uid \in Nat
  BY DEF Inv, TasksInv, Tables, TablesType, Tasks
<1>2. Shape(task[b])'
  BY <1>1 DEF Shape
<1>3. Known(task[b])'
  <2>1. ASSUME task[b].pc \in Acting
        PROVE  task[b].uid <= last'.user
               /\ (task[b].uid \in Ids' => users'[task[b].uid].name = task[b].who)
    <3>1. task[b].uid <= last.user /\ (task[b].uid \in Ids => users[task[b].uid].name = task[b].who)
      BY <1>1, <2>1 DEF Known
    <3>2. task[b].uid <= last'.user
      BY <1>1, <3>1 DEF NamesKept
    <3>3. ASSUME task[b].uid \in Ids'
          PROVE  users'[task[b].uid].name = task[b].who
      BY <3>1, <3>3 DEF NamesKept
    <3> QED
      BY <3>2, <3>3
  <2> QED
    BY <2>1 DEF Known
<1>4. Backed(b, task[b], excused)'
  <2>1. CASE b \in excused'
    BY <2>1 DEF Backed
  <2>2. CASE b \notin excused'
    <3>1. b \notin excused
      BY <2>2 DEF PresentsKept
    <3>2. /\ task[b].op = "present" /\ task[b].pc \in {"key", "resolve", "create", "again"}
               => task[b].uid \in Ids
          /\ task[b].pc = "again" => RowOf(task[b].uid, task[b].dom) # {}
          /\ task[b].pc # "refused"
      BY <1>1, <3>1 DEF Backed
    <3>3. task[b].pc = "again" => task[b].op = "present"
      BY <1>1 DEF Shape
    <3>4. task[b].op = "present" /\ task[b].pc # "write" =>
             /\ task[b].uid \in Ids => task[b].uid \in Ids'
             /\ RowOf(task[b].uid, task[b].dom) # {} => RowOf(task[b].uid, task[b].dom)' # {}
      BY <2>2 DEF PresentsKept
    <3>5. task[b].op = "present" /\ task[b].pc \in {"key", "resolve", "create", "again"}
               => task[b].uid \in Ids'
      BY <3>2, <3>4
    <3>6. task[b].pc = "again" => RowOf(task[b].uid, task[b].dom)' # {}
      BY <3>2, <3>3, <3>4
    <3> QED
      BY <3>2, <3>5, <3>6 DEF Backed
  <2> QED
    BY <2>1, <2>2
<1> QED
  BY <1>2, <1>3, <1>4

\* A change of tables outside of any task
LEMMA TableStep ==
  ASSUME Inv, Tables', UNCHANGED task, NamesKept, \A b \in Actors : PresentsKept(b)
  PROVE  Inv'
<1>1. \A b \in Actors : Shape(task[b])' /\ Known(task[b])' /\ Backed(b, task[b], excused)'
  BY StaysFit
<1>2. TasksInv'
  BY <1>1 DEF Inv, TasksInv
<1> QED
  BY <1>2 DEF Inv

\* A change of tables by a task that then writes, goes through its list or is over
LEMMA TaskTableStep ==
  ASSUME Inv, Tables', NEW a \in Actors, NEW t, Goto(a, t), NamesKept,
         \A b \in Actors \ {a} : PresentsKept(b),
         Shape(t), t.pc \in {"idle", "next", "owners", "write"},
         t.pc = "write" => t.uid = task[a].uid /\ t.who = task[a].who /\ task[a].pc \in Acting
  PROVE  Inv'
<1>1. task' = [task EXCEPT ![a] = t] /\ task \in [Actors -> Tasks] /\ t \in Tasks
  BY DEF Goto, Inv, TasksInv, Shape
<1>2. ASSUME NEW b \in Actors \ {a}
      PROVE  Shape(task[b])' /\ Known(task[b])' /\ Backed(b, task[b], excused)'
  <2>1. task'[b] = task[b] /\ PresentsKept(b)
    BY <1>1, <1>2
  <2> QED
    BY <2>1, StaysFit
<1>3. Shape(task[a])' /\ Known(task[a])' /\ Backed(a, task[a], excused)'
  <2>1. task'[a] = t
    BY <1>1
  <2>2. Shape(task[a])'
    BY <2>1 DEF Shape
  <2>3. Backed(a, task[a], excused)'
    BY <2>1 DEF Backed
  <2>4. CASE t.pc # "write"
    BY <2>1, <2>2, <2>3, <2>4 DEF Known, Acting
  <2>5. CASE t.pc = "write"
    <3>1. Known(task[a]) /\ t.uid = task[a].uid /\ t.who = task[a].who /\ task[a].pc \in Acting
          /\ last.user \in Nat /\ t.uid \in Nat
      BY <2>5 DEF Inv, TasksInv, Tables, TablesType, Tasks
    <3>2. t.uid <= last.user /\ (t.uid \in Ids => users[t.uid].name = t.who)
      BY <3>1 DEF Known
    <3>3. t.uid <= last'.user
      BY <3>1, <3>2 DEF NamesKept
    <3>4. ASSUME t.uid \in Ids'
          PROVE  users'[t.uid].name = t.who
      BY <3>2, <3>4 DEF NamesKept
    <3>5. Known(task[a])'
      BY <2>1, <3>3, <3>4 DEF Known
    <3> QED
      BY <2>2, <2>3, <3>5
  <2> QED
    BY <2>4, <2>5
<1>4. TasksInv'
  BY <1>1, <1>2, <1>3 DEF TasksInv
<1> QED
  BY <1>4 DEF Inv

\* A session goes on naming its user.
LEMMA SessionsStay ==
  ASSUME Inv, NamesKept
  PROVE  \A s \in tokens : s.uid <= last'.user /\ (s.uid \in Ids' => users'[s.uid].name = s.usr)
<1> SUFFICES ASSUME NEW s \in tokens
             PROVE  s.uid <= last'.user /\ (s.uid \in Ids' => users'[s.uid].name = s.usr)
  OBVIOUS
<1>1. s.uid \in Nat /\ last.user \in Nat /\ s.uid <= last.user
      /\ (s.uid \in Ids => users[s.uid].name = s.usr)
  BY DEF Inv, Tables, TablesType, SessionsKnown
<1>2. s.uid <= last'.user
  BY <1>1 DEF NamesKept
<1>3. ASSUME s.uid \in Ids'
      PROVE  users'[s.uid].name = s.usr
  BY <1>1, <1>3 DEF NamesKept
<1> QED
  BY <1>2, <1>3

\* A user's id is new: above all there were.
LEMMA NewIdNew ==
  ASSUME Inv, last.user < MaxId
  PROVE  /\ NewId \in Nat /\ NewId = last.user + 1 /\ NewId \in 1..MaxId
         /\ NewId \notin Ids /\ \A u \in Ids : u <= last.user /\ u # NewId
         /\ \A n \in Nat : n <= last.user => n # NewId /\ n <= NewId
<1>1. last.user \in Nat /\ \A u \in Ids : u \in 1..last.user
  BY DEF Inv, Tables, TablesType, Counted
<1> QED
  BY <1>1, BoundAssumption DEF NewId

\* create_user stores a user with a new id and a key of its own.
LEMMA CreateUserKeeps ==
  ASSUME Inv, NEW name \in Usernames \cup {Anonymous}, NEW login \in BOOLEAN,
         CreateUser(name, login)
  PROVE  /\ Ids' = Ids \cup {NewId} /\ users' \in [Ids' -> UserRows]
         /\ users'[NewId].name = name /\ \A u \in Ids : users'[u] = users[u]
         /\ last'.user = NewId /\ last' \in [user : Nat, key : Nat]
         /\ DOMAIN keys' \subseteq Nat
         /\ keys' \in [DOMAIN keys' -> [user : Nat, scope : Scopes]]
         /\ \A k \in DOMAIN keys' : keys'[k].user \in Ids'
         /\ NamesKept
<1> DEFINE row == UserRow(name, login)
<1>1. /\ users' = WithUser(row) /\ keys' = WithKey(NewId, Global) /\ last.user < MaxId
      /\ last' = [user |-> last.user + 1, key |-> last.key + 1]
  BY DEF CreateUser
<1>2. NewId \in Nat /\ NewId = last.user + 1 /\ NewId \notin Ids
      /\ \A u \in Ids : u <= last.user /\ u # NewId
      /\ \A n \in Nat : n <= last.user => n # NewId /\ n <= NewId
  BY <1>1, NewIdNew
<1>3. row \in UserRows /\ row.name = name
  BY DEF UserRow, UserRows
<1> HIDE DEF row
<1>4. /\ Ids \subseteq Nat /\ users \in [Ids -> UserRows]
      /\ DOMAIN keys \subseteq Nat /\ keys \in [DOMAIN keys -> [user : Nat, scope : Scopes]]
      /\ last \in [user : Nat, key : Nat] /\ \A k \in DOMAIN keys : keys[k].user \in Ids
  BY DEF Inv, Tables, TablesType, RowsOwned
<1>5. users' = [u \in Ids \cup {NewId} |-> IF u = NewId THEN row ELSE users[u]]
  BY <1>1 DEF WithUser
<1> HIDE DEF NewId
<1>6. Ids' = Ids \cup {NewId}
  BY <1>5 DEF Ids
<1>7. users'[NewId] = row /\ \A u \in Ids : users'[u] = users[u]
  BY <1>2, <1>5
<1>8. users' \in [Ids' -> UserRows]
  BY <1>3, <1>4, <1>5, <1>6
<1>9. last'.user = NewId /\ last' \in [user : Nat, key : Nat]
  BY <1>1, <1>2, <1>4
<1>10. /\ DOMAIN keys' \subseteq Nat
       /\ keys' \in [DOMAIN keys' -> [user : Nat, scope : Scopes]]
       /\ \A k \in DOMAIN keys' : keys'[k].user \in Ids'
  <2> DEFINE k1 == last.key + 1
  <2> DEFINE new == [user |-> NewId, scope |-> Global]
  <2>1. k1 \in Nat
    BY <1>4
  <2>2. keys' = [k \in DOMAIN keys \cup {k1} |-> IF k = k1 THEN new ELSE keys[k]]
    BY <1>1 DEF WithKey
  <2>3. new \in [user : Nat, scope : Scopes] /\ new.user = NewId
    BY <1>2 DEF Scopes
  <2> HIDE DEF k1, new
  <2> QED
    BY <1>4, <1>6, <2>1, <2>2, <2>3
<1>11. NamesKept
  BY <1>2, <1>4, <1>6, <1>7, <1>9 DEF NamesKept
<1> QED
  BY <1>3, <1>6, <1>7, <1>8, <1>9, <1>10, <1>11

LEMMA RegisterKeeps ==
  ASSUME Inv, NEW name \in Usernames, NEW session \in BOOLEAN, Register(name, session)
  PROVE  Inv'
<1>1. /\ CreateUser(name, TRUE) /\ UNCHANGED domains
      /\ tokens' = IF session THEN tokens \cup {[uid |-> NewId, usr |-> name]} ELSE tokens
      /\ UNCHANGED <<txt, task, published, excused>> /\ last.user < MaxId
  BY DEF Register, CreateUser
<1>2. /\ Ids' = Ids \cup {NewId} /\ users' \in [Ids' -> UserRows]
      /\ users'[NewId].name = name /\ \A u \in Ids : users'[u] = users[u]
      /\ last'.user = NewId /\ last' \in [user : Nat, key : Nat]
      /\ DOMAIN keys' \subseteq Nat
      /\ keys' \in [DOMAIN keys' -> [user : Nat, scope : Scopes]]
      /\ \A k \in DOMAIN keys' : keys'[k].user \in Ids'
      /\ NamesKept
  BY <1>1, CreateUserKeeps
<1>3. NewId \in Nat /\ NewId \in 1..MaxId
      /\ \A u \in Ids : u <= last.user /\ u # NewId
      /\ \A n \in Nat : n <= last.user => n # NewId /\ n <= NewId
  BY <1>1, NewIdNew
<1> HIDE DEF NewId
<1> DEFINE s1 == [uid |-> NewId, usr |-> name]
<1>4. s1 \in [uid : Nat, usr : Usernames \cup {Anonymous}] /\ s1.uid = NewId /\ s1.usr = name
  BY <1>3
<1>5. \A s \in tokens' : s \in tokens \/ s = s1
  BY <1>1
<1> HIDE DEF s1
<1>6. TablesType'
  <2>1. Ids' \subseteq Nat
    BY <1>2, <1>3 DEF Inv, Tables, TablesType
  <2> QED
    BY <1>1, <1>2, <1>4, <1>5, <2>1 DEF Inv, Tables, TablesType
<1>7. RowsOwned'
  BY <1>1, <1>2 DEF Inv, Tables, RowsOwned
<1>8. Counted'
  <2>1. \A u \in Ids' : u \in 1..last'.user
    BY <1>2, <1>3 DEF Inv, Tables, Counted
  <2> QED
    BY <1>1, <1>2, <1>3, <2>1 DEF Inv, Tables, Counted
<1>9. SessionsKnown'
  <2>1. \A s \in tokens : s.uid <= last'.user /\ (s.uid \in Ids' => users'[s.uid].name = s.usr)
    BY <1>2, SessionsStay
  <2>2. s1.uid <= last'.user /\ users'[s1.uid].name = s1.usr
    BY <1>2, <1>3, <1>4
  <2>3. ASSUME NEW s \in tokens'
        PROVE  s.uid <= last'.user /\ (s.uid \in Ids' => users'[s.uid].name = s.usr)
    BY <1>5, <2>1, <2>2
  <2> QED
    BY <2>3 DEF SessionsKnown
<1>10. \A b \in Actors : PresentsKept(b)
  BY <1>1, <1>2 DEF PresentsKept, RowOf
<1> QED
  BY <1>1, <1>2, <1>6, <1>7, <1>8, <1>9, <1>10, TableStep DEF Tables

\* An anonymous account gets a subdomain nobody has: its own.
LEMMA CreateAcmednsAccountKeeps ==
  ASSUME Inv, NEW sub \in Drawn, CreateAcmednsAccount(sub)
  PROVE  Inv'
<1> DEFINE row == [user |-> NewId, dom |-> sub, sub |-> sub]
<1>1. /\ CreateUser(Anonymous, FALSE) /\ UNCHANGED tokens
      /\ domains' = domains \cup {row}
      /\ UNCHANGED <<txt, task, published, excused>> /\ last.user < MaxId
      /\ sub \notin Taken
  BY DEF CreateAcmednsAccount, CreateUser
<1>2. /\ Ids' = Ids \cup {NewId} /\ users' \in [Ids' -> UserRows]
      /\ \A u \in Ids : users'[u] = users[u]
      /\ last'.user = NewId /\ last' \in [user : Nat, key : Nat]
      /\ DOMAIN keys' \subseteq Nat
      /\ keys' \in [DOMAIN keys' -> [user : Nat, scope : Scopes]]
      /\ \A k \in DOMAIN keys' : keys'[k].user \in Ids'
      /\ NamesKept
  BY <1>1, CreateUserKeeps
<1>3. NewId \in Nat /\ NewId \in 1..MaxId
      /\ \A u \in Ids : u <= last.user /\ u # NewId
      /\ \A n \in Nat : n <= last.user => n # NewId /\ n <= NewId
  BY <1>1, NewIdNew
<1> HIDE DEF NewId
<1>4. sub \in Subs
  BY SubsAssumption
<1>5. \A r \in domains : r.sub # sub /\ r.user # NewId
  <2>1. \A r \in domains : r.user # NewId
    BY <1>3 DEF Inv, Tables, RowsOwned
  <2>2. \A r \in domains : r.sub # sub
    BY <1>1 DEF Taken
  <2> QED
    BY <2>1, <2>2
<1>6. row \in [user : Nat, dom : Domains \cup Subs, sub : Subs]
      /\ row.user = NewId /\ row.dom = sub /\ row.sub = sub
  BY <1>3, <1>4
<1> HIDE DEF row
<1>7. TablesType'
  <2>1. Ids' \subseteq Nat
    BY <1>2, <1>3 DEF Inv, Tables, TablesType
  <2> QED
    BY <1>1, <1>2, <1>6, <2>1 DEF Inv, Tables, TablesType
<1>8. RowsOwned'
  <2>1. \A r \in domains' : r.user \in Ids'
    BY <1>1, <1>2, <1>6 DEF Inv, Tables, RowsOwned
  <2>2. ASSUME NEW r \in domains', NEW q \in domains',
               r.sub = q.sub \/ (r.user = q.user /\ r.dom = q.dom)
        PROVE  r = q
    BY <1>1, <1>5, <1>6, <2>2 DEF Inv, Tables, RowsOwned
  <2> QED
    BY <1>2, <2>1, <2>2 DEF RowsOwned
<1>9. Counted'
  <2>1. \A u \in Ids' : u \in 1..last'.user
    BY <1>2, <1>3 DEF Inv, Tables, Counted
  <2> QED
    BY <1>2, <1>3, <2>1 DEF Counted
<1>10. SessionsKnown'
  <2>1. \A s \in tokens : s.uid <= last'.user /\ (s.uid \in Ids' => users'[s.uid].name = s.usr)
    BY <1>2, SessionsStay
  <2> QED
    BY <1>1, <2>1 DEF SessionsKnown
<1>11. \A b \in Actors : PresentsKept(b)
  <2>1. domains \subseteq domains'
    BY <1>1
  <2> QED
    BY <1>1, <1>2, <2>1 DEF PresentsKept, RowOf
<1> QED
  BY <1>1, <1>2, <1>7, <1>8, <1>9, <1>10, <1>11, TableStep DEF Tables

\* One task moves.
LEMMA OthersStay ==
  ASSUME Inv, NEW a \in Actors, NEW t, Goto(a, t)
  PROVE  \A b \in Actors \ {a} : task'[b] = task[b]
BY DEF Goto, Inv, TasksInv

\* Users, ids and rows of users stay: names are kept.
LEMMA SameUsers ==
  ASSUME Inv, UNCHANGED <<users, last>>
  PROVE  NamesKept
BY DEF NamesKept, Ids, Inv, Tables, TablesType

\* A new domain takes a subdomain nobody has, for a user there is that has not the
\* domain yet.
LEMMA AddUserDomainKeeps ==
  ASSUME Inv, NEW a \in Actors, AddUserDomain(a)
  PROVE  Inv'
<1> DEFINE sub == FirstFree(task[a].who, task[a].dom)
<1> DEFINE row == [user |-> task[a].uid, dom |-> task[a].dom, sub |-> sub]
<1>1. /\ task[a].pc = "create" /\ CanAdd(task[a]) /\ domains' = domains \cup {row}
      /\ UNCHANGED <<users, keys, txt, last, tokens, published>>
  BY DEF AddUserDomain, At
<1>2. task[a] \in Tasks /\ Shape(task[a])
  BY DEF Inv, TasksInv
<1>3. task[a].dom \in Domains /\ task[a].who \in Usernames \cup {Anonymous}
  BY <1>1, <1>2 DEF Shape, Tasks
<1>4. RowOf(task[a].uid, task[a].dom) = {} /\ FreeSalts(task[a].who, task[a].dom) # {}
      /\ task[a].uid \in Ids
  BY <1>1 DEF CanAdd, ForeignKey
<1>5. sub \in Subs /\ sub \notin Taken
  BY <1>3, <1>4, FirstFreeFree
<1>6. (task[a].op = "present" /\ ToWrite(a, sub)) \/ (task[a].op # "present" /\ Done(a))
  BY DEF AddUserDomain
<1> HIDE DEF sub
<1>7. row \in [user : Nat, dom : Domains \cup Subs, sub : Subs]
      /\ row.user = task[a].uid /\ row.dom = task[a].dom /\ row.sub = sub
  BY <1>2, <1>3, <1>5 DEF Tasks
<1> HIDE DEF row
<1>8. \A r \in domains : r.sub # sub /\ ~(r.user = row.user /\ r.dom = row.dom)
  BY <1>4, <1>5, <1>7 DEF Taken, RowOf
<1>9. excused' = excused \ {a}
  BY <1>6 DEF ToWrite, Done
<1>10. TablesType'
  BY <1>1, <1>7, <1>9 DEF Inv, Tables, TablesType, Ids
<1>11. RowsOwned'
  <2>1. \A r \in domains' : r.user \in Ids'
    BY <1>1, <1>4, <1>7 DEF Inv, Tables, RowsOwned, Ids
  <2>2. ASSUME NEW r \in domains', NEW q \in domains',
               r.sub = q.sub \/ (r.user = q.user /\ r.dom = q.dom)
        PROVE  r = q
    BY <1>1, <1>7, <1>8, <2>2 DEF Inv, Tables, RowsOwned
  <2>3. \A k \in DOMAIN keys' : keys'[k].user \in Ids'
    BY <1>1 DEF Inv, Tables, RowsOwned, Ids
  <2> QED
    BY <2>1, <2>2, <2>3 DEF RowsOwned
<1>12. Counted'
  BY <1>1 DEF Inv, Tables, Counted, Ids
<1>13. SessionsKnown'
  BY <1>1 DEF Inv, Tables, SessionsKnown, Ids
<1>14. \A b \in Actors \ {a} : PresentsKept(b)
  <2>1. domains \subseteq domains' /\ Ids' = Ids
    BY <1>1 DEF Ids
  <2>2. \A b \in Actors \ {a} : task'[b] = task[b]
    BY <1>6, OthersStay DEF ToWrite, Done
  <2> QED
    BY <1>9, <2>1, <2>2 DEF PresentsKept, RowOf
<1>15. NamesKept
  BY <1>1, SameUsers
<1>16. CASE ToWrite(a, sub)
  <2> DEFINE t == [task[a] EXCEPT !.pc = "write", !.dom = NoDomain, !.sub = sub,
                                  !.scope = Global]
  <2>1. Goto(a, t)
    BY <1>16 DEF ToWrite
  <2>2. task[a].pc \in Acting
    BY <1>1 DEF Acting
  <2>3. Shape(t) /\ t.pc = "write" /\ t.uid = task[a].uid /\ t.who = task[a].who
    BY <1>5, <2>2, WriteFits
  <2> HIDE DEF t
  <2> QED
    BY <1>10, <1>11, <1>12, <1>13, <1>14, <1>15, <2>1, <2>2, <2>3, TaskTableStep DEF Tables
<1>17. CASE Done(a)
  BY <1>10, <1>11, <1>12, <1>13, <1>14, <1>15, <1>17, IdleFits, TaskTableStep DEF Done, Tables
<1> QED
  BY <1>6, <1>16, <1>17

\* Removing rows keeps the tables.
LEMMA FewerRows ==
  ASSUME Inv, domains' \subseteq domains, UNCHANGED <<users, keys, last, tokens, published>>,
         txt' \in [Subs -> {"none", "fresh", "old"}], excused' \subseteq Actors
  PROVE  Tables'
<1>1. TablesType'
  BY DEF Inv, Tables, TablesType, Ids
<1>2. RowsOwned'
  BY DEF Inv, Tables, RowsOwned, Ids
<1>3. Counted' /\ SessionsKnown'
  BY DEF Inv, Tables, Counted, SessionsKnown, Ids
<1> QED
  BY <1>1, <1>2, <1>3 DEF Tables

\* The presents whose domain is removed are excused.
LEMMA RemoveUserDomainKeeps ==
  ASSUME Inv, NEW a \in Actors, NEW u, NEW dom, NEW t,
         RemoveUserDomain(a, u, dom, t), Shape(t), t.pc \in {"idle", "owners"}
  PROVE  Inv'
<1>1. /\ domains' = domains \ RowOf(u, dom) /\ Goto(a, t)
      /\ txt' = Withdrawn({r.sub : r \in RowOf(u, dom)})
      /\ excused' = (excused \cup PresentsOf(u, dom)) \ {a}
      /\ UNCHANGED <<users, keys, last, tokens, published>>
  BY DEF RemoveUserDomain
<1>2. txt' \in [Subs -> {"none", "fresh", "old"}]
  BY <1>1 DEF Withdrawn, Inv, Tables, TablesType
<1>3. excused' \subseteq Actors
  BY <1>1 DEF PresentsOf, Presents, Inv, Tables, TablesType
<1>4. Tables'
  BY <1>1, <1>2, <1>3, FewerRows
<1>5. NamesKept
  BY <1>1, SameUsers
<1>6. ASSUME NEW b \in Actors \ {a}
      PROVE  PresentsKept(b)
  <2>1. CASE b \in excused'
    BY <2>1 DEF PresentsKept
  <2>2. CASE b \notin excused'
    <3>1. b \notin excused /\ b \notin PresentsOf(u, dom)
      BY <1>1, <2>2
    <3>2. ASSUME task[b].op = "present", task[b].pc # "write"
          PROVE  task[b].uid # u \/ task[b].dom # dom
      BY <3>1, <3>2 DEF PresentsOf, Presents, At
    <3>3. ASSUME task[b].uid # u \/ task[b].dom # dom
          PROVE  RowOf(task[b].uid, task[b].dom)' = RowOf(task[b].uid, task[b].dom)
      <4>1. Goto(a, t) /\ task'[b] = task[b]
        BY <1>1 DEF Goto, Inv, TasksInv
      <4> QED
        BY <1>1, <3>3, <4>1 DEF RowOf
    <3>4. Ids' = Ids
      BY <1>1 DEF Ids
    <3> QED
      BY <3>1, <3>2, <3>3, <3>4 DEF PresentsKept
  <2> QED
    BY <2>1, <2>2
<1> QED
  BY <1>1, <1>4, <1>5, <1>6, TaskTableStep

LEMMA RemovalsKeep ==
  ASSUME Inv, NEW a \in Actors, RemoveDomain(a) \/ \E u \in task[a].left : RemoveFrom(a, u)
  PROVE  Inv'
<1>1. CASE RemoveDomain(a)
  BY <1>1, IdleFits, RemoveUserDomainKeeps DEF RemoveDomain
<1>2. ASSUME NEW u \in task[a].left, RemoveFrom(a, u)
      PROVE  Inv'
  <2> DEFINE left == task[a].left \ {u}
  <2> DEFINE t == IF left = {} THEN Idle ELSE [task[a] EXCEPT !.left = left]
  <2>1. task[a].pc = "owners" /\ RemoveUserDomain(a, u, task[a].dom, t)
    BY <1>2 DEF RemoveFrom, At
  <2>2. task[a] \in Tasks /\ task[a].left \subseteq Nat
    BY DEF Inv, TasksInv, Tasks
  <2>3. [task[a] EXCEPT !.left = left] \in Tasks /\ [task[a] EXCEPT !.left = left].pc = "owners"
    BY <2>1, <2>2 DEF Tasks
  <2>4. t \in Tasks /\ t.pc \in {"idle", "owners"}
    BY <2>3, IdleFits
  <2> HIDE DEF t
  <2>5. Shape(t)
    BY <2>4 DEF Shape
  <2> QED
    BY <2>1, <2>4, <2>5, RemoveUserDomainKeeps
<1> QED
  BY <1>1, <1>2

\* Keys are made for users there are.
LEMMA KeysKeep ==
  ASSUME Inv, NEW a \in Actors,
         (\E scope \in Scopes : CreateKey(a, scope)) \/ \E k \in 1..MaxKey : DeleteKey(a, k)
  PROVE  Inv'
<1>1. Done(a) /\ UNCHANGED <<users, domains, txt, tokens, published>>
  BY DEF CreateKey, DeleteKey
<1>2. /\ DOMAIN keys \subseteq Nat /\ keys \in [DOMAIN keys -> [user : Nat, scope : Scopes]]
      /\ last \in [user : Nat, key : Nat] /\ Ids \subseteq Nat
      /\ \A k \in DOMAIN keys : keys[k].user \in Ids
  BY DEF Inv, Tables, TablesType, RowsOwned
<1>3. /\ DOMAIN keys' \subseteq Nat
      /\ keys' \in [DOMAIN keys' -> [user : Nat, scope : Scopes]]
      /\ \A k \in DOMAIN keys' : keys'[k].user \in Ids
      /\ last' \in [user : Nat, key : Nat] /\ last'.user = last.user
  <2>1. CASE UNCHANGED <<keys, last>>
    BY <1>2, <2>1
  <2>2. ASSUME NEW scope \in Scopes, task[a].uid \in Ids,
               keys' = WithKey(task[a].uid, scope), last' = [last EXCEPT !.key = @ + 1]
        PROVE  /\ DOMAIN keys' \subseteq Nat
               /\ keys' \in [DOMAIN keys' -> [user : Nat, scope : Scopes]]
               /\ \A k \in DOMAIN keys' : keys'[k].user \in Ids
               /\ last' \in [user : Nat, key : Nat] /\ last'.user = last.user
    <3> DEFINE k1 == last.key + 1
    <3> DEFINE new == [user |-> task[a].uid, scope |-> scope]
    <3>1. k1 \in Nat
      BY <1>2
    <3>2. keys' = [k \in DOMAIN keys \cup {k1} |-> IF k = k1 THEN new ELSE keys[k]]
      BY <2>2 DEF WithKey
    <3>3. new \in [user : Nat, scope : Scopes] /\ new.user \in Ids
      BY <1>2, <2>2
    <3>4. last' = [last EXCEPT !.key = k1]
      BY <2>2
    <3> HIDE DEF k1, new
    <3>5. last' \in [user : Nat, key : Nat] /\ last'.user = last.user
      BY <1>2, <3>1, <3>4
    <3> QED
      BY <1>2, <3>1, <3>2, <3>3, <3>5
  <2>3. ASSUME NEW k \in 1..MaxKey, DeleteKey(a, k)
        PROVE  /\ DOMAIN keys' \subseteq Nat
               /\ keys' \in [DOMAIN keys' -> [user : Nat, scope : Scopes]]
               /\ \A j \in DOMAIN keys' : keys'[j].user \in Ids
               /\ last' \in [user : Nat, key : Nat] /\ last'.user = last.user
    <3> DEFINE J == {j \in DOMAIN keys : j # k \/ keys[j].user # task[a].uid}
    <3>1. keys' = [j \in J |-> keys[j]] /\ last' = last
      BY <2>3 DEF DeleteKey
    <3>2. J \subseteq DOMAIN keys
      OBVIOUS
    <3> HIDE DEF J
    <3> QED
      BY <1>2, <3>1, <3>2
  <2> QED
    BY <2>1, <2>2, <2>3 DEF CreateKey, ForeignKey
<1>4. excused' \subseteq Actors /\ excused' = excused \ {a} /\ Ids' = Ids
  BY <1>1 DEF Done, Inv, Tables, TablesType, Ids
<1>5. Tables'
  <2>1. TablesType'
    BY <1>1, <1>3, <1>4 DEF Inv, Tables, TablesType
  <2>2. RowsOwned'
    BY <1>1, <1>3, <1>4 DEF Inv, Tables, RowsOwned
  <2>3. Counted' /\ SessionsKnown'
    BY <1>1, <1>3, <1>4 DEF Inv, Tables, Counted, SessionsKnown
  <2> QED
    BY <2>1, <2>2, <2>3 DEF Tables
<1>6. NamesKept
  BY <1>1, <1>2, <1>3, <1>4 DEF NamesKept
<1>7. \A b \in Actors \ {a} : task'[b] = task[b]
  BY <1>1, OthersStay DEF Done
<1>8. \A b \in Actors \ {a} : PresentsKept(b)
  BY <1>1, <1>4, <1>7 DEF PresentsKept, RowOf
<1> QED
  BY <1>1, <1>5, <1>6, <1>8, IdleFits, TaskTableStep DEF Done

\* A password makes no difference to names.
LEMMA SetPasswordKeeps ==
  ASSUME Inv, NEW a \in Actors, SetPassword(a)
  PROVE  Inv'
<1>1. /\ Done(a) /\ UNCHANGED <<keys, domains, txt, last, tokens, published>>
      /\ users' = [u \in Ids |-> IF u = task[a].uid THEN [users[u] EXCEPT !.login = TRUE]
                                 ELSE users[u]]
  BY DEF SetPassword
<1>2. /\ users \in [Ids -> UserRows] /\ Ids \subseteq Nat /\ last \in [user : Nat, key : Nat]
  BY DEF Inv, Tables, TablesType
<1>3. \A u \in Ids : [users[u] EXCEPT !.login = TRUE] \in UserRows
                      /\ [users[u] EXCEPT !.login = TRUE].name = users[u].name
  BY <1>2 DEF UserRows
<1>4. Ids' = Ids
  BY <1>1 DEF Ids
<1>5. users' \in [Ids -> UserRows] /\ \A u \in Ids : users'[u].name = users[u].name
  BY <1>1, <1>2, <1>3
<1>6. excused' \subseteq Actors /\ excused' = excused \ {a}
  BY <1>1 DEF Done, Inv, Tables, TablesType
<1>7. Tables'
  <2>1. TablesType'
    BY <1>1, <1>4, <1>5, <1>6 DEF Inv, Tables, TablesType
  <2>2. RowsOwned'
    BY <1>1, <1>4 DEF Inv, Tables, RowsOwned
  <2>3. Counted' /\ SessionsKnown'
    BY <1>1, <1>4, <1>5 DEF Inv, Tables, Counted, SessionsKnown
  <2> QED
    BY <2>1, <2>2, <2>3 DEF Tables
<1>8. NamesKept
  BY <1>1, <1>2, <1>4, <1>5 DEF NamesKept
<1>9. \A b \in Actors \ {a} : task'[b] = task[b]
  BY <1>1, OthersStay DEF Done
<1>10. \A b \in Actors \ {a} : PresentsKept(b)
  BY <1>1, <1>4, <1>6, <1>9 DEF PresentsKept, RowOf
<1> QED
  BY <1>1, <1>7, <1>8, <1>10, IdleFits, TaskTableStep DEF Done

\* A token is issued for the user the password was of, who may be gone.
LEMMA IssueTokenKeeps ==
  ASSUME Inv, NEW a \in Actors, IssueToken(a)
  PROVE  Inv'
<1> DEFINE s1 == [uid |-> task[a].uid, usr |-> task[a].who]
<1>1. /\ Done(a) /\ UNCHANGED <<users, keys, domains, txt, last, published>>
      /\ tokens' = tokens \cup {s1} /\ task[a].pc = "token"
  BY DEF IssueToken, At
<1>2. task[a] \in Tasks /\ Known(task[a])
  BY DEF Inv, TasksInv
<1>3. task[a].uid <= last.user /\ (task[a].uid \in Ids => users[task[a].uid].name = task[a].who)
  BY <1>1, <1>2 DEF Known, Acting
<1>4. s1 \in [uid : Nat, usr : Usernames \cup {Anonymous}]
      /\ s1.uid = task[a].uid /\ s1.usr = task[a].who
  BY <1>2 DEF Tasks
<1> HIDE DEF s1
<1>5. excused' \subseteq Actors /\ excused' = excused \ {a} /\ Ids' = Ids
  BY <1>1 DEF Done, Inv, Tables, TablesType, Ids
<1>6. Tables'
  <2>1. TablesType'
    BY <1>1, <1>4, <1>5 DEF Inv, Tables, TablesType
  <2>2. RowsOwned' /\ Counted'
    BY <1>1, <1>5 DEF Inv, Tables, RowsOwned, Counted
  <2>3. SessionsKnown'
    BY <1>1, <1>3, <1>4, <1>5 DEF Inv, Tables, SessionsKnown
  <2> QED
    BY <2>1, <2>2, <2>3 DEF Tables
<1>7. NamesKept
  BY <1>1, SameUsers
<1>8. \A b \in Actors \ {a} : task'[b] = task[b]
  BY <1>1, OthersStay DEF Done
<1>9. \A b \in Actors \ {a} : PresentsKept(b)
  BY <1>1, <1>5, <1>8 DEF PresentsKept, RowOf
<1> QED
  BY <1>1, <1>6, <1>7, <1>9, IdleFits, TaskTableStep DEF Done

\* The deletion of a user takes its keys, domains and values, and excuses its presents.
LEMMA DeleteUserKeeps ==
  ASSUME Inv, NEW a \in Actors, DeleteUser(a)
  PROVE  Inv'
<1> DEFINE u == task[a].uid
<1> DEFINE K == {k \in DOMAIN keys : keys[k].user # u}
<1> DEFINE t == IF task[a].left = {} THEN Idle ELSE [task[a] EXCEPT !.pc = "next", !.uid = 0]
<1>1. /\ users' = [v \in Ids \ {u} |-> users[v]] /\ keys' = [k \in K |-> keys[k]]
      /\ domains' = domains \ RowsOf(u) /\ txt' = Withdrawn(SubsOf(u)) /\ Goto(a, t)
      /\ excused' = (excused \cup Presents(u)) \ {a} /\ published' = published \ {u}
      /\ UNCHANGED <<last, tokens>>
  BY DEF DeleteUser
<1>2. task[a] \in Tasks
  BY DEF Inv, TasksInv
<1>3. [task[a] EXCEPT !.pc = "next", !.uid = 0] \in Tasks
      /\ [task[a] EXCEPT !.pc = "next", !.uid = 0].pc = "next"
  BY <1>2 DEF Tasks, Pcs
<1>4. t \in Tasks /\ t.pc \in {"idle", "next"}
  BY <1>3, IdleFits
<1> HIDE DEF t
<1>5. Shape(t)
  BY <1>4 DEF Shape
<1>6. Ids' = Ids \ {u} /\ \A v \in Ids' : users'[v] = users[v]
  BY <1>1 DEF Ids
<1>7. DOMAIN keys' = K /\ \A k \in K : keys'[k] = keys[k]
  BY <1>1
<1>8. /\ users \in [Ids -> UserRows] /\ Ids \subseteq Nat /\ last \in [user : Nat, key : Nat]
      /\ DOMAIN keys \subseteq Nat /\ keys \in [DOMAIN keys -> [user : Nat, scope : Scopes]]
  BY DEF Inv, Tables, TablesType
<1>9. txt' \in [Subs -> {"none", "fresh", "old"}]
  BY <1>1 DEF Withdrawn, Inv, Tables, TablesType
<1>10. users' \in [Ids' -> UserRows]
  BY <1>1, <1>6, <1>8
<1>11. DOMAIN keys' \subseteq Nat /\ keys' \in [DOMAIN keys' -> [user : Nat, scope : Scopes]]
  BY <1>1, <1>7, <1>8
<1> HIDE DEF K
<1>12. excused' \subseteq Actors
  BY <1>1 DEF Presents, Inv, Tables, TablesType
<1>13. Tables'
  <2>1. TablesType'
    BY <1>1, <1>6, <1>9, <1>10, <1>11, <1>12 DEF Inv, Tables, TablesType
  <2>2. \A k \in DOMAIN keys' : keys'[k].user \in Ids'
    BY <1>6, <1>7 DEF K, Inv, Tables, RowsOwned
  <2>3. \A r \in domains' : r.user \in Ids'
    BY <1>1, <1>6 DEF RowsOf, Inv, Tables, RowsOwned
  <2>4. domains' \subseteq domains
    BY <1>1
  <2>5. RowsOwned'
    BY <2>2, <2>3, <2>4 DEF Inv, Tables, RowsOwned
  <2>6. Counted'
    BY <1>1, <1>6, <2>4 DEF Inv, Tables, Counted
  <2>7. SessionsKnown'
    BY <1>1, <1>6 DEF Inv, Tables, SessionsKnown
  <2> QED
    BY <2>1, <2>5, <2>6, <2>7 DEF Tables
<1>14. NamesKept
  BY <1>1, <1>6, <1>8 DEF NamesKept
<1>15. ASSUME NEW b \in Actors \ {a}
       PROVE  PresentsKept(b)
  <2>1. CASE b \in excused'
    BY <2>1 DEF PresentsKept
  <2>2. CASE b \notin excused'
    <3>1. b \notin excused /\ b \notin Presents(u)
      BY <1>1, <2>2
    <3>2. ASSUME task[b].op = "present", task[b].pc # "write"
          PROVE  task[b].uid # u
      BY <3>1, <3>2 DEF Presents, At
    <3>3. task'[b] = task[b]
      BY <1>1, OthersStay
    <3>4. ASSUME task[b].uid # u
          PROVE  RowOf(task[b].uid, task[b].dom)' = RowOf(task[b].uid, task[b].dom)
      BY <1>1, <3>3, <3>4 DEF RowOf, RowsOf
    <3>5. task[b].uid # u => (task[b].uid \in Ids => task[b].uid \in Ids')
      BY <1>6
    <3> QED
      BY <3>1, <3>2, <3>4, <3>5 DEF PresentsKept
  <2> QED
    BY <2>1, <2>2
<1> QED
  BY <1>1, <1>4, <1>5, <1>13, <1>14, <1>15, TaskTableStep

\* Time, and sessions that run out
LEMMA TimeKeeps ==
  ASSUME Inv,
         \/ \E s \in tokens : TokenExpires(s)
         \/ \E u \in Ids : AccountAges(u)
         \/ \E s \in Subs : ValueAges(s)
  PROVE  Inv'
<1>1. UNCHANGED <<keys, domains, last, task, published, excused>> /\ tokens' \subseteq tokens
  BY DEF TokenExpires, AccountAges, ValueAges
<1>2. users \in [Ids -> UserRows] /\ Ids \subseteq Nat /\ last \in [user : Nat, key : Nat]
  BY DEF Inv, Tables, TablesType
<1>3. /\ Ids' = Ids /\ users' \in [Ids -> UserRows]
      /\ \A u \in Ids : users'[u].name = users[u].name
  <2>1. CASE UNCHANGED users
    BY <1>2, <2>1 DEF Ids
  <2>2. ASSUME NEW u \in Ids, AccountAges(u)
        PROVE  /\ Ids' = Ids /\ users' \in [Ids -> UserRows]
               /\ \A v \in Ids : users'[v].name = users[v].name
    <3>1. users' = [users EXCEPT ![u] = [users[u] EXCEPT !.old = TRUE]]
      BY <2>2 DEF AccountAges
    <3>2. [users[u] EXCEPT !.old = TRUE] \in UserRows
          /\ [users[u] EXCEPT !.old = TRUE].name = users[u].name
      BY <1>2 DEF UserRows
    <3>3. Ids' = Ids
      BY <3>1 DEF Ids
    <3> QED
      BY <1>2, <3>1, <3>2, <3>3
  <2> QED
    BY <2>1, <2>2 DEF TokenExpires, ValueAges
<1>4. txt' \in [Subs -> {"none", "fresh", "old"}]
  BY DEF TokenExpires, AccountAges, ValueAges, Inv, Tables, TablesType
<1>5. Tables'
  <2>1. TablesType'
    BY <1>1, <1>3, <1>4 DEF Inv, Tables, TablesType
  <2>2. RowsOwned'
    BY <1>1, <1>3 DEF Inv, Tables, RowsOwned
  <2>3. Counted' /\ SessionsKnown'
    BY <1>1, <1>3 DEF Inv, Tables, Counted, SessionsKnown
  <2> QED
    BY <2>1, <2>2, <2>3 DEF Tables
<1>6. NamesKept
  BY <1>1, <1>2, <1>3 DEF NamesKept
<1>7. \A b \in Actors : PresentsKept(b)
  BY <1>1, <1>3 DEF PresentsKept, RowOf
<1> QED
  BY <1>1, <1>5, <1>6, <1>7, TableStep

-----------------------------------------------------------------------------
(* Theorems                                                                 *)

\* Init starts with empty tables and idle tasks.
LEMMA InitInv == Init => Inv
<1> SUFFICES ASSUME Init PROVE Inv
  OBVIOUS
<1>1. Ids = {} /\ DOMAIN keys = {} /\ domains = {} /\ tokens = {} /\ last.user = 0
      /\ last.key = 0 /\ published = {} /\ excused = {}
  BY DEF Init, Ids
<1>2. TablesType
  <2>1. users \in [Ids -> UserRows]
    BY <1>1 DEF Init
  <2>2. keys \in [DOMAIN keys -> [user : Nat, scope : Scopes]]
    BY <1>1 DEF Init
  <2>3. txt \in [Subs -> {"none", "fresh", "old"}] /\ last \in [user : Nat, key : Nat]
    BY DEF Init
  <2> QED
    BY <1>1, <2>1, <2>2, <2>3 DEF TablesType
<1>3. RowsOwned /\ Counted /\ SessionsKnown
  BY <1>1, BoundAssumption DEF RowsOwned, Counted, SessionsKnown
<1>4. task = [a \in Actors |-> Idle]
  BY DEF Init
<1>5. TasksInv
  BY <1>4, IdleFits DEF TasksInv
<1> QED
  BY <1>2, <1>3, <1>5 DEF Inv, Tables

\* Every step keeps the invariant.
LEMMA NextInv == Inv /\ [Next]_vars => Inv'
<1> SUFFICES ASSUME Inv, [Next]_vars PROVE Inv'
  OBVIOUS
<1>1. CASE \E name \in Usernames, session \in BOOLEAN : Register(name, session)
  BY <1>1, RegisterKeeps
<1>2. CASE \E sub \in Drawn : CreateAcmednsAccount(sub)
  BY <1>2, CreateAcmednsAccountKeeps
<1>3. CASE \/ \E s \in tokens : TokenExpires(s)
           \/ \E u \in Ids : AccountAges(u)
           \/ \E s \in Subs : ValueAges(s)
  BY <1>3, TimeKeeps
<1>4. ASSUME NEW a \in Actors,
             \/ \E u \in Ids : Login(a, u)
             \/ Authenticates(a) \/ Denied(a)
             \/ Administers(a) \/ Sweep(a)
             \/ Step(a) \/ ZonesFail(a)
      PROVE  Inv'
  <2>1. CASE \E u \in Ids : Login(a, u)
    BY <2>1, LoginKeeps
  <2>2. CASE Authenticates(a)
    BY <2>2, BearerKeeps, BearerKeyKeeps, BearerUserKeeps, BasicUserKeeps, BasicKeyKeeps
       DEF Authenticates
  <2>3. CASE Denied(a) \/ ZonesFail(a) \/ Refuse(a)
    BY <2>3, EndsKeep
  <2>4. CASE Administers(a) \/ Sweep(a)
    BY <2>4, AdminStepsKeep
  <2>5. CASE DomainStep(a)
    BY <2>5, AddUserDomainKeeps, AddFailsKeeps, RemovalsKeep DEF DomainStep
  <2>6. CASE ValueStep(a)
    BY <2>3, <2>6, ResolveKeeps, LookAgainKeeps, FindSubdomainKeeps, WritesKeep DEF ValueStep
  <2>7. CASE AccountStep(a)
    BY <2>7, IssueTokenKeeps, SetPasswordKeeps, KeysKeep DEF AccountStep
  <2>8. CASE DeletionStep(a)
    BY <2>8, ListStepsKeep, DeleteUserKeeps DEF DeletionStep
  <2> QED
    BY <1>4, <2>1, <2>2, <2>3, <2>4, <2>5, <2>6, <2>7, <2>8 DEF Step
<1>5. CASE UNCHANGED vars
  <2>1. UNCHANGED <<users, keys, domains, txt, last, tokens, task, published, excused>>
    BY <1>5 DEF vars
  <2>2. Ids' = Ids
    BY <2>1 DEF Ids
  <2>3. Tables'
    BY <2>1, <2>2 DEF Inv, Tables, TablesType, RowsOwned, Counted, SessionsKnown
  <2>4. NamesKept
    BY <2>1, SameUsers
  <2>5. \A b \in Actors : PresentsKept(b)
    BY <2>1, <2>2 DEF PresentsKept, RowOf
  <2> QED
    BY <2>1, <2>3, <2>4, <2>5, TableStep
<1> QED
  BY <1>1, <1>2, <1>3, <1>4, <1>5 DEF Next

LEMMA Invariance == Spec => []Inv
  BY InitInv, NextInv, PTL DEF Spec

\* Every variable keeps its type, and who writes a value knows under which subdomain.
THEOREM TypeCorrect == Spec => []TypeOK
  BY Invariance, InvImplies, PTL

\* Keys and domains belong to users there are, no subdomain has two owners and no user
\* a domain twice, however requests, removals and deletions interleave (create_user,
\* add_user_domain, create_acmedns_account, delete_user).
THEOREM RowsStayOwned == Spec => []RowsOwned
  BY Invariance, InvImplies, PTL

\* A session or a request never acts for another user than the one it authenticated
\* as, since ids are never given twice (AUTOINCREMENT).
THEOREM IdentityStays == Spec => []IdentityKept
  BY Invariance, InvImplies, PTL

\* A present that loses the race to provision its domain finds it (add_user_domain's
\* conflict and the second look of resolve_subdomain).
THEOREM RacesForgiven == Spec => []RaceForgiven
  BY Invariance, InvImplies, PTL
=============================================================================
