------------------------ MODULE ZoneLifecycle_proofs ------------------------
(***************************************************************************)
(* Machine-checked proofs about ZoneLifecycle, for every set of zones and   *)
(* handlers, any operations and faults and every bound: the types and what  *)
(* the startup sync achieves for any overlap of tasks, the rest for tasks   *)
(* that do not overlap.                                                     *)
(***************************************************************************)
EXTENDS ZoneLifecycle, TLAPS

-----------------------------------------------------------------------------
(* Types                                                                    *)

\* Where a task is at one zone
AtZone == {"ns", "reread", "check", "activate", "fail", "unserve", "deactivate", "probe",
           "look", "build", "stamp", "clear", "delete", "expire", "metadata", "adopt",
           "replace"}
Pcs == AtZone \cup {"idle", "pick", "prune", "list"}

Tasks == [pc : Pcs, op : AllOps \cup {"none"}, z : Zones \cup {NoZone},
          rows : [Zones -> Rows], left : SUBSET Zones, seen : SUBSET Zones,
          exempt : BOOLEAN, force : BOOLEAN, ver : Nat, data : 0..MaxId,
          had : {"none", "same", "other"}]

Placed(t) == t \in Tasks /\ (t.pc \in AtZone => t.z \in Zones)

Served == [there : BOOLEAN, stamp : Nat, data : 0..MaxId]

Tables ==
  /\ zone \in [Zones -> Rows] /\ pdns \in [Zones -> Served]
  /\ nextId \in 1..(MaxId + 1)
  /\ \A z \in Zones : zone[z].id < nextId

TypeInv ==
  /\ Tables
  /\ task \in [Actors -> Tasks] /\ \A a \in Actors : Placed(task[a])
  /\ mode \in {"down", "starting", "up"}

\* The stronger types imply those of the runs.
LEMMA TypeInvImplies == TypeInv => TypeOK
BY DEF TypeInv, Tables, TypeOK, Tasks, Served

LEMMA RowTypes ==
  /\ NoRow \in Rows /\ NoRow.id = 0 /\ NoRows \in [Zones -> Rows]
  /\ \A i \in 0..MaxId : RowOf(i) \in Rows /\ RowOf(i).id = i
<1>1. \A i \in 0..MaxId : RowOf(i) \in Rows /\ RowOf(i).id = i
  BY BoundAssumption DEF RowOf, Rows
<1>2. NoRow \in Rows /\ NoRow.id = 0
  <2> DEFINE r == RowOf(0)
  <2>1. r \in Rows /\ r.id = 0
    BY <1>1, BoundAssumption
  <2>2. NoRow = [r EXCEPT !.ver = 0]
    BY DEF NoRow
  <2> HIDE DEF r
  <2> QED
    BY <2>1, <2>2 DEF Rows
<1> QED
  BY <1>1, <1>2 DEF NoRows

LEMMA IdleType ==
  /\ Idle \in Tasks /\ Placed(Idle)
  /\ Idle.pc = "idle" /\ Idle.op = "none" /\ Idle.z = NoZone /\ Idle.rows = NoRows
  /\ Idle.left = {} /\ Idle.seen = {} /\ Idle.force = FALSE
<1>1. Idle \in Tasks
  BY RowTypes, BoundAssumption DEF Idle, Tasks, Pcs
<1>2. Idle.pc = "idle" /\ Idle.op = "none" /\ Idle.z = NoZone /\ Idle.rows = NoRows
      /\ Idle.left = {} /\ Idle.seen = {} /\ Idle.force = FALSE
  BY DEF Idle
<1> QED
  BY <1>1, <1>2 DEF Placed, AtZone

LEMMA NoServedType == NoServed \in Served /\ NoServed.there = FALSE
BY BoundAssumption DEF NoServed, Served

\* A loop that goes on keeps its rows and its list.
LEMMA ContinueType ==
  ASSUME NEW t \in Tasks
  PROVE  /\ Placed(Continue(t))
         /\ t.op \in {"checks", "sync", "delete_user"} =>
              /\ Continue(t).pc = "pick" /\ Continue(t).op = t.op
              /\ Continue(t).rows = t.rows /\ Continue(t).left = t.left
              /\ Continue(t).seen = t.seen
<1>1. CASE t.op \in {"checks", "sync", "delete_user"}
  <2> DEFINE c == [t EXCEPT !.pc = "pick", !.z = NoZone, !.exempt = FALSE, !.ver = 0,
                            !.data = 0, !.had = "none"]
  <2>1. Continue(t) = c
    BY <1>1 DEF Continue
  <2>2. 0 \in 0..MaxId /\ "pick" \in Pcs
    BY BoundAssumption DEF Pcs
  <2>3. c \in Tasks
    BY <2>2 DEF Tasks
  <2>4. c.pc = "pick" /\ c.op = t.op /\ c.rows = t.rows /\ c.left = t.left
        /\ c.seen = t.seen
    BY DEF Tasks
  <2> HIDE DEF c
  <2> QED
    BY <2>1, <2>3, <2>4 DEF Placed, AtZone
<1>2. CASE t.op \notin {"checks", "sync", "delete_user"}
  BY <1>2, IdleType DEF Continue
<1> QED
  BY <1>1, <1>2

LEMMA AfterPrunePlaced ==
  ASSUME NEW t \in Tasks
  PROVE  Placed(AfterPrune(t))
<1> DEFINE c == Continue(t)
<1> DEFINE p == [c EXCEPT !.left = Active(t.rows)]
<1> DEFINE n == [c EXCEPT !.pc = "prune"]
<1>1. c \in Tasks /\ Placed(c) /\ Active(t.rows) \subseteq Zones
  BY ContinueType DEF Placed, Active
<1>2. AfterPrune(t) = p \/ AfterPrune(t) = n
  BY DEF AfterPrune
<1> HIDE DEF c
<1>3. p \in Tasks /\ p.pc = c.pc /\ p.z = c.z /\ n \in Tasks /\ n.pc = "prune"
  BY <1>1 DEF Tasks, Pcs
<1> HIDE DEF p, n
<1> QED
  BY <1>1, <1>2, <1>3 DEF Placed, AtZone

LEMMA AfterPruneType ==
  ASSUME NEW t \in Tasks, t.op = "sync"
  PROVE  LET n == AfterPrune(t) IN
         /\ Placed(n) /\ n.op = "sync" /\ n.rows = t.rows /\ n.seen = t.seen
         /\ n.pc = IF t.left = {} THEN "pick" ELSE "prune"
         /\ n.left = IF t.left = {} THEN Active(t.rows) ELSE t.left
<1> DEFINE c == Continue(t)
<1>1. c \in Tasks /\ c.pc = "pick" /\ c.op = "sync" /\ c.rows = t.rows /\ c.left = t.left
      /\ c.seen = t.seen
  BY ContinueType DEF Placed
<1>2. Active(t.rows) \subseteq Zones
  BY DEF Active
<1> HIDE DEF c
<1>3. CASE t.left = {}
  <2>1. AfterPrune(t) = [c EXCEPT !.left = Active(t.rows)]
    BY <1>3 DEF AfterPrune, c
  <2> DEFINE n == [c EXCEPT !.left = Active(t.rows)]
  <2>2. n \in Tasks /\ n.pc = "pick" /\ n.op = "sync" /\ n.rows = t.rows /\ n.seen = t.seen
        /\ n.left = Active(t.rows)
    BY <1>1, <1>2 DEF Tasks
  <2> HIDE DEF n
  <2> QED
    BY <1>3, <2>1, <2>2 DEF Placed, AtZone, n
<1>4. CASE t.left # {}
  <2>1. AfterPrune(t) = [c EXCEPT !.pc = "prune"]
    BY <1>4 DEF AfterPrune, c
  <2> DEFINE n == [c EXCEPT !.pc = "prune"]
  <2>2. n \in Tasks /\ n.pc = "prune" /\ n.op = "sync" /\ n.rows = t.rows /\ n.seen = t.seen
        /\ n.left = t.left
    BY <1>1 DEF Tasks, Pcs
  <2> HIDE DEF n
  <2> QED
    BY <1>4, <2>1, <2>2 DEF Placed, AtZone, n
<1> QED
  BY <1>3, <1>4

-----------------------------------------------------------------------------

\* A step of one task
LEMMA TaskStep ==
  ASSUME TypeInv, NEW a \in Actors, NEW t, Goto(a, t), Placed(t), Tables',
         mode' \in {"down", "starting", "up"}
  PROVE  TypeInv'
<1>1. task' \in [Actors -> Tasks] /\ \A b \in Actors : task'[b] = IF b = a THEN t ELSE task[b]
  BY DEF Goto, TypeInv, Placed
<1>2. \A b \in Actors : Placed(task[b])'
  BY <1>1 DEF TypeInv, Placed
<1> QED
  BY <1>1, <1>2 DEF TypeInv

\* A step that changes one row
LEMMA RowStep ==
  ASSUME TypeInv, NEW a \in Actors, task[a].z \in Zones, NEW r \in Rows, SetRow(a, r),
         r.id \in {0, zone[task[a].z].id}, UNCHANGED <<pdns, nextId>>
  PROVE  Tables'
<1>1. zone' = [zone EXCEPT ![task[a].z] = r]
  BY DEF SetRow
<1>2. nextId \in 1..(MaxId + 1) /\ MaxId \in Nat
  BY BoundAssumption DEF TypeInv, Tables
<1>3. \A z \in Zones : zone'[z].id < nextId
  BY <1>1, <1>2 DEF TypeInv, Tables
<1> QED
  BY <1>1, <1>3 DEF TypeInv, Tables

\* The end of a task by an error
LEMMA FailsType ==
  ASSUME TypeInv, NEW a \in Actors, Fails(a), Tables'
  PROVE  TypeInv'
<1>1. task[a] \in Tasks
  BY DEF TypeInv
<1>2. mode' \in {"down", "starting", "up"}
  BY DEF Fails, TypeInv
<1> DEFINE t == IF task[a].op = "checks" /\ ~At(a, "expire") THEN Continue(task[a]) ELSE Idle
<1>3. Goto(a, t)
  BY DEF Fails
<1>4. Placed(t)
  BY <1>1, IdleType, ContinueType
<1> HIDE DEF t
<1> QED
  BY <1>2, <1>3, <1>4, TaskStep

LEMMA SameTables ==
  ASSUME TypeInv, UNCHANGED <<zone, pdns, nextId>>
  PROVE  Tables'
BY DEF TypeInv, Tables

LEMMA BeginType ==
  ASSUME TypeInv, NEW a \in Actors, NEW z \in Zones, NEW o \in AllOps, NEW pc \in Pcs,
         Begin(a, o, z, pc)
  PROVE  TypeInv'
<1> DEFINE e == (o = "exempt" \/ zone[z].exempt)
<1> DEFINE rows == [NoRows EXCEPT ![z] = zone[z]]
<1> DEFINE t == [Idle EXCEPT !.pc = pc, !.op = o, !.z = z, !.exempt = e, !.rows = rows]
<1>1. Goto(a, t) /\ UNCHANGED <<zone, nextId, pdns, mode>>
  BY DEF Begin
<1>2. zone[z] \in Rows
  BY DEF TypeInv, Tables
<1>3. rows \in [Zones -> Rows]
  BY <1>2, RowTypes
<1>4. e \in BOOLEAN
  BY <1>2 DEF Rows
<1> HIDE DEF rows, e
<1>5. t \in Tasks /\ t.z = z
  BY <1>3, <1>4, IdleType DEF Tasks
<1>6. Placed(t)
  BY <1>5 DEF Placed
<1> HIDE DEF t
<1> QED
  BY <1>1, <1>6, SameTables, TaskStep DEF TypeInv

LEMMA CreateType ==
  ASSUME TypeInv, NEW a \in Actors, NEW z \in Zones, Create(a, z)
  PROVE  TypeInv'
<1> DEFINE r == RowOf(nextId)
<1> DEFINE rows == [NoRows EXCEPT ![z] = r]
<1> DEFINE t == [Idle EXCEPT !.pc = "ns", !.op = "create", !.z = z, !.rows = rows]
<1>1. /\ Goto(a, t) /\ UNCHANGED <<pdns, mode>> /\ nextId <= MaxId
      /\ zone' = [zone EXCEPT ![z] = r] /\ nextId' = nextId + 1
  BY DEF Create, AfterId
<1>2. nextId \in Nat /\ nextId \in 0..MaxId /\ nextId' \in 1..(MaxId + 1)
  BY <1>1, BoundAssumption DEF TypeInv, Tables
<1>3. r \in Rows /\ r.id = nextId
  BY <1>2, RowTypes
<1> HIDE DEF r
<1>4. rows \in [Zones -> Rows]
  BY <1>3, RowTypes
<1> HIDE DEF rows
<1>5. Tables'
  <2>1. \A x \in Zones : zone[x].id \in Nat /\ zone[x].id < nextId
    BY BoundAssumption DEF TypeInv, Tables, Rows
  <2>2. \A x \in Zones : zone'[x].id < nextId'
    BY <1>1, <1>2, <1>3, <2>1 DEF TypeInv, Tables
  <2> QED
    BY <1>1, <1>2, <1>3, <2>2 DEF TypeInv, Tables
<1>6. t \in Tasks /\ t.z = z
  BY <1>4, IdleType DEF Tasks, Pcs, AtZone, AllOps
<1> HIDE DEF t
<1> QED
  BY <1>1, <1>5, <1>6, TaskStep DEF TypeInv, Placed

LEMMA RequestType ==
  ASSUME TypeInv, NEW h \in Handlers, Request(h)
  PROVE  TypeInv'
<1>0. h \in Actors
  BY DEF Actors
<1>1. ASSUME NEW z \in Zones,
             Verify(h, z) \/ Exempt(h, z) \/ ClearExemption(h, z) \/ Delete(h, z)
      PROVE  TypeInv'
  <2>1. \/ Begin(h, "verify", z, "check") \/ Begin(h, "exempt", z, "activate")
        \/ Begin(h, "clear", z, "clear") \/ Begin(h, "delete", z, "unserve")
    BY <1>1 DEF Verify, Exempt, ClearExemption, Delete
  <2>2. {"verify", "exempt", "clear", "delete"} \subseteq AllOps
        /\ {"check", "activate", "clear", "unserve"} \subseteq Pcs
    BY DEF AllOps, Pcs, AtZone
  <2> QED
    BY <1>0, <2>1, <2>2, BeginType
<1>2. ASSUME NEW z \in Zones, Create(h, z)
      PROVE  TypeInv'
    BY <1>0, <1>2, CreateType
<1>3. CASE DeleteUser(h)
  <2> DEFINE left == {z \in Zones : Exists(z)}
  <2> DEFINE t == [Idle EXCEPT !.pc = "pick", !.op = "delete_user", !.left = left]
  <2>1. Goto(h, t) /\ UNCHANGED <<zone, nextId, pdns, mode>>
    BY <1>3 DEF DeleteUser
  <2>2. left \subseteq Zones
    OBVIOUS
  <2> HIDE DEF left
  <2>3. t \in Tasks /\ t.pc = "pick"
    BY <2>2, IdleType DEF Tasks, Pcs, AllOps
  <2> HIDE DEF t
  <2> QED
    BY <1>0, <2>1, <2>3, SameTables, TaskStep DEF TypeInv, Placed, AtZone
<1>4. CASE AdminSync(h)
  <2> DEFINE t == [Idle EXCEPT !.pc = "list", !.op = "sync", !.rows = zone, !.force = TRUE]
  <2>1. Goto(h, t) /\ UNCHANGED <<zone, nextId, pdns, mode>>
    BY <1>4 DEF AdminSync, SyncTask
  <2>2. t \in Tasks /\ t.pc = "list"
    BY IdleType DEF Tasks, Pcs, AllOps, TypeInv, Tables
  <2> HIDE DEF t
  <2> QED
    BY <1>0, <2>1, <2>2, SameTables, TaskStep DEF TypeInv, Placed, AtZone
<1> QED
  BY <1>1, <1>2, <1>3, <1>4 DEF Request

-----------------------------------------------------------------------------

\* A task that only moves on within its zone
LEMMA ToType ==
  ASSUME TypeInv, NEW a \in Actors, NEW pc \in AtZone, To(a, pc), task[a].pc \in AtZone,
         Tables', mode' = mode
  PROVE  TypeInv'
<1> DEFINE t == [task[a] EXCEPT !.pc = pc]
<1>1. Goto(a, t)
  BY DEF To
<1>2. task[a] \in Tasks /\ task[a].z \in Zones
  BY DEF TypeInv, Placed
<1>3. t \in Tasks /\ t.z = task[a].z
  BY <1>2 DEF Tasks, Pcs
<1> HIDE DEF t
<1> QED
  BY <1>1, <1>2, <1>3, TaskStep DEF TypeInv, Placed

LEMMA AtType ==
  ASSUME TypeInv, NEW a \in Actors
  PROVE  /\ task[a] \in Tasks /\ Placed(task[a]) /\ zone \in [Zones -> Rows]
         /\ mode \in {"down", "starting", "up"}
         /\ task[a].pc \in AtZone => task[a].z \in Zones /\ zone[task[a].z] \in Rows
         /\ Placed(Continue(task[a])) /\ Placed(Idle)
BY ContinueType, IdleType DEF TypeInv, Tables, Placed

LEMMA ApplyNsType ==
  ASSUME TypeInv, NEW a \in Actors, ApplyNs(a)
  PROVE  TypeInv'
<1> DEFINE z == task[a].z
<1> DEFINE s == Snap(a).id
<1> DEFINE r == [zone[z] EXCEPT !.data = s, !.ver = @ + 1]
<1>1. At(a, "ns") /\ SetRow(a, r) /\ To(a, "reread") /\ UNCHANGED <<nextId, pdns, mode>>
  BY DEF ApplyNs
<1>2. task[a].pc \in AtZone /\ "reread" \in AtZone
  BY <1>1 DEF At, AtZone
<1>3. z \in Zones /\ zone[z] \in Rows /\ task[a].rows \in [Zones -> Rows]
  BY <1>2, AtType DEF Tasks
<1>4. s \in 0..MaxId
  BY <1>3 DEF Snap, Rows
<1> HIDE DEF s
<1>5. zone[z].ver + 1 \in Nat
  BY <1>3 DEF Rows
<1>6. r \in Rows /\ r.id = zone[z].id
  BY <1>3, <1>4, <1>5 DEF Rows
<1> HIDE DEF r
<1>7. Tables'
  BY <1>1, <1>3, <1>6, RowStep
<1> QED
  BY <1>1, <1>2, <1>7, ToType

LEMMA RereadType ==
  ASSUME TypeInv, NEW a \in Actors, Reread(a)
  PROVE  TypeInv'
<1> DEFINE z == task[a].z
<1> DEFINE pc == IF task[a].op = "sync" THEN "look" ELSE "check"
<1> DEFINE t == [task[a] EXCEPT !.pc = pc, !.ver = zone[z].ver, !.exempt = zone[z].exempt,
                                !.rows[z] = zone[z]]
<1>1. At(a, "reread") /\ UNCHANGED <<zone, nextId, pdns>>
      /\ ((UNCHANGED mode /\ Goto(a, t)) \/ Fails(a))
  BY DEF Reread
<1>2. Tables'
  BY <1>1, SameTables
<1>3. task[a] \in Tasks /\ z \in Zones /\ zone[z] \in Rows
  BY <1>1, AtType DEF At, AtZone
<1>4. zone[z].ver \in Nat /\ zone[z].exempt \in BOOLEAN
  BY <1>3 DEF Rows
<1>5. pc \in Pcs
  BY DEF Pcs, AtZone
<1> HIDE DEF pc
<1>6. t \in Tasks /\ t.z = z
  BY <1>3, <1>4, <1>5 DEF Tasks
<1> HIDE DEF t
<1>7. Placed(t)
  BY <1>3, <1>6 DEF Placed
<1> QED
  BY <1>1, <1>2, <1>7, AtType, FailsType, TaskStep

LEMMA CheckType ==
  ASSUME TypeInv, NEW a \in Actors, Delegated(a) \/ NotDelegated(a)
  PROVE  TypeInv'
<1>1. /\ At(a, "check") /\ UNCHANGED <<zone, nextId, pdns, mode>>
      /\ To(a, "activate") \/ To(a, "fail")
  BY DEF Delegated, NotDelegated
<1>2. task[a].pc \in AtZone /\ {"activate", "fail"} \subseteq AtZone
  BY <1>1 DEF At, AtZone
<1>3. Tables'
  BY <1>1, SameTables
<1> QED
  BY <1>1, <1>2, <1>3, ToType

LEMMA RecordFailureType ==
  ASSUME TypeInv, NEW a \in Actors, RecordFailure(a)
  PROVE  TypeInv'
<1> DEFINE z == task[a].z
<1> DEFINE r == Failed(zone[z])
<1> DEFINE u == [task[a] EXCEPT !.pc = "unserve"]
<1> DEFINE t == IF GivesUp(r) THEN u ELSE Continue(task[a])
<1>1. At(a, "fail") /\ SetRow(a, r) /\ Goto(a, t) /\ UNCHANGED <<nextId, pdns, mode>>
  BY DEF RecordFailure
<1>2. task[a] \in Tasks /\ z \in Zones /\ zone[z] \in Rows
  BY <1>1, AtType DEF At, AtZone
<1>3. r \in Rows /\ r.id = zone[z].id
  <2> DEFINE n == IF zone[z].fails < MaxFails THEN zone[z].fails + 1 ELSE zone[z].fails
  <2>1. n \in 0..MaxFails
    BY <1>2, BoundAssumption DEF Rows
  <2>2. r = [zone[z] EXCEPT !.fails = n]
    BY DEF Failed
  <2> HIDE DEF n, r
  <2> QED
    BY <1>2, <2>1, <2>2 DEF Rows
<1>4. u \in Tasks /\ u.z = z
  BY <1>2 DEF Tasks, Pcs, AtZone
<1> HIDE DEF u, r
<1>5. Placed(t)
  BY <1>2, <1>4, AtType DEF Placed
<1> HIDE DEF t
<1>6. Tables'
  BY <1>1, <1>2, <1>3, RowStep
<1> QED
  BY <1>1, <1>5, <1>6, AtType, TaskStep

LEMMA DeactivateRowType ==
  ASSUME TypeInv, NEW a \in Actors, DeactivateRow(a)
  PROVE  TypeInv'
<1> DEFINE z == task[a].z
<1> DEFINE r == [zone[z] EXCEPT !.active = FALSE, !.exempt = FALSE, !.ver = @ + 1]
<1>1. At(a, "deactivate") /\ SetRow(a, r) /\ Goto(a, Continue(task[a]))
      /\ UNCHANGED <<nextId, pdns, mode>>
  BY DEF DeactivateRow
<1>2. z \in Zones /\ zone[z] \in Rows
  BY <1>1, AtType DEF At, AtZone
<1>3. zone[z].ver + 1 \in Nat
  BY <1>2 DEF Rows
<1>4. r \in Rows /\ r.id = zone[z].id
  BY <1>2, <1>3 DEF Rows
<1> HIDE DEF r
<1>5. Tables'
  BY <1>1, <1>2, <1>4, RowStep
<1> QED
  BY <1>1, <1>5, AtType, TaskStep

LEMMA ActivateRowType ==
  ASSUME TypeInv, NEW a \in Actors, ActivateRow(a)
  PROVE  TypeInv'
<1> DEFINE z == task[a].z
<1> DEFINE r == Activated(zone[z], task[a].exempt)
<1> DEFINE pc == IF Snap(a).active THEN "probe" ELSE "look"
<1> DEFINE t == [task[a] EXCEPT !.pc = pc, !.ver = r.ver]
<1>1. At(a, "activate") /\ SetRow(a, r) /\ Goto(a, t) /\ UNCHANGED <<nextId, pdns, mode>>
  BY DEF ActivateRow
<1>2. task[a] \in Tasks /\ z \in Zones /\ zone[z] \in Rows
  BY <1>1, AtType DEF At, AtZone
<1>3. r \in Rows /\ r.id = zone[z].id
  <2> DEFINE n == IF zone[z].active THEN zone[z].ver ELSE zone[z].ver + 1
  <2>1. n \in Nat
    BY <1>2 DEF Rows
  <2>2. task[a].exempt \in BOOLEAN
    BY <1>2 DEF Tasks
  <2>3. r = [zone[z] EXCEPT !.active = TRUE, !.exempt = task[a].exempt, !.fails = 0, !.ver = n]
    BY DEF Activated
  <2>4. 0 \in 0..MaxFails
    BY BoundAssumption
  <2> HIDE DEF n, r
  <2> QED
    BY <1>2, <2>1, <2>2, <2>3, <2>4 DEF Rows
<1>4. r.ver \in Nat
  BY <1>3 DEF Rows
<1>5. pc \in Pcs
  BY DEF Pcs, AtZone
<1> HIDE DEF r, pc
<1>6. t \in Tasks /\ t.z = z
  BY <1>2, <1>4, <1>5 DEF Tasks
<1> HIDE DEF t
<1>7. Tables'
  BY <1>1, <1>2, <1>3, RowStep
<1> QED
  BY <1>1, <1>2, <1>6, <1>7, AtType, TaskStep DEF Placed

LEMMA ProbeType ==
  ASSUME TypeInv, NEW a \in Actors, Probe(a)
  PROVE  TypeInv'
<1> DEFINE l == [task[a] EXCEPT !.pc = "look"]
<1> DEFINE t == IF There(task[a].z) THEN Continue(task[a]) ELSE l
<1>1. At(a, "probe") /\ Goto(a, t) /\ UNCHANGED <<zone, nextId, pdns, mode>>
  BY DEF Probe
<1>2. task[a] \in Tasks /\ task[a].z \in Zones
  BY <1>1, AtType DEF At, AtZone
<1>3. l \in Tasks /\ l.z = task[a].z
  BY <1>2 DEF Tasks, Pcs, AtZone
<1> HIDE DEF l
<1>4. Placed(t)
  BY <1>2, <1>3, AtType DEF Placed
<1> HIDE DEF t
<1> QED
  BY <1>1, <1>4, AtType, SameTables, TaskStep

LEMMA ClearRowType ==
  ASSUME TypeInv, NEW a \in Actors, ClearRow(a)
  PROVE  TypeInv'
<1> DEFINE z == task[a].z
<1> DEFINE r == [zone[z] EXCEPT !.exempt = FALSE, !.fails = 0]
<1>1. At(a, "clear") /\ SetRow(a, r) /\ Goto(a, Idle) /\ UNCHANGED <<nextId, pdns, mode>>
  BY DEF ClearRow
<1>2. z \in Zones /\ zone[z] \in Rows
  BY <1>1, AtType DEF At, AtZone
<1>3. 0 \in 0..MaxFails
  BY BoundAssumption
<1>4. r \in Rows /\ r.id = zone[z].id
  BY <1>2, <1>3 DEF Rows
<1> HIDE DEF r
<1>5. Tables'
  BY <1>1, <1>2, <1>4, RowStep
<1> QED
  BY <1>1, <1>5, AtType, TaskStep

-----------------------------------------------------------------------------

LEMMA LookType ==
  ASSUME TypeInv, NEW a \in Actors, Look(a)
  PROVE  TypeInv'
<1> DEFINE z == task[a].z
<1> DEFINE d == IF Mine(a) THEN zone[z].data ELSE 0
<1> DEFINE h == IF ~There(z) THEN "none" ELSE IF pdns[z].data = d THEN "same" ELSE "other"
<1> DEFINE t == [task[a] EXCEPT !.pc = "build", !.data = d, !.had = h]
<1>1. At(a, "look") /\ Goto(a, t) /\ UNCHANGED <<zone, nextId, pdns, mode>>
  BY DEF Look
<1>2. task[a] \in Tasks /\ z \in Zones /\ zone[z] \in Rows
  BY <1>1, AtType DEF At, AtZone
<1>3. d \in 0..MaxId
  BY <1>2, BoundAssumption DEF Rows
<1>4. h \in {"none", "same", "other"}
  OBVIOUS
<1> HIDE DEF d, h
<1>5. t \in Tasks /\ t.z = z
  BY <1>2, <1>3, <1>4 DEF Tasks, Pcs, AtZone
<1> HIDE DEF t
<1> QED
  BY <1>1, <1>2, <1>5, AtType, SameTables, TaskStep DEF Placed

LEMMA BuiltType ==
  ASSUME TypeInv, NEW a \in Actors, task[a].z \in Zones
  PROVE  Built(task[a]) \in [Zones -> Served] /\ Unserved(task[a]) \in [Zones -> Served]
<1> DEFINE z == task[a].z
<1> DEFINE d == task[a].data
<1>1. pdns \in [Zones -> Served] /\ d \in 0..MaxId
  BY DEF TypeInv, Tables, Tasks
<1>2. Unserved(task[a]) \in [Zones -> Served]
  BY <1>1, NoServedType DEF Unserved
<1>3. [pdns EXCEPT ![z].there = TRUE, ![z].data = d] \in [Zones -> Served]
  <2> DEFINE v == [pdns[z] EXCEPT !.there = TRUE, !.data = d]
  <2>1. v \in Served
    BY <1>1 DEF Served
  <2>2. [pdns EXCEPT ![z].there = TRUE, ![z].data = d] = [pdns EXCEPT ![z] = v]
    BY <1>1
  <2> HIDE DEF v
  <2> QED
    BY <1>1, <2>1, <2>2
<1> QED
  BY <1>1, <1>2, <1>3 DEF Built

\* A step that changes what PowerDNS has
LEMMA ServedStep ==
  ASSUME TypeInv, pdns' \in [Zones -> Served], UNCHANGED <<zone, nextId>>
  PROVE  Tables'
BY DEF TypeInv, Tables

LEMMA BuildType ==
  ASSUME TypeInv, NEW a \in Actors, Build(a)
  PROVE  TypeInv'
<1> DEFINE t == [task[a] EXCEPT !.pc = "stamp"]
<1>1. At(a, "build") /\ pdns' = Built(task[a]) /\ Goto(a, t) /\ UNCHANGED <<zone, nextId, mode>>
  BY DEF Build
<1>2. task[a] \in Tasks /\ task[a].z \in Zones
  BY <1>1, AtType DEF At, AtZone
<1>3. Tables'
  BY <1>1, <1>2, BuiltType, ServedStep
<1>4. t \in Tasks /\ t.z = task[a].z
  BY <1>2 DEF Tasks, Pcs, AtZone
<1> HIDE DEF t
<1> QED
  BY <1>1, <1>2, <1>3, <1>4, AtType, TaskStep DEF Placed

LEMMA StampZoneType ==
  ASSUME TypeInv, NEW a \in Actors, StampZone(a)
  PROVE  TypeInv'
<1> DEFINE z == task[a].z
<1> DEFINE v == [pdns[z] EXCEPT !.stamp = task[a].ver]
<1>1. /\ At(a, "stamp") /\ Goto(a, Continue(task[a])) /\ UNCHANGED <<zone, nextId, mode>>
      /\ pdns' = [pdns EXCEPT ![z].stamp = task[a].ver]
  BY DEF StampZone
<1>2. z \in Zones /\ task[a].ver \in Nat /\ pdns \in [Zones -> Served]
  BY <1>1, AtType DEF At, AtZone, Tasks, TypeInv, Tables
<1>3. v \in Served
  BY <1>2 DEF Served
<1>4. pdns' = [pdns EXCEPT ![z] = v]
  BY <1>1, <1>2
<1> HIDE DEF v
<1>5. Tables'
  BY <1>1, <1>2, <1>3, <1>4, ServedStep
<1> QED
  BY <1>1, <1>5, AtType, TaskStep

LEMMA UnserveType ==
  ASSUME TypeInv, NEW a \in Actors, Unserve(a)
  PROVE  TypeInv'
<1> DEFINE z == task[a].z
<1> DEFINE d == [task[a] EXCEPT !.pc = "delete"]
<1> DEFINE i == [task[a] EXCEPT !.pc = "deactivate"]
<1>1. pdns' = Unserved(task[a]) /\ UNCHANGED <<zone, nextId, mode>>
  BY DEF Unserve
<1>2. task[a] \in Tasks /\ z \in Zones
  BY AtType DEF Unserve, At, AtZone
<1>3. Tables'
  BY <1>1, <1>2, BuiltType, ServedStep
<1>4. d \in Tasks /\ d.z = z /\ i \in Tasks /\ i.z = z
  BY <1>2 DEF Tasks, Pcs, AtZone
<1>5. \/ task[a].op = "delete" /\ Goto(a, d)
      \/ task[a].op = "delete_user" /\ Goto(a, Continue(task[a]))
      \/ task[a].op = "sync" /\ Goto(a, AfterPrune(task[a]))
      \/ Goto(a, i)
  BY DEF Unserve
<1> HIDE DEF d, i
<1>6. Placed(AfterPrune(task[a]))
  BY <1>2, AfterPrunePlaced
<1> QED
  BY <1>1, <1>2, <1>3, <1>4, <1>5, <1>6, AtType, TaskStep DEF Placed

LEMMA DeleteRowType ==
  ASSUME TypeInv, NEW a \in Actors, DeleteRow(a)
  PROVE  TypeInv'
<1>1. /\ task[a].pc \in {"delete", "expire"} /\ SetRow(a, NoRow) /\ Goto(a, Continue(task[a]))
      /\ UNCHANGED <<nextId, pdns, mode>>
  BY DEF DeleteRow
<1>2. task[a].z \in Zones
  BY <1>1, AtType DEF AtZone
<1>3. Tables'
  BY <1>1, <1>2, RowTypes, RowStep
<1> QED
  BY <1>1, <1>3, AtType, TaskStep

LEMMA ErrorType ==
  ASSUME TypeInv, NEW a \in Actors,
         CheckInconclusive(a) \/ Rejected(a) \/ NotFound(a) \/ CallFails(a)
  PROVE  TypeInv'
<1>1. Fails(a) /\ UNCHANGED <<zone, nextId, pdns>>
  BY DEF CheckInconclusive, Rejected, NotFound, CallFails
<1> QED
  BY <1>1, SameTables, FailsType

LEMMA LateAnswerType ==
  ASSUME TypeInv, NEW a \in Actors, LateAnswer(a)
  PROVE  TypeInv'
<1>1. Fails(a) /\ UNCHANGED <<zone, nextId>>
      /\ task[a].pc \in AtZone /\ (pdns' = Built(task[a]) \/ pdns' = Unserved(task[a]))
  BY DEF LateAnswer, At, AtZone
<1>2. Tables'
  BY <1>1, AtType, BuiltType, ServedStep
<1> QED
  BY <1>1, <1>2, FailsType

LEMMA DeleteUserRowsType ==
  ASSUME TypeInv, NEW a \in Actors, DeleteUserRows(a)
  PROVE  TypeInv'
<1>1. zone' = NoRows /\ Goto(a, Idle) /\ UNCHANGED <<nextId, pdns, mode>>
  BY DEF DeleteUserRows
<1>2. nextId \in 1..(MaxId + 1) /\ 0 < nextId
  BY BoundAssumption DEF TypeInv, Tables
<1>3. \A z \in Zones : zone'[z].id = 0
  BY <1>1, RowTypes DEF NoRows
<1>4. Tables'
  BY <1>1, <1>2, <1>3, RowTypes DEF TypeInv, Tables
<1> QED
  BY <1>1, <1>4, AtType, TaskStep

-----------------------------------------------------------------------------

LEMMA PickType ==
  ASSUME TypeInv, NEW a \in Actors, NEW z \in Zones, NEW pc \in Pcs, Pick(a, z, pc)
  PROVE  TypeInv'
<1> DEFINE e == task[a].rows[z].exempt
<1> DEFINE v == task[a].rows[z].ver
<1> DEFINE l == task[a].left \ {z}
<1> DEFINE t == [task[a] EXCEPT !.pc = pc, !.z = z, !.left = l, !.exempt = e, !.ver = v]
<1>1. Goto(a, t) /\ UNCHANGED <<zone, nextId, pdns, mode>>
  BY DEF Pick
<1>2. task[a] \in Tasks
  BY AtType
<1>3. e \in BOOLEAN /\ v \in Nat /\ l \subseteq Zones
  BY <1>2 DEF Tasks, Rows
<1> HIDE DEF e, v, l
<1>4. t \in Tasks /\ t.z = z
  BY <1>2, <1>3 DEF Tasks
<1> HIDE DEF t
<1> QED
  BY <1>1, <1>4, AtType, SameTables, TaskStep DEF Placed

LEMMA LoopType ==
  ASSUME TypeInv, NEW a \in Actors, NEW z \in Zones,
         \/ RemoveNext(a, z) \/ PruneNext(a, z) \/ SyncNext(a, z)
         \/ a = Main /\ (CheckDue(z) \/ ExpirePending(z))
  PROVE  TypeInv'
<1>1. {"unserve", "metadata", "check", "expire"} \subseteq Pcs
  BY DEF Pcs, AtZone
<1>2. Pick(a, z, "unserve") \/ Pick(a, z, "metadata") \/ Pick(a, z, "check") \/ Pick(a, z, "expire")
  BY DEF RemoveNext, PruneNext, SyncNext, CheckDue, ExpirePending
<1> QED
  BY <1>1, <1>2, PickType

LEMMA NotDueType ==
  ASSUME TypeInv, NEW z \in Zones, NotDue(z)
  PROVE  TypeInv'
<1> DEFINE l == task[Main].left \ {z}
<1> DEFINE t == [task[Main] EXCEPT !.left = l]
<1>0. Main \in Actors
  BY DEF Actors
<1>1. Goto(Main, t) /\ UNCHANGED <<zone, nextId, pdns, mode>> /\ task[Main].pc = "pick"
  BY DEF NotDue, InLoop, At
<1>2. task[Main] \in Tasks
  BY <1>0, AtType
<1>3. l \subseteq Zones
  BY <1>2 DEF Tasks
<1> HIDE DEF l
<1>4. t \in Tasks /\ t.pc = "pick"
  BY <1>1, <1>2, <1>3 DEF Tasks
<1> HIDE DEF t
<1> QED
  BY <1>0, <1>1, <1>4, AtType, SameTables, TaskStep DEF Placed, AtZone

LEMMA FinishType ==
  ASSUME TypeInv, NEW a \in Actors, Finish(a)
  PROVE  TypeInv'
<1>1. Goto(a, Idle) /\ UNCHANGED <<zone, nextId, pdns>>
      /\ mode' = IF mode = "starting" THEN "up" ELSE mode
  BY DEF Finish
<1> QED
  BY <1>1, AtType, SameTables, TaskStep

LEMMA RunChecksType ==
  ASSUME TypeInv, RunChecks
  PROVE  TypeInv'
<1>0. Main \in Actors
  BY DEF Actors
<1> DEFINE left == {z \in Zones : Exists(z) /\ ~zone[z].exempt /\ Room(z)}
<1>1. PICK old \in SUBSET Zones :
        Goto(Main, [Idle EXCEPT !.pc = "pick", !.op = "checks", !.rows = zone, !.left = left,
                                !.seen = old])
  BY DEF RunChecks
<1> DEFINE t == [Idle EXCEPT !.pc = "pick", !.op = "checks", !.rows = zone, !.left = left,
                             !.seen = old]
<1>2. UNCHANGED <<zone, nextId, pdns, mode>>
  BY DEF RunChecks
<1>3. left \subseteq Zones
  OBVIOUS
<1> HIDE DEF left
<1>4. t \in Tasks /\ t.pc = "pick"
  BY <1>3, IdleType DEF Tasks, Pcs, AllOps, TypeInv, Tables
<1>5. Goto(Main, t)
  BY <1>1
<1> HIDE DEF t
<1> QED
  BY <1>0, <1>2, <1>4, <1>5, AtType, SameTables, TaskStep DEF Placed, AtZone

LEMMA StartType ==
  ASSUME TypeInv, Start
  PROVE  TypeInv'
<1>0. Main \in Actors
  BY DEF Actors
<1> DEFINE t == [Idle EXCEPT !.pc = "list", !.op = "sync", !.rows = zone, !.force = FALSE]
<1>1. Goto(Main, t) /\ mode' = "starting" /\ UNCHANGED <<zone, nextId, pdns>>
  BY DEF Start, SyncTask
<1>2. t \in Tasks /\ t.pc = "list"
  BY IdleType DEF Tasks, Pcs, AllOps, TypeInv, Tables
<1> HIDE DEF t
<1> QED
  BY <1>0, <1>1, <1>2, SameTables, TaskStep DEF Placed, AtZone

LEMMA ListServedType ==
  ASSUME TypeInv, NEW a \in Actors, ListServed(a)
  PROVE  TypeInv'
<1> DEFINE seen == {z \in Zones : There(z)}
<1> DEFINE left == Unwanted(seen, task[a].rows)
<1> DEFINE t == [task[a] EXCEPT !.seen = seen, !.left = left]
<1>1. Goto(a, AfterPrune(t)) /\ UNCHANGED <<zone, nextId, pdns, mode>>
  BY DEF ListServed
<1>2. seen \subseteq Zones /\ left \subseteq Zones
  BY DEF Unwanted
<1> HIDE DEF left, seen
<1>3. t \in Tasks
  BY <1>2, AtType DEF Tasks
<1> HIDE DEF t
<1> QED
  BY <1>1, <1>3, AfterPrunePlaced, AtType, SameTables, TaskStep

LEMMA ReadStampType ==
  ASSUME TypeInv, NEW a \in Actors, ReadStamp(a)
  PROVE  TypeInv'
<1> DEFINE l == [task[a] EXCEPT !.pc = "look"]
<1> DEFINE d == [task[a] EXCEPT !.pc = "adopt"]
<1>1. /\ At(a, "metadata") /\ UNCHANGED <<zone, nextId, pdns, mode>>
      /\ Goto(a, l) \/ Goto(a, d) \/ Goto(a, Continue(task[a]))
  BY DEF ReadStamp
<1>2. task[a] \in Tasks /\ task[a].z \in Zones
  BY <1>1, AtType DEF At, AtZone
<1>3. l \in Tasks /\ l.z = task[a].z /\ d \in Tasks /\ d.z = task[a].z
  BY <1>2 DEF Tasks, Pcs, AtZone
<1> HIDE DEF l, d
<1> QED
  BY <1>1, <1>2, <1>3, AtType, SameTables, TaskStep DEF Placed

LEMMA AdoptType ==
  ASSUME TypeInv, NEW a \in Actors, Adopt(a)
  PROVE  TypeInv'
<1> DEFINE z == task[a].z
<1> DEFINE d == pdns[z].data
<1> DEFINE r == [task[a] EXCEPT !.pc = "replace", !.data = d]
<1> DEFINE l == [task[a] EXCEPT !.pc = "look"]
<1>1. At(a, "adopt") /\ UNCHANGED <<zone, nextId, pdns, mode>> /\ (Goto(a, r) \/ Goto(a, l))
  BY DEF Adopt
<1>2. task[a] \in Tasks /\ z \in Zones /\ pdns \in [Zones -> Served]
  BY <1>1, AtType DEF At, AtZone, TypeInv, Tables
<1>3. d \in 0..MaxId
  BY <1>2 DEF Served
<1> HIDE DEF d
<1>4. r \in Tasks /\ r.z = z /\ l \in Tasks /\ l.z = z
  BY <1>2, <1>3 DEF Tasks, Pcs, AtZone
<1> HIDE DEF r, l
<1> QED
  BY <1>1, <1>2, <1>4, AtType, SameTables, TaskStep DEF Placed

LEMMA ReplaceRrsetsType ==
  ASSUME TypeInv, NEW a \in Actors, ReplaceRrsets(a)
  PROVE  TypeInv'
<1> DEFINE z == task[a].z
<1> DEFINE r == [zone[z] EXCEPT !.data = task[a].data, !.ver = @ + 1]
<1>1. At(a, "replace") /\ SetRow(a, r) /\ To(a, "reread") /\ UNCHANGED <<nextId, pdns, mode>>
  BY DEF ReplaceRrsets
<1>2. task[a].pc \in AtZone /\ "reread" \in AtZone
  BY <1>1 DEF At, AtZone
<1>3. task[a] \in Tasks /\ z \in Zones /\ zone[z] \in Rows
  BY <1>2, AtType
<1>4. zone[z].ver + 1 \in Nat /\ task[a].data \in 0..MaxId
  BY <1>3 DEF Rows, Tasks
<1>5. r \in Rows /\ r.id = zone[z].id
  BY <1>3, <1>4 DEF Rows
<1> HIDE DEF r
<1>6. Tables'
  BY <1>1, <1>3, <1>5, RowStep
<1> QED
  BY <1>1, <1>2, <1>6, ToType

LEMMA WorldType ==
  ASSUME TypeInv, Crash \/ Wipe
  PROVE  TypeInv'
<1>1. CASE Crash
  BY <1>1, IdleType DEF Crash, TypeInv, Tables
<1>2. CASE Wipe
  BY <1>2, NoServedType DEF Wipe, TypeInv, Tables
<1> QED
  BY <1>1, <1>2

-----------------------------------------------------------------------------

LEMMA StepType ==
  ASSUME TypeInv, NEW a \in Actors, Step(a)
  PROVE  TypeInv'
<1>1. ASSUME ApplyNs(a) \/ Reread(a) \/ Delegated(a) \/ RecordFailure(a) \/ DeactivateRow(a)
             \/ ActivateRow(a) \/ Probe(a) \/ ClearRow(a)
      PROVE  TypeInv'
  BY <1>1, ApplyNsType, RereadType, CheckType, RecordFailureType, DeactivateRowType,
     ActivateRowType, ProbeType, ClearRowType
<1>2. ASSUME Look(a) \/ Build(a) \/ StampZone(a) \/ Rejected(a) \/ Unserve(a) \/ DeleteRow(a)
             \/ NotFound(a) \/ DeleteUserRows(a) \/ Finish(a)
      PROVE  TypeInv'
  BY <1>2, LookType, BuildType, StampZoneType, ErrorType, UnserveType, DeleteRowType,
     DeleteUserRowsType, FinishType
<1>3. ASSUME NEW z \in Zones, RemoveNext(a, z) \/ PruneNext(a, z) \/ SyncNext(a, z)
      PROVE  TypeInv'
  BY <1>3, LoopType
<1>4. ASSUME ListServed(a) \/ ReadStamp(a) \/ Adopt(a) \/ ReplaceRrsets(a)
      PROVE  TypeInv'
  BY <1>4, ListServedType, ReadStampType, AdoptType, ReplaceRrsetsType
<1> QED
  BY <1>1, <1>2, <1>3, <1>4 DEF Step

LEMMA NextType ==
  ASSUME TypeInv, [Next]_vars
  PROVE  TypeInv'
<1>0. Main \in Actors /\ Handlers \subseteq Actors
  BY DEF Actors
<1>1. ASSUME NEW h \in Handlers, Request(h)
      PROVE  TypeInv'
  BY <1>1, RequestType
<1>2. ASSUME NEW h \in Handlers, Cancel(h)
      PROVE  TypeInv'
  <2>1. Goto(h, Idle) /\ UNCHANGED <<zone, nextId, pdns, mode>>
    BY <1>2 DEF Cancel
  <2> QED
    BY <1>0, <2>1, AtType, SameTables, TaskStep
<1>3. ASSUME NEW a \in Actors, Step(a)
      PROVE  TypeInv'
  BY <1>3, StepType
<1>4. ASSUME NEW a \in Actors, Fault(a)
      PROVE  TypeInv'
  BY <1>4, CheckType, ErrorType, LateAnswerType DEF Fault
<1>5. CASE RunChecks
  BY <1>5, RunChecksType
<1>6. ASSUME NEW z \in Zones, CheckDue(z) \/ ExpirePending(z) \/ NotDue(z)
      PROVE  TypeInv'
  BY <1>0, <1>6, LoopType, NotDueType
<1>7. CASE Start \/ Crash \/ Wipe
  BY <1>7, StartType, WorldType
<1>8. CASE UNCHANGED vars
  BY <1>8 DEF vars, TypeInv, Tables, Placed
<1> QED
  BY <1>1, <1>2, <1>3, <1>4, <1>5, <1>6, <1>7, <1>8 DEF Next

LEMMA InitType == Init => TypeInv
<1> SUFFICES ASSUME Init PROVE TypeInv
  OBVIOUS
<1>1. task \in [Actors -> Tasks] /\ \A a \in Actors : Placed(task[a])
  BY IdleType DEF Init
<1>2. Tables
  <2>1. 1 \in 1..(MaxId + 1)
    BY BoundAssumption
  <2>2. \A z \in Zones : zone[z].id = 0
    BY RowTypes DEF Init, NoRows
  <2> QED
    BY <2>1, <2>2, RowTypes, NoServedType DEF Init, Tables
<1> QED
  BY <1>1, <1>2 DEF Init, TypeInv

\* TypeOK: every variable keeps its type, whatever overlaps and fails, and no
\* row has an id that a later one may get.
THEOREM TypeCorrect == Spec => []TypeOK
<1>1. TypeInv /\ [Next]_vars => TypeInv'
  BY NextType
<1> QED
  BY <1>1, InitType, TypeInvImplies, PTL DEF Spec

-----------------------------------------------------------------------------
(* RestartServes: the startup sync runs alone, and each of its loops keeps  *)
(* what it has done                                                         *)

SyncAt == {"metadata", "look", "build", "stamp", "adopt", "replace", "reread"}

\* While it removes zones, those it still has to remove are on its list.
Pruning(m, rows, served) ==
  /\ \A x \in Zones : served[x].there => \/ rows[x].active \/ x \in m.left
                                         \/ m.pc = "unserve" /\ x = m.z
  /\ \A x \in m.left : ~rows[x].active
  /\ m.pc = "unserve" => ~rows[m.z].active

\* While it converges zones, none is served that should not be, and those
\* missing are on its list or the one it is at.
Converging(m, rows, served) ==
  /\ \A x \in Zones : served[x].there => rows[x].active
  /\ \A x \in Zones : rows[x].active => \/ served[x].there \/ x \in m.left
                                        \/ m.pc # "pick" /\ x = m.z
  /\ \A x \in m.left : rows[x].active
  /\ m.pc # "pick" => rows[m.z].active

\* The sync at m knows the rows, and the zones it saw are there still.
Syncing(m, rows, served) ==
  /\ m.op = "sync"
  /\ m.pc \in {"list", "prune", "unserve", "pick"} \cup SyncAt
  /\ \A x \in Zones : m.rows[x].active = rows[x].active
  /\ m.pc # "list" => \A x \in m.seen : rows[x].active => served[x].there
  /\ m.pc \in {"prune", "unserve"} => Pruning(m, rows, served)
  /\ m.pc \in SyncAt \cup {"pick"} => Converging(m, rows, served)
  /\ m.pc = "build" /\ m.had # "none" => served[m.z].there
  /\ m.pc = "stamp" => served[m.z].there

StartInv ==
  /\ mode # "up" => \A h \in Handlers : task[h] = Idle
  /\ mode = "down" => task[Main] = Idle
  /\ mode = "starting" => Syncing(task[Main], zone, pdns)

\* A task that does nothing takes no step.
LEMMA IdleWaits ==
  ASSUME NEW a \in Actors, task[a] = Idle, Step(a) \/ Fault(a)
  PROVE  FALSE
<1>1. task[a].pc = "idle"
  BY IdleType
<1> QED
  BY <1>1 DEF Step, Fault, ApplyNs, Reread, Delegated, RecordFailure, DeactivateRow,
     ActivateRow, Probe, ClearRow, Look, Build, StampZone, Rejected, Unserve, DeleteRow,
     NotFound, DeleteUserRows, Finish, RemoveNext, PruneNext, SyncNext, ListServed,
     ReadStamp, Adopt, ReplaceRrsets, NotDelegated, CheckInconclusive, CallFails,
     LateAnswer, InLoop, At

\* While certo does not serve, handlers do nothing.
LEMMA StartingSteps ==
  ASSUME TypeInv, StartInv, mode # "up", Next
  PROVE  \/ mode = "starting" /\ (Step(Main) \/ Fault(Main))
         \/ Start \/ Crash \/ Wipe
<1>0. Main \in Actors /\ Actors = Handlers \cup {Main}
  BY DEF Actors
<1>1. ASSUME NEW h \in Handlers, Request(h)
      PROVE  FALSE
  BY <1>1 DEF Request, Create, Verify, Exempt, ClearExemption, Delete, Begin, DeleteUser,
     AdminSync, MayStart
<1>2. ASSUME NEW h \in Handlers, Cancel(h)
      PROVE  FALSE
  BY <1>2, IdleType DEF Cancel, Busy, StartInv
<1>3. ASSUME NEW a \in Actors, Step(a) \/ Fault(a)
      PROVE  mode = "starting" /\ (Step(Main) \/ Fault(Main))
  <2>1. task[a] # Idle
    BY <1>3, IdleWaits
  <2>2. a = Main /\ mode # "down"
    BY <1>0, <2>1 DEF StartInv
  <2> QED
    BY <1>3, <2>2 DEF TypeInv
<1>4. RunChecks => FALSE
  BY DEF RunChecks, MayStart
<1>5. ASSUME NEW z \in Zones, CheckDue(z) \/ ExpirePending(z) \/ NotDue(z)
      PROVE  FALSE
  <2>1. task[Main].pc = "pick" /\ task[Main].op = "checks"
    BY <1>5 DEF CheckDue, ExpirePending, NotDue, InLoop, At
  <2>2. "pick" # "idle"
    OBVIOUS
  <2> QED
    BY <2>1, IdleType DEF StartInv, Syncing, TypeInv
<1> QED
  BY <1>1, <1>2, <1>3, <1>4, <1>5 DEF Next

\* A task that goes on leaves the others as they are.
LEMMA Others ==
  ASSUME TypeInv, NEW a \in Actors, NEW t, Goto(a, t)
  PROVE  task'[a] = t /\ \A b \in Actors : b # a => task'[b] = task[b]
BY DEF Goto, TypeInv

LEMMA SyncGoesOn ==
  ASSUME TypeInv, StartInv, mode = "starting", NEW t, Goto(Main, t), mode' = mode,
         Syncing(t, zone', pdns')
  PROVE  StartInv'
<1>1. Main \in Actors /\ Handlers \subseteq Actors /\ Main \notin Handlers
  BY ActorsAssumption DEF Actors
<1>2. task'[Main] = t /\ \A h \in Handlers : task'[h] = task[h]
  BY <1>1, Others
<1>3. \A h \in Handlers : task'[h] = Idle
  BY <1>2 DEF StartInv
<1> QED
  BY <1>2, <1>3 DEF StartInv

LEMMA SyncFails ==
  ASSUME TypeInv, StartInv, mode = "starting", Fails(Main)
  PROVE  StartInv'
<1>1. Main \in Actors /\ Handlers \subseteq Actors /\ Main \notin Handlers
  BY ActorsAssumption DEF Actors
<1>2. task[Main].op # "checks"
  BY DEF StartInv, Syncing
<1>3. Goto(Main, Idle) /\ mode' = "down"
  BY <1>2 DEF Fails
<1>4. task'[Main] = Idle /\ \A h \in Handlers : task'[h] = task[h]
  BY <1>1, <1>3, Others
<1>5. \A h \in Handlers : task'[h] = Idle
  BY <1>4 DEF StartInv
<1> QED
  BY <1>3, <1>4, <1>5 DEF StartInv

\* What the sync at Main is at, with its types
LEMMA SyncHas ==
  ASSUME TypeInv, StartInv, mode = "starting"
  PROVE  LET m == task[Main] IN
         /\ m \in Tasks /\ m.op = "sync" /\ Syncing(m, zone, pdns)
         /\ m.left \subseteq Zones /\ m.seen \subseteq Zones
         /\ m.pc \in SyncAt \cup {"unserve"} => m.z \in Zones /\ zone[m.z] \in Rows
         /\ zone \in [Zones -> Rows] /\ pdns \in [Zones -> Served]
<1>1. Main \in Actors
  BY DEF Actors
<1>2. task[Main].left \subseteq Zones /\ task[Main].seen \subseteq Zones
  BY <1>1, AtType DEF Tasks
<1> QED
  BY <1>1, <1>2, AtType DEF StartInv, Syncing, SyncAt, AtZone, TypeInv, Tables

\* A zone done: the sync goes on to the next.
LEMMA SyncContinues ==
  ASSUME NEW t \in Tasks, NEW rows, NEW served, Syncing(t, rows, served), t.pc \in SyncAt,
         served[t.z].there
  PROVE  Syncing(Continue(t), rows, served)
<1> DEFINE c == Continue(t)
<1>1. c.pc = "pick" /\ c.op = "sync" /\ c.rows = t.rows /\ c.left = t.left /\ c.seen = t.seen
  BY ContinueType DEF Syncing
<1> HIDE DEF c
<1>2. Converging(t, rows, served) /\ t.pc # "list"
  BY DEF Syncing, SyncAt
<1>3. Converging(c, rows, served)
  BY <1>1, <1>2 DEF Converging
<1> QED
  BY <1>1, <1>2, <1>3 DEF Syncing, c, SyncAt

\* The zone at hand stays at hand.
LEMMA SyncStays ==
  ASSUME NEW t, NEW u, NEW rows, NEW served, Syncing(t, rows, served), t.pc \in SyncAt,
         u.pc \in SyncAt, u.op = t.op, u.z = t.z, u.left = t.left, u.seen = t.seen,
         u.rows = t.rows,
         u.pc = "build" /\ u.had # "none" => served[u.z].there,
         u.pc = "stamp" => served[u.z].there
  PROVE  Syncing(u, rows, served)
<1>1. Converging(t, rows, served) /\ t.pc # "list" /\ t.pc # "pick"
      /\ u.pc \notin {"list", "pick", "prune", "unserve"}
  BY DEF Syncing, SyncAt
<1>2. Converging(u, rows, served)
  BY <1>1 DEF Converging
<1> QED
  BY <1>1, <1>2 DEF Syncing

LEMMA AfterPruneSyncs ==
  ASSUME NEW t \in Tasks, NEW rows, NEW served, t.op = "sync",
         \A x \in Zones : t.rows[x].active = rows[x].active,
         \A x \in t.seen : rows[x].active => served[x].there,
         \A x \in Zones : served[x].there => rows[x].active \/ x \in t.left,
         \A x \in t.left : ~rows[x].active
  PROVE  Syncing(AfterPrune(t), rows, served)
<1> DEFINE n == AfterPrune(t)
<1>1. /\ n.op = "sync" /\ n.rows = t.rows /\ n.seen = t.seen
      /\ n.pc = IF t.left = {} THEN "pick" ELSE "prune"
      /\ n.left = IF t.left = {} THEN Active(t.rows) ELSE t.left
  BY AfterPruneType
<1> HIDE DEF n
<1>2. \A x : x \in Active(t.rows) <=> x \in Zones /\ rows[x].active
  BY DEF Active
<1>3. CASE t.left = {}
  <2>1. n.pc = "pick" /\ n.left = Active(t.rows)
    BY <1>1, <1>3
  <2>2. Converging(n, rows, served)
    BY <1>2, <1>3, <2>1 DEF Converging
  <2> QED
    BY <1>1, <2>1, <2>2 DEF Syncing, n, SyncAt
<1>4. CASE t.left # {}
  <2>1. n.pc = "prune" /\ n.left = t.left
    BY <1>1, <1>4
  <2>2. Pruning(n, rows, served)
    BY <2>1 DEF Pruning
  <2> QED
    BY <1>1, <2>1, <2>2 DEF Syncing, n, SyncAt
<1> QED
  BY <1>3, <1>4

LEMMA StartSyncs ==
  ASSUME TypeInv, StartInv, Start
  PROVE  StartInv'
<1>1. Main \in Actors /\ Handlers \subseteq Actors /\ Main \notin Handlers
  BY ActorsAssumption DEF Actors
<1> DEFINE t == [Idle EXCEPT !.pc = "list", !.op = "sync", !.rows = zone, !.force = FALSE]
<1>2. Goto(Main, t) /\ mode = "down" /\ mode' = "starting" /\ zone' = zone
  BY DEF Start, SyncTask
<1>3. t.pc = "list" /\ t.op = "sync" /\ t.rows = zone
  BY IdleType DEF Tasks
<1> HIDE DEF t
<1>4. task'[Main] = t /\ \A h \in Handlers : task'[h] = Idle
  BY <1>1, <1>2, Others DEF StartInv
<1>5. Syncing(t, zone', pdns')
  BY <1>2, <1>3 DEF Syncing, SyncAt
<1> QED
  BY <1>2, <1>4, <1>5 DEF StartInv

LEMMA ListSyncs ==
  ASSUME TypeInv, StartInv, mode = "starting", ListServed(Main)
  PROVE  StartInv'
<1> DEFINE seen == {z \in Zones : There(z)}
<1> DEFINE left == Unwanted(seen, task[Main].rows)
<1> DEFINE t == [task[Main] EXCEPT !.seen = seen, !.left = left]
<1>1. Goto(Main, AfterPrune(t)) /\ UNCHANGED <<zone, nextId, pdns, mode>>
  BY DEF ListServed
<1>2. \A x : x \in seen <=> x \in Zones /\ pdns[x].there
  BY DEF There
<1>3. \A x : x \in left <=> x \in seen /\ ~task[Main].rows[x].active
  BY <1>2 DEF Unwanted, Active
<1> HIDE DEF seen, left
<1>4. task[Main] \in Tasks /\ seen \subseteq Zones /\ left \subseteq Zones
  BY <1>2, <1>3, SyncHas
<1>5. t \in Tasks /\ t.op = task[Main].op /\ t.rows = task[Main].rows /\ t.seen = seen
      /\ t.left = left
  BY <1>4 DEF Tasks
<1> HIDE DEF t
<1>6. t.op = "sync" /\ \A x \in Zones : t.rows[x].active = zone[x].active
  BY <1>5, SyncHas DEF Syncing
<1>7. Syncing(AfterPrune(t), zone, pdns)
  BY <1>2, <1>3, <1>4, <1>5, <1>6, AfterPruneSyncs
<1> QED
  BY <1>1, <1>7, SyncGoesOn

LEMMA PruneSyncs ==
  ASSUME TypeInv, StartInv, mode = "starting", NEW z \in Zones, PruneNext(Main, z)
  PROVE  StartInv'
<1> DEFINE m == task[Main]
<1> DEFINE e == m.rows[z].exempt
<1> DEFINE v == m.rows[z].ver
<1> DEFINE l == m.left \ {z}
<1> DEFINE t == [m EXCEPT !.pc = "unserve", !.z = z, !.left = l, !.exempt = e, !.ver = v]
<1>1. m.pc = "prune" /\ z \in m.left /\ Goto(Main, t) /\ UNCHANGED <<zone, nextId, pdns, mode>>
  BY DEF PruneNext, Pick, At
<1>2. m \in Tasks /\ Syncing(m, zone, pdns)
  BY SyncHas
<1> HIDE DEF m, e, v
<1>3. t.pc = "unserve" /\ t.z = z /\ t.left = l /\ t.op = m.op /\ t.rows = m.rows
      /\ t.seen = m.seen
  BY <1>2 DEF Tasks
<1> HIDE DEF t
<1>4. Pruning(m, zone, pdns)
  BY <1>1, <1>2 DEF Syncing
<1>5. Pruning(t, zone, pdns)
  BY <1>1, <1>3, <1>4 DEF Pruning
<1>6. Syncing(t, zone, pdns)
  BY <1>1, <1>2, <1>3, <1>5 DEF Syncing, SyncAt
<1> QED
  BY <1>1, <1>6, SyncGoesOn

LEMMA UnserveSyncs ==
  ASSUME TypeInv, StartInv, mode = "starting", Unserve(Main)
  PROVE  StartInv'
<1> DEFINE m == task[Main]
<1>1. m \in Tasks /\ m.op = "sync" /\ Syncing(m, zone, pdns) /\ pdns \in [Zones -> Served]
  BY SyncHas
<1>2. m.pc = "unserve" /\ pdns' = Unserved(m) /\ UNCHANGED <<zone, nextId, mode>>
      /\ Goto(Main, AfterPrune(m))
  BY <1>1 DEF Unserve, At
<1>3. m.z \in Zones /\ ~zone[m.z].active /\ Pruning(m, zone, pdns)
  BY <1>2, SyncHas DEF Syncing, Pruning
<1> HIDE DEF m
<1>4. \A x \in Zones : pdns'[x] = IF x = m.z THEN NoServed ELSE pdns[x]
  BY <1>1, <1>2, <1>3 DEF Unserved
<1>5. \A x \in Zones : pdns'[x].there => zone[x].active \/ x \in m.left
  BY <1>3, <1>4, NoServedType DEF Pruning
<1>6. \A x \in m.seen : zone[x].active => pdns'[x].there
  <2>1. m.seen \subseteq Zones
    BY SyncHas DEF m
  <2>2. \A x \in m.seen : zone[x].active => pdns[x].there
    BY <1>1, <1>2 DEF Syncing
  <2> QED
    BY <1>3, <1>4, <2>1, <2>2
<1>7. \A x \in m.left : ~zone[x].active
  BY <1>3 DEF Pruning
<1>8. \A x \in Zones : m.rows[x].active = zone[x].active
  BY <1>1 DEF Syncing
<1>9. Syncing(AfterPrune(m), zone, pdns')
  BY <1>1, <1>5, <1>6, <1>7, <1>8, AfterPruneSyncs
<1> QED
  BY <1>2, <1>9, SyncGoesOn

LEMMA SyncNextSyncs ==
  ASSUME TypeInv, StartInv, mode = "starting", NEW z \in Zones, SyncNext(Main, z)
  PROVE  StartInv'
<1> DEFINE m == task[Main]
<1> DEFINE e == m.rows[z].exempt
<1> DEFINE v == m.rows[z].ver
<1> DEFINE l == m.left \ {z}
<1> DEFINE t == [m EXCEPT !.pc = "metadata", !.z = z, !.left = l, !.exempt = e, !.ver = v]
<1>1. m.pc = "pick" /\ z \in m.left /\ Goto(Main, t) /\ UNCHANGED <<zone, nextId, pdns, mode>>
  BY DEF SyncNext, InLoop, Pick, At
<1>2. m \in Tasks /\ Syncing(m, zone, pdns)
  BY SyncHas
<1> HIDE DEF m, e, v
<1>3. t.pc = "metadata" /\ t.z = z /\ t.left = l /\ t.op = m.op /\ t.rows = m.rows
      /\ t.seen = m.seen
  BY <1>2 DEF Tasks
<1> HIDE DEF t
<1>4. Converging(m, zone, pdns)
  BY <1>1, <1>2 DEF Syncing
<1>5. Converging(t, zone, pdns)
  BY <1>1, <1>3, <1>4 DEF Converging
<1>6. Syncing(t, zone, pdns)
  BY <1>1, <1>2, <1>3, <1>5 DEF Syncing, SyncAt
<1> QED
  BY <1>1, <1>6, SyncGoesOn

\* The zone at hand is active.
LEMMA AtHand ==
  ASSUME TypeInv, StartInv, mode = "starting", task[Main].pc \in SyncAt
  PROVE  LET m == task[Main] IN
         /\ m \in Tasks /\ m.op = "sync" /\ Syncing(m, zone, pdns)
         /\ m.z \in Zones /\ zone[m.z].active /\ zone[m.z] \in Rows
         /\ m.seen \subseteq Zones /\ m.left \subseteq Zones
         /\ m.z \in m.seen => pdns[m.z].there
<1>1. task[Main].pc \notin {"pick", "list"}
  BY DEF SyncAt
<1>2. Syncing(task[Main], zone, pdns)
  BY SyncHas
<1>3. zone[task[Main].z].active
  BY <1>1, <1>2 DEF Syncing, Converging
<1>4. \A x \in task[Main].seen : zone[x].active => pdns[x].there
  BY <1>1, <1>2 DEF Syncing
<1> QED
  BY <1>2, <1>3, <1>4, SyncHas

LEMMA ReadStampSyncs ==
  ASSUME TypeInv, StartInv, mode = "starting", ReadStamp(Main)
  PROVE  StartInv'
<1> DEFINE m == task[Main]
<1> DEFINE l == [m EXCEPT !.pc = "look"]
<1> DEFINE d == [m EXCEPT !.pc = "adopt"]
<1>1. /\ m.pc = "metadata" /\ UNCHANGED <<zone, nextId, pdns, mode>>
      /\ \/ Goto(Main, l) \/ Goto(Main, d)
         \/ m.z \in m.seen /\ Goto(Main, Continue(m))
  BY DEF ReadStamp, At
<1>2. m \in Tasks /\ Syncing(m, zone, pdns) /\ m.pc \in SyncAt
      /\ (m.z \in m.seen => pdns[m.z].there)
  BY <1>1, AtHand DEF SyncAt
<1> HIDE DEF m
<1>3. l.pc = "look" /\ d.pc = "adopt"
      /\ l.op = m.op /\ l.z = m.z /\ l.left = m.left /\ l.seen = m.seen /\ l.rows = m.rows
      /\ d.op = m.op /\ d.z = m.z /\ d.left = m.left /\ d.seen = m.seen /\ d.rows = m.rows
  BY <1>2 DEF Tasks
<1> HIDE DEF l, d
<1>4. Syncing(l, zone, pdns)
  BY <1>2, <1>3, SyncStays DEF SyncAt
<1>5. Syncing(d, zone, pdns)
  BY <1>2, <1>3, SyncStays DEF SyncAt
<1>6. m.z \in m.seen => Syncing(Continue(m), zone, pdns)
  BY <1>2, SyncContinues
<1> QED
  BY <1>1, <1>4, <1>5, <1>6, SyncGoesOn

LEMMA LookSyncs ==
  ASSUME TypeInv, StartInv, mode = "starting", Look(Main)
  PROVE  StartInv'
<1> DEFINE m == task[Main]
<1> DEFINE d == IF Mine(Main) THEN zone[m.z].data ELSE 0
<1> DEFINE h == IF ~There(m.z) THEN "none" ELSE IF pdns[m.z].data = d THEN "same" ELSE "other"
<1> DEFINE t == [m EXCEPT !.pc = "build", !.data = d, !.had = h]
<1>1. m.pc = "look" /\ Goto(Main, t) /\ UNCHANGED <<zone, nextId, pdns, mode>>
  BY DEF Look, At
<1>2. m \in Tasks /\ Syncing(m, zone, pdns) /\ m.pc \in SyncAt
  BY <1>1, AtHand DEF SyncAt
<1>3. h # "none" => pdns[m.z].there
  BY DEF There
<1> HIDE DEF m, d, h
<1>4. t.pc = "build" /\ t.had = h /\ t.op = m.op /\ t.z = m.z /\ t.left = m.left
      /\ t.seen = m.seen /\ t.rows = m.rows
  BY <1>2 DEF Tasks
<1> HIDE DEF t
<1>5. Syncing(t, zone, pdns)
  BY <1>2, <1>3, <1>4, SyncStays DEF SyncAt
<1> QED
  BY <1>1, <1>5, SyncGoesOn

\* A call that leaves the zone at hand in PowerDNS takes nothing from the sync.
LEMMA ServedSyncs ==
  ASSUME NEW t, NEW rows, NEW old, NEW new, Syncing(t, rows, old), t.pc \in SyncAt,
         t.z \in Zones, t.seen \subseteq Zones, new[t.z].there,
         \A x \in Zones : x # t.z => new[x].there = old[x].there
  PROVE  Syncing(t, rows, new)
<1>1. Converging(t, rows, old) /\ t.pc \notin {"list", "pick", "prune", "unserve"}
  BY DEF Syncing, SyncAt
<1>2. rows[t.z].active
  BY <1>1 DEF Converging
<1>3. Converging(t, rows, new)
  BY <1>1, <1>2 DEF Converging
<1>4. \A x \in t.seen : rows[x].active => new[x].there
  BY <1>1 DEF Syncing
<1> QED
  BY <1>1, <1>3, <1>4 DEF Syncing

LEMMA BuildSyncs ==
  ASSUME TypeInv, StartInv, mode = "starting", Build(Main)
  PROVE  StartInv'
<1> DEFINE m == task[Main]
<1> DEFINE t == [m EXCEPT !.pc = "stamp"]
<1>1. m.pc = "build" /\ pdns' = Built(m) /\ Goto(Main, t) /\ UNCHANGED <<zone, nextId, mode>>
  BY DEF Build, At
<1>2. m \in Tasks /\ Syncing(m, zone, pdns) /\ m.pc \in SyncAt /\ m.z \in Zones
      /\ m.seen \subseteq Zones
  BY <1>1, AtHand DEF SyncAt
<1>3. m.had # "none" => pdns[m.z].there
  BY <1>1, <1>2 DEF Syncing
<1>4. pdns \in [Zones -> Served]
  BY SyncHas
<1> HIDE DEF m
<1>5. pdns'[m.z].there /\ \A x \in Zones : x # m.z => pdns'[x].there = pdns[x].there
  <2>1. CASE m.had = "same"
    BY <1>1, <1>3, <2>1 DEF Built
  <2>2. CASE m.had # "same"
    <3>1. pdns' = [pdns EXCEPT ![m.z].there = TRUE, ![m.z].data = m.data]
      BY <1>1, <2>2 DEF Built
    <3>2. \A x \in Zones : x # m.z => pdns'[x] = pdns[x]
      BY <1>2, <1>4, <3>1
    <3>3. pdns'[m.z] = [pdns[m.z] EXCEPT !.there = TRUE, !.data = m.data]
      BY <1>2, <1>4, <3>1
    <3>4. pdns[m.z] \in Served
      BY <1>2, <1>4
    <3>5. pdns'[m.z].there = TRUE
      BY <3>3, <3>4 DEF Served
    <3> QED
      BY <3>2, <3>5
  <2> QED
    BY <2>1, <2>2
<1>6. Syncing(m, zone, pdns')
  BY <1>2, <1>5, ServedSyncs
<1>7. t.pc = "stamp" /\ t.op = m.op /\ t.z = m.z /\ t.left = m.left
      /\ t.seen = m.seen /\ t.rows = m.rows
  BY <1>2 DEF Tasks
<1> HIDE DEF t
<1>8. Syncing(t, zone, pdns')
  BY <1>2, <1>5, <1>6, <1>7, SyncStays DEF SyncAt
<1> QED
  BY <1>1, <1>8, SyncGoesOn

LEMMA StampSyncs ==
  ASSUME TypeInv, StartInv, mode = "starting", StampZone(Main)
  PROVE  StartInv'
<1> DEFINE m == task[Main]
<1>1. m.pc = "stamp" /\ pdns' = [pdns EXCEPT ![m.z].stamp = m.ver]
      /\ Goto(Main, Continue(m)) /\ UNCHANGED <<zone, nextId, mode>>
  BY DEF StampZone, At
<1>2. m \in Tasks /\ Syncing(m, zone, pdns) /\ m.pc \in SyncAt /\ m.z \in Zones
      /\ m.seen \subseteq Zones
  BY <1>1, AtHand DEF SyncAt
<1>3. pdns[m.z].there /\ pdns \in [Zones -> Served]
  BY <1>1, <1>2, SyncHas DEF Syncing
<1> HIDE DEF m
<1>4. pdns'[m.z].there /\ \A x \in Zones : x # m.z => pdns'[x].there = pdns[x].there
  <2>1. pdns'[m.z] = [pdns[m.z] EXCEPT !.stamp = m.ver]
    BY <1>1, <1>2, <1>3
  <2>2. pdns[m.z] \in Served
    BY <1>2, <1>3
  <2>3. pdns'[m.z].there = pdns[m.z].there
    BY <2>1, <2>2 DEF Served
  <2> QED
    BY <1>1, <1>2, <1>3, <2>3
<1>5. Syncing(m, zone, pdns')
  BY <1>2, <1>4, ServedSyncs
<1>6. Syncing(Continue(m), zone, pdns')
  BY <1>2, <1>4, <1>5, SyncContinues
<1> QED
  BY <1>1, <1>6, SyncGoesOn

LEMMA AdoptSyncs ==
  ASSUME TypeInv, StartInv, mode = "starting", Adopt(Main)
  PROVE  StartInv'
<1> DEFINE m == task[Main]
<1> DEFINE v == pdns[m.z].data
<1> DEFINE r == [m EXCEPT !.pc = "replace", !.data = v]
<1> DEFINE l == [m EXCEPT !.pc = "look"]
<1>1. /\ m.pc = "adopt" /\ UNCHANGED <<zone, nextId, pdns, mode>>
      /\ Goto(Main, r) \/ Goto(Main, l)
  BY DEF Adopt, At
<1>2. m \in Tasks /\ Syncing(m, zone, pdns) /\ m.pc \in SyncAt
  BY <1>1, AtHand DEF SyncAt
<1> HIDE DEF m, v
<1>3. l.pc = "look" /\ r.pc = "replace"
      /\ l.op = m.op /\ l.z = m.z /\ l.left = m.left /\ l.seen = m.seen /\ l.rows = m.rows
      /\ r.op = m.op /\ r.z = m.z /\ r.left = m.left /\ r.seen = m.seen /\ r.rows = m.rows
  BY <1>2 DEF Tasks
<1> HIDE DEF l, r
<1>4. Syncing(l, zone, pdns)
  BY <1>2, <1>3, SyncStays DEF SyncAt
<1>5. Syncing(r, zone, pdns)
  BY <1>2, <1>3, SyncStays DEF SyncAt
<1> QED
  BY <1>1, <1>4, <1>5, SyncGoesOn

\* Whether rows are active is all the sync asks of them.
LEMMA RowsSync ==
  ASSUME NEW t, NEW old, NEW new, NEW served, Syncing(t, old, served), t.pc \in SyncAt,
         t.z \in Zones, t.seen \subseteq Zones, t.left \subseteq Zones,
         \A x \in Zones : new[x].active = old[x].active
  PROVE  Syncing(t, new, served)
<1>1. Converging(t, old, served) /\ t.pc \notin {"list", "pick", "prune", "unserve"}
  BY DEF Syncing, SyncAt
<1>2. Converging(t, new, served)
  BY <1>1 DEF Converging
<1>3. \A x \in t.seen : new[x].active => served[x].there
  BY <1>1 DEF Syncing
<1> QED
  BY <1>1, <1>2, <1>3 DEF Syncing

LEMMA ReplaceSyncs ==
  ASSUME TypeInv, StartInv, mode = "starting", ReplaceRrsets(Main)
  PROVE  StartInv'
<1> DEFINE m == task[Main]
<1> DEFINE n == zone[m.z].ver + 1
<1> DEFINE r == [zone[m.z] EXCEPT !.data = m.data, !.ver = n]
<1> DEFINE t == [m EXCEPT !.pc = "reread"]
<1>1. m.pc = "replace" /\ zone' = [zone EXCEPT ![m.z] = r] /\ Goto(Main, t)
      /\ UNCHANGED <<nextId, pdns, mode>>
  BY DEF ReplaceRrsets, At, SetRow, To
<1>2. m \in Tasks /\ Syncing(m, zone, pdns) /\ m.pc \in SyncAt /\ m.z \in Zones
      /\ m.seen \subseteq Zones /\ m.left \subseteq Zones /\ zone[m.z] \in Rows
  BY <1>1, AtHand DEF SyncAt
<1>3. zone \in [Zones -> Rows]
  BY SyncHas
<1> HIDE DEF m, n
<1>4. r.active = zone[m.z].active
  BY <1>2 DEF Rows
<1> HIDE DEF r
<1>5. \A x \in Zones : zone'[x].active = zone[x].active
  BY <1>1, <1>2, <1>3, <1>4
<1>6. Syncing(m, zone', pdns)
  BY <1>2, <1>5, RowsSync
<1>7. t.pc = "reread" /\ t.op = m.op /\ t.z = m.z /\ t.left = m.left /\ t.seen = m.seen
      /\ t.rows = m.rows
  BY <1>2 DEF Tasks
<1> HIDE DEF t
<1>8. Syncing(t, zone', pdns)
  BY <1>2, <1>6, <1>7, SyncStays DEF SyncAt
<1> QED
  BY <1>1, <1>8, SyncGoesOn

LEMMA RereadSyncs ==
  ASSUME TypeInv, StartInv, mode = "starting", Reread(Main)
  PROVE  StartInv'
<1> DEFINE m == task[Main]
<1> DEFINE r == zone[m.z]
<1> DEFINE rows == [m.rows EXCEPT ![m.z] = r]
<1> DEFINE t == [m EXCEPT !.pc = "look", !.ver = r.ver, !.exempt = r.exempt, !.rows = rows]
<1>1. m.pc = "reread" /\ UNCHANGED <<zone, nextId, pdns>>
  BY DEF Reread, At
<1>2. m \in Tasks /\ m.op = "sync" /\ Syncing(m, zone, pdns) /\ m.pc \in SyncAt /\ m.z \in Zones
  BY <1>1, AtHand DEF SyncAt
<1>3. CASE Fails(Main)
  BY <1>3, SyncFails
<1>4. CASE ~Fails(Main)
  <2>1. Goto(Main, t) /\ UNCHANGED mode
    BY <1>2, <1>4 DEF Reread, Tasks
  <2> HIDE DEF m, r
  <2>2. m.rows \in [Zones -> Rows]
    BY <1>2 DEF Tasks
  <2>3. \A x \in Zones : rows[x].active = zone[x].active
    BY <1>2, <2>2 DEF Syncing, r
  <2> HIDE DEF rows
  <2>4. t.pc = "look" /\ t.op = m.op /\ t.z = m.z /\ t.left = m.left /\ t.seen = m.seen
        /\ t.rows = rows
    BY <1>2 DEF Tasks
  <2> HIDE DEF t
  <2>5. Converging(m, zone, pdns) /\ m.pc \notin {"list", "pick"}
    BY <1>2 DEF Syncing, SyncAt
  <2>6. Converging(t, zone, pdns)
    BY <2>4, <2>5 DEF Converging
  <2>7. Syncing(t, zone, pdns)
    BY <1>2, <2>3, <2>4, <2>5, <2>6 DEF Syncing, SyncAt
  <2> QED
    BY <1>1, <2>1, <2>7, SyncGoesOn
<1> QED
  BY <1>3, <1>4

\* The end of the startup sync: it has served what it should.
LEMMA FinishServes ==
  ASSUME TypeInv, StartInv, mode = "starting", Finish(Main)
  PROVE  /\ StartInv' /\ mode' = "up"
         /\ \A x \in Zones : pdns'[x].there <=> zone'[x].active
<1> DEFINE m == task[Main]
<1>1. m.pc = "pick" /\ m.left = {} /\ mode' = "up" /\ UNCHANGED <<zone, pdns>>
  BY DEF Finish, InLoop, At
<1>2. Converging(m, zone, pdns)
  BY <1>1, SyncHas DEF Syncing
<1>3. \A x \in Zones : pdns[x].there <=> zone[x].active
  BY <1>1, <1>2 DEF Converging
<1> QED
  BY <1>1, <1>3 DEF StartInv

LEMMA MainStepStarts ==
  ASSUME TypeInv, StartInv, mode = "starting", Step(Main) \/ Fault(Main)
  PROVE  /\ StartInv'
         /\ mode' = "up" => \A x \in Zones : pdns'[x].there <=> zone'[x].active
<1> DEFINE m == task[Main]
<1>0. m.op = "sync" /\ m.pc \in {"list", "prune", "unserve", "pick"} \cup SyncAt
  BY SyncHas DEF Syncing
<1>1. ~ (\/ ApplyNs(Main) \/ Delegated(Main) \/ RecordFailure(Main) \/ DeactivateRow(Main)
         \/ ActivateRow(Main) \/ Probe(Main) \/ ClearRow(Main) \/ DeleteRow(Main)
         \/ NotDelegated(Main))
  BY <1>0 DEF ApplyNs, Delegated, RecordFailure, DeactivateRow, ActivateRow, Probe,
     ClearRow, DeleteRow, NotDelegated, At, SyncAt
<1>2. ~DeleteUserRows(Main) /\ \A z \in Zones : ~RemoveNext(Main, z)
  BY <1>0 DEF DeleteUserRows, RemoveNext, InLoop
<1>3. CASE Fails(Main)
  BY <1>0, <1>3, SyncFails DEF Fails
<1>4. CASE \/ Reread(Main) \/ Look(Main) \/ Build(Main) \/ StampZone(Main) \/ Unserve(Main)
           \/ ListServed(Main) \/ ReadStamp(Main) \/ Adopt(Main) \/ ReplaceRrsets(Main)
           \/ \E z \in Zones : PruneNext(Main, z) \/ SyncNext(Main, z)
  <2>1. StartInv'
    BY <1>4, RereadSyncs, LookSyncs, BuildSyncs, StampSyncs, UnserveSyncs, ListSyncs,
       ReadStampSyncs, AdoptSyncs, ReplaceSyncs, PruneSyncs, SyncNextSyncs
  <2>2. mode' = mode \/ mode' = "down"
    BY <1>4 DEF Reread, Look, Build, StampZone, Unserve, ListServed, ReadStamp, Adopt,
       ReplaceRrsets, PruneNext, SyncNext, Pick, Fails
  <2> QED
    BY <2>1, <2>2
<1>5. CASE Finish(Main)
  BY <1>5, FinishServes
<1>6. Rejected(Main) \/ NotFound(Main) \/ Fault(Main) => Fails(Main) \/ NotDelegated(Main)
  BY DEF Rejected, NotFound, Fault, CheckInconclusive, CallFails, LateAnswer
<1> QED
  BY <1>1, <1>2, <1>3, <1>4, <1>5, <1>6 DEF Step

\* Once certo serves, nothing but the end of its process stops it.
LEMMA OnlyCrashStops ==
  ASSUME mode = "up", Next, ~Crash
  PROVE  mode' = "up"
<1>1. ASSUME NEW h \in Handlers, Request(h) \/ Cancel(h)
      PROVE  mode' = "up"
  BY <1>1 DEF Request, Create, Verify, Exempt, ClearExemption, Delete, Begin, DeleteUser,
     AdminSync, Cancel
<1>2. ASSUME NEW a, Step(a)
      PROVE  mode' = "up"
  <2>1. Fails(a) => mode' = "up"
    BY DEF Fails
  <2>2. CASE ApplyNs(a) \/ Reread(a) \/ Delegated(a) \/ RecordFailure(a) \/ DeactivateRow(a)
             \/ ActivateRow(a) \/ Probe(a) \/ ClearRow(a)
    BY <2>1, <2>2 DEF ApplyNs, Reread, Delegated, RecordFailure, DeactivateRow, ActivateRow,
       Probe, ClearRow
  <2>3. CASE Look(a) \/ Build(a) \/ StampZone(a) \/ Rejected(a) \/ Unserve(a) \/ DeleteRow(a)
             \/ NotFound(a) \/ DeleteUserRows(a) \/ Finish(a)
    BY <2>1, <2>3 DEF Look, Build, StampZone, Rejected, Unserve, DeleteRow, NotFound,
       DeleteUserRows, Finish
  <2>4. ASSUME NEW z \in Zones, RemoveNext(a, z) \/ PruneNext(a, z) \/ SyncNext(a, z)
        PROVE  mode' = "up"
    BY <2>4 DEF RemoveNext, PruneNext, SyncNext, Pick
  <2>5. CASE ListServed(a) \/ ReadStamp(a) \/ Adopt(a) \/ ReplaceRrsets(a)
    BY <2>5 DEF ListServed, ReadStamp, Adopt, ReplaceRrsets
  <2> QED
    BY <1>2, <2>2, <2>3, <2>4, <2>5 DEF Step
<1>3. ASSUME NEW a, Fault(a)
      PROVE  mode' = "up"
  BY <1>3 DEF Fault, NotDelegated, CheckInconclusive, CallFails, LateAnswer, Fails
<1>4. ASSUME RunChecks \/ \E z \in Zones : CheckDue(z) \/ ExpirePending(z) \/ NotDue(z)
      PROVE  mode' = "up"
  BY <1>4 DEF RunChecks, CheckDue, ExpirePending, NotDue, Pick
<1> QED
  BY <1>1, <1>2, <1>3, <1>4 DEF Next, Start, Wipe

LEMMA StartInvSteps ==
  ASSUME TypeInv, StartInv, [Next]_vars
  PROVE  /\ StartInv'
         /\ mode = "starting" /\ mode' = "up" =>
              \A x \in Zones : pdns'[x].there <=> zone'[x].active
<1>0. Main \in Actors /\ Handlers \subseteq Actors
  BY DEF Actors
<1>1. CASE UNCHANGED vars
  BY <1>1 DEF vars, StartInv
<1>2. CASE mode = "up" /\ Next
  <2>1. CASE Crash
    BY <1>0, <2>1, <1>2 DEF Crash, StartInv
  <2>2. CASE ~Crash
    <3>1. mode' = "up"
      BY <1>2, <2>2, OnlyCrashStops
    <3> QED
      BY <1>2, <3>1 DEF StartInv
  <2> QED
    BY <1>2, <2>1, <2>2
<1>3. CASE mode # "up" /\ Next
  <2>1. CASE mode = "starting" /\ (Step(Main) \/ Fault(Main))
    BY <2>1, MainStepStarts
  <2>2. CASE Start
    BY <2>2, StartSyncs DEF Start
  <2>3. CASE Crash
    BY <1>0, <2>3 DEF Crash, StartInv
  <2>4. CASE Wipe
    BY <2>4 DEF Wipe, StartInv
  <2> QED
    BY <1>3, <2>1, <2>2, <2>3, <2>4, StartingSteps
<1> QED
  BY <1>1, <1>2, <1>3

\* RestartServes: when the startup sync lets certo serve, PowerDNS has the
\* active zones and no others, whatever overlapped, failed or was lost before.
THEOREM RestartsServe == Spec => RestartServes
<1> DEFINE Inv == TypeInv /\ StartInv
<1> DEFINE Served1 == mode = "starting" /\ mode' = "up" =>
                        \A z \in Zones : pdns'[z].there <=> zone'[z].active
<1>1. Init => Inv
  <2>1. Init => StartInv
    BY DEF Init, StartInv, Actors
  <2> QED
    BY <2>1, InitType
<1>2. Inv /\ [Next]_vars => Inv' /\ [Served1]_vars
  BY NextType, StartInvSteps
<1> QED
  BY <1>1, <1>2, PTL DEF Spec, RestartServes

-----------------------------------------------------------------------------
(* What holds when tasks do not overlap, whatever fails: each leaves the    *)
(* rows and PowerDNS so that the next one can begin                         *)

\* PowerDNS has nothing but records of active rows, each row its own.
Kept(rows, served) ==
  \A x \in Zones :
    /\ served[x].there => rows[x].active /\ served[x].data \in {0, rows[x].id}
    /\ rows[x].data \in {0, rows[x].id}
    /\ rows[x].active => rows[x].id # 0

\* Which operations are at which place
Shape(t) ==
  /\ t.pc = "idle" => t.op = "none"
  /\ t.pc \in {"metadata", "adopt", "replace", "list", "prune"} => t.op = "sync"
  /\ t.pc = "delete" => t.op = "delete"
  /\ t.pc = "expire" => t.op = "checks"
  /\ t.pc = "deactivate" => t.op \notin {"delete", "delete_user", "sync"}
  /\ t.pc = "pick" => t.op \in {"checks", "sync", "delete_user"}
  /\ t.op = "delete" => t.pc \in {"unserve", "delete"}
  /\ t.op = "delete_user" => t.pc \in {"pick", "unserve"}
  /\ t.op = "sync" => t.pc \in {"list", "prune", "unserve", "pick"} \cup SyncAt

\* The zone a task is at
Hand(t, rows, served) ==
  /\ t.pc \in {"probe", "look", "build", "stamp"} => rows[t.z].active
  /\ t.pc \in {"build", "replace"} => t.data \in {0, rows[t.z].id}
  /\ t.pc \in {"delete", "deactivate"} => ~served[t.z].there
  /\ t.pc = "expire" => ~rows[t.z].active
  /\ \/ t.pc = "deactivate"
     \/ t.pc = "unserve" /\ t.op \notin {"delete", "delete_user", "sync"}
     => rows[t.z].fails >= MaxFails

\* The zones a loop has before it: those to expire are not active, those to
\* converge are, and a user's zones are removed one by one.
Loop(t, rows, served) ==
  /\ t.op = "checks" =>
       /\ \A x \in t.left \cap t.seen : ~rows[x].active
       /\ t.pc # "pick" => t.z \notin t.left
  /\ t.op = "sync" =>
       /\ \A x \in Zones : t.rows[x].active = rows[x].active
       /\ t.pc \in SyncAt \cup {"pick"} => \A x \in t.left : rows[x].active
       /\ t.pc \in SyncAt => rows[t.z].active
  /\ t.op = "delete_user" =>
       \A x \in Zones : served[x].there => \/ x \in t.left
                                           \/ t.pc = "unserve" /\ x = t.z

Alone(t, rows, served) ==
  Shape(t) /\ Hand(t, rows, served) /\ Loop(t, rows, served)

OthersIdle(a) == \A b \in Actors : b # a => task[b].pc = "idle" /\ task[b].op = "none"

Calm ==
  /\ Kept(zone, pdns)
  /\ \A a \in Actors : Alone(task[a], zone, pdns)
  /\ \A a \in Actors : Busy(a) => OthersIdle(a)
  /\ task[Main].op \in {"none", "checks", "sync"}

LEMMA CalmStep ==
  ASSUME TypeInv, NEW a \in Actors, OthersIdle(a), NEW t, Goto(a, t), Kept(zone', pdns'),
         Alone(t, zone', pdns'), a = Main => t.op \in {"none", "checks", "sync"}
  PROVE  Calm'
<1>1. task'[a] = t /\ \A b \in Actors : b # a => task'[b] = task[b]
  BY Others
<1>2. \A b \in Actors : b # a => task'[b].pc = "idle" /\ task'[b].op = "none"
  BY <1>1 DEF OthersIdle
<1>3. \A b \in Actors : Alone(task'[b], zone', pdns')
  BY <1>1, <1>2 DEF Alone, Shape, Hand, Loop, SyncAt
<1>4. \A b \in Actors : Busy(b)' => OthersIdle(b)'
  BY <1>2 DEF Busy, OthersIdle
<1>5. task'[Main].op \in {"none", "checks", "sync"}
  BY <1>1, <1>2 DEF Actors
<1> QED
  BY <1>3, <1>4, <1>5 DEF Calm

\* What a task may assume when it takes a step
LEMMA CalmAt ==
  ASSUME TypeInv, Calm, NEW a \in Actors
  PROVE  LET t == task[a] IN
         /\ t \in Tasks /\ Shape(t) /\ Hand(t, zone, pdns) /\ Loop(t, zone, pdns)
         /\ t.left \subseteq Zones /\ t.seen \subseteq Zones
         /\ t.pc # "idle" => OthersIdle(a)
         /\ t.pc \in AtZone => t.z \in Zones /\ zone[t.z] \in Rows /\ pdns[t.z] \in Served
         /\ zone \in [Zones -> Rows] /\ pdns \in [Zones -> Served] /\ Kept(zone, pdns)
         /\ a = Main => t.op \in {"none", "checks", "sync"}
<1>1. task[a].left \subseteq Zones /\ task[a].seen \subseteq Zones
  BY AtType DEF Tasks
<1> QED
  BY <1>1, AtType DEF Calm, Alone, Busy, TypeInv, Tables, Placed

LEMMA IdleAlone ==
  ASSUME NEW rows, NEW served
  PROVE  Alone(Idle, rows, served)
BY IdleType DEF Alone, Shape, Hand, Loop, SyncAt

\* A task that goes on to its next zone, if it has one
LEMMA ContinueAlone ==
  ASSUME NEW t \in Tasks, NEW rows, NEW served,
         t.op = "checks" => \A x \in t.left \cap t.seen : ~rows[x].active,
         t.op = "sync" => /\ \A x \in Zones : t.rows[x].active = rows[x].active
                          /\ \A x \in t.left : rows[x].active,
         t.op = "delete_user" => \A x \in Zones : served[x].there => x \in t.left
  PROVE  /\ Alone(Continue(t), rows, served)
         /\ Continue(t).op \in {t.op, "none"}
<1> DEFINE c == Continue(t)
<1>1. CASE t.op \in {"checks", "sync", "delete_user"}
  <2>1. c.pc = "pick" /\ c.op = t.op /\ c.rows = t.rows /\ c.left = t.left /\ c.seen = t.seen
    BY <1>1, ContinueType
  <2> HIDE DEF c
  <2>2. Shape(c)
    BY <1>1, <2>1 DEF Shape
  <2>3. Hand(c, rows, served)
    BY <2>1 DEF Hand
  <2>4. Loop(c, rows, served)
    BY <2>1 DEF Loop, SyncAt
  <2> QED
    BY <2>1, <2>2, <2>3, <2>4 DEF Alone, c
<1>2. CASE t.op \notin {"checks", "sync", "delete_user"}
  BY <1>2, IdleAlone, IdleType DEF Continue
<1> QED
  BY <1>1, <1>2

LEMMA FailsCalm ==
  ASSUME TypeInv, Calm, NEW a \in Actors, task[a].pc # "idle", Fails(a), zone' = zone,
         Kept(zone, pdns')
  PROVE  Calm'
<1> DEFINE t == IF task[a].op = "checks" /\ ~At(a, "expire") THEN Continue(task[a]) ELSE Idle
<1>1. Goto(a, t)
  BY DEF Fails
<1>2. task[a] \in Tasks /\ Loop(task[a], zone, pdns) /\ OthersIdle(a)
  BY CalmAt
<1>3. CASE task[a].op = "checks"
  <2>1. Alone(Continue(task[a]), zone, pdns') /\ Continue(task[a]).op \in {"checks", "none"}
    BY <1>2, <1>3, ContinueAlone DEF Loop
  <2>2. Alone(t, zone, pdns') /\ t.op \in {"checks", "none"}
    BY <2>1, IdleAlone, IdleType
  <2> HIDE DEF t
  <2> QED
    BY <1>1, <1>2, <2>2, CalmStep
<1>4. CASE task[a].op # "checks"
  BY <1>1, <1>2, <1>4, IdleAlone, IdleType, CalmStep
<1> QED
  BY <1>3, <1>4

-----------------------------------------------------------------------------

LEMMA StartsAlone ==
  ASSUME TypeInv, Calm, Isolation = "all", NEW a \in Actors, MayStart(a)
  PROVE  OthersIdle(a)
<1>1. \A b \in Actors : task[b].pc = "idle"
  BY DEF MayStart, Quiet, Busy
<1> QED
  BY <1>1, CalmAt DEF OthersIdle, Shape

LEMMA BeginCalm ==
  ASSUME TypeInv, Calm, Isolation = "all", NEW h \in Handlers, NEW z \in Zones, NEW o, NEW pc,
         Begin(h, o, z, pc),
         <<o, pc>> \in {<<"verify", "check">>, <<"exempt", "activate">>, <<"clear", "clear">>,
                        <<"delete", "unserve">>}
  PROVE  Calm'
<1> DEFINE e == (o = "exempt" \/ zone[z].exempt)
<1> DEFINE rows == [NoRows EXCEPT ![z] = zone[z]]
<1> DEFINE t == [Idle EXCEPT !.pc = pc, !.op = o, !.z = z, !.exempt = e, !.rows = rows]
<1>0. h \in Actors /\ h # Main
  BY ActorsAssumption DEF Actors
<1>1. Goto(h, t) /\ UNCHANGED <<zone, nextId, pdns, mode>> /\ MayStart(h)
  BY DEF Begin
<1> HIDE DEF e, rows
<1>2. t.pc = pc /\ t.op = o
  BY IdleType DEF Tasks
<1> HIDE DEF t
<1>3. Shape(t) /\ Hand(t, zone, pdns) /\ Loop(t, zone, pdns)
  BY <1>2 DEF Shape, Hand, Loop
<1>4. OthersIdle(h) /\ Kept(zone, pdns)
  BY <1>0, <1>1, StartsAlone DEF Calm
<1> QED
  BY <1>0, <1>1, <1>3, <1>4, CalmStep DEF Alone

LEMMA CreateCalm ==
  ASSUME TypeInv, Calm, Isolation = "all", NEW h \in Handlers, NEW z \in Zones, Create(h, z)
  PROVE  Calm'
<1> DEFINE r == RowOf(nextId)
<1> DEFINE rows == [NoRows EXCEPT ![z] = r]
<1> DEFINE t == [Idle EXCEPT !.pc = "ns", !.op = "create", !.z = z, !.rows = rows]
<1>0. h \in Actors /\ h # Main
  BY ActorsAssumption DEF Actors
<1>1. Goto(h, t) /\ UNCHANGED <<pdns, mode>> /\ MayStart(h) /\ ~Exists(z)
      /\ zone' = [zone EXCEPT ![z] = r]
  BY DEF Create
<1>2. r.active = FALSE /\ r.data = 0
  BY DEF RowOf
<1> HIDE DEF r, rows
<1>3. t.pc = "ns" /\ t.op = "create"
  BY IdleType DEF Tasks
<1> HIDE DEF t
<1>4. Shape(t) /\ Hand(t, zone', pdns') /\ Loop(t, zone', pdns')
  BY <1>3 DEF Shape, Hand, Loop
<1>5. OthersIdle(h) /\ Kept(zone, pdns) /\ zone \in [Zones -> Rows]
  BY <1>0, <1>1, StartsAlone, AtType DEF Calm
<1>6. Kept(zone', pdns')
  BY <1>1, <1>2, <1>5 DEF Kept, Exists
<1> QED
  BY <1>0, <1>1, <1>4, <1>5, <1>6, CalmStep DEF Alone

LEMMA RequestCalm ==
  ASSUME TypeInv, Calm, Isolation = "all", NEW h \in Handlers, Request(h)
  PROVE  Calm'
<1>0. h \in Actors /\ h # Main /\ Kept(zone, pdns)
  BY ActorsAssumption DEF Actors, Calm
<1>1. ASSUME NEW z \in Zones,
             Verify(h, z) \/ Exempt(h, z) \/ ClearExemption(h, z) \/ Delete(h, z)
      PROVE  Calm'
  <2>1. \/ Begin(h, "verify", z, "check") \/ Begin(h, "exempt", z, "activate")
        \/ Begin(h, "clear", z, "clear") \/ Begin(h, "delete", z, "unserve")
    BY <1>1 DEF Verify, Exempt, ClearExemption, Delete
  <2> QED
    BY <2>1, BeginCalm
<1>2. ASSUME NEW z \in Zones, Create(h, z)
      PROVE  Calm'
  BY <1>2, CreateCalm
<1>3. CASE DeleteUser(h)
  <2> DEFINE left == {z \in Zones : Exists(z)}
  <2> DEFINE t == [Idle EXCEPT !.pc = "pick", !.op = "delete_user", !.left = left]
  <2>1. Goto(h, t) /\ UNCHANGED <<zone, nextId, pdns, mode>> /\ OthersIdle(h)
    BY <1>0, <1>3, StartsAlone DEF DeleteUser
  <2>2. \A x \in Zones : pdns[x].there => x \in left
    BY <1>0 DEF Kept, Exists
  <2> HIDE DEF left
  <2>3. t.pc = "pick" /\ t.op = "delete_user" /\ t.left = left
    BY IdleType DEF Tasks
  <2> HIDE DEF t
  <2>4. Shape(t) /\ Hand(t, zone, pdns) /\ Loop(t, zone, pdns)
    BY <2>2, <2>3 DEF Shape, Hand, Loop
  <2> QED
    BY <1>0, <2>1, <2>4, CalmStep DEF Alone
<1>4. CASE AdminSync(h)
  <2> DEFINE t == [Idle EXCEPT !.pc = "list", !.op = "sync", !.rows = zone, !.force = TRUE]
  <2>1. Goto(h, t) /\ UNCHANGED <<zone, nextId, pdns, mode>> /\ OthersIdle(h)
    BY <1>0, <1>4, StartsAlone DEF AdminSync, SyncTask
  <2>2. t.pc = "list" /\ t.op = "sync" /\ t.rows = zone
    BY IdleType DEF Tasks
  <2> HIDE DEF t
  <2>3. Shape(t) /\ Hand(t, zone, pdns) /\ Loop(t, zone, pdns)
    BY <2>2 DEF Shape, Hand, Loop, SyncAt
  <2> QED
    BY <1>0, <2>1, <2>3, CalmStep DEF Alone
<1> QED
  BY <1>1, <1>2, <1>3, <1>4 DEF Request

\* A task that changes its row alone, at a zone of no loop before it
LEMMA RowCalm ==
  ASSUME TypeInv, Calm, NEW a \in Actors, NEW r, SetRow(a, r), pdns' = pdns,
         task[a].pc \in AtZone, task[a].op # "sync", task[a].op # "delete_user",
         r.id = zone[task[a].z].id, r.data \in {0, r.id}, r.active => r.id # 0,
         pdns[task[a].z].there => r.active
  PROVE  /\ Kept(zone', pdns')
         /\ zone'[task[a].z] = r
         /\ task[a].op = "checks" => \A x \in task[a].left \cap task[a].seen : ~zone'[x].active
<1> DEFINE z == task[a].z
<1>1. z \in Zones /\ zone \in [Zones -> Rows] /\ Kept(zone, pdns) /\ Loop(task[a], zone, pdns)
      /\ task[a].left \subseteq Zones
  BY CalmAt
<1>2. \A x \in Zones : zone'[x] = IF x = z THEN r ELSE zone[x]
  BY <1>1 DEF SetRow
<1>3. Kept(zone', pdns')
  BY <1>1, <1>2 DEF Kept
<1>4. CASE task[a].op = "checks"
  <2>1. task[a].pc # "pick"
    BY DEF AtZone
  <2>2. z \notin task[a].left /\ \A x \in task[a].left \cap task[a].seen : ~zone[x].active
    BY <1>1, <1>4, <2>1 DEF Loop
  <2> QED
    BY <1>1, <1>2, <1>3, <2>2
<1> QED
  BY <1>1, <1>2, <1>3, <1>4

LEMMA ApplyNsCalm ==
  ASSUME TypeInv, Calm, NEW a \in Actors, ApplyNs(a)
  PROVE  Calm'
<1> DEFINE m == task[a]
<1> DEFINE n == zone[m.z].ver + 1
<1> DEFINE s == Snap(a).id
<1> DEFINE r == [zone[m.z] EXCEPT !.data = s, !.ver = n]
<1> DEFINE t == [m EXCEPT !.pc = "reread"]
<1>1. m.pc = "ns" /\ s = zone[m.z].id /\ SetRow(a, r) /\ Goto(a, t)
      /\ UNCHANGED <<nextId, pdns, mode>>
  BY DEF ApplyNs, At, Mine, To
<1>2. m \in Tasks /\ Shape(m) /\ Loop(m, zone, pdns) /\ Kept(zone, pdns) /\ OthersIdle(a)
      /\ m.z \in Zones /\ zone[m.z] \in Rows /\ (a = Main => m.op \in {"none", "checks", "sync"})
  BY <1>1, CalmAt DEF AtZone
<1>3. m.op # "sync" /\ m.op # "delete_user" /\ m.op # "delete"
  BY <1>1, <1>2 DEF Shape, SyncAt
<1> HIDE DEF n, s
<1>4. r.id = zone[m.z].id /\ r.active = zone[m.z].active /\ r.data = s
  BY <1>2 DEF Rows
<1> HIDE DEF r
<1>5. Kept(zone', pdns')
      /\ (m.op = "checks" => \A x \in m.left \cap m.seen : ~zone'[x].active)
  BY <1>1, <1>2, <1>3, <1>4, RowCalm DEF Kept, AtZone
<1> HIDE DEF m
<1>6. t.pc = "reread" /\ t.op = m.op /\ t.z = m.z /\ t.left = m.left /\ t.seen = m.seen
  BY <1>2 DEF Tasks
<1> HIDE DEF t
<1>7. Shape(t) /\ Hand(t, zone', pdns')
  BY <1>1, <1>2, <1>3, <1>6 DEF Shape, Hand
<1>8. Loop(t, zone', pdns')
  BY <1>1, <1>2, <1>3, <1>5, <1>6 DEF Loop
<1> QED
  BY <1>1, <1>2, <1>5, <1>6, <1>7, <1>8, CalmStep DEF Alone, m

-----------------------------------------------------------------------------

\* A task that moves on at its zone and leaves the rows alone
LEMMA MoveCalm ==
  ASSUME TypeInv, Calm, NEW a \in Actors, NEW t, Goto(a, t), zone' = zone, Kept(zone, pdns'),
         task[a].pc \in AtZone, t.pc \in AtZone, t.op = task[a].op, t.z = task[a].z,
         t.left = task[a].left, t.seen = task[a].seen, t.rows = task[a].rows,
         Shape(t), Hand(t, zone, pdns'), t.op # "delete_user",
         t.op = "sync" => task[a].pc \in SyncAt
  PROVE  Calm'
<1> DEFINE m == task[a]
<1>1. Loop(m, zone, pdns) /\ OthersIdle(a) /\ (a = Main => m.op \in {"none", "checks", "sync"})
      /\ m.pc # "pick" /\ t.pc # "pick"
  BY CalmAt DEF AtZone
<1> HIDE DEF m
<1>2. Loop(t, zone, pdns')
  BY <1>1 DEF Loop, m
<1> QED
  BY <1>1, <1>2, CalmStep DEF Alone, m

\* A task that is done with its zone and leaves the rows alone
LEMMA DoneCalm ==
  ASSUME TypeInv, Calm, NEW a \in Actors, Goto(a, Continue(task[a])), zone' = zone,
         Kept(zone, pdns'), task[a].pc \in AtZone, task[a].op # "delete_user",
         task[a].op = "sync" => task[a].pc \in SyncAt
  PROVE  Calm'
<1> DEFINE m == task[a]
<1>1. m \in Tasks /\ Loop(m, zone, pdns) /\ OthersIdle(a)
      /\ (a = Main => m.op \in {"none", "checks", "sync"})
  BY CalmAt DEF AtZone
<1> HIDE DEF m
<1>2. Alone(Continue(m), zone, pdns') /\ Continue(m).op \in {m.op, "none"}
  BY <1>1, ContinueAlone DEF Loop, m
<1> QED
  BY <1>1, <1>2, CalmStep DEF m

LEMMA CheckCalm ==
  ASSUME TypeInv, Calm, NEW a \in Actors, Delegated(a) \/ NotDelegated(a)
  PROVE  Calm'
<1> DEFINE m == task[a]
<1>1. PICK pc \in {"activate", "fail"} : Goto(a, [m EXCEPT !.pc = pc])
  BY DEF Delegated, NotDelegated, To
<1> DEFINE t == [m EXCEPT !.pc = pc]
<1>2. m.pc = "check" /\ UNCHANGED <<zone, pdns>> /\ m \in Tasks /\ Shape(m) /\ Kept(zone, pdns)
  BY CalmAt DEF Delegated, NotDelegated, At
<1>3. m.op \notin {"sync", "delete_user", "delete"}
  BY <1>2 DEF Shape, SyncAt
<1>4. t.pc = pc /\ t.op = m.op /\ t.z = m.z /\ t.left = m.left /\ t.seen = m.seen
      /\ t.rows = m.rows
  BY <1>2 DEF Tasks
<1>5. Goto(a, t)
  BY <1>1
<1> HIDE DEF t
<1>6. Shape(t) /\ Hand(t, zone, pdns')
  BY <1>3, <1>4 DEF Shape, Hand
<1> QED
  BY <1>2, <1>3, <1>4, <1>5, <1>6, MoveCalm DEF AtZone

LEMMA RereadCalm ==
  ASSUME TypeInv, Calm, NEW a \in Actors, Reread(a)
  PROVE  Calm'
<1> DEFINE m == task[a]
<1> DEFINE v == zone[m.z]
<1> DEFINE rows == [m.rows EXCEPT ![m.z] = v]
<1> DEFINE pc == IF m.op = "sync" THEN "look" ELSE "check"
<1> DEFINE t == [m EXCEPT !.pc = pc, !.ver = v.ver, !.exempt = v.exempt, !.rows = rows]
<1>1. m.pc = "reread" /\ UNCHANGED <<zone, nextId, pdns>>
  BY DEF Reread, At
<1>2. m \in Tasks /\ Shape(m) /\ Loop(m, zone, pdns) /\ Kept(zone, pdns) /\ OthersIdle(a)
      /\ m.z \in Zones /\ (a = Main => m.op \in {"none", "checks", "sync"})
  BY <1>1, CalmAt DEF AtZone
<1>3. CASE Fails(a)
  BY <1>1, <1>2, <1>3, FailsCalm
<1>4. CASE ~Fails(a)
  <2>1. Goto(a, t)
    BY <1>2, <1>4 DEF Reread, Tasks
  <2> HIDE DEF m
  <2>2. m.rows \in [Zones -> Rows]
    BY <1>2 DEF Tasks
  <2>3. m.op \notin {"delete_user", "delete"}
    BY <1>1, <1>2 DEF Shape
  <2>4. m.op = "sync" => \A x \in Zones : rows[x].active = zone[x].active
    BY <1>2, <2>2 DEF Loop
  <2> HIDE DEF rows, v
  <2>5. t.pc = pc /\ t.op = m.op /\ t.z = m.z /\ t.left = m.left /\ t.seen = m.seen
        /\ t.rows = rows
    BY <1>2 DEF Tasks
  <2> HIDE DEF t
  <2>6. m.op = "sync" => zone[t.z].active
    BY <1>1, <1>2, <2>5 DEF Loop, SyncAt
  <2>7. Shape(t) /\ Hand(t, zone, pdns)
    BY <2>3, <2>5, <2>6 DEF Shape, Hand, SyncAt
  <2>8. Loop(t, zone, pdns)
    BY <1>1, <1>2, <2>3, <2>4, <2>5 DEF Loop, SyncAt
  <2> QED
    BY <1>1, <1>2, <2>1, <2>5, <2>7, <2>8, CalmStep DEF Alone, m
<1> QED
  BY <1>3, <1>4

LEMMA RecordFailureCalm ==
  ASSUME TypeInv, Calm, NEW a \in Actors, RecordFailure(a)
  PROVE  Calm'
<1> DEFINE m == task[a]
<1> DEFINE r == Failed(zone[m.z])
<1> DEFINE u == [m EXCEPT !.pc = "unserve"]
<1>1. m.pc = "fail" /\ Mine(a) /\ SetRow(a, r) /\ UNCHANGED <<nextId, pdns, mode>>
      /\ Goto(a, IF GivesUp(r) THEN u ELSE Continue(m))
  BY DEF RecordFailure, At
<1>2. m \in Tasks /\ Shape(m) /\ Kept(zone, pdns) /\ OthersIdle(a)
      /\ m.z \in Zones /\ zone[m.z] \in Rows /\ (a = Main => m.op \in {"none", "checks", "sync"})
  BY <1>1, CalmAt DEF AtZone
<1>3. m.op \notin {"sync", "delete_user", "delete"}
  BY <1>1, <1>2 DEF Shape, SyncAt
<1>4. r.id = zone[m.z].id /\ r.active = zone[m.z].active /\ r.data = zone[m.z].data
  BY <1>2 DEF Failed, Rows
<1> HIDE DEF r
<1>5. Kept(zone', pdns') /\ zone'[m.z] = r
      /\ (m.op = "checks" => \A x \in m.left \cap m.seen : ~zone'[x].active)
  BY <1>1, <1>2, <1>3, <1>4, RowCalm DEF Kept, AtZone
<1>6. Loop(m, zone, pdns)
  BY CalmAt
<1> HIDE DEF m
<1>7. u.pc = "unserve" /\ u.op = m.op /\ u.z = m.z /\ u.left = m.left /\ u.seen = m.seen
  BY <1>2 DEF Tasks
<1> HIDE DEF u
<1>8. GivesUp(r) => Alone(u, zone', pdns')
  <2> SUFFICES ASSUME GivesUp(r) PROVE Alone(u, zone', pdns')
    OBVIOUS
  <2>1. r.fails >= MaxFails
    BY DEF GivesUp
  <2>2. Shape(u) /\ Hand(u, zone', pdns')
    BY <1>3, <1>5, <1>7, <2>1 DEF Shape, Hand
  <2>3. Loop(u, zone', pdns')
    BY <1>1, <1>3, <1>5, <1>6, <1>7 DEF Loop
  <2> QED
    BY <2>2, <2>3 DEF Alone
<1>9. Alone(Continue(m), zone', pdns') /\ Continue(m).op \in {m.op, "none"}
  BY <1>2, <1>3, <1>5, ContinueAlone
<1>10. CASE GivesUp(r)
  <2>1. Goto(a, u)
    BY <1>1, <1>10 DEF m
  <2> QED
    BY <1>2, <1>5, <1>7, <1>8, <1>10, <2>1, CalmStep
<1>11. CASE ~GivesUp(r)
  <2>1. Goto(a, Continue(m))
    BY <1>1, <1>11
  <2> QED
    BY <1>2, <1>5, <1>9, <2>1, CalmStep
<1> QED
  BY <1>10, <1>11

LEMMA DeactivateRowCalm ==
  ASSUME TypeInv, Calm, NEW a \in Actors, DeactivateRow(a)
  PROVE  Calm'
<1> DEFINE m == task[a]
<1> DEFINE n == zone[m.z].ver + 1
<1> DEFINE r == [zone[m.z] EXCEPT !.active = FALSE, !.exempt = FALSE, !.ver = n]
<1>1. m.pc = "deactivate" /\ SetRow(a, r) /\ UNCHANGED <<nextId, pdns, mode>>
      /\ Goto(a, Continue(m))
  BY DEF DeactivateRow, At
<1>2. m \in Tasks /\ Shape(m) /\ Hand(m, zone, pdns) /\ Kept(zone, pdns) /\ OthersIdle(a)
      /\ m.z \in Zones /\ zone[m.z] \in Rows /\ (a = Main => m.op \in {"none", "checks", "sync"})
  BY <1>1, CalmAt DEF AtZone
<1>3. m.op \notin {"sync", "delete_user", "delete"}
  BY <1>1, <1>2 DEF Shape, SyncAt
<1>4. ~pdns[m.z].there
  BY <1>1, <1>2 DEF Hand
<1> HIDE DEF n
<1>5. r.id = zone[m.z].id /\ r.active = FALSE /\ r.data = zone[m.z].data
  BY <1>2 DEF Rows
<1> HIDE DEF r
<1>6. Kept(zone', pdns')
      /\ (m.op = "checks" => \A x \in m.left \cap m.seen : ~zone'[x].active)
  BY <1>1, <1>2, <1>3, <1>4, <1>5, RowCalm DEF Kept, AtZone
<1>7. Alone(Continue(m), zone', pdns') /\ Continue(m).op \in {m.op, "none"}
  BY <1>2, <1>3, <1>6, ContinueAlone
<1> QED
  BY <1>1, <1>2, <1>6, <1>7, CalmStep

LEMMA ActivateRowCalm ==
  ASSUME TypeInv, Calm, NEW a \in Actors, ActivateRow(a)
  PROVE  Calm'
<1> DEFINE m == task[a]
<1> DEFINE r == Activated(zone[m.z], m.exempt)
<1> DEFINE v == r.ver
<1> DEFINE pc == IF Snap(a).active THEN "probe" ELSE "look"
<1> DEFINE t == [m EXCEPT !.pc = pc, !.ver = v]
<1>1. m.pc = "activate" /\ Mine(a) /\ SetRow(a, r) /\ UNCHANGED <<nextId, pdns, mode>>
      /\ Goto(a, t)
  BY DEF ActivateRow, At
<1>2. m \in Tasks /\ Shape(m) /\ Loop(m, zone, pdns) /\ Kept(zone, pdns) /\ OthersIdle(a)
      /\ m.z \in Zones /\ zone[m.z] \in Rows /\ (a = Main => m.op \in {"none", "checks", "sync"})
  BY <1>1, CalmAt DEF AtZone
<1>3. m.op \notin {"sync", "delete_user", "delete"}
  BY <1>1, <1>2 DEF Shape, SyncAt
<1>4. r.id = zone[m.z].id /\ r.active = TRUE /\ r.data = zone[m.z].data /\ r.id # 0
  BY <1>1, <1>2 DEF Activated, Rows, Mine, Exists
<1> HIDE DEF r, v, pc
<1>5. Kept(zone', pdns') /\ zone'[m.z] = r
      /\ (m.op = "checks" => \A x \in m.left \cap m.seen : ~zone'[x].active)
  BY <1>1, <1>2, <1>3, <1>4, RowCalm DEF Kept, AtZone
<1> HIDE DEF m
<1>6. t.pc = pc /\ t.op = m.op /\ t.z = m.z /\ t.left = m.left /\ t.seen = m.seen
  BY <1>2 DEF Tasks
<1> HIDE DEF t
<1>7. pc \in {"probe", "look"}
  BY DEF pc
<1>8. Shape(t) /\ Hand(t, zone', pdns')
  BY <1>3, <1>4, <1>5, <1>6, <1>7 DEF Shape, Hand
<1>9. Loop(t, zone', pdns')
  BY <1>1, <1>2, <1>3, <1>5, <1>6 DEF Loop
<1> QED
  BY <1>1, <1>2, <1>5, <1>6, <1>8, <1>9, CalmStep DEF Alone, m

LEMMA ProbeCalm ==
  ASSUME TypeInv, Calm, NEW a \in Actors, Probe(a)
  PROVE  Calm'
<1> DEFINE m == task[a]
<1> DEFINE t == [m EXCEPT !.pc = "look"]
<1>1. m.pc = "probe" /\ UNCHANGED <<zone, nextId, pdns, mode>>
      /\ (Goto(a, Continue(m)) \/ Goto(a, t))
  BY DEF Probe, At
<1>2. m \in Tasks /\ Shape(m) /\ Hand(m, zone, pdns) /\ Kept(zone, pdns)
  BY CalmAt
<1>3. m.op \notin {"sync", "delete_user", "delete"}
  BY <1>1, <1>2 DEF Shape, SyncAt
<1>4. Goto(a, Continue(m)) => Calm'
  BY <1>1, <1>2, <1>3, DoneCalm DEF AtZone
<1>5. t.pc = "look" /\ t.op = m.op /\ t.z = m.z /\ t.left = m.left /\ t.seen = m.seen
      /\ t.rows = m.rows
  BY <1>2 DEF Tasks
<1> HIDE DEF t
<1>6. Shape(t) /\ Hand(t, zone, pdns)
  BY <1>1, <1>2, <1>3, <1>5 DEF Shape, Hand
<1>7. Goto(a, t) => Calm'
  BY <1>1, <1>2, <1>3, <1>5, <1>6, MoveCalm DEF AtZone
<1> QED
  BY <1>1, <1>4, <1>7

LEMMA ClearRowCalm ==
  ASSUME TypeInv, Calm, NEW a \in Actors, ClearRow(a)
  PROVE  Calm'
<1> DEFINE m == task[a]
<1> DEFINE r == [zone[m.z] EXCEPT !.exempt = FALSE, !.fails = 0]
<1>1. m.pc = "clear" /\ SetRow(a, r) /\ UNCHANGED <<nextId, pdns, mode>> /\ Goto(a, Idle)
  BY DEF ClearRow, At
<1>2. m \in Tasks /\ Shape(m) /\ Kept(zone, pdns) /\ OthersIdle(a)
      /\ m.z \in Zones /\ zone[m.z] \in Rows
  BY <1>1, CalmAt DEF AtZone
<1>3. m.op \notin {"sync", "delete_user", "delete"}
  BY <1>1, <1>2 DEF Shape, SyncAt
<1>4. r.id = zone[m.z].id /\ r.active = zone[m.z].active /\ r.data = zone[m.z].data
  BY <1>2 DEF Rows
<1> HIDE DEF r
<1>5. Kept(zone', pdns')
  BY <1>1, <1>2, <1>3, <1>4, RowCalm DEF Kept, AtZone
<1> QED
  BY <1>1, <1>2, <1>5, IdleAlone, IdleType, CalmStep

-----------------------------------------------------------------------------

LEMMA LookCalm ==
  ASSUME TypeInv, Calm, NEW a \in Actors, Look(a)
  PROVE  Calm'
<1> DEFINE m == task[a]
<1> DEFINE d == IF Mine(a) THEN zone[m.z].data ELSE 0
<1> DEFINE h == IF ~There(m.z) THEN "none" ELSE IF pdns[m.z].data = d THEN "same" ELSE "other"
<1> DEFINE t == [m EXCEPT !.pc = "build", !.data = d, !.had = h]
<1>1. m.pc = "look" /\ Goto(a, t) /\ UNCHANGED <<zone, nextId, pdns, mode>>
  BY DEF Look, At
<1>2. m \in Tasks /\ Shape(m) /\ Hand(m, zone, pdns) /\ Kept(zone, pdns) /\ m.z \in Zones
  BY <1>1, CalmAt DEF AtZone
<1>3. m.op \notin {"delete_user", "delete"}
  BY <1>1, <1>2 DEF Shape
<1>4. d \in {0, zone[m.z].id}
  BY <1>2 DEF Kept
<1> HIDE DEF d, h
<1>5. t.pc = "build" /\ t.data = d /\ t.op = m.op /\ t.z = m.z /\ t.left = m.left
      /\ t.seen = m.seen /\ t.rows = m.rows
  BY <1>2 DEF Tasks
<1> HIDE DEF t
<1>6. Shape(t) /\ Hand(t, zone, pdns)
  BY <1>1, <1>2, <1>3, <1>4, <1>5 DEF Shape, Hand, SyncAt
<1> QED
  BY <1>1, <1>2, <1>3, <1>5, <1>6, MoveCalm DEF AtZone, SyncAt

\* Building an active zone with its own records, and removing any zone, keep
\* PowerDNS at what it should have.
LEMMA BuiltKept ==
  ASSUME TypeInv, Calm, NEW a \in Actors, task[a].pc = "build"
  PROVE  Kept(zone, Built(task[a]))
<1> DEFINE m == task[a]
<1>1. m.z \in Zones /\ Hand(m, zone, pdns) /\ Kept(zone, pdns) /\ pdns \in [Zones -> Served]
  BY CalmAt DEF AtZone
<1>2. zone[m.z].active /\ m.data \in {0, zone[m.z].id}
  BY <1>1 DEF Hand
<1> DEFINE v == [pdns[m.z] EXCEPT !.there = TRUE, !.data = m.data]
<1>3. Built(m) = pdns \/ Built(m) = [pdns EXCEPT ![m.z] = v]
  BY <1>1 DEF Built
<1>4. v.data = m.data
  BY <1>1 DEF Served
<1> HIDE DEF v
<1> DEFINE b == Built(m)
<1> HIDE DEF m, b
<1>5. b = pdns \/ b = [pdns EXCEPT ![m.z] = v]
  BY <1>3 DEF b
<1>6. \A x \in Zones : b[x] = pdns[x] \/ (x = m.z /\ b[x] = v)
  <2>1. pdns \in [Zones -> Served]
    BY DEF TypeInv, Tables
  <2>2. CASE b = pdns
    BY <2>2
  <2>3. CASE b = [pdns EXCEPT ![m.z] = v]
    BY <2>1, <2>3
  <2> QED
    BY <1>5, <2>2, <2>3
<1>7. Kept(zone, b)
  BY <1>1, <1>2, <1>4, <1>6 DEF Kept
<1> QED
  BY <1>7 DEF b, m

LEMMA UnservedKept ==
  ASSUME TypeInv, Calm, NEW t
  PROVE  Kept(zone, Unserved(t))
<1>1. Kept(zone, pdns) /\ pdns \in [Zones -> Served]
  BY DEF Calm, TypeInv, Tables
<1>2. \A x \in Zones : Unserved(t)[x] = pdns[x] \/ Unserved(t)[x] = NoServed
  BY <1>1 DEF Unserved
<1> QED
  BY <1>1, <1>2, NoServedType DEF Kept

LEMMA BuildCalm ==
  ASSUME TypeInv, Calm, NEW a \in Actors, Build(a)
  PROVE  Calm'
<1> DEFINE m == task[a]
<1> DEFINE t == [m EXCEPT !.pc = "stamp"]
<1>1. m.pc = "build" /\ Goto(a, t) /\ UNCHANGED <<zone, nextId, mode>> /\ pdns' = Built(m)
  BY DEF Build, At
<1>2. m \in Tasks /\ Shape(m) /\ Hand(m, zone, pdns)
  BY CalmAt
<1>3. m.op \notin {"delete_user", "delete"}
  BY <1>1, <1>2 DEF Shape
<1>4. Kept(zone, pdns')
  BY <1>1, BuiltKept
<1>5. t.pc = "stamp" /\ t.op = m.op /\ t.z = m.z /\ t.left = m.left
      /\ t.seen = m.seen /\ t.rows = m.rows
  BY <1>2 DEF Tasks
<1> HIDE DEF t
<1>6. Shape(t) /\ Hand(t, zone, pdns')
  BY <1>1, <1>2, <1>3, <1>5 DEF Shape, Hand, SyncAt
<1> QED
  BY <1>1, <1>3, <1>4, <1>5, <1>6, MoveCalm DEF AtZone, SyncAt

LEMMA StampZoneCalm ==
  ASSUME TypeInv, Calm, NEW a \in Actors, StampZone(a)
  PROVE  Calm'
<1> DEFINE m == task[a]
<1>1. m.pc = "stamp" /\ Goto(a, Continue(m)) /\ UNCHANGED <<zone, nextId, mode>>
      /\ pdns' = [pdns EXCEPT ![m.z].stamp = m.ver]
  BY DEF StampZone, At
<1>2. Shape(m) /\ Kept(zone, pdns) /\ m.z \in Zones /\ pdns \in [Zones -> Served]
      /\ pdns[m.z] \in Served
  BY <1>1, CalmAt DEF AtZone
<1>3. m.op \notin {"delete_user", "delete"}
  BY <1>1, <1>2 DEF Shape
<1> HIDE DEF m
<1>4. pdns'[m.z] = [pdns[m.z] EXCEPT !.stamp = m.ver]
  BY <1>1, <1>2
<1>5. pdns'[m.z].there = pdns[m.z].there /\ pdns'[m.z].data = pdns[m.z].data
  BY <1>2, <1>4 DEF Served
<1>6. \A x \in Zones : x # m.z => pdns'[x] = pdns[x]
  BY <1>1, <1>2
<1>7. Kept(zone, pdns')
  BY <1>2, <1>5, <1>6 DEF Kept
<1> QED
  BY <1>1, <1>3, <1>7, DoneCalm DEF AtZone, SyncAt, m

LEMMA ErrorCalm ==
  ASSUME TypeInv, Calm, NEW a \in Actors,
         CheckInconclusive(a) \/ Rejected(a) \/ NotFound(a) \/ CallFails(a)
  PROVE  Calm'
<1>1. Fails(a) /\ UNCHANGED <<zone, nextId, pdns>>
  BY DEF CheckInconclusive, Rejected, NotFound, CallFails
<1>2. task[a].pc # "idle"
  <2>1. task[a].op = "sync" => task[a].pc # "idle"
    BY CalmAt DEF Shape
  <2> QED
    BY <2>1 DEF CheckInconclusive, Rejected, NotFound, CallFails, At
<1> QED
  BY <1>1, <1>2, FailsCalm DEF Calm

LEMMA LateAnswerCalm ==
  ASSUME TypeInv, Calm, NEW a \in Actors, LateAnswer(a)
  PROVE  Calm'
<1>1. Fails(a) /\ UNCHANGED <<zone, nextId>>
  BY DEF LateAnswer
<1>2. task[a].pc # "idle" /\ Kept(zone, pdns')
  BY BuiltKept, UnservedKept DEF LateAnswer, At
<1> QED
  BY <1>1, <1>2, FailsCalm

LEMMA UnserveCalm ==
  ASSUME TypeInv, Calm, NEW a \in Actors, Unserve(a)
  PROVE  Calm'
<1> DEFINE m == task[a]
<1> DEFINE d == [m EXCEPT !.pc = "delete"]
<1> DEFINE i == [m EXCEPT !.pc = "deactivate"]
<1>1. m.pc = "unserve" /\ pdns' = Unserved(m) /\ UNCHANGED <<zone, nextId, mode>>
  BY DEF Unserve, At
<1>2. m \in Tasks /\ Shape(m) /\ Hand(m, zone, pdns) /\ Loop(m, zone, pdns) /\ OthersIdle(a)
      /\ m.z \in Zones /\ pdns \in [Zones -> Served]
      /\ (a = Main => m.op \in {"none", "checks", "sync"})
  BY <1>1, CalmAt DEF AtZone
<1>3. Kept(zone, pdns')
  BY <1>1, UnservedKept
<1>4. ~pdns'[m.z].there /\ \A x \in Zones : pdns'[x].there => pdns[x].there /\ x # m.z
  BY <1>1, <1>2, NoServedType DEF Unserved
<1>5. CASE m.op = "delete"
  <2>1. Goto(a, d)
    BY <1>5 DEF Unserve
  <2>2. d.pc = "delete" /\ d.op = m.op /\ d.z = m.z
    BY <1>2 DEF Tasks
  <2> HIDE DEF m, d
  <2>3. Shape(d) /\ Hand(d, zone, pdns') /\ Loop(d, zone, pdns')
    BY <1>4, <1>5, <2>2 DEF Shape, Hand, Loop
  <2> QED
    BY <1>1, <1>2, <1>3, <1>5, <2>1, <2>2, <2>3, CalmStep DEF Alone
<1>6. CASE m.op = "delete_user"
  <2>1. Goto(a, Continue(m))
    BY <1>6 DEF Unserve
  <2>2. \A x \in Zones : pdns'[x].there => x \in m.left
    BY <1>2, <1>4, <1>6 DEF Loop
  <2> HIDE DEF m
  <2>3. Alone(Continue(m), zone, pdns') /\ Continue(m).op \in {m.op, "none"}
    BY <1>2, <1>6, <2>2, ContinueAlone
  <2> QED
    BY <1>1, <1>2, <1>3, <1>6, <2>1, <2>3, CalmStep
<1>7. CASE m.op = "sync"
  <2> DEFINE n == AfterPrune(m)
  <2>1. Goto(a, n)
    BY <1>7 DEF Unserve
  <2> HIDE DEF m
  <2>2. n.op = "sync" /\ n.rows = m.rows /\ n.pc \in {"pick", "prune"}
        /\ (n.pc = "pick" => n.left = Active(m.rows))
    BY <1>2, <1>7, AfterPruneType
  <2> HIDE DEF n
  <2>3. \A x \in Zones : m.rows[x].active = zone[x].active
    BY <1>2, <1>7 DEF Loop
  <2>4. Shape(n) /\ Hand(n, zone, pdns')
    BY <2>2 DEF Shape, Hand
  <2>5. Loop(n, zone, pdns')
    BY <2>2, <2>3 DEF Loop, SyncAt, Active
  <2> QED
    BY <1>1, <1>2, <1>3, <1>7, <2>1, <2>2, <2>4, <2>5, CalmStep DEF Alone
<1>8. CASE m.op \notin {"delete", "delete_user", "sync"}
  <2>1. Goto(a, i)
    BY <1>8 DEF Unserve
  <2>2. i.pc = "deactivate" /\ i.op = m.op /\ i.z = m.z /\ i.left = m.left
        /\ i.seen = m.seen /\ i.rows = m.rows
    BY <1>2 DEF Tasks
  <2> HIDE DEF i
  <2>3. Shape(i) /\ Hand(i, zone, pdns')
    BY <1>1, <1>2, <1>4, <1>8, <2>2 DEF Shape, Hand
  <2> QED
    BY <1>1, <1>3, <1>8, <2>1, <2>2, <2>3, MoveCalm DEF AtZone
<1> QED
  BY <1>5, <1>6, <1>7, <1>8

LEMMA DeleteRowCalm ==
  ASSUME TypeInv, Calm, NEW a \in Actors, DeleteRow(a)
  PROVE  Calm'
<1> DEFINE m == task[a]
<1>1. m.pc \in {"delete", "expire"} /\ SetRow(a, NoRow) /\ Goto(a, Continue(m))
      /\ UNCHANGED <<nextId, pdns, mode>>
  BY DEF DeleteRow
<1>2. m \in Tasks /\ Shape(m) /\ Hand(m, zone, pdns) /\ Loop(m, zone, pdns) /\ OthersIdle(a)
      /\ m.z \in Zones /\ Kept(zone, pdns) /\ zone \in [Zones -> Rows]
      /\ m.left \subseteq Zones
      /\ (a = Main => m.op \in {"none", "checks", "sync"})
  BY <1>1, CalmAt DEF AtZone
<1>3. ~pdns[m.z].there
  BY <1>1, <1>2 DEF Hand, Kept
<1>4. NoRow.id = 0 /\ NoRow.data = 0 /\ NoRow.active = FALSE
  <2> DEFINE r == RowOf(0)
  <2>1. NoRow = [r EXCEPT !.ver = 0] /\ r \in Rows /\ r.data = 0 /\ r.active = FALSE
    BY RowTypes, BoundAssumption DEF NoRow, RowOf
  <2> HIDE DEF r
  <2>2. NoRow.data = 0 /\ NoRow.active = FALSE
    BY <2>1 DEF Rows
  <2> QED
    BY <2>2, RowTypes
<1>5. \A x \in Zones : zone'[x] = IF x = m.z THEN NoRow ELSE zone[x]
  BY <1>1, <1>2 DEF SetRow
<1> HIDE DEF m
<1>6. Kept(zone', pdns')
  BY <1>1, <1>2, <1>3, <1>4, <1>5 DEF Kept
<1>7. m.op \in {"delete", "checks"}
  BY <1>1, <1>2 DEF Shape
<1>8. m.op = "checks" => \A x \in m.left \cap m.seen : ~zone'[x].active
  BY <1>2, <1>4, <1>5 DEF Loop
<1>9. Alone(Continue(m), zone', pdns') /\ Continue(m).op \in {m.op, "none"}
  BY <1>2, <1>7, <1>8, ContinueAlone
<1> QED
  BY <1>1, <1>2, <1>6, <1>9, CalmStep DEF m

-----------------------------------------------------------------------------

\* A user's rows go last, when none of the zones is served any more.
LEMMA DeleteUserRowsCalm ==
  ASSUME TypeInv, Calm, NEW a \in Actors, DeleteUserRows(a)
  PROVE  Calm'
<1> DEFINE m == task[a]
<1>1. m.pc = "pick" /\ m.op = "delete_user" /\ m.left = {} /\ zone' = NoRows /\ Goto(a, Idle)
      /\ UNCHANGED <<nextId, pdns, mode>>
  BY DEF DeleteUserRows, At
<1>2. Loop(m, zone, pdns) /\ OthersIdle(a)
  BY <1>1, CalmAt
<1>3. \A x \in Zones : ~pdns[x].there
  BY <1>1, <1>2 DEF Loop
<1>4. NoRow.id = 0 /\ NoRow.data = 0 /\ NoRow.active = FALSE
  <2> DEFINE r == RowOf(0)
  <2>1. NoRow = [r EXCEPT !.ver = 0] /\ r \in Rows /\ r.data = 0 /\ r.active = FALSE
    BY RowTypes, BoundAssumption DEF NoRow, RowOf
  <2> HIDE DEF r
  <2>2. NoRow.data = 0 /\ NoRow.active = FALSE
    BY <2>1 DEF Rows
  <2> QED
    BY <2>2, RowTypes
<1>5. Kept(zone', pdns')
  BY <1>1, <1>3, <1>4 DEF Kept, NoRows
<1> QED
  BY <1>1, <1>2, <1>5, IdleAlone, IdleType, CalmStep

\* The next zone of a loop
LEMMA PickFields ==
  ASSUME TypeInv, NEW a \in Actors, NEW z \in Zones, NEW pc \in Pcs, Pick(a, z, pc)
  PROVE  \E t : /\ Goto(a, t) /\ t.pc = pc /\ t.z = z /\ t.op = task[a].op
                /\ t.left = task[a].left \ {z} /\ t.seen = task[a].seen
                /\ t.rows = task[a].rows
                /\ z \in task[a].left /\ UNCHANGED <<zone, nextId, pdns, mode>>
<1> DEFINE e == task[a].rows[z].exempt
<1> DEFINE v == task[a].rows[z].ver
<1> DEFINE l == task[a].left \ {z}
<1> DEFINE t == [task[a] EXCEPT !.pc = pc, !.z = z, !.left = l, !.exempt = e, !.ver = v]
<1>1. Goto(a, t) /\ UNCHANGED <<zone, nextId, pdns, mode>> /\ z \in task[a].left
  BY DEF Pick
<1>2. task[a] \in Tasks
  BY AtType
<1> HIDE DEF e, v, l
<1>3. t.pc = pc /\ t.z = z /\ t.op = task[a].op /\ t.left = l /\ t.seen = task[a].seen
      /\ t.rows = task[a].rows
  BY <1>2 DEF Tasks
<1> QED
  BY <1>1, <1>3 DEF l

LEMMA LoopCalm ==
  ASSUME TypeInv, Calm, NEW a \in Actors, NEW z \in Zones,
         \/ RemoveNext(a, z) \/ PruneNext(a, z) \/ SyncNext(a, z)
         \/ a = Main /\ (CheckDue(z) \/ ExpirePending(z))
  PROVE  Calm'
<1> DEFINE m == task[a]
<1>1. Shape(m) /\ Loop(m, zone, pdns) /\ Kept(zone, pdns)
      /\ (m.pc # "idle" => OthersIdle(a)) /\ (a = Main => m.op \in {"none", "checks", "sync"})
  BY CalmAt
<1>2. PICK pc \in {"unserve", "metadata", "check", "expire"} :
        /\ Pick(a, z, pc)
        /\ \/ m.pc = "pick" /\ m.op = "delete_user" /\ pc = "unserve"
           \/ m.pc = "prune" /\ pc = "unserve"
           \/ m.pc = "pick" /\ m.op = "sync" /\ pc = "metadata"
           \/ m.pc = "pick" /\ m.op = "checks" /\ pc = "check"
           \/ m.pc = "pick" /\ m.op = "checks" /\ pc = "expire" /\ z \in m.seen
  BY DEF RemoveNext, PruneNext, SyncNext, CheckDue, ExpirePending, InLoop, At
<1>3. PICK t : /\ Goto(a, t) /\ t.pc = pc /\ t.z = z /\ t.op = m.op
               /\ t.left = m.left \ {z} /\ t.seen = m.seen /\ t.rows = m.rows
               /\ z \in m.left /\ UNCHANGED <<zone, nextId, pdns, mode>>
  BY <1>2, PickFields DEF Pcs, AtZone
<1> HIDE DEF m
<1>4. m.pc = "prune" => m.op = "sync"
  BY <1>1 DEF Shape
<1>5. Shape(t)
  BY <1>2, <1>3, <1>4 DEF Shape, SyncAt
<1>6. Loop(t, zone, pdns)
  BY <1>1, <1>2, <1>3, <1>4 DEF Loop, SyncAt
<1>7. Hand(t, zone, pdns)
  BY <1>1, <1>2, <1>3, <1>4 DEF Hand, Loop
<1> QED
  BY <1>1, <1>2, <1>3, <1>5, <1>6, <1>7, CalmStep DEF Alone, m

LEMMA NotDueCalm ==
  ASSUME TypeInv, Calm, NEW z \in Zones, NotDue(z)
  PROVE  Calm'
<1> DEFINE m == task[Main]
<1> DEFINE l == m.left \ {z}
<1> DEFINE t == [m EXCEPT !.left = l]
<1>0. Main \in Actors
  BY DEF Actors
<1>1. m.pc = "pick" /\ m.op = "checks" /\ Goto(Main, t) /\ UNCHANGED <<zone, nextId, pdns, mode>>
  BY DEF NotDue, InLoop, At
<1>2. m \in Tasks /\ Loop(m, zone, pdns) /\ OthersIdle(Main) /\ Kept(zone, pdns)
  BY <1>0, <1>1, CalmAt
<1> HIDE DEF m
<1>3. t.pc = "pick" /\ t.op = "checks" /\ t.left = l /\ t.seen = m.seen
  BY <1>1, <1>2 DEF Tasks
<1> HIDE DEF t
<1>4. Shape(t) /\ Hand(t, zone, pdns) /\ Loop(t, zone, pdns)
  BY <1>2, <1>1, <1>3 DEF Shape, Hand, Loop
<1> QED
  BY <1>0, <1>1, <1>2, <1>3, <1>4, CalmStep DEF Alone

LEMMA FinishCalm ==
  ASSUME TypeInv, Calm, NEW a \in Actors, Finish(a)
  PROVE  Calm'
<1>1. task[a].pc = "pick" /\ Goto(a, Idle) /\ UNCHANGED <<zone, nextId, pdns>>
  BY DEF Finish, InLoop, At
<1> QED
  BY <1>1, CalmAt, IdleAlone, IdleType, CalmStep

LEMMA RunChecksCalm ==
  ASSUME TypeInv, Calm, Isolation = "all", RunChecks
  PROVE  Calm'
<1>0. Main \in Actors
  BY DEF Actors
<1> DEFINE left == {z \in Zones : Exists(z) /\ ~zone[z].exempt /\ Room(z)}
<1>1. PICK old \in SUBSET {z \in Zones : Expirable(zone[z]) /\ ~BeingCreated(z)} :
        Goto(Main, [Idle EXCEPT !.pc = "pick", !.op = "checks", !.rows = zone, !.left = left,
                                !.seen = old])
  BY DEF RunChecks
<1> DEFINE t == [Idle EXCEPT !.pc = "pick", !.op = "checks", !.rows = zone, !.left = left,
                             !.seen = old]
<1>2. UNCHANGED <<zone, nextId, pdns, mode>> /\ MayStart(Main)
  BY DEF RunChecks
<1>3. \A x \in old : ~zone[x].active
  BY <1>1 DEF Expirable
<1>4. OthersIdle(Main) /\ Kept(zone, pdns)
  BY <1>0, <1>2, StartsAlone DEF Calm
<1> HIDE DEF left
<1>5. t.pc = "pick" /\ t.op = "checks" /\ t.seen = old
  BY IdleType DEF Tasks
<1>6. Goto(Main, t)
  BY <1>1
<1> HIDE DEF t
<1>7. Shape(t) /\ Hand(t, zone, pdns) /\ Loop(t, zone, pdns)
  BY <1>3, <1>5 DEF Shape, Hand, Loop
<1> QED
  BY <1>0, <1>2, <1>4, <1>5, <1>6, <1>7, CalmStep DEF Alone

LEMMA StartCalm ==
  ASSUME TypeInv, StartInv, Calm, Start
  PROVE  Calm'
<1> DEFINE t == [Idle EXCEPT !.pc = "list", !.op = "sync", !.rows = zone, !.force = FALSE]
<1>0. Main \in Actors /\ Actors = Handlers \cup {Main}
  BY DEF Actors
<1>1. Goto(Main, t) /\ UNCHANGED <<zone, nextId, pdns>> /\ mode = "down"
  BY DEF Start, SyncTask
<1>2. OthersIdle(Main)
  BY <1>0, <1>1, IdleType DEF StartInv, OthersIdle
<1>3. t.pc = "list" /\ t.op = "sync" /\ t.rows = zone
  BY IdleType DEF Tasks
<1> HIDE DEF t
<1>4. Shape(t) /\ Hand(t, zone, pdns) /\ Loop(t, zone, pdns)
  BY <1>3 DEF Shape, Hand, Loop, SyncAt
<1> QED
  BY <1>0, <1>1, <1>2, <1>3, <1>4, CalmStep DEF Alone, Calm

LEMMA ListServedCalm ==
  ASSUME TypeInv, Calm, NEW a \in Actors, ListServed(a)
  PROVE  Calm'
<1> DEFINE seen == {z \in Zones : There(z)}
<1> DEFINE left == Unwanted(seen, task[a].rows)
<1> DEFINE m == task[a]
<1> DEFINE t == [m EXCEPT !.seen = seen, !.left = left]
<1> DEFINE n == AfterPrune(t)
<1>1. m.pc = "list" /\ Goto(a, n) /\ UNCHANGED <<zone, nextId, pdns, mode>>
  BY DEF ListServed, At
<1>2. m \in Tasks /\ Shape(m) /\ Loop(m, zone, pdns) /\ OthersIdle(a) /\ Kept(zone, pdns)
      /\ (a = Main => m.op \in {"none", "checks", "sync"})
  BY <1>1, CalmAt
<1>3. m.op = "sync"
  BY <1>1, <1>2 DEF Shape
<1>4. seen \subseteq Zones /\ left \subseteq Zones
  BY DEF Unwanted
<1> HIDE DEF left, seen
<1>5. t \in Tasks /\ t.op = "sync" /\ t.rows = m.rows
  BY <1>2, <1>3, <1>4 DEF Tasks
<1> HIDE DEF t
<1>6. n.op = "sync" /\ n.rows = m.rows /\ n.pc \in {"pick", "prune"}
      /\ (n.pc = "pick" => n.left = Active(m.rows))
  BY <1>5, AfterPruneType
<1> HIDE DEF n
<1>7. \A x \in Zones : m.rows[x].active = zone[x].active
  BY <1>2, <1>3 DEF Loop
<1>8. Shape(n) /\ Hand(n, zone, pdns)
  BY <1>6 DEF Shape, Hand
<1>9. Loop(n, zone, pdns)
  BY <1>6, <1>7 DEF Loop, SyncAt, Active
<1> QED
  BY <1>1, <1>2, <1>3, <1>6, <1>8, <1>9, CalmStep DEF Alone

LEMMA SyncAtCalm ==
  ASSUME TypeInv, Calm, NEW a \in Actors, ReadStamp(a) \/ Adopt(a)
  PROVE  Calm'
<1> DEFINE m == task[a]
<1> DEFINE v == pdns[m.z].data
<1> DEFINE l == [m EXCEPT !.pc = "look"]
<1> DEFINE d == [m EXCEPT !.pc = "adopt"]
<1> DEFINE r == [m EXCEPT !.pc = "replace", !.data = v]
<1>1. /\ m.pc \in {"metadata", "adopt"} /\ UNCHANGED <<zone, nextId, pdns, mode>>
      /\ \/ Goto(a, l) \/ Goto(a, d) \/ Goto(a, Continue(m))
         \/ pdns[m.z].there /\ Goto(a, r)
  <2>1. CASE ReadStamp(a)
    BY <2>1 DEF ReadStamp, At
  <2>2. CASE Adopt(a)
    <3>1. IF There(m.z) THEN Goto(a, r) ELSE Goto(a, l)
      BY <2>2 DEF Adopt
    <3> QED
      BY <2>2, <3>1 DEF Adopt, At, There
  <2> QED
    BY <2>1, <2>2
<1>2. m \in Tasks /\ Shape(m) /\ Loop(m, zone, pdns) /\ Kept(zone, pdns) /\ m.z \in Zones
  BY <1>1, CalmAt DEF AtZone
<1>3. m.op = "sync" /\ m.pc \in SyncAt
  BY <1>1, <1>2 DEF Shape, SyncAt
<1>4. zone[m.z].active
  BY <1>2, <1>3 DEF Loop
<1>5. pdns[m.z].there => v \in {0, zone[m.z].id}
  BY <1>2 DEF Kept
<1>6. m.pc \in AtZone
  BY <1>1 DEF AtZone
<1> HIDE DEF v
<1>7. CASE Goto(a, l)
  <2>1. l.pc = "look" /\ l.op = m.op /\ l.z = m.z /\ l.left = m.left /\ l.seen = m.seen
        /\ l.rows = m.rows
    BY <1>2 DEF Tasks
  <2> HIDE DEF l
  <2>2. Shape(l) /\ Hand(l, zone, pdns)
    BY <1>3, <1>4, <2>1 DEF Shape, Hand, SyncAt
  <2> QED
    BY <1>1, <1>2, <1>3, <1>6, <1>7, <2>1, <2>2, MoveCalm DEF AtZone
<1>8. CASE Goto(a, d)
  <2>1. d.pc = "adopt" /\ d.op = m.op /\ d.z = m.z /\ d.left = m.left /\ d.seen = m.seen
        /\ d.rows = m.rows
    BY <1>2 DEF Tasks
  <2> HIDE DEF d
  <2>2. Shape(d) /\ Hand(d, zone, pdns)
    BY <1>3, <1>4, <2>1 DEF Shape, Hand, SyncAt
  <2> QED
    BY <1>1, <1>2, <1>3, <1>6, <1>8, <2>1, <2>2, MoveCalm DEF AtZone
<1>9. CASE pdns[m.z].there /\ Goto(a, r)
  <2>1. r.pc = "replace" /\ r.op = m.op /\ r.z = m.z /\ r.left = m.left /\ r.seen = m.seen
        /\ r.rows = m.rows /\ r.data = v
    BY <1>2 DEF Tasks
  <2> HIDE DEF r
  <2>2. Shape(r) /\ Hand(r, zone, pdns)
    BY <1>3, <1>4, <1>5, <1>9, <2>1 DEF Shape, Hand, SyncAt
  <2> QED
    BY <1>1, <1>2, <1>3, <1>6, <1>9, <2>1, <2>2, MoveCalm DEF AtZone
<1>10. CASE Goto(a, Continue(m))
  BY <1>1, <1>2, <1>3, <1>6, <1>10, DoneCalm
<1> QED
  BY <1>1, <1>7, <1>8, <1>9, <1>10

LEMMA ReplaceRrsetsCalm ==
  ASSUME TypeInv, Calm, NEW a \in Actors, ReplaceRrsets(a)
  PROVE  Calm'
<1> DEFINE m == task[a]
<1> DEFINE n == zone[m.z].ver + 1
<1> DEFINE r == [zone[m.z] EXCEPT !.data = m.data, !.ver = n]
<1> DEFINE t == [m EXCEPT !.pc = "reread"]
<1>1. m.pc = "replace" /\ SetRow(a, r) /\ Goto(a, t) /\ UNCHANGED <<nextId, pdns, mode>>
  BY DEF ReplaceRrsets, At, To
<1>2. m \in Tasks /\ Shape(m) /\ Hand(m, zone, pdns) /\ Loop(m, zone, pdns) /\ Kept(zone, pdns)
      /\ OthersIdle(a) /\ m.z \in Zones /\ zone[m.z] \in Rows /\ zone \in [Zones -> Rows]
      /\ m.left \subseteq Zones /\ (a = Main => m.op \in {"none", "checks", "sync"})
  BY <1>1, CalmAt DEF AtZone
<1>3. m.op = "sync" /\ m.pc \in SyncAt
  BY <1>1, <1>2 DEF Shape, SyncAt
<1>4. m.data \in {0, zone[m.z].id}
  BY <1>1, <1>2 DEF Hand
<1> HIDE DEF n
<1>5. r.id = zone[m.z].id /\ r.active = zone[m.z].active /\ r.data = m.data
  BY <1>2 DEF Rows
<1>6. \A x \in Zones : zone'[x] = IF x = m.z THEN r ELSE zone[x]
  BY <1>1, <1>2 DEF SetRow
<1> HIDE DEF r
<1>7. \A x \in Zones : zone'[x].active = zone[x].active
  BY <1>5, <1>6
<1>8. Kept(zone', pdns')
  BY <1>1, <1>2, <1>4, <1>5, <1>6 DEF Kept
<1> HIDE DEF m
<1>9. t.pc = "reread" /\ t.op = m.op /\ t.z = m.z /\ t.left = m.left /\ t.seen = m.seen
      /\ t.rows = m.rows
  BY <1>2 DEF Tasks
<1> HIDE DEF t
<1>10. Shape(t) /\ Hand(t, zone', pdns')
  BY <1>3, <1>9 DEF Shape, Hand, SyncAt
<1>11. Loop(t, zone', pdns')
  BY <1>2, <1>3, <1>7, <1>9 DEF Loop, SyncAt
<1> QED
  BY <1>1, <1>2, <1>8, <1>9, <1>10, <1>11, CalmStep DEF Alone, m

-----------------------------------------------------------------------------

LEMMA WorldCalm ==
  ASSUME TypeInv, StartInv, Calm, Crash \/ Wipe
  PROVE  Calm'
<1>0. Main \in Actors
  BY DEF Actors
<1>1. CASE Crash
  <2>1. \A a \in Actors : task'[a] = Idle
    BY <1>1 DEF Crash
  <2>2. UNCHANGED <<zone, pdns>>
    BY <1>1 DEF Crash
  <2>3. \A a \in Actors : Alone(task'[a], zone', pdns')
    BY <2>1, IdleAlone
  <2>4. \A a \in Actors : ~Busy(a)'
    BY <2>1, IdleType DEF Busy
  <2> QED
    BY <1>0, <2>1, <2>2, <2>3, <2>4, IdleType DEF Calm
<1>2. CASE Wipe
  <2>1. \A a \in Actors : task'[a] = Idle /\ task[a] = Idle
    BY <1>2 DEF Wipe, StartInv, Actors
  <2>2. zone' = zone /\ \A x \in Zones : pdns'[x] = NoServed
    BY <1>2 DEF Wipe
  <2>3. Kept(zone', pdns')
    BY <2>2, NoServedType DEF Kept, Calm
  <2>4. \A a \in Actors : Alone(task'[a], zone', pdns')
    BY <2>1, IdleAlone
  <2>5. \A a \in Actors : ~Busy(a)'
    BY <2>1, IdleType DEF Busy
  <2> QED
    BY <1>0, <2>1, <2>3, <2>4, <2>5, IdleType DEF Calm
<1> QED
  BY <1>1, <1>2

LEMMA StepCalm ==
  ASSUME TypeInv, Calm, NEW a \in Actors, Step(a)
  PROVE  Calm'
<1>1. ASSUME ApplyNs(a) \/ Reread(a) \/ Delegated(a) \/ RecordFailure(a) \/ DeactivateRow(a)
             \/ ActivateRow(a) \/ Probe(a) \/ ClearRow(a)
      PROVE  Calm'
  BY <1>1, ApplyNsCalm, RereadCalm, CheckCalm, RecordFailureCalm, DeactivateRowCalm,
     ActivateRowCalm, ProbeCalm, ClearRowCalm
<1>2. ASSUME Look(a) \/ Build(a) \/ StampZone(a) \/ Rejected(a) \/ Unserve(a) \/ DeleteRow(a)
             \/ NotFound(a) \/ DeleteUserRows(a) \/ Finish(a)
      PROVE  Calm'
  BY <1>2, LookCalm, BuildCalm, StampZoneCalm, ErrorCalm, UnserveCalm, DeleteRowCalm,
     DeleteUserRowsCalm, FinishCalm
<1>3. ASSUME NEW z \in Zones, RemoveNext(a, z) \/ PruneNext(a, z) \/ SyncNext(a, z)
      PROVE  Calm'
  BY <1>3, LoopCalm
<1>4. ASSUME ListServed(a) \/ ReadStamp(a) \/ Adopt(a) \/ ReplaceRrsets(a)
      PROVE  Calm'
  BY <1>4, ListServedCalm, SyncAtCalm, ReplaceRrsetsCalm
<1> QED
  BY <1>1, <1>2, <1>3, <1>4 DEF Step

LEMMA NextCalm ==
  ASSUME TypeInv, StartInv, Calm, Isolation = "all", [Next]_vars
  PROVE  Calm'
<1>0. Main \in Actors /\ Handlers \subseteq Actors /\ Main \notin Handlers
  BY ActorsAssumption DEF Actors
<1>1. ASSUME NEW h \in Handlers, Request(h)
      PROVE  Calm'
  BY <1>1, RequestCalm
<1>2. ASSUME NEW h \in Handlers, Cancel(h)
      PROVE  Calm'
  <2>1. Goto(h, Idle) /\ UNCHANGED <<zone, nextId, pdns, mode>> /\ task[h].pc # "idle"
    BY <1>2 DEF Cancel, Busy
  <2> QED
    BY <1>0, <2>1, CalmAt, IdleAlone, IdleType, CalmStep
<1>3. ASSUME NEW a \in Actors, Step(a)
      PROVE  Calm'
  BY <1>3, StepCalm
<1>4. ASSUME NEW a \in Actors, Fault(a)
      PROVE  Calm'
  BY <1>4, CheckCalm, ErrorCalm, LateAnswerCalm DEF Fault
<1>5. CASE RunChecks
  BY <1>5, RunChecksCalm
<1>6. ASSUME NEW z \in Zones, CheckDue(z) \/ ExpirePending(z) \/ NotDue(z)
      PROVE  Calm'
  BY <1>0, <1>6, LoopCalm, NotDueCalm
<1>7. CASE Start \/ Crash \/ Wipe
  BY <1>7, StartCalm, WorldCalm
<1>8. CASE UNCHANGED vars
  BY <1>8 DEF vars, Calm, Busy, OthersIdle
<1> QED
  BY <1>1, <1>2, <1>3, <1>4, <1>5, <1>6, <1>7, <1>8 DEF Next

LEMMA InitCalm == Init => Calm
<1> SUFFICES ASSUME Init PROVE Calm
  OBVIOUS
<1>0. Main \in Actors
  BY DEF Actors
<1>1. \A a \in Actors : task[a] = Idle
  BY DEF Init
<1>2. \A a \in Actors : Alone(task[a], zone, pdns) /\ ~Busy(a)
  BY <1>1, IdleAlone, IdleType DEF Busy
<1>3. Kept(zone, pdns)
  <2> DEFINE r == RowOf(0)
  <2>1. NoRow = [r EXCEPT !.ver = 0] /\ r \in Rows /\ r.data = 0 /\ r.active = FALSE
    BY RowTypes, BoundAssumption DEF NoRow, RowOf
  <2> HIDE DEF r
  <2>2. NoRow.data = 0 /\ NoRow.active = FALSE
    BY <2>1 DEF Rows
  <2> QED
    BY <2>2, NoServedType DEF Init, Kept, NoRows
<1> QED
  BY <1>0, <1>1, <1>2, <1>3, IdleType DEF Calm

\* OnlyActiveServed: when tasks do not overlap, PowerDNS has a zone only while
\* its row is active and with that row's records, whatever fails and whenever
\* the process ends.
THEOREM AloneServesActive ==
  ASSUME Isolation = "all"
  PROVE  Spec => []OnlyActiveServed
<1> DEFINE Inv == TypeInv /\ StartInv /\ Calm
<1>1. Init => Inv
  BY InitType, InitCalm DEF Init, StartInv, Actors
<1>2. Inv /\ [Next]_vars => Inv'
  BY NextType, StartInvSteps, NextCalm
<1>3. Inv => OnlyActiveServed
  BY DEF Calm, Kept, OnlyActiveServed, There
<1> QED
  BY <1>1, <1>2, <1>3, PTL DEF Spec

-----------------------------------------------------------------------------
(* Who may take a zone out of service                                       *)

\* The steps that change rows
LEMMA RowChanges ==
  ASSUME [Next]_vars, zone' # zone
  PROVE  \/ \E h \in Handlers, z \in Zones : Create(h, z)
         \/ \E a \in Actors : \/ ApplyNs(a) \/ RecordFailure(a) \/ ActivateRow(a)
                              \/ ClearRow(a) \/ ReplaceRrsets(a)
         \/ \E a \in Actors : DeactivateRow(a) \/ DeleteRow(a) \/ DeleteUserRows(a)
<1>1. ASSUME NEW h \in Handlers, Request(h) \/ Cancel(h)
      PROVE  \E z \in Zones : Create(h, z)
  BY <1>1 DEF Request, Verify, Exempt, ClearExemption, Delete, Begin, DeleteUser, AdminSync,
     Cancel
<1>2. ASSUME NEW a \in Actors, Step(a)
      PROVE  \/ ApplyNs(a) \/ RecordFailure(a) \/ ActivateRow(a) \/ ClearRow(a)
             \/ ReplaceRrsets(a) \/ DeactivateRow(a) \/ DeleteRow(a) \/ DeleteUserRows(a)
  <2>1. ~(Reread(a) \/ Delegated(a) \/ Probe(a) \/ Look(a) \/ Build(a) \/ StampZone(a))
    BY DEF Reread, Delegated, Probe, Look, Build, StampZone
  <2>2. ~(Rejected(a) \/ Unserve(a) \/ NotFound(a) \/ Finish(a) \/ ListServed(a)
          \/ ReadStamp(a) \/ Adopt(a))
    BY DEF Rejected, Unserve, NotFound, Finish, ListServed, ReadStamp, Adopt
  <2>3. \A z \in Zones : ~(RemoveNext(a, z) \/ PruneNext(a, z) \/ SyncNext(a, z))
    BY DEF RemoveNext, PruneNext, SyncNext, Pick
  <2> QED
    BY <1>2, <2>1, <2>2, <2>3 DEF Step
<1>3. \A a \in Actors : ~Fault(a)
  BY DEF Fault, NotDelegated, CheckInconclusive, CallFails, LateAnswer
<1>4. ~RunChecks /\ ~Start /\ ~Crash /\ ~Wipe
      /\ \A z \in Zones : ~(CheckDue(z) \/ ExpirePending(z) \/ NotDue(z))
  BY DEF RunChecks, Start, Crash, Wipe, CheckDue, ExpirePending, NotDue, Pick
<1> QED
  BY <1>1, <1>2, <1>3, <1>4 DEF Next, vars

\* Of those, the ones that leave every active row active
LEMMA RowsStayActive ==
  ASSUME TypeInv, NEW z \in Zones, zone[z].active, zone' # zone,
         \/ \E h \in Handlers, x \in Zones : Create(h, x)
         \/ \E a \in Actors : \/ ApplyNs(a) \/ RecordFailure(a) \/ ActivateRow(a)
                              \/ ClearRow(a) \/ ReplaceRrsets(a),
         Calm
  PROVE  zone'[z].active
<1>0. zone \in [Zones -> Rows]
  BY DEF TypeInv, Tables
<1>1. ASSUME NEW h \in Handlers, NEW x \in Zones, Create(h, x)
      PROVE  zone'[z].active
  BY <1>0, <1>1 DEF Create, Calm, Kept, Exists
<1>2. ASSUME NEW a \in Actors, ApplyNs(a) \/ RecordFailure(a) \/ ActivateRow(a)
                               \/ ClearRow(a) \/ ReplaceRrsets(a)
      PROVE  zone'[z].active
  <2> DEFINE x == task[a].z
  <2>1. x \in Zones /\ zone[x] \in Rows
    BY <1>2, AtType DEF ApplyNs, RecordFailure, ActivateRow, ClearRow, ReplaceRrsets, At, AtZone
  <2>2. \E r : SetRow(a, r) /\ (zone[x].active => r.active)
    <3> DEFINE s == Snap(a).id
    <3> DEFINE n == zone[x].ver + 1
    <3>1. CASE ApplyNs(a)
      <4> DEFINE r == [zone[x] EXCEPT !.data = s, !.ver = n]
      <4>1. SetRow(a, r)
        BY <3>1 DEF ApplyNs
      <4>2. r.active = zone[x].active
        BY <2>1 DEF Rows
      <4> QED
        BY <4>1, <4>2
    <3>2. CASE RecordFailure(a)
      <4>1. SetRow(a, Failed(zone[x]))
        BY <3>2 DEF RecordFailure
      <4>2. zone[x].active => Failed(zone[x]).active
        BY <2>1 DEF Failed, Rows
      <4> QED
        BY <4>1, <4>2
    <3>3. CASE ActivateRow(a)
      <4> DEFINE r == Activated(zone[x], task[a].exempt)
      <4>1. SetRow(a, r)
        BY <3>3 DEF ActivateRow
      <4>2. r.active = TRUE
        BY <2>1 DEF Activated, Rows
      <4> QED
        BY <4>1, <4>2
    <3>4. CASE ClearRow(a)
      <4> DEFINE r == [zone[x] EXCEPT !.exempt = FALSE, !.fails = 0]
      <4>1. SetRow(a, r)
        BY <3>4 DEF ClearRow
      <4>2. r.active = zone[x].active
        BY <2>1 DEF Rows
      <4> QED
        BY <4>1, <4>2
    <3>5. CASE ReplaceRrsets(a)
      <4> DEFINE r == [zone[x] EXCEPT !.data = task[a].data, !.ver = n]
      <4>1. SetRow(a, r)
        BY <3>5 DEF ReplaceRrsets
      <4>2. r.active = zone[x].active
        BY <2>1 DEF Rows
      <4> QED
        BY <4>1, <4>2
    <3> QED
      BY <1>2, <3>1, <3>2, <3>3, <3>4, <3>5
  <2> QED
    BY <1>0, <2>1, <2>2 DEF SetRow
<1> QED
  BY <1>1, <1>2

\* A step that takes an active row out of service
LEMMA WhoDeactivates ==
  ASSUME TypeInv, Calm, [Next]_vars, NEW z \in Zones, zone[z].active, ~zone'[z].active
  PROVE  \/ \E a \in Actors : DeactivateRow(a) /\ task[a].z = z
         \/ \E a \in Actors : DeleteRow(a) /\ task[a].z = z
         \/ \E a \in Actors : DeleteUserRows(a)
<1>1. zone' # zone
  OBVIOUS
<1>2. \E a \in Actors : DeactivateRow(a) \/ DeleteRow(a) \/ DeleteUserRows(a)
  BY <1>1, RowChanges, RowsStayActive
<1>3. zone \in [Zones -> Rows]
  BY DEF TypeInv, Tables
<1> QED
  BY <1>2, <1>3 DEF DeactivateRow, DeleteRow, SetRow

LEMMA OutOfService ==
  ASSUME TypeInv, Calm, [Next]_vars, NEW z \in Zones, zone[z].active, ~zone'[z].active
  PROVE  zone'[z].id = zone[z].id => zone[z].fails >= MaxFails
<1>1. zone[z].id # 0 /\ zone \in [Zones -> Rows]
  BY DEF Calm, Kept, TypeInv, Tables
<1>2. ASSUME NEW a \in Actors, DeactivateRow(a), task[a].z = z
      PROVE  zone[z].fails >= MaxFails /\ zone'[z].id = zone[z].id
  <2>1. task[a].pc = "deactivate" /\ Hand(task[a], zone, pdns)
    BY <1>2, CalmAt DEF DeactivateRow, At
  <2> DEFINE n == zone[z].ver + 1
  <2> DEFINE r == [zone[z] EXCEPT !.active = FALSE, !.exempt = FALSE, !.ver = n]
  <2>2. zone' = [zone EXCEPT ![z] = r]
    BY <1>2 DEF DeactivateRow, SetRow
  <2>3. r.id = zone[z].id
    BY <1>1 DEF Rows
  <2> HIDE DEF r
  <2> QED
    BY <1>1, <1>2, <2>1, <2>2, <2>3 DEF Hand
<1>3. ASSUME NEW a \in Actors, DeleteRow(a), task[a].z = z
      PROVE  zone'[z].id # zone[z].id
  <2>1. zone' = [zone EXCEPT ![z] = NoRow]
    BY <1>3 DEF DeleteRow, SetRow
  <2> QED
    BY <1>1, <2>1, RowTypes
<1>4. ASSUME NEW a \in Actors, DeleteUserRows(a)
      PROVE  zone'[z].id # zone[z].id
  BY <1>1, <1>4, RowTypes DEF DeleteUserRows, NoRows
<1> QED
  BY <1>2, <1>3, <1>4, WhoDeactivates

\* DeactivationEarned: when tasks do not overlap, an active zone goes inactive
\* only after MaxFails failed checks in a row.
THEOREM AloneEarned ==
  ASSUME Isolation = "all"
  PROVE  Spec => DeactivationEarned
<1> DEFINE Inv == TypeInv /\ StartInv /\ Calm
<1> DEFINE Earned == \A z \in Zones :
      zone[z].active /\ zone'[z].id = zone[z].id /\ ~zone'[z].active => zone[z].fails >= MaxFails
<1>1. Init => Inv
  BY InitType, InitCalm DEF Init, StartInv, Actors
<1>2. Inv /\ [Next]_vars => Inv' /\ [Earned]_vars
  BY NextType, StartInvSteps, NextCalm, OutOfService
<1> QED
  BY <1>1, <1>2, PTL DEF Spec, DeactivationEarned

=============================================================================
