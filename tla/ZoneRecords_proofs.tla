------------------------- MODULE ZoneRecords_proofs -------------------------
(***************************************************************************)
(* Theorems about ZoneRecords, for any zones, records, key names and        *)
(* actors, any assignment of operations to them, and every fault.           *)
(***************************************************************************)
EXTENDS ZoneRecords, FiniteSetTheorems, WellFoundedInduction, TLAPS

-----------------------------------------------------------------------------
(* Types                                                                    *)

\* What generated keys and secrets are told apart by; 0 is none
Keys == 0..MaxKey
Names == [KeyNames -> Keys]

RowTypes == [active : BOOLEAN, ver : Nat \ {0}, rrs : Records, key : Keys,
             nsec3 : BOOLEAN, allow : BOOLEAN, tsig : Names]
ZoneTypes == [there : BOOLEAN, stamp : Nat, rrs : Records, keys : SUBSET Keys,
              nsec3 : BOOLEAN, allow : BOOLEAN, names : SUBSET KeyNames]
ListedTypes == [active : BOOLEAN, ver : Nat, allow : BOOLEAN]

AtZone == {"patch", "store", "stamp", "keys", "add", "nsec3", "fetch", "drop", "match",
           "import", "param", "allow", "create", "names", "remaining", "rows", "remove",
           "inactive", "active", "probe", "unserve", "look", "create_zone", "converge",
           "missing", "recreate", "unkey", "replace", "adoptkey", "adoptedkey", "adoptallow",
           "adoptedallow", "reread"}
Pcs == AtZone \cup {"idle", "served", "prune", "pick", "strays"}

TaskTypes == [pc : Pcs, op : AllOps \cup {"none"}, z : Zones \cup {NoZone},
              force : BOOLEAN, rr : RRs, val : Data \cup {NoData}, nsec3 : BOOLEAN,
              had : BOOLEAN, key : Keys, keys : SUBSET Keys, name : KeyNames \cup {"none"},
              names : SUBSET KeyNames, allow : BOOLEAN, rrs : Records, ver : Nat,
              rows : [Zones -> ListedTypes], make : Names, left : SUBSET Zones,
              served : SUBSET Zones, want : SUBSET KeyNames, alone : SUBSET Zones]

\* The versions the rows have reached
Vers == [z \in Zones |-> db[z].ver]

\* A task has its type, a zone and a name where it needs them, and no version the
\* rows have not reached; away from zones it has none.
Fits(t, vers) ==
  /\ t \in TaskTypes
  /\ t.pc \in AtZone => t.z \in Zones
  /\ t.pc = "create" \/ t.op \in {"addkey", "delkey"} => t.name \in KeyNames
  /\ t.pc \notin AtZone => t.ver = 0
  /\ t.z \in Zones => t.ver <= vers[t.z]
  /\ \A z \in Zones : t.rows[z].ver <= vers[z]

Tables ==
  /\ db \in [Zones -> RowTypes] /\ pdns \in [Zones -> ZoneTypes]
  /\ tsig \in Names
  /\ mode \in {"down", "starting", "up"} /\ intact \subseteq Zones
  /\ \A z \in Zones : pdns[z].stamp <= db[z].ver

TypeInv ==
  /\ Tables /\ task \in [Actors -> TaskTypes]
  /\ \A a \in Actors : Fits(task[a], Vers)

-----------------------------------------------------------------------------
(* New keys                                                                 *)

\* A non-empty set of natural numbers has a smallest.
LEMMA Smallest ==
  ASSUME NEW S \in SUBSET Nat, S # {}
  PROVE  \E n \in S : \A m \in S : n <= m
<1> DEFINE R == OpToRel(<, Nat)
<1>1. IsWellFoundedOn(R, Nat)
  BY NatLessThanWellFounded
<1>2. \A m, n \in Nat : m < n => <<m, n>> \in R
  BY DEF OpToRel
<1> HIDE DEF R
<1>3. PICK n \in S : \A m \in S : ~ (<<m, n>> \in R)
  BY <1>1, WFMin
<1>4. \A m \in S : m \in Nat /\ ~ (m < n)
  BY <1>2, <1>3
<1> QED
  BY <1>3, <1>4

\* As long as some key is free, a generated one is free and within the bound.
LEMMA NewOfFree ==
  ASSUME NEW used \in SUBSET (1..MaxKey), used # 1..MaxKey
  PROVE  NewOf(used) \in (1..MaxKey) \ used
<1> DEFINE free == (1..MaxKey) \ used
<1>1. free \in SUBSET Nat /\ free # {}
  <2>1. free \subseteq Nat
    BY BoundAssumption
  <2>2. free # {}
    BY Zenon
  <2> QED
    BY <2>1, <2>2
<1>2. \E k \in free : \A j \in free : k <= j
  BY <1>1, Smallest
<1>3. NewOf(used) = CHOOSE k \in free : \A j \in free : k <= j
  BY DEF NewOf
<1> HIDE DEF free
<1>4. NewOf(used) \in free
  BY <1>2, <1>3
<1> QED
  BY <1>4 DEF free

LEMMA UsedTypes ==
  ASSUME TypeInv
  PROVE  UsedKeys \subseteq 1..MaxKey /\ UsedSecrets \subseteq 1..MaxKey
<1>1. Keys \ {0} = 1..MaxKey
  BY BoundAssumption DEF Keys
<1>2. \A z \in Zones : db[z].key \in Keys /\ pdns[z].keys \subseteq Keys
                       /\ \A n \in KeyNames : db[z].tsig[n] \in Keys
  BY DEF TypeInv, Tables, RowTypes, ZoneTypes, Names
<1>3. \A a \in Actors : task[a].key \in Keys /\ task[a].keys \subseteq Keys
                        /\ \A n \in KeyNames : task[a].make[n] \in Keys
  BY DEF TypeInv, TaskTypes, Names
<1>4. \A n \in KeyNames : tsig[n] \in Keys
  BY DEF TypeInv, Tables, Names
<1>5. ASSUME NEW k \in UsedKeys
      PROVE  k \in Keys /\ k # 0
  <2> DEFINE A == {{db[z].key} \cup pdns[z].keys : z \in Zones}
  <2> DEFINE B == {{task[a].key} \cup task[a].keys : a \in Actors}
  <2>1. UsedKeys = ((UNION A) \cup (UNION B)) \ {0}
    BY DEF UsedKeys
  <2> HIDE DEF A, B
  <2>2. k \in ((UNION A) \cup (UNION B)) \ {0}
    BY <1>5, <2>1, Zenon
  <2>3. k # 0 /\ ((\E X \in A : k \in X) \/ (\E X \in B : k \in X))
    BY <2>2
  <2> QED
    BY <1>2, <1>3, <2>3 DEF A, B
<1>6. ASSUME NEW k \in UsedSecrets
      PROVE  k \in Keys /\ k # 0
  <2> DEFINE A == {{db[z].tsig[n] : n \in KeyNames} : z \in Zones}
  <2> DEFINE B == {{task[a].make[n] : n \in KeyNames} : a \in Actors}
  <2> DEFINE C == {tsig[n] : n \in KeyNames} \cup {task[a].key : a \in Actors}
  <2>1. UsedSecrets = (C \cup (UNION A) \cup (UNION B)) \ {0}
    BY DEF UsedSecrets
  <2> HIDE DEF A, B, C
  <2>2. k \in (C \cup (UNION A) \cup (UNION B)) \ {0}
    BY <1>6, <2>1, Zenon
  <2>3. k # 0 /\ (k \in C \/ (\E X \in A : k \in X) \/ (\E X \in B : k \in X))
    BY <2>2
  <2> QED
    BY <1>2, <1>3, <1>4, <2>3 DEF A, B, C
<1> QED
  BY <1>1, <1>5, <1>6

LEMMA NewKeyTypes ==
  ASSUME TypeInv
  PROVE  /\ UsedKeys # 1..MaxKey => NewKey \in Keys /\ NewKey # 0
         /\ UsedSecrets # 1..MaxKey => NewSecret \in Keys /\ NewSecret # 0
BY UsedTypes, NewOfFree, BoundAssumption DEF NewKey, NewSecret, Keys

-----------------------------------------------------------------------------
(* What the steps have in common                                            *)

LEMMA Constants ==
  /\ 0 \in Keys /\ NoRrs \in Records /\ NoTsig \in Names
  /\ NewRow \in RowTypes /\ CreatedRow \in RowTypes /\ NoServed \in ZoneTypes
  /\ Listed(NewRow) \in ListedTypes /\ NoRows \in [Zones -> ListedTypes]
<1>1. 0 \in Keys /\ NoTsig \in Names
  BY BoundAssumption DEF Keys, NoTsig, Names
<1>2. NoRrs \in Records
  BY DEF NoRrs, Records
<1>3. NewRow \in RowTypes /\ NewRow.rrs = NoRrs
  BY <1>1, <1>2 DEF NewRow, RowTypes
<1>4. [NoRrs EXCEPT ![ApexNs] = OwnNs] \in Records
  BY <1>2, DataAssumption DEF Records
<1>5. CreatedRow \in RowTypes
  <2>1. PICK rrs \in Records : rrs = [NewRow.rrs EXCEPT ![ApexNs] = OwnNs]
    BY <1>3, <1>4
  <2>2. CreatedRow = [active |-> FALSE, ver |-> 2, rrs |-> rrs, key |-> 0,
                      nsec3 |-> FALSE, allow |-> FALSE, tsig |-> NoTsig]
    <3>1. CreatedRow = [NewRow EXCEPT !.ver = 2, !.rrs = rrs]
      BY <1>3, <2>1 DEF CreatedRow, RowTypes
    <3> QED
      BY <3>1 DEF NewRow
  <2> QED
    BY <1>1, <2>2 DEF RowTypes
<1>6. NoServed \in ZoneTypes
  BY <1>1, <1>2 DEF NoServed, ZoneTypes
<1>7. Listed(NewRow) \in ListedTypes
  BY DEF Listed, NewRow, ListedTypes
<1> QED
  BY <1>1, <1>2, <1>3, <1>5, <1>6, <1>7 DEF NoRows, NoRow

\* An actor without a task
LEMMA IdleFits ==
  ASSUME TypeInv
  PROVE  Idle \in TaskTypes /\ Fits(Idle, Vers)
<1>1. Idle \in TaskTypes
  BY Constants, DataAssumption DEF Idle, TaskTypes, Pcs
<1>2. \A z \in Zones : NoRows[z].ver = 1 /\ db[z].ver >= 1 /\ Vers[z] = db[z].ver
  BY DEF NoRows, NoRow, Listed, NewRow, TypeInv, Tables, RowTypes, Vers
<1>3. Idle.pc = "idle" /\ Idle.op = "none" /\ Idle.z = NoZone /\ Idle.rows = NoRows
      /\ Idle.ver = 0
  BY DEF Idle
<1> QED
  BY <1>1, <1>2, <1>3, ZonesAssumption DEF Fits, AtZone

\* What fits stays so while versions grow.
LEMMA FitsLater ==
  ASSUME NEW t, NEW u \in [Zones -> Nat], NEW v \in [Zones -> Nat], Fits(t, u),
         \A z \in Zones : u[z] <= v[z]
  PROVE  Fits(t, v)
<1>1. t.z \in Zones => t.ver <= v[t.z]
  BY DEF Fits, TaskTypes
<1>2. ASSUME NEW z \in Zones
      PROVE  t.rows[z].ver <= v[z]
  <2>1. t.rows[z].ver \in Nat /\ t.rows[z].ver <= u[z]
    BY DEF Fits, TaskTypes, ListedTypes
  <2> QED
    BY <2>1
<1> QED
  BY <1>1, <1>2 DEF Fits

LEMMA VersType == TypeInv => Vers \in [Zones -> Nat]
BY DEF TypeInv, Tables, RowTypes, Vers

\* The step of one actor, to a task that fits
LEMMA StepInv ==
  ASSUME TypeInv, NEW a \in Actors, NEW t, Goto(a, t), Tables', Fits(t, Vers'),
         \A z \in Zones : db[z].ver <= db'[z].ver
  PROVE  TypeInv'
<1>1. Vers \in [Zones -> Nat] /\ Vers' \in [Zones -> Nat]
  BY VersType DEF Tables, RowTypes, Vers
<1>2. \A z \in Zones : Vers[z] <= Vers'[z]
  BY DEF Vers
<1>3. t \in TaskTypes /\ task \in [Actors -> TaskTypes]
  BY DEF Fits, TypeInv
<1>4. task' \in [Actors -> TaskTypes] /\ task'[a] = t
      /\ \A b \in Actors : b # a => task'[b] = task[b]
  BY <1>3 DEF Goto
<1>5. ASSUME NEW b \in Actors
      PROVE  Fits(task'[b], Vers')
  <2>1. CASE b = a
    BY <1>4, <2>1
  <2>2. CASE b # a
    <3>1. Fits(task[b], Vers)
      BY DEF TypeInv
    <3> QED
      BY <1>1, <1>2, <1>4, <2>2, <3>1, FitsLater
  <2> QED
    BY <2>1, <2>2
<1> QED
  BY <1>4, <1>5 DEF TypeInv

\* One that leaves the tables alone
LEMMA QuietInv ==
  ASSUME TypeInv, NEW a \in Actors, NEW t, Goto(a, t), Fits(t, Vers),
         UNCHANGED <<db, pdns, tsig, mode, intact>>
  PROVE  TypeInv'
<1>1. Tables' /\ Vers' = Vers
  BY DEF TypeInv, Tables, Vers
<1>2. \A z \in Zones : db[z].ver <= db'[z].ver
  BY DEF TypeInv, Tables, RowTypes
<1> QED
  BY <1>1, <1>2, StepInv

LEMMA FailsInv ==
  ASSUME TypeInv, NEW a \in Actors, Fails(a), UNCHANGED <<db, pdns, tsig>>
  PROVE  TypeInv'
<1>1. Tables' /\ Vers' = Vers
  BY DEF TypeInv, Tables, Vers, Fails
<1>2. \A z \in Zones : db[z].ver <= db'[z].ver
  BY DEF TypeInv, Tables, RowTypes
<1> QED
  BY <1>1, <1>2, StepInv, IdleFits DEF Fails

\* A call that leaves the zone with a stamp it had, or one its row has reached
LEMMA ZoneInv ==
  ASSUME TypeInv, NEW a \in Actors, NEW t, NEW z \in Zones, NEW s \in ZoneTypes,
         s.stamp <= db[z].ver, pdns' = [pdns EXCEPT ![z] = s], Goto(a, t),
         Fits(t, Vers), UNCHANGED <<db, tsig, mode>>, intact' \subseteq Zones
  PROVE  TypeInv'
<1>1. pdns' \in [Zones -> ZoneTypes]
  BY DEF TypeInv, Tables
<1>2. \A x \in Zones : pdns'[x].stamp <= db'[x].ver
  BY DEF TypeInv, Tables
<1>3. Tables' /\ Vers' = Vers
  BY <1>1, <1>2 DEF TypeInv, Tables, Vers
<1>4. \A x \in Zones : db[x].ver <= db'[x].ver
  BY DEF TypeInv, Tables, RowTypes
<1> QED
  BY <1>3, <1>4, StepInv

LEMMA ServeInv ==
  ASSUME TypeInv, NEW a \in Actors, NEW t, NEW s \in ZoneTypes,
         task[a].z \in Zones, s.stamp = pdns[task[a].z].stamp, Serve(a, s, t), Fits(t, Vers)
  PROVE  TypeInv'
<1>1. PICK z \in Zones : z = task[a].z
  OBVIOUS
<1>2. s.stamp <= db[z].ver
  BY <1>1 DEF TypeInv, Tables
<1>3. /\ pdns' = [pdns EXCEPT ![z] = s] /\ Goto(a, t) /\ UNCHANGED <<db, tsig, mode>>
      /\ intact' \subseteq Zones
  BY <1>1 DEF Serve, TypeInv, Tables
<1> QED
  BY <1>2, <1>3, ZoneInv

LEMMA TsigInv ==
  ASSUME TypeInv, NEW a \in Actors, NEW t, tsig' \in Names, Goto(a, t), Fits(t, Vers),
         UNCHANGED <<db, pdns, mode, intact>>
  PROVE  TypeInv'
<1>1. Tables' /\ Vers' = Vers
  BY DEF TypeInv, Tables, Vers
<1>2. \A z \in Zones : db[z].ver <= db'[z].ver
  BY DEF TypeInv, Tables, RowTypes
<1> QED
  BY <1>1, <1>2, StepInv

\* A row moves on, and the task with it.
LEMMA RowInv ==
  ASSUME TypeInv, NEW a \in Actors, NEW t, NEW z \in Zones, NEW r \in RowTypes,
         db[z].ver <= r.ver, db' = [db EXCEPT ![z] = r], Goto(a, t), Fits(t, Vers'),
         UNCHANGED <<pdns, tsig, mode, intact>>
  PROVE  TypeInv'
<1>1. db' \in [Zones -> RowTypes] /\ \A x \in Zones : db[x].ver <= db'[x].ver
  BY DEF TypeInv, Tables, RowTypes
<1>2. \A x \in Zones : pdns'[x].stamp <= db'[x].ver
  <2>1. \A x \in Zones : /\ pdns[x].stamp \in Nat /\ db[x].ver \in Nat /\ db'[x].ver \in Nat
                         /\ pdns[x].stamp <= db[x].ver
    BY <1>1 DEF TypeInv, Tables, RowTypes, ZoneTypes
  <2> QED
    BY <1>1, <2>1
<1>3. Tables'
  BY <1>1, <1>2 DEF TypeInv, Tables
<1> QED
  BY <1>1, <1>3, StepInv

\* A task that moves keeps fitting while it stays at its zone.
LEMMA Moved ==
  ASSUME TypeInv, NEW a \in Actors, NEW t \in TaskTypes,
         t.z = task[a].z, t.ver = task[a].ver, t.op = task[a].op, t.name = task[a].name,
         \A z \in Zones : t.rows[z] \in {task[a].rows[z], NoRow},
         t.pc # "create", t.pc \in AtZone => t.z \in Zones, t.pc \notin AtZone => t.ver = 0
  PROVE  Fits(t, Vers)
<1>1. Fits(task[a], Vers) /\ \A z \in Zones : NoRow.ver <= Vers[z]
  BY DEF TypeInv, Tables, RowTypes, NoRow, Listed, NewRow, Vers
<1> QED
  BY <1>1 DEF Fits

\* What a task at a zone has
LEMMA AtZoneTypes ==
  ASSUME TypeInv, NEW a \in Actors
  PROVE  /\ task[a] \in TaskTypes /\ Fits(task[a], Vers)
         /\ task[a].pc \in AtZone =>
              task[a].z \in Zones /\ Row(a) \in RowTypes /\ Served(a) \in ZoneTypes
BY DEF TypeInv, Tables, Fits, Row, Served

LEMMA StoreInv ==
  ASSUME TypeInv, NEW a \in Actors, NEW r \in RowTypes, NEW pc \in AtZone \ {"create"},
         task[a].pc \in AtZone, Store(a, r, pc)
  PROVE  TypeInv'
<1>1. task[a] \in TaskTypes /\ Fits(task[a], Vers) /\ task[a].z \in Zones
  BY AtZoneTypes
<1>2. PICK z \in Zones : z = task[a].z
  BY <1>1
<1>3. PICK row : row = [r EXCEPT !.ver = db[z].ver + 1]
  OBVIOUS
<1>4. PICK t : t = [task[a] EXCEPT !.pc = pc, !.ver = db[z].ver + 1, !.val = NoData,
                                   !.key = 0, !.nsec3 = FALSE]
  OBVIOUS
<1>5. db[z].ver \in Nat /\ db[z] \in RowTypes
  BY DEF TypeInv, Tables, RowTypes
<1>6. row \in RowTypes /\ row.ver = db[z].ver + 1
  BY <1>3, <1>5 DEF RowTypes
<1>7. t \in TaskTypes /\ t.z = z /\ t.ver = db[z].ver + 1 /\ t.pc = pc
      /\ t.op = task[a].op /\ t.name = task[a].name /\ t.rows = task[a].rows
  <2>1. pc \in Pcs /\ db[z].ver + 1 \in Nat /\ NoData \in Data \cup {NoData}
    BY <1>5 DEF Pcs, RowTypes
  <2>2. t \in TaskTypes
    BY <1>1, <1>4, <2>1, Constants DEF TaskTypes
  <2>3. t.z = task[a].z /\ t.op = task[a].op /\ t.name = task[a].name
        /\ t.rows = task[a].rows
    BY <1>1, <1>4 DEF TaskTypes
  <2>4. t.ver = db[z].ver + 1 /\ t.pc = pc
    BY <1>1, <1>4 DEF TaskTypes
  <2> QED
    BY <1>2, <2>2, <2>3, <2>4
<1>8. db' = [db EXCEPT ![z] = row] /\ Goto(a, t) /\ UNCHANGED <<pdns, tsig, mode, intact>>
  BY <1>2, <1>3, <1>4 DEF Store
<1>9. Vers' = [Vers EXCEPT ![z] = db[z].ver + 1]
  BY <1>6, <1>8 DEF Vers, TypeInv, Tables
<1>10. Fits(t, Vers')
  <2>1. \A x \in Zones : task[a].rows[x].ver \in Nat /\ Vers[x] \in Nat
                         /\ task[a].rows[x].ver <= Vers[x] /\ Vers[z] = db[z].ver
    BY <1>1, VersType DEF Fits, TaskTypes, ListedTypes, Vers
  <2>2. \A x \in Zones : t.rows[x].ver <= Vers'[x]
    BY <1>7, <1>9, <2>1
  <2>3. t.ver <= Vers'[z]
    BY <1>5, <1>7, <1>9, VersType
  <2> QED
    BY <1>1, <1>2, <1>7, <2>2, <2>3 DEF Fits
<1>11. db[z].ver <= row.ver
  BY <1>5, <1>6
<1> QED
  BY <1>6, <1>8, <1>10, <1>11, RowInv

LEMMA ContinueFits ==
  ASSUME TypeInv, NEW a \in Actors
  PROVE  Fits(Continue(task[a]), Vers)
<1>1. CASE task[a].op = "sync"
  <2>1. PICK t : t = Continue(task[a])
    OBVIOUS
  <2>2. t = [Idle EXCEPT !.pc = "pick", !.op = "sync", !.force = task[a].force,
                         !.rows = task[a].rows, !.left = task[a].left,
                         !.served = task[a].served, !.want = task[a].want,
                         !.alone = task[a].alone]
    BY <1>1, <2>1 DEF Continue
  <2>3. Idle \in TaskTypes /\ Idle.z = NoZone /\ Fits(task[a], Vers) /\ task[a] \in TaskTypes
    BY IdleFits DEF Idle, TypeInv
  <2>4. t \in TaskTypes
    <3>1. /\ task[a].force \in BOOLEAN /\ task[a].rows \in [Zones -> ListedTypes]
          /\ task[a].left \in SUBSET Zones /\ task[a].served \in SUBSET Zones
          /\ task[a].want \in SUBSET KeyNames /\ task[a].alone \in SUBSET Zones
      BY <2>3 DEF TaskTypes
    <3>2. PICK u : u = [Idle EXCEPT !.pc = "pick", !.op = "sync", !.force = task[a].force,
                                    !.rows = task[a].rows]
      OBVIOUS
    <3>3. u \in TaskTypes
      <4>1. "pick" \in Pcs /\ "sync" \in AllOps
        BY DEF Pcs, AllOps
      <4> QED
        BY <2>3, <3>1, <3>2, <4>1 DEF TaskTypes
    <3>4. t = [u EXCEPT !.left = task[a].left, !.served = task[a].served,
                        !.want = task[a].want, !.alone = task[a].alone]
      BY <2>2, <3>2 DEF Idle
    <3> QED
      BY <3>1, <3>3, <3>4 DEF TaskTypes
  <2>5. t.z = NoZone /\ t.pc = "pick" /\ t.op = "sync" /\ t.rows = task[a].rows /\ t.ver = 0
    BY <2>2 DEF Idle
  <2> QED
    BY <2>1, <2>3, <2>4, <2>5, ZonesAssumption DEF Fits, AtZone
<1>2. CASE task[a].op # "sync"
  BY <1>2, IdleFits DEF Continue
<1> QED
  BY <1>1, <1>2

\* The program counter alone moves.
LEMMA ToFits ==
  ASSUME TypeInv, NEW a \in Actors, NEW pc \in AtZone \ {"create"}, task[a].z \in Zones
  PROVE  /\ [task[a] EXCEPT !.pc = pc] \in TaskTypes
         /\ Fits([task[a] EXCEPT !.pc = pc], Vers)
<1>1. task[a] \in TaskTypes /\ pc \in Pcs
  BY AtZoneTypes DEF Pcs
<1>2. PICK t : t = [task[a] EXCEPT !.pc = pc]
  OBVIOUS
<1>3. /\ t \in TaskTypes /\ t.z = task[a].z /\ t.ver = task[a].ver /\ t.op = task[a].op
      /\ t.name = task[a].name /\ t.rows = task[a].rows /\ t.pc = pc
  BY <1>1, <1>2 DEF TaskTypes
<1> QED
  BY <1>2, <1>3, Moved

LEMMA ToInv ==
  ASSUME TypeInv, NEW a \in Actors, NEW pc \in AtZone \ {"create"}, task[a].z \in Zones,
         To(a, pc), UNCHANGED <<db, pdns, tsig, mode, intact>>
  PROVE  TypeInv'
BY ToFits, QuietInv DEF To

\* The start of a task, which takes the zone from the others' histories
LEMMA StartsInv ==
  ASSUME TypeInv, NEW a \in Actors, NEW t, Fits(t, Vers), NEW S \in SUBSET Zones,
         task' = [b \in Actors |-> IF b = a THEN t
                                   ELSE [task[b] EXCEPT !.alone = @ \ S]],
         UNCHANGED <<db, pdns, tsig>>, intact' \subseteq Zones,
         mode' \in {"down", "starting", "up"}
  PROVE  TypeInv'
<1>1. Tables' /\ Vers' = Vers
  BY DEF TypeInv, Tables, Vers
<1>2. ASSUME NEW b \in Actors
      PROVE  task'[b] \in TaskTypes /\ Fits(task'[b], Vers)
  <2>1. CASE b = a
    BY <2>1 DEF Fits
  <2>2. CASE b # a
    <3>1. task[b] \in TaskTypes /\ Fits(task[b], Vers)
      BY AtZoneTypes
    <3>2. PICK u : u = [task[b] EXCEPT !.alone = @ \ S]
      OBVIOUS
    <3>3. u \in TaskTypes
      BY <3>1, <3>2 DEF TaskTypes
    <3>4. /\ u.z = task[b].z /\ u.ver = task[b].ver /\ u.op = task[b].op
          /\ u.name = task[b].name /\ u.rows = task[b].rows /\ u.pc = task[b].pc
      BY <3>1, <3>2 DEF TaskTypes
    <3>5. task'[b] = u
      BY <2>2, <3>2
    <3> QED
      BY <3>1, <3>3, <3>4, <3>5 DEF Fits
  <2> QED
    BY <2>1, <2>2
<1>3. task' \in [Actors -> TaskTypes]
  BY <1>2
<1> QED
  BY <1>1, <1>2, <1>3 DEF TypeInv

-----------------------------------------------------------------------------
(* Requests                                                                 *)

\* A request begins with nothing but its own arguments.
LEMMA BeginInv ==
  ASSUME TypeInv, NEW a \in Actors, NEW o \in AllOps, NEW z \in Zones, NEW t \in TaskTypes,
         Begin(a, o, z, t), t.ver = 0, t.pc = "create" \/ o \in {"addkey", "delkey"} => t.name \in KeyNames,
         \A x \in Zones : t.rows[x].ver <= Vers[x]
  PROVE  TypeInv'
<1>1. PICK u : u = [t EXCEPT !.op = o, !.z = z, !.alone = IF AtWork(z) THEN {} ELSE {z}]
  OBVIOUS
<1>2. u \in TaskTypes
  BY <1>1 DEF TaskTypes
<1>3. u.z = z /\ u.ver = 0 /\ u.op = o /\ u.name = t.name /\ u.rows = t.rows /\ u.pc = t.pc
  BY <1>1 DEF TaskTypes
<1>4. Vers[z] >= 0
  BY VersType
<1>5. Fits(u, Vers)
  BY <1>2, <1>3, <1>4 DEF Fits
<1>6. task' = [b \in Actors |-> IF b = a THEN u ELSE [task[b] EXCEPT !.alone = @ \ {z}]]
  BY <1>1 DEF Begin
<1>7. UNCHANGED <<db, pdns, tsig, mode>> /\ intact' \subseteq Zones
  BY DEF Begin, TypeInv, Tables
<1>8. mode' \in {"down", "starting", "up"}
  BY <1>7 DEF TypeInv, Tables
<1>9. {z} \in SUBSET Zones
  OBVIOUS
<1> QED
  BY <1>5, <1>6, <1>7, <1>8, <1>9, StartsInv

LEMMA IdleFields ==
  ASSUME TypeInv
  PROVE  /\ Idle \in TaskTypes /\ Idle.ver = 0 /\ Idle.pc = "idle" /\ Idle.name = "none"
         /\ Idle.rows = NoRows /\ \A x \in Zones : NoRows[x].ver <= Vers[x]
BY IdleFits DEF Idle, Fits

LEMMA RequestInv ==
  ASSUME TypeInv, NEW a \in Actors, NEW z \in Zones, Request(a, z)
  PROVE  TypeInv'
<1> USE IdleFields
<1>1. ASSUME NEW r \in RRs, NEW v \in Data \cup {NoData}, Patch(a, z, r, v)
      PROVE  TypeInv'
  <2>1. PICK t : t = [Idle EXCEPT !.pc = "patch", !.rr = r, !.val = v]
    OBVIOUS
  <2>2. t \in TaskTypes /\ t.ver = 0 /\ t.rows = NoRows /\ t.pc = "patch"
    BY <1>1, <2>1 DEF TaskTypes, Pcs, AtZone
  <2> QED
    BY <1>1, <2>1, <2>2, BeginInv DEF Patch, AllOps
<1>2. ASSUME NEW n3 \in BOOLEAN, Sign(a, z, n3)
      PROVE  TypeInv'
  <2>1. PICK t : t = [Idle EXCEPT !.pc = "keys", !.nsec3 = n3]
    OBVIOUS
  <2>2. t \in TaskTypes /\ t.ver = 0 /\ t.rows = NoRows /\ t.pc = "keys"
    BY <1>2, <2>1 DEF TaskTypes, Pcs, AtZone
  <2> QED
    BY <1>2, <2>1, <2>2, BeginInv DEF Sign, AllOps
<1>3. CASE Unsign(a, z)
  <2>1. PICK t : t = [Idle EXCEPT !.pc = "keys"]
    OBVIOUS
  <2>2. t \in TaskTypes /\ t.ver = 0 /\ t.rows = NoRows /\ t.pc = "keys"
    BY <2>1 DEF TaskTypes, Pcs, AtZone
  <2> QED
    BY <1>3, <2>1, <2>2, BeginInv DEF Unsign, AllOps
<1>4. ASSUME NEW allow \in BOOLEAN, SetAllowFrom(a, z, allow)
      PROVE  TypeInv'
  <2>1. PICK t : t = [Idle EXCEPT !.pc = "allow", !.allow = allow]
    OBVIOUS
  <2>2. t \in TaskTypes /\ t.ver = 0 /\ t.rows = NoRows /\ t.pc = "allow"
    BY <1>4, <2>1 DEF TaskTypes, Pcs, AtZone
  <2> QED
    BY <1>4, <2>1, <2>2, BeginInv DEF SetAllowFrom, AllOps
<1>5. ASSUME NEW n \in KeyNames, AddTsigKey(a, z, n)
      PROVE  TypeInv'
  <2>1. PICK t : t = [Idle EXCEPT !.pc = "create", !.name = n,
                                  !.names = Stored(db[z]) \cup {n}]
    OBVIOUS
  <2>2. Stored(db[z]) \cup {n} \subseteq KeyNames
    BY DEF Stored
  <2>3. t \in TaskTypes /\ t.ver = 0 /\ t.rows = NoRows /\ t.name = n
    BY <1>5, <2>1, <2>2 DEF TaskTypes, Pcs, AtZone
  <2> QED
    BY <1>5, <2>1, <2>3, BeginInv DEF AddTsigKey, AllOps
<1>6. ASSUME NEW n \in KeyNames, DeleteTsigKey(a, z, n)
      PROVE  TypeInv'
  <2>1. PICK t : t = [Idle EXCEPT !.pc = "store", !.name = n]
    OBVIOUS
  <2>2. t \in TaskTypes /\ t.ver = 0 /\ t.rows = NoRows /\ t.name = n
    BY <1>6, <2>1 DEF TaskTypes, Pcs, AtZone
  <2> QED
    BY <1>6, <2>1, <2>2, BeginInv DEF DeleteTsigKey, AllOps
<1>7. CASE Activate(a, z)
  <2>1. PICK rows : rows = [NoRows EXCEPT ![z] = Listed(db[z])]
    OBVIOUS
  <2>2. PICK t : t = [Idle EXCEPT !.pc = "active", !.rows = rows]
    OBVIOUS
  <2>3. Listed(db[z]) \in ListedTypes /\ Listed(db[z]).ver = Vers[z] /\ Vers[z] \in Nat
    BY VersType DEF TypeInv, Tables, RowTypes, Listed, ListedTypes, Vers
  <2>4. rows \in [Zones -> ListedTypes] /\ \A x \in Zones : rows[x].ver <= Vers[x]
    BY <2>1, <2>3, Constants
  <2>5. t \in TaskTypes /\ t.ver = 0 /\ t.rows = rows /\ t.pc = "active"
    BY <2>2, <2>4 DEF TaskTypes, Pcs, AtZone
  <2> QED
    BY <1>7, <2>1, <2>2, <2>4, <2>5, BeginInv DEF Activate, AllOps
<1>8. CASE Deactivate(a, z)
  <2>1. PICK t : t = [Idle EXCEPT !.pc = "unserve"]
    OBVIOUS
  <2>2. t \in TaskTypes /\ t.ver = 0 /\ t.rows = NoRows /\ t.pc = "unserve"
    BY <2>1 DEF TaskTypes, Pcs, AtZone
  <2> QED
    BY <1>8, <2>1, <2>2, BeginInv DEF Deactivate, AllOps
<1> QED
  BY <1>1, <1>2, <1>3, <1>4, <1>5, <1>6, <1>7, <1>8 DEF Request

LEMMA BeginSyncInv ==
  ASSUME TypeInv, NEW a \in Actors, NEW force \in BOOLEAN, BeginSync(a, force),
         mode' \in {"down", "starting", "up"}
  PROVE  TypeInv'
<1>1. PICK rows : rows = [z \in Zones |-> Listed(db[z])]
  OBVIOUS
<1>2. PICK t : t = [Idle EXCEPT !.pc = "served", !.op = "sync", !.force = force,
                                !.rows = rows, !.alone = {z \in Zones : ~AtWork(z)}]
  OBVIOUS
<1>3. \A z \in Zones : Listed(db[z]) \in ListedTypes /\ Listed(db[z]).ver = Vers[z]
                       /\ Vers[z] \in Nat
  BY VersType DEF TypeInv, Tables, RowTypes, Listed, ListedTypes, Vers
<1>4. rows \in [Zones -> ListedTypes] /\ \A x \in Zones : rows[x].ver <= Vers[x]
  BY <1>1, <1>3
<1>5. t \in TaskTypes
  <2>1. {z \in Zones : ~AtWork(z)} \in SUBSET Zones
    OBVIOUS
  <2> QED
    BY <1>2, <1>4, <2>1, IdleFields DEF TaskTypes, Pcs, AllOps
<1>11. t.ver = 0 /\ t.rows = rows /\ t.pc = "served" /\ t.op = "sync" /\ t.z = NoZone
  BY <1>2 DEF Idle
<1>6. Fits(t, Vers)
  BY <1>4, <1>5, <1>11, ZonesAssumption DEF Fits, AtZone
<1>7. task' = [b \in Actors |-> IF b = a THEN t ELSE [task[b] EXCEPT !.alone = {}]]
  BY <1>1, <1>2 DEF BeginSync
<1>8. \A b \in Actors : [task[b] EXCEPT !.alone = {}] = [task[b] EXCEPT !.alone = @ \ Zones]
  BY DEF TypeInv, TaskTypes
<1>9. task' = [b \in Actors |-> IF b = a THEN t ELSE [task[b] EXCEPT !.alone = @ \ Zones]]
  BY <1>7, <1>8
<1>10. UNCHANGED <<db, pdns, tsig>> /\ intact' \subseteq Zones
  BY DEF BeginSync, TypeInv, Tables
<1> QED
  BY <1>6, <1>9, <1>10, StartsInv

-----------------------------------------------------------------------------
(* Edits of one zone                                                        *)

\* What a step at a zone is about
LEMMA Edits ==
  ASSUME TypeInv, NEW a \in Actors, task[a].pc \in AtZone
  PROVE  /\ task[a] \in TaskTypes /\ task[a].z \in Zones
         /\ Row(a) \in RowTypes /\ Served(a) \in ZoneTypes
         /\ Row(a) = db[task[a].z] /\ Served(a) = pdns[task[a].z]
BY AtZoneTypes DEF Row, Served

LEMMA PatchServedInv ==
  ASSUME TypeInv, NEW a \in Actors, PatchServed(a)
  PROVE  TypeInv'
<1>1. task[a].pc = "patch" /\ "patch" \in AtZone /\ "store" \in AtZone /\ "store" \in Pcs
  BY DEF PatchServed, At, AtZone, Pcs
<1>2. task[a] \in TaskTypes /\ task[a].z \in Zones /\ Served(a) \in ZoneTypes
  BY <1>1, Edits
<1>3. PICK rrs : rrs = [Served(a).rrs EXCEPT ![task[a].rr] = task[a].val]
  OBVIOUS
<1>4. rrs \in Records
  BY <1>2, <1>3 DEF ZoneTypes, Records, TaskTypes
<1>5. PICK s : s = Patched(Served(a), rrs)
  OBVIOUS
<1>6. s \in ZoneTypes /\ s.stamp = Served(a).stamp
  BY <1>2, <1>4, <1>5 DEF Patched, ZoneTypes
<1>7. Serve(a, s, [task[a] EXCEPT !.pc = "store"])
  BY <1>3, <1>5 DEF PatchServed
<1>8. Fits([task[a] EXCEPT !.pc = "store"], Vers)
  BY <1>1, <1>2, ToFits
<1> QED
  BY <1>2, <1>6, <1>7, <1>8, ServeInv DEF Served

LEMMA ApplyRrsetsInv ==
  ASSUME TypeInv, NEW a \in Actors, ApplyRrsets(a)
  PROVE  TypeInv'
<1>1. task[a].pc \in AtZone /\ "stamp" \in AtZone \ {"create"}
  BY DEF ApplyRrsets, At, AtZone
<1>2. task[a] \in TaskTypes /\ Row(a) \in RowTypes
  BY <1>1, Edits
<1>3. PICK rrs : rrs = [Row(a).rrs EXCEPT ![task[a].rr] = task[a].val]
  OBVIOUS
<1>4. rrs \in Records
  BY <1>2, <1>3 DEF RowTypes, Records, TaskTypes
<1>5. PICK r : r = [Row(a) EXCEPT !.rrs = rrs]
  OBVIOUS
<1>6. r \in RowTypes
  BY <1>2, <1>4, <1>5 DEF RowTypes
<1>7. Store(a, r, "stamp")
  <2>1. r = [Row(a) EXCEPT !.rrs[task[a].rr] = task[a].val]
    BY <1>2, <1>3, <1>5 DEF RowTypes
  <2> QED
    BY <2>1 DEF ApplyRrsets
<1> QED
  BY <1>1, <1>6, <1>7, StoreInv

LEMMA ServeAllowInv ==
  ASSUME TypeInv, NEW a \in Actors, ServeAllow(a)
  PROVE  TypeInv'
<1>1. task[a].pc \in AtZone /\ {"store", "stamp"} \subseteq AtZone \ {"create"}
      /\ {"store", "stamp"} \subseteq Pcs
  BY DEF ServeAllow, At, AtZone, Pcs
<1>2. task[a] \in TaskTypes /\ task[a].z \in Zones /\ Served(a) \in ZoneTypes
  BY <1>1, Edits
<1>3. PICK pc : pc = IF task[a].op = "allow" THEN "store" ELSE "stamp"
  OBVIOUS
<1>4. Fits([task[a] EXCEPT !.pc = pc], Vers)
  BY <1>1, <1>2, <1>3, ToFits
<1>5. PICK s : s = WithAllow(Served(a), task[a].allow)
  OBVIOUS
<1>6. s \in ZoneTypes /\ s.stamp = Served(a).stamp
  BY <1>2, <1>5 DEF WithAllow, ZoneTypes, TaskTypes
<1>7. \/ Serve(a, s, [task[a] EXCEPT !.pc = pc])
      \/ Goto(a, [task[a] EXCEPT !.pc = pc]) /\ UNCHANGED <<db, pdns, tsig, mode, intact>>
  BY <1>3, <1>5 DEF ServeAllow
<1> QED
  BY <1>2, <1>4, <1>6, <1>7, ServeInv, QuietInv DEF Served

LEMMA StoreAllowInv ==
  ASSUME TypeInv, NEW a \in Actors, StoreAllow(a)
  PROVE  TypeInv'
<1>1. task[a].pc \in AtZone /\ "stamp" \in AtZone \ {"create"}
  BY DEF StoreAllow, At, AtZone
<1>2. task[a] \in TaskTypes /\ Row(a) \in RowTypes
  BY <1>1, Edits
<1>3. PICK r : r = [Row(a) EXCEPT !.allow = task[a].allow]
  OBVIOUS
<1>4. r \in RowTypes
  BY <1>2, <1>3 DEF RowTypes, TaskTypes
<1> QED
  BY <1>1, <1>3, <1>4, StoreInv DEF StoreAllow

\* The step from one place to another with a key, or with keys, of the right type
LEMMA KeyFits ==
  ASSUME TypeInv, NEW a \in Actors, NEW pc \in AtZone \ {"create"}, NEW k \in Keys,
         task[a].z \in Zones
  PROVE  Fits([task[a] EXCEPT !.pc = pc, !.key = k], Vers)
<1>1. task[a] \in TaskTypes
  BY AtZoneTypes
<1>2. PICK t : t = [task[a] EXCEPT !.pc = pc, !.key = k]
  OBVIOUS
<1>3. pc \in Pcs
  BY DEF Pcs
<1>4. t \in TaskTypes
  BY <1>1, <1>2, <1>3 DEF TaskTypes
<1>5. /\ t.z = task[a].z /\ t.ver = task[a].ver /\ t.op = task[a].op
      /\ t.name = task[a].name /\ t.rows = task[a].rows /\ t.pc = pc
  BY <1>1, <1>2 DEF TaskTypes
<1> QED
  BY <1>2, <1>4, <1>5, Moved

LEMMA KeysFits ==
  ASSUME TypeInv, NEW a \in Actors, NEW pc \in AtZone \ {"create"}, NEW ks \in SUBSET Keys,
         task[a].z \in Zones
  PROVE  Fits([task[a] EXCEPT !.pc = pc, !.keys = ks], Vers)
<1>1. task[a] \in TaskTypes
  BY AtZoneTypes
<1>2. PICK t : t = [task[a] EXCEPT !.pc = pc, !.keys = ks]
  OBVIOUS
<1>3. pc \in Pcs
  BY DEF Pcs
<1>4. t \in TaskTypes
  BY <1>1, <1>2, <1>3 DEF TaskTypes
<1>5. /\ t.z = task[a].z /\ t.ver = task[a].ver /\ t.op = task[a].op
      /\ t.name = task[a].name /\ t.rows = task[a].rows /\ t.pc = pc
  BY <1>1, <1>2 DEF TaskTypes
<1> QED
  BY <1>2, <1>4, <1>5, Moved

LEMMA NamesFits ==
  ASSUME TypeInv, NEW a \in Actors, NEW pc \in AtZone \ {"create"},
         NEW names \in SUBSET KeyNames, task[a].z \in Zones
  PROVE  Fits([task[a] EXCEPT !.pc = pc, !.names = names], Vers)
<1>1. task[a] \in TaskTypes
  BY AtZoneTypes
<1>2. PICK t : t = [task[a] EXCEPT !.pc = pc, !.names = names]
  OBVIOUS
<1>3. pc \in Pcs
  BY DEF Pcs
<1>4. t \in TaskTypes
  BY <1>1, <1>2, <1>3 DEF TaskTypes
<1>5. /\ t.z = task[a].z /\ t.ver = task[a].ver /\ t.op = task[a].op
      /\ t.name = task[a].name /\ t.rows = task[a].rows /\ t.pc = pc
  BY <1>1, <1>2 DEF TaskTypes
<1> QED
  BY <1>2, <1>4, <1>5, Moved

LEMMA ListKeysInv ==
  ASSUME TypeInv, NEW a \in Actors, ListKeys(a)
  PROVE  TypeInv'
<1>1. /\ task[a].pc \in AtZone /\ {"nsec3", "add", "drop"} \subseteq AtZone \ {"create"}
      /\ {"nsec3", "add", "drop"} \subseteq Pcs
  BY DEF ListKeys, At, AtZone, Pcs
<1>2. task[a] \in TaskTypes /\ task[a].z \in Zones /\ pdns[task[a].z] \in ZoneTypes
  BY <1>1, Edits
<1>3. PICK keys : keys = pdns[task[a].z].keys
  OBVIOUS
<1>4. keys \subseteq Keys
  BY <1>2, <1>3 DEF ZoneTypes
<1>5. ASSUME NEW k \in keys, Goto(a, [task[a] EXCEPT !.pc = "nsec3", !.key = k]),
             UNCHANGED <<db, pdns, tsig, mode, intact>>
      PROVE  TypeInv'
  BY <1>1, <1>2, <1>4, <1>5, KeyFits, QuietInv
<1>6. ASSUME To(a, "add"), UNCHANGED <<db, pdns, tsig, mode, intact>>
      PROVE  TypeInv'
  <2>1. "add" \in AtZone \ {"create"} /\ task[a].z \in Zones
    BY <1>1, <1>2
  <2> QED
    BY <1>6, <2>1, ToInv
<1>7. ASSUME NEW pc \in {"nsec3", "drop"},
             Goto(a, [task[a] EXCEPT !.pc = pc, !.keys = keys]),
             UNCHANGED <<db, pdns, tsig, mode, intact>>
      PROVE  TypeInv'
  BY <1>1, <1>2, <1>4, <1>7, KeysFits, QuietInv
<1> QED
  BY <1>3, <1>5, <1>6, <1>7 DEF ListKeys

LEMMA AddKeyInv ==
  ASSUME TypeInv, NEW a \in Actors, AddKey(a)
  PROVE  TypeInv'
<1>1. task[a].pc \in AtZone /\ "nsec3" \in AtZone \ {"create"}
  BY DEF AddKey, At, AtZone
<1>2. task[a] \in TaskTypes /\ task[a].z \in Zones /\ Served(a) \in ZoneTypes
      /\ Served(a) = pdns[task[a].z]
  BY <1>1, Edits
<1>3. NewKey \in Keys
  BY NewKeyTypes DEF AddKey
<1>4. PICK s : s = WithKey(Served(a), NewKey)
  OBVIOUS
<1>5. s \in ZoneTypes /\ s.stamp = Served(a).stamp
  BY <1>2, <1>3, <1>4 DEF WithKey, ZoneTypes
<1>6. Fits([task[a] EXCEPT !.pc = "nsec3", !.key = NewKey], Vers)
  BY <1>1, <1>2, <1>3, KeyFits
<1>7. Serve(a, s, [task[a] EXCEPT !.pc = "nsec3", !.key = NewKey])
  <2>1. pdns \in [Zones -> ZoneTypes]
    BY DEF TypeInv, Tables
  <2> QED
    BY <1>2, <1>4, <2>1 DEF AddKey, Serve
<1> QED
  BY <1>2, <1>5, <1>6, <1>7, ServeInv

LEMMA ServeNsec3Inv ==
  ASSUME TypeInv, NEW a \in Actors, ServeNsec3(a)
  PROVE  TypeInv'
<1>1. task[a].pc \in AtZone /\ {"fetch", "store"} \subseteq AtZone \ {"create"}
      /\ {"fetch", "store"} \subseteq Pcs
  BY DEF ServeNsec3, At, AtZone, Pcs
<1>2. task[a] \in TaskTypes /\ task[a].z \in Zones /\ Served(a) \in ZoneTypes
  BY <1>1, Edits
<1>3. PICK pc : pc = IF task[a].op = "sign" THEN "fetch" ELSE "store"
  OBVIOUS
<1>4. Fits([task[a] EXCEPT !.pc = pc], Vers)
  BY <1>1, <1>2, <1>3, ToFits
<1>5. PICK s : s = WithMode(Served(a), task[a].nsec3)
  OBVIOUS
<1>6. s \in ZoneTypes /\ s.stamp = Served(a).stamp
  BY <1>2, <1>5 DEF WithMode, ZoneTypes, TaskTypes
<1>7. Serve(a, s, [task[a] EXCEPT !.pc = pc])
  BY <1>3, <1>5 DEF ServeNsec3
<1> QED
  BY <1>2, <1>4, <1>6, <1>7, ServeInv DEF Served

LEMMA FetchKeyInv ==
  ASSUME TypeInv, NEW a \in Actors, FetchKey(a)
  PROVE  TypeInv'
<1>1. task[a].pc \in AtZone /\ "store" \in AtZone \ {"create"}
  BY DEF FetchKey, At, AtZone, Pcs
<1>2. task[a].z \in Zones
  BY <1>1, Edits
<1> QED
  BY <1>1, <1>2, ToInv DEF FetchKey

LEMMA StoreKeyInv ==
  ASSUME TypeInv, NEW a \in Actors, StoreKey(a)
  PROVE  TypeInv'
<1>1. task[a].pc \in AtZone /\ "stamp" \in AtZone \ {"create"}
  BY DEF StoreKey, At, AtZone
<1>2. task[a] \in TaskTypes /\ Row(a) \in RowTypes
  BY <1>1, Edits
<1>3. PICK r : r = [Row(a) EXCEPT !.key = task[a].key, !.nsec3 = task[a].nsec3]
  OBVIOUS
<1>4. r \in RowTypes
  BY <1>2, <1>3 DEF RowTypes, TaskTypes
<1> QED
  BY <1>1, <1>3, <1>4, StoreInv DEF StoreKey

-----------------------------------------------------------------------------
(* TSIG keys, activation and deactivation                                   *)

LEMMA CreateTsigInv ==
  ASSUME TypeInv, NEW a \in Actors, CreateTsig(a)
  PROVE  TypeInv'
<1>1. task[a].pc \in AtZone /\ "store" \in AtZone \ {"create"}
  BY DEF CreateTsig, At, AtZone
<1>2. task[a] \in TaskTypes /\ task[a].z \in Zones
  BY <1>1, Edits
<1>3. NewSecret \in Keys
  BY NewKeyTypes DEF CreateTsig
<1>4. Fits([task[a] EXCEPT !.pc = "store", !.key = NewSecret], Vers)
  BY <1>1, <1>2, <1>3, KeyFits
<1>5. tsig' \in Names
  BY <1>3 DEF CreateTsig, WithTsig, TypeInv, Tables, Names
<1> QED
  BY <1>4, <1>5, TsigInv DEF CreateTsig

LEMMA NameTakenInv ==
  ASSUME TypeInv, NEW a \in Actors, NameTaken(a)
  PROVE  TypeInv'
BY IdleFits, QuietInv DEF NameTaken

\* A task that adds or deletes a key has its name.
LEMMA Named ==
  ASSUME TypeInv, NEW a \in Actors
  PROVE  task[a].op \in {"addkey", "delkey"} => task[a].name \in KeyNames
BY DEF TypeInv, Fits

LEMMA TsigRow ==
  ASSUME NEW row \in RowTypes, NEW n \in KeyNames, NEW k \in Keys
  PROVE  [row EXCEPT !.tsig[n] = k] \in RowTypes
<1>1. PICK keys : keys = [row.tsig EXCEPT ![n] = k]
  OBVIOUS
<1>2. keys \in Names
  BY <1>1 DEF RowTypes, Names
<1>3. PICK r : r = [row EXCEPT !.tsig = keys]
  OBVIOUS
<1>4. r \in RowTypes
  BY <1>2, <1>3 DEF RowTypes
<1>5. r = [row EXCEPT !.tsig[n] = k]
  BY <1>1, <1>3 DEF RowTypes
<1> QED
  BY <1>4, <1>5

LEMMA StoreTsigInv ==
  ASSUME TypeInv, NEW a \in Actors, StoreTsig(a) \/ DeleteTsigRow(a)
  PROVE  TypeInv'
<1>1. task[a].pc \in AtZone /\ {"names", "remaining"} \subseteq AtZone \ {"create"}
      /\ task[a].op \in {"addkey", "delkey"}
  BY DEF StoreTsig, DeleteTsigRow, At, AtZone
<1>2. task[a] \in TaskTypes /\ Row(a) \in RowTypes /\ task[a].name \in KeyNames
  BY <1>1, Edits, Named
<1>3. task[a].key \in Keys /\ 0 \in Keys
  BY <1>2, Constants DEF TaskTypes
<1>4. CASE StoreTsig(a)
  <2>1. PICK r : r = [Row(a) EXCEPT !.tsig[task[a].name] = task[a].key]
    OBVIOUS
  <2>2. r \in RowTypes
    BY <1>2, <1>3, <2>1, TsigRow
  <2>3. Store(a, r, "names")
    BY <1>4, <2>1 DEF StoreTsig
  <2> QED
    BY <1>1, <2>2, <2>3, StoreInv
<1>5. CASE DeleteTsigRow(a)
  <2>1. PICK r : r = [Row(a) EXCEPT !.tsig[task[a].name] = 0]
    OBVIOUS
  <2>2. r \in RowTypes
    BY <1>2, <1>3, <2>1, TsigRow
  <2>3. Store(a, r, "remaining")
    BY <1>5, <2>1 DEF DeleteTsigRow
  <2> QED
    BY <1>1, <2>2, <2>3, StoreInv
<1> QED
  BY <1>4, <1>5

LEMMA ReadNamesInv ==
  ASSUME TypeInv, NEW a \in Actors, ReadNames(a)
  PROVE  TypeInv'
<1>1. task[a].pc \in AtZone /\ {"names", "remove"} \subseteq AtZone \ {"create"}
  BY DEF ReadNames, AtZone
<1>2. task[a] \in TaskTypes /\ task[a].z \in Zones
  BY <1>1, Edits
<1>3. PICK names : names = Stored(Row(a))
  OBVIOUS
<1>4. names \in SUBSET KeyNames
  BY <1>3 DEF Stored
<1>5. PICK pc : pc = IF task[a].pc = "rows" THEN "remove" ELSE "names"
  OBVIOUS
<1>6. Goto(a, [task[a] EXCEPT !.pc = pc, !.names = names])
  BY <1>3, <1>5 DEF ReadNames
<1>7. Fits([task[a] EXCEPT !.pc = pc, !.names = names], Vers)
  BY <1>1, <1>2, <1>4, <1>5, NamesFits
<1> QED
  BY <1>6, <1>7, QuietInv DEF ReadNames

LEMMA ServeNamesInv ==
  ASSUME TypeInv, NEW a \in Actors, ServeNames(a)
  PROVE  TypeInv'
<1>1. task[a].pc \in AtZone /\ {"stamp", "remove", "allow"} \subseteq AtZone \ {"create"}
  BY DEF ServeNames, At, AtZone
<1>2. task[a] \in TaskTypes /\ task[a].z \in Zones /\ Served(a) \in ZoneTypes
  BY <1>1, Edits
<1>3. PICK t : t = AfterNames(task[a])
  OBVIOUS
<1>4. Fits(t, Vers)
  <2>1. CASE task[a].op = "delkey"
    <3>1. t = [task[a] EXCEPT !.pc = "remove", !.names = {task[a].name}]
      BY <1>3, <2>1 DEF AfterNames
    <3>2. {task[a].name} \in SUBSET KeyNames
      BY <2>1, Named
    <3> QED
      BY <1>1, <1>2, <3>1, <3>2, NamesFits
  <2>2. CASE task[a].op # "delkey"
    <3>1. PICK pc \in {"stamp", "allow"} : t = [task[a] EXCEPT !.pc = pc, !.names = {}]
      BY <1>3, <2>2 DEF AfterNames
    <3> QED
      BY <1>1, <1>2, <3>1, NamesFits
  <2> QED
    BY <2>1, <2>2
<1>5. PICK s : s = WithNames(Served(a), task[a].names)
  OBVIOUS
<1>6. s \in ZoneTypes /\ s.stamp = Served(a).stamp
  BY <1>2, <1>5 DEF WithNames, ZoneTypes, TaskTypes
<1>7. Serve(a, s, t) \/ (Goto(a, t) /\ UNCHANGED <<db, pdns, tsig, mode, intact>>)
  BY <1>3, <1>5 DEF ServeNames
<1> QED
  BY <1>2, <1>4, <1>6, <1>7, ServeInv, QuietInv DEF Served

LEMMA WithoutTsigTypes ==
  ASSUME TypeInv, NEW names
  PROVE  WithoutTsig(names) \in Names
BY Constants DEF WithoutTsig, TypeInv, Tables, Names

\* The fields of a task that has names left to remove, or none
LEMMA RemovingFields ==
  ASSUME TypeInv, NEW a \in Actors, NEW names \in SUBSET KeyNames
  PROVE  \E pc \in {"unkey", "stamp", "inactive"} :
           Removing([task[a] EXCEPT !.names = names])
             = [task[a] EXCEPT !.pc = pc, !.names = names]
<1> DEFINE t == [task[a] EXCEPT !.names = names]
<1>1. task[a] \in TaskTypes
  BY AtZoneTypes
<1>2. PICK pc : pc = IF t.names # {} THEN "unkey"
                     ELSE IF t.op = "delkey" THEN "stamp" ELSE "inactive"
  OBVIOUS
<1>3. pc \in {"unkey", "stamp", "inactive"} /\ Removing(t) = [t EXCEPT !.pc = pc]
  BY <1>2 DEF Removing
<1>4. [t EXCEPT !.pc = pc] = [task[a] EXCEPT !.pc = pc, !.names = names]
  BY <1>1 DEF TaskTypes
<1> QED
  BY <1>3, <1>4

LEMMA RemovingFits ==
  ASSUME TypeInv, NEW a \in Actors, task[a].pc \in AtZone,
         NEW names \in SUBSET KeyNames
  PROVE  Fits(Removing([task[a] EXCEPT !.names = names]), Vers)
<1>1. PICK pc \in {"unkey", "stamp", "inactive"} :
        Removing([task[a] EXCEPT !.names = names])
          = [task[a] EXCEPT !.pc = pc, !.names = names]
  BY RemovingFields
<1>2. pc \in AtZone \ {"create"}
  BY <1>1 DEF AtZone
<1>3. task[a] \in TaskTypes /\ task[a].z \in Zones
  BY Edits
<1> QED
  BY <1>1, <1>2, <1>3, NamesFits

LEMMA ListTsigInv ==
  ASSUME TypeInv, NEW a \in Actors, ListTsig(a)
  PROVE  TypeInv'
<1>1. task[a].pc \in AtZone
  BY DEF ListTsig, At, AtZone
<1>2. task[a].names \cap TsigNames \in SUBSET KeyNames
  BY DEF TsigNames
<1>3. PICK t : t = Removing([task[a] EXCEPT !.names = @ \cap TsigNames])
  OBVIOUS
<1>4. Fits(t, Vers)
  BY <1>1, <1>2, <1>3, RemovingFits
<1> QED
  BY <1>3, <1>4, QuietInv DEF ListTsig

LEMMA RemoveTsigInv ==
  ASSUME TypeInv, NEW a \in Actors, NEW n \in KeyNames, RemoveTsig(a, n)
  PROVE  TypeInv'
<1>1. task[a].pc \in AtZone
  BY DEF RemoveTsig, At, AtZone
<1>2. task[a].names \ {n} \in SUBSET KeyNames
  BY AtZoneTypes DEF TaskTypes
<1>3. PICK t : t = Removing([task[a] EXCEPT !.names = @ \ {n}])
  OBVIOUS
<1>4. Fits(t, Vers)
  BY <1>1, <1>2, <1>3, RemovingFits
<1>5. tsig' \in Names
  BY WithoutTsigTypes DEF RemoveTsig
<1> QED
  BY <1>3, <1>4, <1>5, TsigInv DEF RemoveTsig

LEMMA ActivateRowInv ==
  ASSUME TypeInv, NEW a \in Actors, ActivateRow(a)
  PROVE  TypeInv'
<1>1. /\ task[a].pc \in AtZone /\ {"probe", "look"} \subseteq AtZone \ {"create"}
      /\ {"probe", "look"} \subseteq Pcs
  BY DEF ActivateRow, At, AtZone, Pcs
<1>2. /\ task[a] \in TaskTypes /\ task[a].z \in Zones /\ Row(a) \in RowTypes
      /\ Row(a) = db[task[a].z]
  BY <1>1, Edits
<1>3. PICK z \in Zones : z = task[a].z
  BY <1>2
<1>4. PICK row : row = Row(a)
  OBVIOUS
<1>5. PICK ver : ver = IF row.active THEN row.ver ELSE row.ver + 1
  OBVIOUS
<1>6. ver \in Nat \ {0} /\ row.ver <= ver /\ row \in RowTypes /\ row = db[z]
  BY <1>2, <1>3, <1>4, <1>5 DEF RowTypes
<1>7. PICK pc : pc = IF task[a].rows[task[a].z].active THEN "probe" ELSE "look"
  OBVIOUS
<1>8. PICK r : r = [row EXCEPT !.active = TRUE, !.ver = ver]
  OBVIOUS
<1>9. r \in RowTypes /\ r.ver = ver
  BY <1>6, <1>8 DEF RowTypes
<1>10. PICK t : t = [task[a] EXCEPT !.pc = pc, !.ver = ver, !.allow = row.allow,
                                    !.rows = NoRows]
  OBVIOUS
<1>11. t \in TaskTypes
  <2>1. pc \in Pcs /\ ver \in Nat /\ row.allow \in BOOLEAN /\ NoRows \in [Zones -> ListedTypes]
    BY <1>1, <1>6, <1>7, Constants DEF RowTypes
  <2> QED
    BY <1>2, <1>10, <2>1 DEF TaskTypes
<1>12. t.z = z /\ t.ver = ver /\ t.pc = pc /\ t.op = task[a].op /\ t.name = task[a].name
       /\ t.rows = NoRows
  BY <1>2, <1>3, <1>10 DEF TaskTypes
<1>13. db' = [db EXCEPT ![z] = r]
  <2>1. db \in [Zones -> RowTypes]
    BY DEF TypeInv, Tables
  <2>2. db' = [db EXCEPT ![z].active = TRUE, ![z].ver = ver]
    BY <1>3, <1>4, <1>5 DEF ActivateRow
  <2> QED
    BY <1>6, <1>8, <2>1, <2>2 DEF RowTypes
<1>14. Goto(a, t) /\ UNCHANGED <<pdns, tsig, mode, intact>>
  BY <1>4, <1>5, <1>7, <1>10 DEF ActivateRow
<1>15. Vers' = [Vers EXCEPT ![z] = ver]
  BY <1>9, <1>13 DEF Vers, TypeInv, Tables
<1>16. Fits(t, Vers')
  <2>1. Fits(task[a], Vers)
    BY AtZoneTypes
  <2>2. \A x \in Zones : NoRows[x].ver <= Vers[x] /\ NoRows[x].ver = 1
                         /\ NoRows[x].ver <= ver
    BY <1>6, IdleFields DEF NoRows, NoRow, Listed, NewRow
  <2>3. \A x \in Zones : t.rows[x].ver <= Vers'[x]
    BY <1>12, <1>15, <2>2, VersType
  <2>4. t.ver <= Vers'[z] /\ t.pc # "create"
    BY <1>1, <1>6, <1>7, <1>12, <1>15, VersType
  <2> QED
    BY <1>1, <1>3, <1>7, <1>11, <1>12, <2>1, <2>3, <2>4 DEF Fits
<1> QED
  BY <1>6, <1>9, <1>13, <1>14, <1>16, RowInv

LEMMA ProbeInv ==
  ASSUME TypeInv, NEW a \in Actors, Probe(a)
  PROVE  TypeInv'
<1>1. task[a].pc \in AtZone /\ "look" \in AtZone \ {"create"}
  BY DEF Probe, At, AtZone, Pcs
<1>2. task[a].z \in Zones
  BY <1>1, Edits
<1>3. Fits([task[a] EXCEPT !.pc = "look"], Vers)
  BY <1>1, <1>2, ToFits
<1>4. PICK t : t = IF There(task[a].z) THEN Idle ELSE [task[a] EXCEPT !.pc = "look"]
  OBVIOUS
<1>5. Fits(t, Vers)
  BY <1>3, <1>4, IdleFits
<1> QED
  BY <1>4, <1>5, QuietInv DEF Probe

LEMMA UnserveInv ==
  ASSUME TypeInv, NEW a \in Actors, Unserve(a)
  PROVE  TypeInv'
<1>1. task[a].pc \in AtZone /\ "rows" \in AtZone \ {"create"}
  BY DEF Unserve, At, AtZone, Pcs
<1>2. task[a].z \in Zones
  BY <1>1, Edits
<1>3. PICK z \in Zones : z = task[a].z
  BY <1>2
<1>4. Fits([task[a] EXCEPT !.pc = "rows"], Vers)
  BY <1>1, <1>2, ToFits
<1>5. NoServed \in ZoneTypes /\ NoServed.stamp <= db[z].ver
  BY Constants DEF NoServed, TypeInv, Tables, RowTypes
<1>6. pdns' = [pdns EXCEPT ![z] = NoServed] /\ Goto(a, [task[a] EXCEPT !.pc = "rows"])
      /\ UNCHANGED <<db, tsig, mode, intact>>
  BY <1>3 DEF Unserve, To
<1>7. intact' \subseteq Zones
  BY <1>6 DEF TypeInv, Tables
<1> QED
  BY <1>4, <1>5, <1>6, <1>7, ZoneInv

LEMMA DeactivateRowInv ==
  ASSUME TypeInv, NEW a \in Actors, DeactivateRow(a)
  PROVE  TypeInv'
<1>1. task[a].pc \in AtZone
  BY DEF DeactivateRow, At, AtZone
<1>2. task[a].z \in Zones
  BY <1>1, Edits
<1>3. PICK z \in Zones : z = task[a].z
  BY <1>2
<1>4. db \in [Zones -> RowTypes] /\ db[z] \in RowTypes
  BY DEF TypeInv, Tables
<1>5. PICK r : r = [db[z] EXCEPT !.active = FALSE, !.ver = db[z].ver + 1]
  OBVIOUS
<1>6. r \in RowTypes /\ r.ver = db[z].ver + 1 /\ db[z].ver \in Nat
  <2>1. db[z].ver \in Nat /\ db[z].ver + 1 \in Nat \ {0}
    BY <1>4 DEF RowTypes
  <2>2. r \in RowTypes
    BY <1>4, <1>5, <2>1 DEF RowTypes
  <2>3. r.ver = db[z].ver + 1
    BY <1>4, <1>5 DEF RowTypes
  <2> QED
    BY <2>1, <2>2, <2>3
<1>7. db' = [db EXCEPT ![z] = r]
  BY <1>3, <1>4, <1>5 DEF DeactivateRow, RowTypes
<1>8. Vers' = [Vers EXCEPT ![z] = db[z].ver + 1] /\ Vers[z] = db[z].ver
  BY <1>6, <1>7 DEF Vers, TypeInv, Tables
<1>9. Fits(Idle, Vers')
  <2>1. \A x \in Zones : Vers[x] <= Vers'[x] /\ Vers'[x] \in Nat
    BY <1>6, <1>8, VersType
  <2>2. Vers' \in [Zones -> Nat]
    BY <1>6, <1>8, VersType
  <2> QED
    BY <2>1, <2>2, VersType, IdleFits, FitsLater
<1>10. db[z].ver <= r.ver
  BY <1>6
<1> QED
  BY <1>6, <1>7, <1>9, <1>10, RowInv DEF DeactivateRow

\* The stamp is the version a task stored, or read from the row.
LEMMA StampInv ==
  ASSUME TypeInv, NEW a \in Actors, Stamp(a)
  PROVE  TypeInv'
<1>1. task[a].pc \in AtZone
  BY DEF Stamp, At, AtZone
<1>2. task[a] \in TaskTypes /\ task[a].z \in Zones /\ pdns[task[a].z] \in ZoneTypes
  BY <1>1, Edits
<1>3. PICK z \in Zones : z = task[a].z
  BY <1>2
<1>4. PICK s : s = WithStamp(pdns[z], task[a].ver)
  OBVIOUS
<1>5. s \in ZoneTypes /\ s.stamp = task[a].ver
  BY <1>2, <1>3, <1>4 DEF WithStamp, ZoneTypes, TaskTypes
<1>6. task[a].ver <= db[z].ver
  BY <1>3 DEF TypeInv, Fits, Vers
<1>7. pdns' = [pdns EXCEPT ![z] = s]
  BY <1>3, <1>4 DEF Stamp
<1>8. Goto(a, Continue(task[a])) /\ UNCHANGED <<db, tsig, mode>> /\ intact' \subseteq Zones
  BY <1>2 DEF Stamp, TypeInv, Tables
<1>9. s.stamp <= db[z].ver
  BY <1>5, <1>6
<1> QED
  BY <1>5, <1>7, <1>8, <1>9, ContinueFits, ZoneInv

LEMMA EditStepInv ==
  ASSUME TypeInv, NEW a \in Actors, EditStep(a)
  PROVE  TypeInv'
BY PatchServedInv, ApplyRrsetsInv, ServeAllowInv, StoreAllowInv, ListKeysInv, AddKeyInv,
   ServeNsec3Inv, FetchKeyInv, StoreKeyInv, CreateTsigInv, NameTakenInv, StoreTsigInv,
   ReadNamesInv, ServeNamesInv, ListTsigInv, RemoveTsigInv, ActivateRowInv, ProbeInv, UnserveInv,
   DeactivateRowInv, StampInv DEF EditStep

-----------------------------------------------------------------------------
(* converge                                                                 *)

LEMMA DesiredTypes ==
  ASSUME NEW rrs \in Records
  PROVE  Desired(rrs) \in Records
BY DataAssumption DEF Desired, Records

LEMMA LookInv ==
  ASSUME TypeInv, NEW a \in Actors, Look(a)
  PROVE  TypeInv'
<1>1. /\ task[a].pc \in AtZone
      /\ {"create_zone", "match", "converge"} \subseteq AtZone \ {"create"}
      /\ {"create_zone", "match", "converge"} \subseteq Pcs
  BY DEF Look, At, AtZone, Pcs
<1>2. task[a] \in TaskTypes /\ task[a].z \in Zones
  BY <1>1, Edits
<1>3. PICK rrs : rrs = Desired(db[task[a].z].rrs)
  OBVIOUS
<1>4. rrs \in Records
  BY <1>2, <1>3, DesiredTypes DEF TypeInv, Tables, RowTypes
<1>5. PICK had : had = pdns[task[a].z].nsec3
  OBVIOUS
<1>6. had \in BOOLEAN
  BY <1>2, <1>5 DEF TypeInv, Tables, ZoneTypes
<1>7. PICK pc : pc = IF ~There(task[a].z) THEN "create_zone"
                     ELSE IF pdns[task[a].z].rrs = rrs THEN "match" ELSE "converge"
  OBVIOUS
<1>8. PICK t : t = [task[a] EXCEPT !.rrs = rrs, !.had = had, !.pc = pc]
  OBVIOUS
<1>9. pc \in {"create_zone", "match", "converge"}
  BY <1>7
<1>10. t \in TaskTypes
  BY <1>1, <1>2, <1>4, <1>6, <1>8, <1>9 DEF TaskTypes
<1>11. /\ t.z = task[a].z /\ t.ver = task[a].ver /\ t.op = task[a].op
       /\ t.name = task[a].name /\ t.rows = task[a].rows /\ t.pc = pc
  BY <1>2, <1>8 DEF TaskTypes
<1>12. Fits(t, Vers)
  BY <1>1, <1>2, <1>9, <1>10, <1>11, Moved
<1>13. Goto(a, t)
  BY <1>3, <1>5, <1>7, <1>8 DEF Look
<1> QED
  BY <1>12, <1>13, QuietInv DEF Look

LEMMA CreateZoneInv ==
  ASSUME TypeInv, NEW a \in Actors, CreateZone(a)
  PROVE  TypeInv'
<1>1. task[a].pc \in AtZone /\ "match" \in AtZone \ {"create"}
  BY DEF CreateZone, At, AtZone, Pcs
<1>2. task[a] \in TaskTypes /\ task[a].z \in Zones
  BY <1>1, Edits
<1>3. PICK z \in Zones : z = task[a].z
  BY <1>2
<1>4. PICK s : s = Created(task[a].rrs)
  OBVIOUS
<1>5. s \in ZoneTypes
  <2>1. task[a].rrs \in Records /\ NoServed \in ZoneTypes
    BY <1>2, Constants DEF TaskTypes
  <2> QED
    BY <1>4, <2>1 DEF Created, ZoneTypes
<1>6. s.stamp <= db[z].ver
  <2>1. s.stamp = 0 /\ db[z].ver \in Nat
    BY <1>4 DEF Created, NoServed, TypeInv, Tables, RowTypes
  <2> QED
    BY <2>1
<1>7. Fits([task[a] EXCEPT !.pc = "match"], Vers)
  BY <1>1, <1>2, ToFits
<1>8. /\ pdns' = [pdns EXCEPT ![z] = s] /\ Goto(a, [task[a] EXCEPT !.pc = "match"])
      /\ UNCHANGED <<db, tsig, mode, intact>>
  BY <1>3, <1>4 DEF CreateZone, To
<1>9. intact' \subseteq Zones
  BY <1>8 DEF TypeInv, Tables
<1> QED
  BY <1>5, <1>6, <1>7, <1>8, <1>9, ZoneInv

LEMMA ConvergeRrsetsInv ==
  ASSUME TypeInv, NEW a \in Actors, ConvergeRrsets(a)
  PROVE  TypeInv'
<1>1. task[a].pc \in AtZone /\ "match" \in AtZone \ {"create"}
  BY DEF ConvergeRrsets, At, AtZone, Pcs
<1>2. task[a] \in TaskTypes /\ task[a].z \in Zones /\ Served(a) \in ZoneTypes
  BY <1>1, Edits
<1>3. PICK s : s = Patched(Served(a), task[a].rrs)
  OBVIOUS
<1>4. s \in ZoneTypes /\ s.stamp = Served(a).stamp
  BY <1>2, <1>3 DEF Patched, ZoneTypes, TaskTypes
<1>5. Fits([task[a] EXCEPT !.pc = "match"], Vers)
  BY <1>1, <1>2, ToFits
<1>6. Serve(a, s, [task[a] EXCEPT !.pc = "match"])
  BY <1>3 DEF ConvergeRrsets
<1> QED
  BY <1>2, <1>4, <1>5, <1>6, ServeInv DEF Served

\* What a step between two places of a task leaves alone: the zone it is at and the
\* version to stamp, the rows it keeps, and what it was begun with.
SameWork(a, t) ==
  /\ t \in TaskTypes /\ t.z = task[a].z /\ t.ver = task[a].ver /\ t.op = task[a].op
  /\ t.name = task[a].name /\ t.rows = task[a].rows

LEMMA SameWorkFits ==
  ASSUME TypeInv, NEW a \in Actors, NEW t, SameWork(a, t), t.pc \in AtZone \ {"create"},
         task[a].z \in Zones
  PROVE  Fits(t, Vers)
BY Moved DEF SameWork

LEMMA AfterImportWorks ==
  ASSUME NEW a \in Actors, NEW t, SameWork(a, t)
  PROVE  SameWork(a, AfterImport(t)) /\ AfterImport(t).pc \in {"param", "missing"}
<1>1. {"param", "missing"} \subseteq Pcs /\ t \in TaskTypes
  BY DEF Pcs, AtZone, SameWork
<1>2. CASE t.nsec3 # t.had
  <2>1. PICK u : u = [t EXCEPT !.pc = "param", !.key = 0]
    OBVIOUS
  <2>2. u \in TaskTypes
    BY <1>1, <2>1, Constants DEF TaskTypes
  <2>3. /\ u.z = t.z /\ u.ver = t.ver /\ u.op = t.op /\ u.name = t.name /\ u.rows = t.rows
        /\ u.pc = "param"
    BY <1>1, <2>1 DEF TaskTypes
  <2>4. AfterImport(t) = u
    BY <1>2, <2>1 DEF AfterImport
  <2> QED
    BY <2>2, <2>3, <2>4 DEF SameWork
<1>3. CASE t.nsec3 = t.had
  <2>1. PICK u : u = [t EXCEPT !.pc = "missing", !.key = 0, !.nsec3 = FALSE, !.had = FALSE]
    OBVIOUS
  <2>2. u \in TaskTypes
    BY <1>1, <2>1, Constants DEF TaskTypes
  <2>3. /\ u.z = t.z /\ u.ver = t.ver /\ u.op = t.op /\ u.name = t.name /\ u.rows = t.rows
        /\ u.pc = "missing"
    BY <1>1, <2>1 DEF TaskTypes
  <2>4. AfterImport(t) = u
    BY <1>3, <2>1 DEF AfterImport
  <2> QED
    BY <2>2, <2>3, <2>4 DEF SameWork
<1> QED
  BY <1>2, <1>3

LEMMA PcWorks ==
  ASSUME NEW a \in Actors, NEW t, SameWork(a, t), NEW pc \in Pcs
  PROVE  SameWork(a, [t EXCEPT !.pc = pc]) /\ [t EXCEPT !.pc = pc].pc = pc
<1>1. PICK u : u = [t EXCEPT !.pc = pc]
  OBVIOUS
<1>2. u \in TaskTypes
  BY <1>1 DEF SameWork, TaskTypes
<1>3. /\ u.z = t.z /\ u.ver = t.ver /\ u.op = t.op /\ u.name = t.name /\ u.rows = t.rows
      /\ u.pc = pc
  BY <1>1 DEF SameWork, TaskTypes
<1> QED
  BY <1>1, <1>2, <1>3 DEF SameWork

LEMMA AfterDropWorks ==
  ASSUME NEW a \in Actors, NEW t, SameWork(a, t)
  PROVE  SameWork(a, AfterDrop(t)) /\ AfterDrop(t).pc \in AtZone \ {"create"}
<1>1. {"nsec3", "import"} \subseteq Pcs /\ {"nsec3", "import", "param", "missing"} \subseteq AtZone
  BY DEF Pcs, AtZone
<1>2. \/ AfterDrop(t) = [t EXCEPT !.pc = "nsec3"] \/ AfterDrop(t) = [t EXCEPT !.pc = "import"]
      \/ AfterDrop(t) = AfterImport(t)
  BY DEF AfterDrop
<1>3. ASSUME NEW pc \in {"nsec3", "import"}, AfterDrop(t) = [t EXCEPT !.pc = pc]
      PROVE  SameWork(a, AfterDrop(t)) /\ AfterDrop(t).pc = pc
  <2>1. pc \in Pcs
    BY <1>1
  <2>2. SameWork(a, [t EXCEPT !.pc = pc]) /\ [t EXCEPT !.pc = pc].pc = pc
    BY <2>1, PcWorks
  <2> QED
    BY <1>3, <2>2, Zenon
<1>4. CASE AfterDrop(t) = AfterImport(t)
  BY <1>1, <1>4, AfterImportWorks
<1>5. CASE AfterDrop(t) = [t EXCEPT !.pc = "nsec3"]
  BY <1>1, <1>3, <1>5
<1>6. CASE AfterDrop(t) = [t EXCEPT !.pc = "import"]
  BY <1>1, <1>3, <1>6
<1> QED
  BY <1>2, <1>4, <1>5, <1>6

LEMMA MatchKeysInv ==
  ASSUME TypeInv, NEW a \in Actors, MatchKeys(a)
  PROVE  TypeInv'
<1>1. task[a].pc \in AtZone /\ "drop" \in AtZone \ {"create"} /\ "drop" \in Pcs
  BY DEF MatchKeys, At, AtZone, Pcs
<1>2. /\ task[a] \in TaskTypes /\ task[a].z \in Zones /\ Row(a) \in RowTypes
      /\ Served(a) \in ZoneTypes
  BY <1>1, Edits
<1>3. PICK keys : keys = Served(a).keys
  OBVIOUS
<1>4. PICK others : others = Others(Row(a).key, keys)
  OBVIOUS
<1>5. PICK k : k = IF Row(a).key \in keys THEN 0 ELSE Row(a).key
  OBVIOUS
<1>6. others \in SUBSET Keys /\ k \in Keys /\ Row(a).nsec3 \in BOOLEAN /\ NoRrs \in Records
  BY <1>2, <1>3, <1>4, <1>5, Constants DEF Others, ZoneTypes, RowTypes
<1>7. PICK t : t = [task[a] EXCEPT !.key = k, !.nsec3 = Row(a).nsec3, !.keys = others,
                                   !.rrs = NoRrs]
  OBVIOUS
<1>8. SameWork(a, t)
  <2>1. t \in TaskTypes
    BY <1>2, <1>6, <1>7 DEF TaskTypes
  <2>2. /\ t.z = task[a].z /\ t.ver = task[a].ver /\ t.op = task[a].op
        /\ t.name = task[a].name /\ t.rows = task[a].rows
    BY <1>2, <1>7 DEF TaskTypes
  <2> QED
    BY <2>1, <2>2 DEF SameWork
<1>9. PICK u : u = IF others = {} THEN AfterDrop(t) ELSE [t EXCEPT !.pc = "drop"]
  OBVIOUS
<1>10. Fits(u, Vers)
  <2>1. SameWork(a, u) /\ u.pc \in AtZone \ {"create"}
    <3>1. CASE others = {}
      BY <1>8, <1>9, <3>1, AfterDropWorks
    <3>2. CASE others # {}
      <4>1. SameWork(a, [t EXCEPT !.pc = "drop"]) /\ [t EXCEPT !.pc = "drop"].pc = "drop"
        BY <1>1, <1>8, PcWorks
      <4> QED
        BY <1>1, <1>9, <3>2, <4>1
    <3> QED
      BY <3>1, <3>2
  <2> QED
    BY <1>2, <2>1, SameWorkFits
<1>11. Goto(a, u)
  BY <1>3, <1>4, <1>5, <1>7, <1>9 DEF MatchKeys
<1> QED
  BY <1>10, <1>11, QuietInv DEF MatchKeys

LEMMA DropKeyInv ==
  ASSUME TypeInv, NEW a \in Actors, NEW k \in task[a].keys, DropKey(a, k)
  PROVE  TypeInv'
<1>1. task[a].pc \in AtZone \ {"create"}
  BY DEF DropKey, At, AtZone
<1>2. task[a] \in TaskTypes /\ task[a].z \in Zones /\ Served(a) \in ZoneTypes
  BY <1>1, Edits
<1>3. PICK t : t = [task[a] EXCEPT !.keys = @ \ {k}]
  OBVIOUS
<1>4. SameWork(a, t) /\ t.pc = task[a].pc
  <2>1. t \in TaskTypes
    BY <1>2, <1>3 DEF TaskTypes
  <2>2. /\ t.z = task[a].z /\ t.ver = task[a].ver /\ t.op = task[a].op
        /\ t.name = task[a].name /\ t.rows = task[a].rows /\ t.pc = task[a].pc
    BY <1>2, <1>3 DEF TaskTypes
  <2> QED
    BY <2>1, <2>2 DEF SameWork
<1>5. PICK u : u = IF t.keys = {} THEN AfterDrop(t) ELSE t
  OBVIOUS
<1>6. Fits(u, Vers)
  BY <1>1, <1>2, <1>4, <1>5, AfterDropWorks, SameWorkFits
<1>7. PICK s : s = WithoutKey(Served(a), k)
  OBVIOUS
<1>8. s \in ZoneTypes /\ s.stamp = Served(a).stamp
  BY <1>2, <1>7 DEF WithoutKey, ZoneTypes
<1>9. Serve(a, s, u)
  BY <1>3, <1>5, <1>7 DEF DropKey
<1> QED
  BY <1>2, <1>6, <1>8, <1>9, ServeInv DEF Served

LEMMA ImportKeyInv ==
  ASSUME TypeInv, NEW a \in Actors, ImportKey(a)
  PROVE  TypeInv'
<1>1. task[a].pc \in AtZone /\ {"param", "missing"} \subseteq AtZone \ {"create"}
  BY DEF ImportKey, At, AtZone
<1>2. task[a] \in TaskTypes /\ task[a].z \in Zones /\ Served(a) \in ZoneTypes
  BY <1>1, Edits
<1>3. SameWork(a, task[a])
  BY <1>2 DEF SameWork
<1>4. Fits(AfterImport(task[a]), Vers)
  BY <1>1, <1>2, <1>3, AfterImportWorks, SameWorkFits
<1>5. PICK s : s = WithKey(Served(a), task[a].key)
  OBVIOUS
<1>6. s \in ZoneTypes /\ s.stamp = Served(a).stamp
  BY <1>2, <1>5 DEF WithKey, ZoneTypes, TaskTypes
<1>7. Serve(a, s, AfterImport(task[a]))
  BY <1>5 DEF ImportKey
<1> QED
  BY <1>2, <1>4, <1>6, <1>7, ServeInv DEF Served

LEMMA ServeModeInv ==
  ASSUME TypeInv, NEW a \in Actors, ServeMode(a)
  PROVE  TypeInv'
<1>1. task[a].pc \in AtZone /\ "missing" \in Pcs /\ "missing" \in AtZone
  BY DEF ServeMode, At, AtZone, Pcs
<1>2. task[a] \in TaskTypes /\ task[a].z \in Zones /\ Served(a) \in ZoneTypes
  BY <1>1, Edits
<1>3. PICK t : t = [task[a] EXCEPT !.pc = "missing", !.nsec3 = FALSE, !.had = FALSE]
  OBVIOUS
<1>4. t \in TaskTypes
  BY <1>1, <1>2, <1>3 DEF TaskTypes
<1>5. /\ t.z = task[a].z /\ t.ver = task[a].ver /\ t.op = task[a].op
      /\ t.name = task[a].name /\ t.rows = task[a].rows /\ t.pc = "missing"
  BY <1>2, <1>3 DEF TaskTypes
<1>6. Fits(t, Vers)
  BY <1>1, <1>2, <1>4, <1>5, Moved
<1>7. PICK s : s = WithMode(Served(a), task[a].nsec3)
  OBVIOUS
<1>8. s \in ZoneTypes /\ s.stamp = Served(a).stamp
  BY <1>2, <1>7 DEF WithMode, ZoneTypes, TaskTypes
<1>9. Serve(a, s, t)
  BY <1>3, <1>7 DEF ServeMode
<1> QED
  BY <1>2, <1>6, <1>8, <1>9, ServeInv DEF Served

LEMMA MissingTsigInv ==
  ASSUME TypeInv, NEW a \in Actors, MissingTsig(a)
  PROVE  TypeInv'
<1>1. /\ task[a].pc \in AtZone /\ {"names", "recreate"} \subseteq AtZone \ {"create"}
      /\ {"names", "recreate"} \subseteq Pcs
  BY DEF MissingTsig, At, AtZone, Pcs
<1>2. task[a] \in TaskTypes /\ task[a].z \in Zones /\ Row(a) \in RowTypes
  BY <1>1, Edits
<1>3. PICK make : make = Missing(Row(a))
  OBVIOUS
<1>4. PICK names : names = Stored(Row(a))
  OBVIOUS
<1>5. make \in Names /\ names \in SUBSET KeyNames
  BY <1>2, <1>3, <1>4, Constants DEF Missing, Stored, RowTypes, Names
<1>6. PICK pc : pc = IF make = NoTsig THEN "names" ELSE "recreate"
  OBVIOUS
<1>7. PICK t : t = [task[a] EXCEPT !.names = names, !.make = make, !.pc = pc]
  OBVIOUS
<1>8. t \in TaskTypes
  BY <1>1, <1>2, <1>5, <1>6, <1>7 DEF TaskTypes
<1>9. /\ t.z = task[a].z /\ t.ver = task[a].ver /\ t.op = task[a].op
      /\ t.name = task[a].name /\ t.rows = task[a].rows /\ t.pc = pc
  BY <1>2, <1>7 DEF TaskTypes
<1>10. Fits(t, Vers)
  BY <1>1, <1>2, <1>6, <1>8, <1>9, Moved
<1>11. Goto(a, t)
  BY <1>3, <1>4, <1>6, <1>7 DEF MissingTsig
<1> QED
  BY <1>10, <1>11, QuietInv DEF MissingTsig

LEMMA RecreateTsigInv ==
  ASSUME TypeInv, NEW a \in Actors, NEW n \in KeyNames, RecreateTsig(a, n)
  PROVE  TypeInv'
<1>1. /\ task[a].pc \in AtZone /\ {"names", "recreate"} \subseteq AtZone \ {"create"}
      /\ {"names", "recreate"} \subseteq Pcs
  BY DEF RecreateTsig, At, AtZone, Pcs
<1>2. task[a] \in TaskTypes /\ task[a].z \in Zones /\ task[a].make \in Names
  BY <1>1, Edits DEF TaskTypes
<1>3. PICK make : make = [task[a].make EXCEPT ![n] = 0]
  OBVIOUS
<1>4. make \in Names /\ tsig' \in Names
  BY <1>2, <1>3, Constants DEF Names, RecreateTsig, WithTsig, TypeInv, Tables
<1>5. PICK pc : pc = IF make = NoTsig THEN "names" ELSE "recreate"
  OBVIOUS
<1>6. PICK t : t = [task[a] EXCEPT !.make = make, !.pc = pc]
  OBVIOUS
<1>7. t \in TaskTypes
  BY <1>1, <1>2, <1>4, <1>5, <1>6 DEF TaskTypes
<1>8. /\ t.z = task[a].z /\ t.ver = task[a].ver /\ t.op = task[a].op
      /\ t.name = task[a].name /\ t.rows = task[a].rows /\ t.pc = pc
  BY <1>2, <1>6 DEF TaskTypes
<1>9. Fits(t, Vers)
  BY <1>1, <1>2, <1>5, <1>7, <1>8, Moved
<1>10. Goto(a, t)
  BY <1>3, <1>5, <1>6 DEF RecreateTsig
<1> QED
  BY <1>4, <1>9, <1>10, TsigInv DEF RecreateTsig

LEMMA ConvergeStepInv ==
  ASSUME TypeInv, NEW a \in Actors, ConvergeStep(a)
  PROVE  TypeInv'
BY LookInv, CreateZoneInv, ConvergeRrsetsInv, MatchKeysInv, DropKeyInv, ImportKeyInv,
   ServeModeInv, MissingTsigInv, RecreateTsigInv DEF ConvergeStep

-----------------------------------------------------------------------------
(* sync                                                                     *)

LEMMA PrunedFits ==
  ASSUME TypeInv, NEW a \in Actors, NEW t, SameWork(a, t), task[a].pc \notin AtZone
  PROVE  Fits(Pruned(t), Vers)
<1>1. {"pick", "prune"} \subseteq Pcs /\ "pick" \notin AtZone /\ "prune" \notin AtZone
  BY DEF Pcs, AtZone
<1>2. t \in TaskTypes /\ ActiveRows(t) \in SUBSET Zones /\ t.ver = 0
  BY DEF SameWork, ActiveRows, TypeInv, Fits
<1>3. CASE t.left = {}
  <2>1. PICK u : u = [t EXCEPT !.pc = "pick", !.left = ActiveRows(t)]
    OBVIOUS
  <2>2. u \in TaskTypes
    BY <1>1, <1>2, <2>1 DEF TaskTypes
  <2>3. /\ u.z = t.z /\ u.ver = t.ver /\ u.op = t.op /\ u.name = t.name /\ u.rows = t.rows
        /\ u.pc = "pick"
    BY <1>2, <2>1 DEF TaskTypes
  <2>4. Fits(u, Vers)
    BY <1>1, <1>2, <2>2, <2>3, Moved DEF SameWork
  <2> QED
    BY <1>3, <2>1, <2>4 DEF Pruned
<1>4. CASE t.left # {}
  <2>1. PICK u : u = [t EXCEPT !.pc = "prune"]
    OBVIOUS
  <2>2. u \in TaskTypes
    BY <1>1, <1>2, <2>1 DEF TaskTypes
  <2>3. /\ u.z = t.z /\ u.ver = t.ver /\ u.op = t.op /\ u.name = t.name /\ u.rows = t.rows
        /\ u.pc = "prune"
    BY <1>2, <2>1 DEF TaskTypes
  <2>4. Fits(u, Vers)
    BY <1>1, <1>2, <2>2, <2>3, Moved DEF SameWork
  <2> QED
    BY <1>4, <2>1, <2>4 DEF Pruned
<1> QED
  BY <1>3, <1>4

LEMMA ListServedInv ==
  ASSUME TypeInv, NEW a \in Actors, ListServed(a)
  PROVE  TypeInv'
<1>1. task[a] \in TaskTypes
  BY AtZoneTypes
<1>2. PICK served : served = Listing
  OBVIOUS
<1>3. PICK left : left = Listing \ ActiveRows(task[a])
  OBVIOUS
<1>4. served \in SUBSET Zones /\ left \in SUBSET Zones
  BY <1>2, <1>3 DEF Listing
<1>5. PICK t : t = [task[a] EXCEPT !.served = served, !.left = left]
  OBVIOUS
<1>6. t \in TaskTypes
  BY <1>1, <1>4, <1>5 DEF TaskTypes
<1>7. /\ t.z = task[a].z /\ t.ver = task[a].ver /\ t.op = task[a].op
      /\ t.name = task[a].name /\ t.rows = task[a].rows
  BY <1>1, <1>5 DEF TaskTypes
<1>8. Fits(Pruned(t), Vers)
  <2>1. task[a].pc \notin AtZone
    BY DEF ListServed, At, AtZone
  <2> QED
    BY <1>6, <1>7, <2>1, PrunedFits DEF SameWork
<1>9. Goto(a, Pruned(t))
  BY <1>2, <1>3, <1>5 DEF ListServed
<1> QED
  BY <1>8, <1>9, QuietInv DEF ListServed

LEMMA PruneInv ==
  ASSUME TypeInv, NEW a \in Actors, NEW z \in Zones, Prune(a, z)
  PROVE  TypeInv'
<1>1. task[a] \in TaskTypes
  BY AtZoneTypes
<1>2. PICK t : t = [task[a] EXCEPT !.left = @ \ {z}]
  OBVIOUS
<1>3. t \in TaskTypes
  BY <1>1, <1>2 DEF TaskTypes
<1>4. /\ t.z = task[a].z /\ t.ver = task[a].ver /\ t.op = task[a].op
      /\ t.name = task[a].name /\ t.rows = task[a].rows
  BY <1>1, <1>2 DEF TaskTypes
<1>5. Fits(Pruned(t), Vers)
  <2>1. task[a].pc \notin AtZone
    BY DEF Prune, At, AtZone
  <2> QED
    BY <1>3, <1>4, <2>1, PrunedFits DEF SameWork
<1>6. NoServed \in ZoneTypes /\ NoServed.stamp <= db[z].ver
  BY Constants DEF NoServed, TypeInv, Tables, RowTypes
<1>7. /\ pdns' = [pdns EXCEPT ![z] = NoServed] /\ Goto(a, Pruned(t))
      /\ UNCHANGED <<db, tsig, mode, intact>>
  BY <1>2 DEF Prune
<1>8. intact' \subseteq Zones
  BY <1>7 DEF TypeInv, Tables
<1> QED
  BY <1>5, <1>6, <1>7, <1>8, ZoneInv

LEMMA PickZoneInv ==
  ASSUME TypeInv, NEW a \in Actors, NEW z \in Zones, PickZone(a, z)
  PROVE  TypeInv'
<1>1. /\ task[a] \in TaskTypes /\ Fits(task[a], Vers) /\ Vers[z] = db[z].ver
      /\ task[a].pc = "pick"
  BY AtZoneTypes DEF PickZone, At, Vers
<1>2. {"replace", "look"} \subseteq Pcs
  BY DEF Pcs, AtZone
<1>3. PICK row : row = task[a].rows[z]
  OBVIOUS
<1>4. PICK adopts : adopts = (z \in task[a].served /\ pdns[z].stamp = 0)
  OBVIOUS
<1>5. PICK rows : rows = [task[a].rows EXCEPT ![z] = IF adopts THEN @ ELSE NoRow]
  OBVIOUS
<1>6. NoRow \in ListedTypes /\ task[a].rows \in [Zones -> ListedTypes] /\ row \in ListedTypes
  BY <1>1, <1>3, Constants DEF NoRow, TaskTypes
<1>7. rows \in [Zones -> ListedTypes] /\ \A x \in Zones : rows[x] \in {task[a].rows[x], NoRow}
  BY <1>5, <1>6
<1>8. PICK left : left = task[a].left \ {z}
  OBVIOUS
<1>9. PICK want : want = task[a].want \cup Stored(db[z])
  OBVIOUS
<1>10. left \in SUBSET Zones /\ want \in SUBSET KeyNames
  BY <1>1, <1>8, <1>9 DEF TaskTypes, Stored
<1>11. PICK t : t = [task[a] EXCEPT !.left = left, !.want = want, !.rows = rows]
  OBVIOUS
<1>12. t \in TaskTypes
  BY <1>1, <1>7, <1>10, <1>11 DEF TaskTypes
<1>13. /\ t.z = task[a].z /\ t.ver = task[a].ver /\ t.op = task[a].op
       /\ t.name = task[a].name /\ t.rows = rows /\ t.pc = "pick"
  BY <1>1, <1>11 DEF TaskTypes
<1>14. \A x \in Zones : t.rows[x].ver <= Vers[x]
  <2>1. \A x \in Zones : task[a].rows[x].ver <= Vers[x] /\ NoRow.ver <= Vers[x]
    BY <1>1, IdleFields DEF Fits, NoRows
  <2> QED
    BY <1>7, <1>13, <2>1
<1>15. task[a].ver = 0 /\ Vers[z] >= 0
  BY <1>1, VersType DEF Fits, AtZone
<1>16. PICK u : u = [t EXCEPT !.pc = "replace", !.z = z, !.rrs = pdns[z].rrs,
                              !.had = pdns[z].nsec3]
  OBVIOUS
<1>17. PICK w : w = [t EXCEPT !.pc = "look", !.z = z, !.ver = row.ver, !.allow = row.allow]
  OBVIOUS
<1>18. Goto(a, CASE adopts /\ There(z) -> u
                 [] ~adopts /\ ~t.force /\ z \in t.served /\ pdns[z].stamp = row.ver -> t
                 [] OTHER -> w)
  BY <1>3, <1>4, <1>5, <1>8, <1>9, <1>11, <1>16, <1>17 DEF PickZone
<1>19. UNCHANGED <<db, pdns, tsig, mode, intact>>
  BY DEF PickZone
<1>20. Fits(t, Vers)
  BY <1>1, <1>12, <1>13, <1>14 DEF Fits, AtZone
<1>21. Fits(w, Vers)
  <2>1. row.ver \in Nat /\ row.allow \in BOOLEAN /\ row.ver <= Vers[z]
    BY <1>1, <1>3, <1>6 DEF ListedTypes, Fits
  <2>2. w \in TaskTypes
    BY <1>2, <1>12, <1>17, <2>1 DEF TaskTypes
  <2>3. w.z = z /\ w.ver = row.ver /\ w.op = t.op /\ w.name = t.name /\ w.rows = t.rows
        /\ w.pc = "look"
    BY <1>12, <1>17 DEF TaskTypes
  <2> QED
    BY <1>1, <1>13, <1>14, <2>1, <2>2, <2>3 DEF Fits, AtZone
<1>22. Fits(u, Vers)
  <2>1. pdns[z].rrs \in Records /\ pdns[z].nsec3 \in BOOLEAN
    BY DEF TypeInv, Tables, ZoneTypes
  <2>2. u \in TaskTypes
    BY <1>2, <1>12, <1>16, <2>1 DEF TaskTypes
  <2>3. u.z = z /\ u.ver = t.ver /\ u.op = t.op /\ u.name = t.name /\ u.rows = t.rows
        /\ u.pc = "replace"
    BY <1>12, <1>16 DEF TaskTypes
  <2>4. u.ver <= Vers[z]
    BY <1>13, <1>15, <2>3
  <2> QED
    BY <1>1, <1>13, <1>14, <2>2, <2>3, <2>4 DEF Fits, AtZone
<1>23. PICK x : Goto(a, x) /\ x \in {t, u, w}
  BY <1>18
<1> QED
  BY <1>19, <1>20, <1>21, <1>22, <1>23, QuietInv

LEMMA AdoptLists == \A t : AdoptList(t) \in AtZone \ {"create"} /\ AdoptList(t) \in Pcs
BY DEF AdoptList, AtZone, Pcs

LEMMA ReplaceRrsetsInv ==
  ASSUME TypeInv, NEW a \in Actors, ReplaceRrsets(a)
  PROVE  TypeInv'
<1>1. task[a].pc \in AtZone /\ "adoptkey" \in AtZone \ {"create"}
  BY DEF ReplaceRrsets, At, AtZone
<1>2. task[a] \in TaskTypes /\ Row(a) \in RowTypes
  BY <1>1, Edits
<1>3. PICK r : r = [Row(a) EXCEPT !.rrs = task[a].rrs]
  OBVIOUS
<1>4. r \in RowTypes
  BY <1>2, <1>3 DEF RowTypes, TaskTypes
<1>5. PICK pc : pc = IF Row(a).key = 0 THEN "adoptkey" ELSE AdoptList(task[a])
  OBVIOUS
<1>6. pc \in AtZone \ {"create"}
  BY <1>1, <1>5, AdoptLists
<1>7. Store(a, r, pc)
  BY <1>3, <1>5 DEF ReplaceRrsets
<1> QED
  BY <1>1, <1>4, <1>6, <1>7, StoreInv

LEMMA AdoptKeyInv ==
  ASSUME TypeInv, NEW a \in Actors, AdoptKey(a)
  PROVE  TypeInv'
<1>1. task[a].pc \in AtZone /\ "adoptedkey" \in AtZone \ {"create"}
  BY DEF AdoptKey, At, AtZone
<1>2. task[a].z \in Zones /\ Served(a) \in ZoneTypes
  BY <1>1, Edits
<1>3. Served(a).keys \subseteq Keys
  BY <1>2 DEF ZoneTypes
<1>4. ASSUME NEW k \in Served(a).keys, Goto(a, [task[a] EXCEPT !.pc = "adoptedkey", !.key = k]),
             UNCHANGED <<db, pdns, tsig, mode, intact>>
      PROVE  TypeInv'
  BY <1>1, <1>2, <1>3, <1>4, KeyFits, QuietInv
<1>5. ASSUME To(a, AdoptList(task[a])), UNCHANGED <<db, pdns, tsig, mode, intact>>
      PROVE  TypeInv'
  BY <1>2, <1>5, AdoptLists, ToInv
<1> QED
  BY <1>4, <1>5 DEF AdoptKey

LEMMA StoreAdoptedInv ==
  ASSUME TypeInv, NEW a \in Actors, StoreAdoptedKey(a) \/ StoreAdoptedAllow(a)
  PROVE  TypeInv'
<1>1. task[a].pc \in AtZone /\ "reread" \in AtZone \ {"create"}
  BY DEF StoreAdoptedKey, StoreAdoptedAllow, At, AtZone
<1>2. task[a] \in TaskTypes /\ Row(a) \in RowTypes
  BY <1>1, Edits
<1>3. CASE StoreAdoptedKey(a)
  <2>1. PICK r : r = [Row(a) EXCEPT !.key = task[a].key, !.nsec3 = task[a].had]
    OBVIOUS
  <2>2. r \in RowTypes
    BY <1>2, <2>1 DEF RowTypes, TaskTypes
  <2>3. Store(a, r, AdoptList(task[a]))
    BY <1>3, <2>1 DEF StoreAdoptedKey
  <2> QED
    BY <1>1, <2>2, <2>3, AdoptLists, StoreInv
<1>4. CASE StoreAdoptedAllow(a)
  <2>1. PICK r : r = [Row(a) EXCEPT !.allow = TRUE]
    OBVIOUS
  <2>2. r \in RowTypes
    BY <1>2, <2>1 DEF RowTypes
  <2>3. Store(a, r, "reread")
    BY <1>4, <2>1 DEF StoreAdoptedAllow
  <2> QED
    BY <1>1, <2>2, <2>3, StoreInv
<1> QED
  BY <1>3, <1>4

LEMMA AdoptAllowInv ==
  ASSUME TypeInv, NEW a \in Actors, AdoptAllow(a)
  PROVE  TypeInv'
<1>1. task[a].pc \in AtZone /\ {"adoptedallow", "reread"} \subseteq AtZone \ {"create"}
  BY DEF AdoptAllow, At, AtZone
<1>2. task[a].z \in Zones
  BY <1>1, Edits
<1>3. PICK pc : pc = IF Served(a).allow THEN "adoptedallow" ELSE "reread"
  OBVIOUS
<1>4. To(a, pc)
  BY <1>3 DEF AdoptAllow
<1> QED
  BY <1>1, <1>2, <1>3, <1>4, ToInv DEF AdoptAllow

LEMMA RereadInv ==
  ASSUME TypeInv, NEW a \in Actors, Reread(a)
  PROVE  TypeInv'
<1>1. task[a].pc \in AtZone /\ "look" \in AtZone \ {"create"} /\ "look" \in Pcs
  BY DEF Reread, At, AtZone, Pcs
<1>2. task[a] \in TaskTypes /\ task[a].z \in Zones /\ Row(a) \in RowTypes
      /\ Row(a) = db[task[a].z] /\ Fits(task[a], Vers)
  BY <1>1, Edits, AtZoneTypes
<1>3. PICK rows : rows = [task[a].rows EXCEPT ![task[a].z] = NoRow]
  OBVIOUS
<1>4. rows \in [Zones -> ListedTypes] /\ \A x \in Zones : rows[x] \in {task[a].rows[x], NoRow}
  BY <1>2, <1>3, Constants DEF NoRow, TaskTypes
<1>5. PICK t : t = [task[a] EXCEPT !.pc = "look", !.ver = Row(a).ver, !.allow = Row(a).allow,
                                   !.key = 0, !.had = FALSE, !.rows = rows]
  OBVIOUS
<1>6. Row(a).ver \in Nat /\ Row(a).allow \in BOOLEAN /\ 0 \in Keys
  BY <1>2, Constants DEF RowTypes
<1>7. t \in TaskTypes
  BY <1>1, <1>2, <1>4, <1>5, <1>6 DEF TaskTypes
<1>8. t.z = task[a].z /\ t.ver = Row(a).ver /\ t.op = task[a].op /\ t.name = task[a].name
      /\ t.rows = rows /\ t.pc = "look"
  BY <1>2, <1>5 DEF TaskTypes
<1>9. Fits(t, Vers)
  <2>1. \A x \in Zones : task[a].rows[x].ver <= Vers[x] /\ NoRow.ver <= Vers[x]
    BY <1>2, IdleFields DEF Fits, NoRows
  <2>2. \A x \in Zones : t.rows[x].ver <= Vers[x]
    BY <1>4, <1>8, <2>1
  <2>3. t.ver <= Vers[t.z]
    BY <1>2, <1>6, <1>8 DEF Vers
  <2> QED
    BY <1>1, <1>2, <1>7, <1>8, <2>2, <2>3 DEF Fits
<1>10. Goto(a, t)
  BY <1>3, <1>5 DEF Reread
<1> QED
  BY <1>9, <1>10, QuietInv DEF Reread

LEMMA ListStraysInv ==
  ASSUME TypeInv, NEW a \in Actors, ListStrays(a)
  PROVE  TypeInv'
<1>1. task[a] \in TaskTypes /\ "strays" \in Pcs /\ "strays" \notin AtZone
      /\ task[a].pc = "pick" /\ "pick" \notin AtZone /\ Fits(task[a], Vers)
  BY AtZoneTypes DEF ListStrays, At, AtZone, Pcs
<1>2. PICK names : names = Strays(task[a])
  OBVIOUS
<1>3. names \in SUBSET KeyNames
  BY <1>2 DEF Strays, TsigNames
<1>4. PICK t : t = [task[a] EXCEPT !.pc = "strays", !.served = {}, !.want = {},
                                   !.names = names]
  OBVIOUS
<1>5. t \in TaskTypes
  BY <1>1, <1>3, <1>4 DEF TaskTypes
<1>6. /\ t.z = task[a].z /\ t.ver = task[a].ver /\ t.op = task[a].op
      /\ t.name = task[a].name /\ t.rows = task[a].rows /\ t.pc = "strays"
  BY <1>1, <1>4 DEF TaskTypes
<1>7. Fits(t, Vers)
  BY <1>1, <1>5, <1>6 DEF Fits
<1>8. Goto(a, t)
  BY <1>2, <1>4 DEF ListStrays
<1> QED
  BY <1>7, <1>8, QuietInv DEF ListStrays

LEMMA RemoveStrayInv ==
  ASSUME TypeInv, NEW a \in Actors, NEW n \in KeyNames, RemoveStray(a, n)
  PROVE  TypeInv'
<1>1. task[a] \in TaskTypes /\ Fits(task[a], Vers)
  BY AtZoneTypes
<1>2. PICK t : t = [task[a] EXCEPT !.names = @ \ {n}]
  OBVIOUS
<1>3. t \in TaskTypes
  BY <1>1, <1>2 DEF TaskTypes
<1>4. /\ t.z = task[a].z /\ t.ver = task[a].ver /\ t.op = task[a].op
      /\ t.name = task[a].name /\ t.rows = task[a].rows /\ t.pc = task[a].pc
  BY <1>1, <1>2 DEF TaskTypes
<1>5. Fits(t, Vers)
  BY <1>1, <1>3, <1>4 DEF Fits
<1>6. Goto(a, t) /\ tsig' \in Names
  BY <1>2, WithoutTsigTypes DEF RemoveStray
<1> QED
  BY <1>5, <1>6, TsigInv DEF RemoveStray

LEMMA EndSyncInv ==
  ASSUME TypeInv, NEW a \in Actors, EndSync(a)
  PROVE  TypeInv'
<1>1. Tables' /\ Vers' = Vers /\ \A z \in Zones : db[z].ver <= db'[z].ver
  BY DEF TypeInv, Tables, Vers, EndSync, RowTypes
<1> QED
  BY <1>1, StepInv, IdleFits DEF EndSync

LEMMA SyncStepInv ==
  ASSUME TypeInv, NEW a \in Actors, SyncStep(a)
  PROVE  TypeInv'
BY ListServedInv, PruneInv, PickZoneInv, ReplaceRrsetsInv, AdoptKeyInv, StoreAdoptedInv,
   AdoptAllowInv, RereadInv, ListStraysInv, RemoveStrayInv, EndSyncInv DEF SyncStep

-----------------------------------------------------------------------------
(* The invariant                                                            *)

LEMMA RefusalInv ==
  ASSUME TypeInv, NEW a \in Actors, Refusal(a) \/ Cut(a)
  PROVE  TypeInv'
<1>1. Fails(a) /\ UNCHANGED <<db, pdns, tsig>>
  BY DEF Refusal, ZoneGone, KeyGone, RowRace, BuildRefused, RecreateRefused, TsigGone, Cut
<1> QED
  BY <1>1, FailsInv

LEMMA SyncStartInv ==
  ASSUME TypeInv, NEW a \in Actors, AdminSync(a) \/ Start(a)
  PROVE  TypeInv'
<1>1. mode' \in {"down", "starting", "up"}
  BY DEF AdminSync, Start, TypeInv, Tables
<1> QED
  BY <1>1, BeginSyncInv DEF AdminSync, Start

LEMMA CrashInv == TypeInv /\ Crash => TypeInv'
<1> SUFFICES ASSUME TypeInv, Crash PROVE TypeInv'
  OBVIOUS
<1>1. Tables' /\ Vers' = Vers
  BY DEF TypeInv, Tables, Vers, Crash
<1>2. task' \in [Actors -> TaskTypes] /\ \A a \in Actors : task'[a] = Idle
  BY IdleFits DEF Crash
<1> QED
  BY <1>1, <1>2, IdleFits DEF TypeInv

LEMMA WipeInv == TypeInv /\ Wipe => TypeInv'
<1> SUFFICES ASSUME TypeInv, Wipe PROVE TypeInv'
  OBVIOUS
<1>1. UNCHANGED <<db, task, mode>> /\ pdns' = AllLost /\ tsig' = NoTsig /\ intact' \subseteq Zones
  BY DEF Wipe, TypeInv, Tables
<1>2. \A z \in Zones : pdns'[z] = NoServed /\ NoServed.stamp = 0 /\ db[z].ver \in Nat
  BY <1>1 DEF AllLost, NoServed, TypeInv, Tables, RowTypes
<1>3. pdns' \in [Zones -> ZoneTypes] /\ tsig' \in Names
  BY <1>1, Constants DEF AllLost
<1>4. \A z \in Zones : pdns'[z].stamp <= db'[z].ver
  BY <1>1, <1>2
<1>5. Tables' /\ Vers' = Vers
  BY <1>1, <1>3, <1>4 DEF TypeInv, Tables, Vers
<1> QED
  BY <1>1, <1>5 DEF TypeInv

LEMMA InitInv == Init => TypeInv
<1> SUFFICES ASSUME Init PROVE TypeInv
  OBVIOUS
<1>1. db \in [Zones -> RowTypes]
  BY Constants DEF Init
<1>2. \A z \in Zones : pdns[z] = NoServed /\ NoServed.stamp = 0 /\ db[z].ver \in Nat
  BY <1>1 DEF Init, AllLost, NoServed, RowTypes
<1>3. Tables
  BY <1>1, <1>2, Constants DEF Init, AllLost, Tables
<1>4. Idle \in TaskTypes
  BY Constants, DataAssumption DEF Idle, TaskTypes, Pcs
<1>5. \A z \in Zones : NoRows[z].ver = 1 /\ db[z].ver >= 1 /\ Vers[z] = db[z].ver
  BY <1>1 DEF NoRows, NoRow, Listed, NewRow, RowTypes, Vers
<1>6. Idle.pc = "idle" /\ Idle.op = "none" /\ Idle.z = NoZone /\ Idle.rows = NoRows
      /\ Idle.ver = 0
  BY DEF Idle
<1>7. Fits(Idle, Vers)
  BY <1>4, <1>5, <1>6, ZonesAssumption DEF Fits, AtZone
<1>8. task \in [Actors -> TaskTypes] /\ \A a \in Actors : task[a] = Idle
  BY <1>4 DEF Init
<1> QED
  BY <1>3, <1>7, <1>8 DEF TypeInv

LEMMA StutterInv == TypeInv /\ UNCHANGED vars => TypeInv'
BY DEF TypeInv, Tables, Vers, vars

LEMMA TypeInvariance == Spec => []TypeInv
<1>1. TypeInv /\ [Next]_vars => TypeInv'
  <2>1. ASSUME TypeInv, Next
        PROVE  TypeInv'
    BY <2>1, RequestInv, SyncStartInv, EditStepInv, ConvergeStepInv, SyncStepInv,
       RefusalInv, CrashInv, WipeInv DEF Next
  <2> QED
    BY <2>1, StutterInv
<1> QED
  BY InitInv, <1>1, PTL DEF Spec

\* The types hold in every reachable state, whatever fails and however many tasks
\* overlap.
THEOREM TypeCorrect == Spec => []TypeOK
<1>1. TypeInv => TypeOK
  <2> SUFFICES ASSUME TypeInv PROVE TypeOK
    OBVIOUS
  <2>1. Keys \subseteq Nat /\ Names \subseteq Secrets
    BY BoundAssumption DEF Keys, Names, Secrets
  <2>2. RowTypes \subseteq Rows
    BY <2>1 DEF RowTypes, Rows
  <2>3. ZoneTypes \subseteq ServedZones
    BY <2>1 DEF ZoneTypes, ServedZones
  <2>4. db \in [Zones -> Rows] /\ pdns \in [Zones -> ServedZones] /\ tsig \in Secrets
    BY <2>1, <2>2, <2>3 DEF TypeInv, Tables
  <2>5. DOMAIN task = Actors /\ \A a \in Actors : task[a] \in TaskTypes
    BY DEF TypeInv
  <2>6. ASSUME NEW a \in Actors
        PROVE  /\ task[a].z \in Zones \cup {NoZone} /\ task[a].rrs \in Records
               /\ task[a].rows \in [Zones -> [active : BOOLEAN, ver : Nat, allow : BOOLEAN]]
               /\ task[a].make \in Secrets
               /\ task[a].left \subseteq Zones /\ task[a].alone \subseteq Zones
               /\ task[a].ver \in Nat /\ task[a].key \in Nat
               /\ task[a].names \subseteq KeyNames
    BY <2>1, <2>5 DEF TaskTypes, ListedTypes
  <2> QED
    BY <2>4, <2>5, <2>6 DEF TypeOK, TypeInv, Tables
<1> QED
  BY TypeInvariance, <1>1, PTL

\* PowerDNS never bears a version the database has not reached: neither overlapping
\* edits, nor failures between the two stores, nor a sync that read the rows long ago
\* (converge stamps the version it was given) can make a zone look newer than its data.
THEOREM StampNeverAhead == Spec => []StampNotAhead
<1>1. TypeInv => StampNotAhead
  BY DEF TypeInv, Tables, StampNotAhead
<1> QED
  BY TypeInvariance, <1>1, PTL
=============================================================================
