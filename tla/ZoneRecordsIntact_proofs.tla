---------------------- MODULE ZoneRecordsIntact_proofs ----------------------
(***************************************************************************)
(* Theorems about the zones of ZoneRecords that no failure and no meeting   *)
(* of two tasks touched: they are served as stored, and a task that has     *)
(* such a zone to itself leaves it so.  For any zones, records, key names   *)
(* and actors, any operations, and every fault.                             *)
(***************************************************************************)
EXTENDS ZoneRecords_proofs

-----------------------------------------------------------------------------
(* The invariant: what a task at a zone has done of it, place by place.  The *)
(* operators are about a task t, a zone's row and the zone as served (s);    *)
(* in says that the zone is intact.                                          *)

\* What both sides agree on; "but" names the parts that may differ.
Agree(row, s, but) ==
  /\ row.active /\ s.there
  /\ "stamp" \in but \/ s.stamp = row.ver
  /\ "rrs" \in but \/ s.rrs \in {row.rrs, Desired(row.rrs)}
  /\ "keys" \in but \/ s.keys = {row.key} \ {0}
  /\ "mode" \in but \/ s.nsec3 = row.nsec3
  /\ "allow" \in but \/ s.allow = row.allow
  /\ "names" \in but \/ s.names = Stored(row)

Mirror(row, s) == IF row.active THEN Agree(row, s, {}) ELSE ~s.there

\* An edit: what it has changed in PowerDNS is what it will store.
Patching(t, row, s) ==
  \/ t.pc = "patch" /\ Agree(row, s, {})
  \/ /\ t.pc = "store" /\ Agree(row, s, {"rrs"})
     /\ \E rrs \in {row.rrs, Desired(row.rrs)} : s.rrs = [rrs EXCEPT ![t.rr] = t.val]

Allowing(t, row, s) ==
  \/ t.pc = "allow" /\ Agree(row, s, {})
  \/ t.pc = "store" /\ Agree(row, s, {"allow"}) /\ s.allow = t.allow

\* A key that is stored is the one that is there, and stays.
Signing(t, row, s) ==
  \/ t.pc = "keys" /\ Agree(row, s, {})
  \/ t.pc = "add" /\ Agree(row, s, {}) /\ row.key = 0 /\ s.keys = {}
  \/ /\ t.pc \in {"nsec3", "fetch", "store"} /\ Agree(row, s, {"keys", "mode"})
     /\ s.keys = {t.key} /\ t.key # 0 /\ row.key \in {0, t.key}
     /\ t.pc = "nsec3" \/ s.nsec3 = t.nsec3

Unsigning(t, row, s) ==
  /\ t.key = 0 /\ ~t.nsec3
  /\ \/ t.pc = "keys" /\ Agree(row, s, {})
     \/ t.pc = "drop" /\ Agree(row, s, {"keys"}) /\ s.keys = t.keys
     \/ t.pc = "nsec3" /\ Agree(row, s, {"keys"}) /\ s.keys = {}
     \/ t.pc = "store" /\ Agree(row, s, {"keys", "mode"}) /\ s.keys = {} /\ ~s.nsec3

AddingKey(t, row, s) ==
  \/ /\ t.pc \in {"create", "store"} /\ Agree(row, s, {})
     /\ t.names = Stored(row) \cup {t.name} /\ (t.pc = "create" \/ t.key # 0)
  \/ /\ t.pc = "names" /\ Agree(row, s, {"stamp", "names"})
     /\ t.names = Stored(row) /\ t.ver = row.ver

DeletingKey(t, row, s) ==
  \/ t.pc = "store" /\ Agree(row, s, {})
  \/ t.pc = "remaining" /\ Agree(row, s, {"stamp", "names"}) /\ t.ver = row.ver
  \/ /\ t.pc = "names" /\ Agree(row, s, {"stamp", "names"})
     /\ t.names = Stored(row) /\ t.ver = row.ver
  \/ t.pc \in {"remove", "unkey"} /\ Agree(row, s, {"stamp"}) /\ t.ver = row.ver

Deactivating(t, s) ==
  t.pc = "unserve" \/ (t.pc \in {"rows", "remove", "unkey", "inactive"} /\ ~s.there)

Edits6 == {"patch", "allow", "sign", "unsign", "addkey", "delkey"}

Edited(t, row, s) ==
  \/ t.op = "patch" /\ Patching(t, row, s)
  \/ t.op = "allow" /\ Allowing(t, row, s)
  \/ t.op = "sign" /\ Signing(t, row, s)
  \/ t.op = "unsign" /\ Unsigning(t, row, s)
  \/ t.op = "addkey" /\ AddingKey(t, row, s)
  \/ t.op = "delkey" /\ DeletingKey(t, row, s)
  \/ t.op = "deactivate" /\ Deactivating(t, s)
  \/ t.op \in Edits6 /\ t.pc = "stamp" /\ Agree(row, s, {"stamp"}) /\ t.ver = row.ver

\* converge: the stored zone, part after part; had is the NSEC mode it found.
Records1 == {"stamp", "keys", "mode", "allow", "names"}

BuiltTo(t, row, s) ==
  \/ t.pc = "look"
  \/ t.pc = "create_zone" /\ t.rrs = Desired(row.rrs) /\ ~t.had
  \/ t.pc = "converge" /\ t.rrs = Desired(row.rrs) /\ t.had = s.nsec3
  \/ t.pc = "match" /\ t.had = s.nsec3 /\ Agree(row, s, Records1)
  \/ /\ t.pc = "drop" /\ Agree(row, s, Records1)
     /\ t.keys = s.keys \ {row.key} /\ t.key = IF row.key \in s.keys THEN 0 ELSE row.key
     /\ t.nsec3 = row.nsec3 /\ t.had = s.nsec3
  \/ /\ t.pc = "import" /\ Agree(row, s, Records1)
     /\ s.keys = {} /\ t.key = row.key /\ t.key # 0
     /\ t.nsec3 = row.nsec3 /\ t.had = s.nsec3
  \/ /\ t.pc = "param" /\ Agree(row, s, {"stamp", "mode", "allow", "names"})
     /\ t.nsec3 = row.nsec3
  \/ t.pc = "missing" /\ Agree(row, s, {"stamp", "allow", "names"})
  \/ /\ t.pc \in {"recreate", "names"} /\ Agree(row, s, {"stamp", "allow", "names"})
     /\ t.names = Stored(row)
  \/ t.pc = "allow" /\ Agree(row, s, {"stamp", "allow"})
  \/ t.pc = "stamp" /\ Agree(row, s, {"stamp"})

Based(t, row) == row.active /\ t.ver = row.ver /\ t.allow = row.allow
Built(t, row, s) == Based(t, row) /\ BuiltTo(t, row, s)

\* What leads to converge: an activation, or the adoption of a zone that is not intact
Adopting == {"replace", "adoptkey", "adoptedkey", "adoptallow", "adoptedallow", "reread"}

Leads(t, z, row, s, in) ==
  \/ /\ t.op = "activate" /\ t.pc = "active" /\ t.rows[z] = Listed(row)
     /\ in => Mirror(row, s)
  \/ t.op = "activate" /\ t.pc = "probe" /\ Based(t, row) /\ (in => Mirror(row, s))
  \/ t.op = "sync" /\ t.pc \in Adopting /\ row.active /\ ~in

\* A task at a zone it has to itself
Here(t, z, row, s, in) ==
  /\ t.op = "sync" => z \notin t.left
  /\ \/ t.op \notin {"activate", "sync"} /\ (in => Edited(t, row, s))
     \/ t.op \in {"activate", "sync"} /\ (Leads(t, z, row, s, in) \/ Built(t, row, s))

\* A sync that is not at the zone now: what it listed of it is still so while the
\* zone is before it, and it prunes nothing that is intact.
Away(t, z, row, s, in) ==
  /\ in => Mirror(row, s)
  /\ t.pc \in {"served", "prune"} => t.rows[z] = Listed(row)
  /\ t.pc = "prune" /\ z \in t.left => ~in
  /\ t.pc \notin {"served", "prune"} /\ z \in t.left => row.active /\ t.rows[z] = Listed(row)

Reaches(t, z) == t.pc # "idle" /\ (t.z = z \/ t.op = "sync")

Staged(t, z, row, s, in) ==
  Reaches(t, z) /\ (in \/ z \in t.alone) =>
    IF t.z = z THEN Here(t, z, row, s, in) ELSE Away(t, z, row, s, in)

\* Only one task is at an intact zone, or at one that a task has to itself.
Apart ==
  /\ \A z \in intact, a, b \in Actors : Reaches(task[a], z) /\ Reaches(task[b], z) => a = b
  /\ \A a, b \in Actors : \A z \in task[a].alone :
       Reaches(task[a], z) /\ (Reaches(task[b], z) => b = a)

\* Walks over all zones are syncs, activations are not; a key to import is one.
Walks(t) ==
  /\ t.pc \in {"served", "prune", "pick", "strays"} => t.op = "sync" /\ t.z = NoZone
  /\ t.pc = "active" => t.op # "sync"
  /\ t.pc = "import" => t.key # 0

\* What is not served is nothing; 0 is no key.
Whole(s) == (s.there \/ s = NoServed) /\ 0 \notin s.keys

Starting ==
  /\ mode = "down" => \A a \in Actors : task[a].pc = "idle"
  /\ mode = "starting" =>
       \A a, b \in Actors : task[a].pc # "idle" /\ task[b].pc # "idle" => a = b

Rest ==
  \A z \in intact : (\A a \in Actors : ~Reaches(task[a], z)) => Mirror(db[z], pdns[z])

IntactInv ==
  /\ TypeInv /\ Apart /\ Starting /\ Rest
  /\ \A a \in Actors : Walks(task[a])
  /\ \A z \in Zones : Whole(pdns[z])
  /\ \A a \in Actors, z \in Zones : Staged(task[a], z, db[z], pdns[z], z \in intact)

-----------------------------------------------------------------------------
(* What a step of one actor leaves alone                                    *)

LEMMA ReachesTouches ==
  \A a \in Actors : \A z : Touches(a, z) <=> Reaches(task[a], z)
BY DEF Touches, Busy, Reaches

LEMMA MirrorMirrored == \A z \in Zones : Mirror(db[z], pdns[z]) <=> Mirrored(z)
BY DEF Mirror, Mirrored, Agree

\* The step of one actor: it changes zones it reaches only, and each that is still
\* intact is either staged for what comes next or as both sides have it.
LEMMA Frame ==
  ASSUME IntactInv, TypeInv', NEW a \in Actors, NEW t, Goto(a, t),
         \A z \in Zones : ~Reaches(task[a], z) =>
            /\ db'[z] = db[z] /\ pdns'[z] = pdns[z] /\ (z \in intact' <=> z \in intact)
            /\ ~Reaches(t, z),
         intact' \subseteq intact \cup task[a].alone,
         t.pc # "idle" => task[a].pc # "idle",
         t.alone \subseteq task[a].alone, \A z \in t.alone : Reaches(t, z),
         Walks(t), \A z \in Zones : Whole(pdns'[z]),
         mode' \in {mode, "up"} \/ (mode' = "down" /\ mode = "starting"
                                  /\ task[a].pc # "idle" /\ t.pc = "idle"),
         \A z \in Zones : Staged(t, z, db'[z], pdns'[z], z \in intact'),
         \A z \in intact' : Reaches(task[a], z) /\ ~Reaches(t, z) => Mirror(db'[z], pdns'[z])
  PROVE  IntactInv'
<1>1. /\ task'[a] = t /\ \A b \in Actors : b # a => task'[b] = task[b]
      /\ intact' \subseteq Zones /\ task[a].alone \subseteq Zones
  BY DEF Goto, IntactInv, TypeInv, Tables, TaskTypes
<1>2. ASSUME NEW z \in Zones, NEW b \in Actors, Reaches(task'[b], z)
      PROVE  Reaches(task[b], z)
  BY <1>1, <1>2
<1>3. ASSUME NEW z \in task[a].alone
      PROVE  Reaches(task[a], z) /\ \A b \in Actors : Reaches(task[b], z) => b = a
  BY DEF IntactInv, Apart
<1>4. Apart'
  <2>1. ASSUME NEW z \in intact', NEW b \in Actors, NEW c \in Actors,
               Reaches(task'[b], z), Reaches(task'[c], z)
        PROVE  b = c
    <3>1. Reaches(task[b], z) /\ Reaches(task[c], z)
      BY <1>1, <1>2, <2>1
    <3>2. CASE z \in intact
      BY <3>1, <3>2 DEF IntactInv, Apart
    <3>3. CASE z \in task[a].alone
      BY <1>3, <3>1, <3>3
    <3> QED
      BY <3>2, <3>3
  <2>2. ASSUME NEW b \in Actors, NEW c \in Actors, NEW z \in task'[b].alone
        PROVE  Reaches(task'[b], z) /\ (Reaches(task'[c], z) => c = b)
    <3>1. z \in task[b].alone /\ z \in Zones
      <4>1. task[b].alone \subseteq Zones
        BY DEF IntactInv, TypeInv, TaskTypes
      <4> QED
        BY <1>1, <4>1, <2>2
    <3>2. Reaches(task[b], z) /\ (Reaches(task[c], z) => c = b)
      BY <3>1 DEF IntactInv, Apart
    <3> QED
      BY <1>1, <1>2, <2>2, <3>1, <3>2
  <2> QED
    BY <2>1, <2>2 DEF Apart
<1>5. Starting'
  BY <1>1 DEF Starting, IntactInv
<1>6. ASSUME NEW z \in intact', \A b \in Actors : ~Reaches(task'[b], z)
      PROVE  Mirror(db'[z], pdns'[z])
  <2>1. CASE Reaches(task[a], z)
    BY <1>1, <1>6, <2>1
  <2>2. CASE ~Reaches(task[a], z)
    <3>1. z \in intact /\ db'[z] = db[z] /\ pdns'[z] = pdns[z]
      BY <1>1, <2>2
    <3>2. \A b \in Actors : ~Reaches(task[b], z)
      BY <1>1, <1>6, <2>2
    <3> QED
      BY <3>1, <3>2 DEF IntactInv, Rest
  <2> QED
    BY <2>1, <2>2
<1>7. ASSUME NEW b \in Actors
      PROVE  Walks(task'[b])
  BY <1>1 DEF IntactInv
<1>8. ASSUME NEW b \in Actors, NEW z \in Zones
      PROVE  Staged(task'[b], z, db'[z], pdns'[z], z \in intact')
  <2>1. CASE b = a
    BY <1>1, <2>1
  <2>2. CASE b # a
    <3>1. SUFFICES ASSUME Reaches(task[b], z), z \in intact' \/ z \in task[b].alone
                   PROVE  Staged(task[b], z, db'[z], pdns'[z], z \in intact')
      BY <1>1, <2>2 DEF Staged
    <3>2. ~Reaches(task[a], z)
      <4>1. CASE z \in task[b].alone
        BY <2>2, <4>1 DEF IntactInv, Apart
      <4>2. CASE z \in intact
        BY <2>2, <3>1, <4>2 DEF IntactInv, Apart
      <4>3. z \notin task[a].alone
        BY <1>3, <2>2, <3>1
      <4> QED
        BY <3>1, <4>1, <4>2, <4>3
    <3>3. db'[z] = db[z] /\ pdns'[z] = pdns[z] /\ (z \in intact') = (z \in intact)
      BY <3>2
    <3>4. Staged(task[b], z, db[z], pdns[z], z \in intact)
      BY DEF IntactInv
    <3> QED
      BY <3>3, <3>4
  <2> QED
    BY <2>1, <2>2
<1> QED
  BY <1>4, <1>5, <1>6, <1>7, <1>8 DEF IntactInv, Rest

\* A task that is at a zone, where it has it to itself
LEMMA HereHolds ==
  ASSUME IntactInv, NEW a \in Actors, NEW z \in Zones, task[a].z = z, task[a].pc # "idle",
         z \in intact \/ z \in task[a].alone
  PROVE  Here(task[a], z, db[z], pdns[z], z \in intact)
<1>1. Staged(task[a], z, db[z], pdns[z], z \in intact)
  BY DEF IntactInv
<1> QED
  BY <1>1 DEF Staged, Reaches

\* A sync that is at another zone, or at none
LEMMA AwayHolds ==
  ASSUME IntactInv, NEW a \in Actors, NEW z \in Zones, task[a].z # z,
         Reaches(task[a], z), z \in intact \/ z \in task[a].alone
  PROVE  Away(task[a], z, db[z], pdns[z], z \in intact)
<1>1. Staged(task[a], z, db[z], pdns[z], z \in intact)
  BY DEF IntactInv
<1> QED
  BY <1>1 DEF Staged

\* A step at a zone where the task stays.
LEMMA Stays ==
  ASSUME IntactInv, TypeInv', NEW a \in Actors, NEW z \in Zones, task[a].z = z,
         task[a].pc \in AtZone,
         NEW t \in TaskTypes, Goto(a, t), t.pc \in AtZone, t.z = z, t.op = task[a].op,
         t.alone = task[a].alone, t.left = task[a].left,
         t.pc # "active",
         \A x \in Zones : x # z /\ t.op = "sync" => t.rows[x] = task[a].rows[x],
         \A x \in Zones : x # z => db'[x] = db[x] /\ pdns'[x] = pdns[x],
         intact' = intact, mode' = mode, Whole(pdns'[z]), t.pc = "import" => t.key # 0,
         z \in intact \/ z \in task[a].alone => Here(t, z, db'[z], pdns'[z], z \in intact)
  PROVE  IntactInv'
<1>1. /\ task[a].pc \notin {"idle", "served", "prune", "pick", "strays"}
      /\ t.pc \notin {"idle", "served", "prune", "pick", "strays"}
  BY DEF AtZone
<1>2. \A x \in Zones : Reaches(t, x) <=> Reaches(task[a], x)
  BY <1>1 DEF Reaches
<1>3. ASSUME NEW x \in t.alone
      PROVE  Reaches(t, x)
  <2>1. x \in Zones /\ Reaches(task[a], x)
    BY DEF IntactInv, Apart, TaskTypes
  <2> QED
    BY <1>2, <2>1
<1>4. ASSUME NEW x \in Zones
      PROVE  Staged(t, x, db'[x], pdns'[x], x \in intact')
  <2>1. SUFFICES ASSUME Reaches(t, x), x \in intact \/ x \in task[a].alone
                 PROVE  IF t.z = x THEN Here(t, x, db'[x], pdns'[x], x \in intact)
                                   ELSE Away(t, x, db'[x], pdns'[x], x \in intact)
    BY DEF Staged
  <2>2. CASE x = z
    BY <2>1, <2>2
  <2>3. CASE x # z
    <3>1. Away(task[a], x, db[x], pdns[x], x \in intact) /\ t.op = "sync"
      BY <1>2, <2>1, <2>3, AwayHolds DEF Reaches
    <3> QED
      BY <1>1, <2>3, <3>1 DEF Away
  <2> QED
    BY <2>2, <2>3
<1>5. \A x \in Zones : Whole(pdns'[x])
  BY DEF IntactInv
<1>6. Walks(t)
  BY <1>1 DEF Walks
<1>7. \A x \in Zones : ~Reaches(task[a], x) =>
        /\ db'[x] = db[x] /\ pdns'[x] = pdns[x] /\ (x \in intact' <=> x \in intact)
        /\ ~Reaches(t, x)
  BY <1>1, <1>2 DEF Reaches
<1>8. intact' \subseteq Zones
  BY DEF IntactInv, TypeInv, Tables
<1>9. \A x \in intact' : Reaches(task[a], x) /\ ~Reaches(t, x) => Mirror(db'[x], pdns'[x])
  BY <1>2, <1>8
<1> QED
  BY <1>1, <1>3, <1>4, <1>5, <1>6, <1>7, <1>9, Frame

\* The end of a task: the zone it was at is as stored, or is intact no longer.
LEMMA Ends ==
  ASSUME IntactInv, TypeInv', NEW a \in Actors, task[a].pc # "idle", Goto(a, Idle),
         \A x \in Zones : x # task[a].z =>
            db'[x] = db[x] /\ pdns'[x] = pdns[x] /\ (x \in intact' <=> x \in intact),
         intact' \subseteq intact \cup ({task[a].z} \cap task[a].alone),
         \A x \in Zones : Whole(pdns'[x]),
         mode' \in {mode, "up"} \/ (mode' = "down" /\ mode = "starting"),
         \A z \in intact' : z = task[a].z => Mirror(db'[z], pdns'[z])
  PROVE  IntactInv'
<1>1. Idle.pc = "idle" /\ Idle.alone = {} /\ Idle.op = "none"
  BY DEF Idle
<1>2. \A x : ~Reaches(Idle, x)
  BY <1>1 DEF Reaches
<1>3. Walks(Idle) /\ \A x \in Zones : Staged(Idle, x, db'[x], pdns'[x], x \in intact')
  BY <1>1, <1>2 DEF Walks, Staged
<1>4. \A x \in Zones : ~Reaches(task[a], x) => x # task[a].z
  BY DEF Reaches
<1>5. ASSUME NEW x \in intact', Reaches(task[a], x)
      PROVE  Mirror(db'[x], pdns'[x])
  <2>1. CASE x = task[a].z
    BY <2>1
  <2>2. CASE x # task[a].z
    <3>1. x \in Zones /\ x \in intact /\ db'[x] = db[x] /\ pdns'[x] = pdns[x]
      BY <2>2 DEF IntactInv, TypeInv, Tables
    <3>2. Away(task[a], x, db[x], pdns[x], x \in intact)
      BY <1>5, <2>2, <3>1, AwayHolds
    <3> QED
      BY <3>1, <3>2 DEF Away
  <2> QED
    BY <2>1, <2>2
<1>6. PICK t : t = Idle
  OBVIOUS
<1>7. /\ Goto(a, t) /\ t.pc = "idle" /\ t.alone = {} /\ Walks(t)
      /\ \A x : ~Reaches(t, x)
      /\ \A x \in Zones : Staged(t, x, db'[x], pdns'[x], x \in intact')
  BY <1>1, <1>2, <1>3, <1>6
<1>8. /\ \A x \in Zones : ~Reaches(task[a], x) =>
           /\ db'[x] = db[x] /\ pdns'[x] = pdns[x] /\ (x \in intact' <=> x \in intact)
           /\ ~Reaches(t, x)
      /\ intact' \subseteq intact \cup task[a].alone
  BY <1>4, <1>7
<1> QED
  BY <1>5, <1>7, <1>8, Frame

\* The end of a request, or of what a sync does at a zone
LEMMA Leaves ==
  ASSUME IntactInv, TypeInv', NEW a \in Actors, NEW z \in Zones, task[a].z = z,
         task[a].pc \in AtZone, Goto(a, Continue(task[a])),
         \A x \in Zones : x # z => db'[x] = db[x] /\ pdns'[x] = pdns[x],
         intact' \subseteq intact \cup ({z} \cap task[a].alone),
         \A x \in Zones : x # z => (x \in intact' <=> x \in intact),
         mode' = mode, Whole(pdns'[z]),
         z \in intact' => Mirror(db'[z], pdns'[z]),
         task[a].op = "sync" /\ z \in task[a].left /\ (z \in intact' \/ z \in task[a].alone) => FALSE
  PROVE  IntactInv'
<1> DEFINE t == Continue(task[a])
<1>1. task[a].pc \notin {"idle", "served", "prune", "pick", "strays"}
  BY DEF AtZone
<1>2. CASE task[a].op # "sync"
  <2>1. Goto(a, Idle)
    BY <1>2 DEF Continue
  <2>2. \A x \in Zones : Whole(pdns'[x])
    BY DEF IntactInv
  <2> QED
    BY <1>1, <2>1, <2>2, Ends
<1>3. CASE task[a].op = "sync"
  <2>1. /\ t.pc = "pick" /\ t.op = "sync" /\ t.z = NoZone /\ t.alone = task[a].alone
        /\ t.left = task[a].left /\ t.rows = task[a].rows
    BY <1>3 DEF Continue, Idle
  <2>2. Goto(a, t)
    OBVIOUS
  <2> HIDE DEF t
  <2>3. \A x : Reaches(t, x) /\ Reaches(task[a], x)
    BY <1>1, <1>3, <2>1 DEF Reaches
  <2>4. Walks(t)
    BY <2>1 DEF Walks
  <2>5. ASSUME NEW x \in Zones
        PROVE  Staged(t, x, db'[x], pdns'[x], x \in intact')
    <3>1. SUFFICES ASSUME x \in intact' \/ x \in task[a].alone
                   PROVE  Away(t, x, db'[x], pdns'[x], x \in intact')
      BY <2>1, ZonesAssumption DEF Staged
    <3>2. CASE x = z
      BY <1>3, <2>1, <3>1, <3>2 DEF Away
    <3>3. CASE x # z
      <4>1. Away(task[a], x, db[x], pdns[x], x \in intact)
        BY <2>3, <3>1, <3>3, AwayHolds
      <4> QED
        BY <1>1, <2>1, <3>3, <4>1 DEF Away
    <3> QED
      BY <3>2, <3>3
  <2>6. \A x \in Zones : Whole(pdns'[x])
    BY DEF IntactInv
  <2> QED
    BY <1>1, <2>1, <2>2, <2>3, <2>4, <2>5, <2>6, Frame
<1> QED
  BY <1>2, <1>3

\* A task that goes on at its zone
GoesOn(t, u) ==
  /\ t.z = u.z /\ t.op = u.op /\ t.alone = u.alone /\ t.left = u.left
  /\ t.pc \in AtZone \ {"active"} /\ (t.pc = "import" => t.key # 0)
  /\ \A x \in Zones : x # t.z /\ t.op = "sync" => t.rows[x] = u.rows[x]

LEMMA QuietStays ==
  ASSUME IntactInv, TypeInv', NEW a \in Actors, NEW z \in Zones, task[a].z = z,
         task[a].pc \in AtZone, NEW t, Goto(a, t), GoesOn(t, task[a]),
         UNCHANGED <<db, pdns, mode, intact>>,
         Here(task[a], z, db[z], pdns[z], z \in intact) => Here(t, z, db[z], pdns[z], z \in intact)
  PROVE  IntactInv'
<1>1. task'[a] = t /\ t \in TaskTypes
  BY DEF Goto, IntactInv, TypeInv
<1>2. Whole(pdns'[z])
  BY DEF IntactInv
<1>3. task[a].pc # "idle"
  BY DEF AtZone
<1>4. z \in intact \/ z \in task[a].alone => Here(t, z, db[z], pdns[z], z \in intact)
  BY <1>3, HereHolds
<1> QED
  BY <1>1, <1>2, <1>4, Stays DEF GoesOn

LEMMA ServeStays ==
  ASSUME IntactInv, TypeInv', NEW a \in Actors, NEW z \in Zones, task[a].z = z,
         task[a].pc \in AtZone, NEW t, NEW s, Goto(a, t), GoesOn(t, task[a]),
         pdns' = [pdns EXCEPT ![z] = s], UNCHANGED <<db, mode, intact>>, Whole(s),
         Here(task[a], z, db[z], pdns[z], z \in intact) => Here(t, z, db[z], s, z \in intact)
  PROVE  IntactInv'
<1>1. task'[a] = t /\ t \in TaskTypes
  BY DEF Goto, IntactInv, TypeInv
<1>2. pdns'[z] = s /\ \A x \in Zones : x # z => pdns'[x] = pdns[x]
  BY DEF IntactInv, TypeInv, Tables
<1>3. task[a].pc # "idle"
  BY DEF AtZone
<1>4. z \in intact \/ z \in task[a].alone => Here(t, z, db[z], s, z \in intact)
  BY <1>3, HereHolds
<1> QED
  BY <1>1, <1>2, <1>4, Stays DEF GoesOn

LEMMA RowStays ==
  ASSUME IntactInv, TypeInv', NEW a \in Actors, NEW z \in Zones, task[a].z = z,
         task[a].pc \in AtZone, NEW t, NEW row, Goto(a, t), GoesOn(t, task[a]),
         db' = [db EXCEPT ![z] = row], UNCHANGED <<pdns, mode, intact>>,
         Here(task[a], z, db[z], pdns[z], z \in intact) => Here(t, z, row, pdns[z], z \in intact)
  PROVE  IntactInv'
<1>1. task'[a] = t /\ t \in TaskTypes
  BY DEF Goto, IntactInv, TypeInv
<1>2. db'[z] = row /\ \A x \in Zones : x # z => db'[x] = db[x]
  BY DEF IntactInv, TypeInv, Tables
<1>3. task[a].pc # "idle" /\ Whole(pdns[z])
  BY DEF AtZone, IntactInv
<1>4. z \in intact \/ z \in task[a].alone => Here(t, z, row, pdns[z], z \in intact)
  BY <1>3, HereHolds
<1> QED
  BY <1>1, <1>2, <1>3, <1>4, Stays DEF GoesOn

\* What a transaction leaves of the row and of the task
LEMMA StoreStays ==
  ASSUME IntactInv, TypeInv', NEW a \in Actors, NEW z \in Zones, task[a].z = z,
         task[a].pc \in AtZone, NEW r \in RowTypes, NEW pc \in AtZone \ {"import", "active"},
         Store(a, r, pc),
         \A t \in TaskTypes, row \in RowTypes :
           /\ t.pc = pc /\ t.z = z /\ t.op = task[a].op /\ t.left = task[a].left
           /\ t.name = task[a].name /\ t.names = task[a].names /\ t.allow = task[a].allow
           /\ t.had = task[a].had /\ t.ver = row.ver
           /\ row.active = r.active /\ row.rrs = r.rrs /\ row.key = r.key
           /\ row.nsec3 = r.nsec3 /\ row.allow = r.allow /\ row.tsig = r.tsig
           /\ Here(task[a], z, db[z], pdns[z], z \in intact)
           => Here(t, z, row, pdns[z], z \in intact)
  PROVE  IntactInv'
<1>1. PICK t : t = [task[a] EXCEPT !.pc = pc, !.ver = db[z].ver + 1, !.val = NoData,
                                   !.key = 0, !.nsec3 = FALSE]
  OBVIOUS
<1>2. PICK row : row = [r EXCEPT !.ver = db[z].ver + 1]
  OBVIOUS
<1>3. Goto(a, t) /\ db' = [db EXCEPT ![z] = row] /\ UNCHANGED <<pdns, mode, intact>>
  BY <1>1, <1>2 DEF Store
<1>4. task[a] \in TaskTypes /\ t \in TaskTypes /\ row \in RowTypes
  BY <1>3 DEF Goto, IntactInv, TypeInv, Tables
<1>5. /\ t.pc = pc /\ t.z = z /\ t.op = task[a].op /\ t.left = task[a].left
      /\ t.name = task[a].name /\ t.names = task[a].names /\ t.allow = task[a].allow
      /\ t.had = task[a].had /\ t.alone = task[a].alone /\ t.rows = task[a].rows
      /\ t.ver = db[z].ver + 1
  BY <1>1, <1>4 DEF TaskTypes
<1>6. /\ row.active = r.active /\ row.rrs = r.rrs /\ row.key = r.key
      /\ row.nsec3 = r.nsec3 /\ row.allow = r.allow /\ row.tsig = r.tsig
      /\ row.ver = db[z].ver + 1
  BY <1>2 DEF RowTypes
<1>7. GoesOn(t, task[a])
  BY <1>5 DEF GoesOn
<1>8. Here(task[a], z, db[z], pdns[z], z \in intact) => Here(t, z, row, pdns[z], z \in intact)
  BY <1>4, <1>5, <1>6
<1> QED
  BY <1>3, <1>7, <1>8, RowStays

\* The parts of a served zone that a call leaves alone
LEMMA ServedParts ==
  ASSUME NEW s \in ZoneTypes, NEW x
  PROVE  /\ LET w == Patched(s, x) IN
            /\ w.there = s.there /\ w.stamp = s.stamp /\ w.rrs = x /\ w.keys = s.keys
            /\ w.nsec3 = s.nsec3 /\ w.allow = s.allow /\ w.names = s.names
         /\ LET w == WithMode(s, x) IN
            /\ w.there = s.there /\ w.stamp = s.stamp /\ w.rrs = s.rrs /\ w.keys = s.keys
            /\ w.nsec3 = x /\ w.allow = s.allow /\ w.names = s.names
         /\ LET w == WithKey(s, x) IN
            /\ w.there = s.there /\ w.stamp = s.stamp /\ w.rrs = s.rrs
            /\ w.keys = s.keys \cup {x}
            /\ w.nsec3 = s.nsec3 /\ w.allow = s.allow /\ w.names = s.names
         /\ LET w == WithoutKey(s, x) IN
            /\ w.there = s.there /\ w.stamp = s.stamp /\ w.rrs = s.rrs
            /\ w.keys = s.keys \ {x}
            /\ w.nsec3 = s.nsec3 /\ w.allow = s.allow /\ w.names = s.names
         /\ LET w == WithAllow(s, x) IN
            /\ w.there = s.there /\ w.stamp = s.stamp /\ w.rrs = s.rrs /\ w.keys = s.keys
            /\ w.nsec3 = s.nsec3 /\ w.allow = x /\ w.names = s.names
         /\ LET w == WithNames(s, x) IN
            /\ w.there = s.there /\ w.stamp = s.stamp /\ w.rrs = s.rrs /\ w.keys = s.keys
            /\ w.nsec3 = s.nsec3 /\ w.allow = s.allow /\ w.names = x
         /\ LET w == WithStamp(s, x) IN
            /\ w.there = s.there /\ w.stamp = x /\ w.rrs = s.rrs /\ w.keys = s.keys
            /\ w.nsec3 = s.nsec3 /\ w.allow = s.allow /\ w.names = s.names
BY DEF ZoneTypes, Patched, WithMode, WithKey, WithoutKey, WithAllow, WithNames, WithStamp

-----------------------------------------------------------------------------
(* Edits                                                                    *)

LEMMA PatchServedIntact ==
  ASSUME IntactInv, NEW a \in Actors, PatchServed(a)
  PROVE  IntactInv'
<1>1. TypeInv /\ TypeInv' /\ task[a].pc = "patch" /\ "patch" \in AtZone /\ "store" \in AtZone
  BY PatchServedInv DEF IntactInv, PatchServed, At, AtZone
<1>2. PICK z \in Zones : task[a].z = z
  BY <1>1, Edits
<1>3. task[a] \in TaskTypes /\ db[z] \in RowTypes /\ pdns[z] \in ZoneTypes
  BY <1>1, <1>2, Edits
<1>4. PICK t : t = [task[a] EXCEPT !.pc = "store"]
  OBVIOUS
<1>5. /\ t.pc = "store" /\ t.z = z /\ t.op = task[a].op /\ t.left = task[a].left
      /\ t.alone = task[a].alone /\ t.rows = task[a].rows
      /\ t.rr = task[a].rr /\ t.val = task[a].val
  BY <1>2, <1>3, <1>4 DEF TaskTypes
<1>6. PICK rrs : rrs = [pdns[z].rrs EXCEPT ![task[a].rr] = task[a].val]
  OBVIOUS
<1>7. PICK s : s = Patched(pdns[z], rrs)
  OBVIOUS
<1>8. /\ s.there = pdns[z].there /\ s.stamp = pdns[z].stamp /\ s.rrs = rrs
      /\ s.keys = pdns[z].keys /\ s.nsec3 = pdns[z].nsec3 /\ s.allow = pdns[z].allow
      /\ s.names = pdns[z].names
  BY <1>3, <1>7, ServedParts
<1>9. /\ Goto(a, t) /\ pdns' = [pdns EXCEPT ![z] = s] /\ pdns[z].there
      /\ UNCHANGED <<db, mode, intact>>
  BY <1>2, <1>4, <1>6, <1>7 DEF PatchServed, Serve, Served, There
<1>10. Whole(s) /\ GoesOn(t, task[a])
  BY <1>1, <1>2, <1>5, <1>8, <1>9 DEF GoesOn, Whole, IntactInv
<1>11. Here(task[a], z, db[z], pdns[z], z \in intact) => Here(t, z, db[z], s, z \in intact)
  BY <1>1, <1>5, <1>6, <1>8 DEF Here, Edited, Patching, Allowing, Signing, Unsigning, AddingKey,
     DeletingKey, Deactivating, Leads, Built, BuiltTo, Agree, Adopting, Edits6
<1> QED
  BY <1>1, <1>2, <1>9, <1>10, <1>11, ServeStays

\* Edits whose transaction makes the row what PowerDNS has: what is left is the stamp.
LEMMA StoreMatches ==
  ASSUME IntactInv, TypeInv', NEW a \in Actors, NEW z \in Zones, task[a].z = z,
         task[a].pc = "store", task[a].op \in Edits6, NEW r \in RowTypes, Store(a, r, "stamp"),
         Edited(task[a], db[z], pdns[z]) => Agree(r, pdns[z], {"stamp"})
  PROVE  IntactInv'
<1>1. "store" \in AtZone /\ "stamp" \in AtZone \ {"import", "active"} /\ task[a].op \notin {"activate", "sync"}
  BY DEF AtZone, Edits6
<1>2. ASSUME NEW t \in TaskTypes, NEW row \in RowTypes,
             t.pc = "stamp", t.op = task[a].op, t.ver = row.ver,
             row.active = r.active, row.rrs = r.rrs, row.key = r.key,
             row.nsec3 = r.nsec3, row.allow = r.allow, row.tsig = r.tsig,
             Here(task[a], z, db[z], pdns[z], z \in intact)
      PROVE  Here(t, z, row, pdns[z], z \in intact)
  <2>1. SUFFICES ASSUME z \in intact
                 PROVE  Edited(t, row, pdns[z])
    BY <1>1, <1>2 DEF Here
  <2>2. Edited(task[a], db[z], pdns[z])
    BY <1>1, <1>2, <2>1 DEF Here
  <2>3. Agree(r, pdns[z], {"stamp"})
    BY <2>2
  <2>4. Stored(row) = Stored(r)
    BY <1>2 DEF Stored
  <2>5. Agree(row, pdns[z], {"stamp"})
    BY <1>2, <2>3, <2>4 DEF Agree
  <2> QED
    BY <1>2, <2>5 DEF Edited
<1> QED
  BY <1>1, <1>2, StoreStays

LEMMA ApplyRrsetsIntact ==
  ASSUME IntactInv, NEW a \in Actors, ApplyRrsets(a)
  PROVE  IntactInv'
<1>1. TypeInv /\ TypeInv' /\ task[a].pc = "store" /\ task[a].op = "patch"
      /\ "store" \in AtZone /\ "stamp" \in AtZone \ {"import", "active"}
  BY ApplyRrsetsInv DEF IntactInv, ApplyRrsets, At, AtZone
<1>2. PICK z \in Zones : task[a].z = z
  BY <1>1, Edits
<1>3. task[a] \in TaskTypes /\ db[z] \in RowTypes /\ pdns[z] \in ZoneTypes
  BY <1>1, <1>2, Edits
<1>4. PICK rrs : rrs = [db[z].rrs EXCEPT ![task[a].rr] = task[a].val]
  OBVIOUS
<1>5. rrs \in Records /\ db[z].rrs \in Records /\ Desired(db[z].rrs) \in Records
  BY <1>3, <1>4, DesiredTypes DEF TaskTypes, RowTypes, Records
<1>6. PICK r : r = [db[z] EXCEPT !.rrs = rrs]
  OBVIOUS
<1>7. r \in RowTypes /\ r.active = db[z].active /\ r.rrs = rrs /\ r.key = db[z].key
      /\ r.nsec3 = db[z].nsec3 /\ r.allow = db[z].allow /\ r.tsig = db[z].tsig
  BY <1>3, <1>5, <1>6 DEF RowTypes
<1>8. Store(a, r, "stamp")
  BY <1>2, <1>4, <1>6 DEF ApplyRrsets, Row
<1>9. [Desired(db[z].rrs) EXCEPT ![task[a].rr] = task[a].val] \in {rrs, Desired(rrs)}
  <2>1. CASE task[a].rr = ApexNs
    BY <1>4, <1>5, <2>1, DataAssumption DEF Desired, Records
  <2>2. CASE task[a].rr # ApexNs
    BY <1>3, <1>4, <1>5, <2>2, DataAssumption DEF Desired, Records, TaskTypes
  <2> QED
    BY <2>1, <2>2
<1>10. Edited(task[a], db[z], pdns[z]) => Agree(r, pdns[z], {"stamp"})
  <2>1. Stored(r) = Stored(db[z])
    BY <1>7 DEF Stored
  <2> QED
    BY <1>1, <1>4, <1>7, <1>9, <2>1 DEF Edited, Patching, Agree
<1> QED
  BY <1>1, <1>2, <1>7, <1>8, <1>10, StoreMatches DEF Edits6

LEMMA ServeAllowIntact ==
  ASSUME IntactInv, NEW a \in Actors, ServeAllow(a)
  PROVE  IntactInv'
<1>1. TypeInv /\ TypeInv' /\ task[a].pc = "allow" /\ {"allow", "store", "stamp"} \subseteq AtZone
  BY ServeAllowInv DEF IntactInv, ServeAllow, At, AtZone
<1>2. PICK z \in Zones : task[a].z = z
  BY <1>1, Edits
<1>3. task[a] \in TaskTypes /\ db[z] \in RowTypes /\ pdns[z] \in ZoneTypes
  BY <1>1, <1>2, Edits
<1>4. PICK t : t = [task[a] EXCEPT !.pc = IF task[a].op = "allow" THEN "store" ELSE "stamp"]
  OBVIOUS
<1>5. /\ t.pc = IF task[a].op = "allow" THEN "store" ELSE "stamp"
      /\ t.z = z /\ t.op = task[a].op /\ t.left = task[a].left /\ t.alone = task[a].alone
      /\ t.rows = task[a].rows /\ t.allow = task[a].allow /\ t.ver = task[a].ver
  BY <1>2, <1>3, <1>4 DEF TaskTypes
<1>6. GoesOn(t, task[a])
  BY <1>1, <1>2, <1>5 DEF GoesOn
<1>7. CASE There(z) /\ Serve(a, WithAllow(Served(a), task[a].allow), t)
  <2>1. PICK s : s = WithAllow(pdns[z], task[a].allow)
    OBVIOUS
  <2>2. /\ s.there = pdns[z].there /\ s.stamp = pdns[z].stamp /\ s.rrs = pdns[z].rrs
        /\ s.keys = pdns[z].keys /\ s.nsec3 = pdns[z].nsec3 /\ s.allow = task[a].allow
        /\ s.names = pdns[z].names
    BY <1>3, <2>1, ServedParts
  <2>3. /\ Goto(a, t) /\ pdns' = [pdns EXCEPT ![z] = s] /\ pdns[z].there
        /\ UNCHANGED <<db, mode, intact>>
    BY <1>2, <1>7, <2>1 DEF Serve, Served, There
  <2>4. Whole(s)
    BY <2>2, <2>3 DEF Whole, IntactInv
  <2>5. Here(task[a], z, db[z], pdns[z], z \in intact) => Here(t, z, db[z], s, z \in intact)
    BY <1>1, <1>5, <2>2 DEF Here, Edited, Patching, Allowing, Signing, Unsigning, AddingKey,
       DeletingKey, Deactivating, Leads, Built, BuiltTo, Based, Agree, Adopting, Edits6
  <2> QED
    BY <1>1, <1>2, <1>6, <2>3, <2>4, <2>5, ServeStays
<1>8. CASE ~There(z) /\ Goto(a, t) /\ UNCHANGED <<db, pdns, tsig, mode, intact>>
  <2>1. Here(task[a], z, db[z], pdns[z], z \in intact) => Here(t, z, db[z], pdns[z], z \in intact)
    BY <1>1, <1>5, <1>8 DEF Here, Edited, Patching, Allowing, Signing, Unsigning, AddingKey,
       DeletingKey, Deactivating, Leads, Built, BuiltTo, Based, Agree, Adopting, Edits6, There
  <2> QED
    BY <1>1, <1>2, <1>6, <1>8, <2>1, QuietStays
<1> QED
  BY <1>2, <1>4, <1>7, <1>8 DEF ServeAllow, Serve

LEMMA StoreAllowIntact ==
  ASSUME IntactInv, NEW a \in Actors, StoreAllow(a)
  PROVE  IntactInv'
<1>1. TypeInv /\ TypeInv' /\ task[a].pc = "store" /\ task[a].op = "allow" /\ "store" \in AtZone
  BY StoreAllowInv DEF IntactInv, StoreAllow, At, AtZone
<1>2. PICK z \in Zones : task[a].z = z
  BY <1>1, Edits
<1>3. task[a] \in TaskTypes /\ db[z] \in RowTypes /\ pdns[z] \in ZoneTypes
  BY <1>1, <1>2, Edits
<1>4. PICK r : r = [db[z] EXCEPT !.allow = task[a].allow]
  OBVIOUS
<1>5. /\ r \in RowTypes /\ r.active = db[z].active /\ r.rrs = db[z].rrs /\ r.key = db[z].key
      /\ r.nsec3 = db[z].nsec3 /\ r.allow = task[a].allow /\ r.tsig = db[z].tsig
  BY <1>3, <1>4 DEF RowTypes, TaskTypes
<1>6. Store(a, r, "stamp")
  BY <1>2, <1>4 DEF StoreAllow, Row
<1>7. Edited(task[a], db[z], pdns[z]) => Agree(r, pdns[z], {"stamp"})
  <2>1. Stored(r) = Stored(db[z])
    BY <1>5 DEF Stored
  <2> QED
    BY <1>1, <1>5, <2>1 DEF Edited, Allowing, Agree
<1> QED
  BY <1>1, <1>2, <1>5, <1>6, <1>7, StoreMatches DEF Edits6

LEMMA ListKeysIntact ==
  ASSUME IntactInv, NEW a \in Actors, ListKeys(a)
  PROVE  IntactInv'
<1>1. /\ TypeInv /\ TypeInv' /\ task[a].pc = "keys"
      /\ {"keys", "add", "drop", "nsec3"} \subseteq AtZone
  BY ListKeysInv DEF IntactInv, ListKeys, At, AtZone
<1>2. PICK z \in Zones : task[a].z = z
  BY <1>1, Edits
<1>3. task[a] \in TaskTypes /\ db[z] \in RowTypes /\ pdns[z] \in ZoneTypes
  BY <1>1, <1>2, Edits
<1>4. 0 \notin pdns[z].keys
  BY DEF IntactInv, Whole
<1>5. UNCHANGED <<db, pdns, mode, intact>>
  BY DEF ListKeys
<1>6. ASSUME NEW k \in pdns[z].keys, task[a].op = "sign",
             Goto(a, [task[a] EXCEPT !.pc = "nsec3", !.key = k])
      PROVE  IntactInv'
  <2>1. PICK t : t = [task[a] EXCEPT !.pc = "nsec3", !.key = k]
    OBVIOUS
  <2>2. /\ t.pc = "nsec3" /\ t.key = k /\ t.z = z /\ t.op = "sign" /\ t.left = task[a].left
        /\ t.alone = task[a].alone /\ t.rows = task[a].rows
    BY <1>2, <1>3, <1>6, <2>1 DEF TaskTypes
  <2>3. GoesOn(t, task[a])
    BY <1>1, <1>2, <1>6, <2>2 DEF GoesOn
  <2>4. Signing(task[a], db[z], pdns[z]) => Signing(t, db[z], pdns[z])
    BY <1>1, <1>4, <1>6, <2>2 DEF Signing, Agree
  <2>5. Here(task[a], z, db[z], pdns[z], z \in intact) => Here(t, z, db[z], pdns[z], z \in intact)
    BY <1>1, <1>6, <2>2, <2>4 DEF Here, Edited
  <2> QED
    BY <1>1, <1>2, <1>5, <1>6, <2>1, <2>3, <2>5, QuietStays
<1>7. ASSUME task[a].op = "sign", pdns[z].keys = {}, To(a, "add")
      PROVE  IntactInv'
  <2>1. PICK t : t = [task[a] EXCEPT !.pc = "add"]
    OBVIOUS
  <2>2. /\ t.pc = "add" /\ t.z = z /\ t.op = "sign" /\ t.left = task[a].left
        /\ t.alone = task[a].alone /\ t.rows = task[a].rows
    BY <1>2, <1>3, <1>7, <2>1 DEF TaskTypes
  <2>3. GoesOn(t, task[a])
    BY <1>1, <1>2, <1>7, <2>2 DEF GoesOn
  <2>4. Signing(task[a], db[z], pdns[z]) => Signing(t, db[z], pdns[z])
    BY <1>1, <1>7, <2>2 DEF Signing, Agree
  <2>5. Here(task[a], z, db[z], pdns[z], z \in intact) => Here(t, z, db[z], pdns[z], z \in intact)
    BY <1>1, <1>7, <2>2, <2>4 DEF Here, Edited
  <2> QED
    BY <1>1, <1>2, <1>5, <1>7, <2>1, <2>3, <2>5, QuietStays DEF To
<1>8. ASSUME task[a].op = "unsign",
             Goto(a, [task[a] EXCEPT !.pc = IF pdns[z].keys = {} THEN "nsec3" ELSE "drop",
                                     !.keys = pdns[z].keys])
      PROVE  IntactInv'
  <2>1. PICK t : t = [task[a] EXCEPT !.pc = IF pdns[z].keys = {} THEN "nsec3" ELSE "drop",
                                     !.keys = pdns[z].keys]
    OBVIOUS
  <2>2. /\ t.pc = IF pdns[z].keys = {} THEN "nsec3" ELSE "drop"
        /\ t.keys = pdns[z].keys /\ t.z = z /\ t.op = "unsign" /\ t.left = task[a].left
        /\ t.alone = task[a].alone /\ t.rows = task[a].rows
        /\ t.key = task[a].key /\ t.nsec3 = task[a].nsec3
    BY <1>2, <1>3, <1>8, <2>1 DEF TaskTypes
  <2>3. GoesOn(t, task[a])
    BY <1>1, <1>2, <1>8, <2>2 DEF GoesOn
  <2>4. Unsigning(task[a], db[z], pdns[z]) => Unsigning(t, db[z], pdns[z])
    BY <1>1, <2>2 DEF Unsigning, Agree
  <2>5. Here(task[a], z, db[z], pdns[z], z \in intact) => Here(t, z, db[z], pdns[z], z \in intact)
    BY <1>1, <1>8, <2>2, <2>4 DEF Here, Edited
  <2> QED
    BY <1>1, <1>2, <1>5, <1>8, <2>1, <2>3, <2>5, QuietStays
<1> QED
  BY <1>2, <1>6, <1>7, <1>8 DEF ListKeys

LEMMA AddKeyIntact ==
  ASSUME IntactInv, NEW a \in Actors, AddKey(a)
  PROVE  IntactInv'
<1>1. /\ TypeInv /\ TypeInv' /\ task[a].pc = "add" /\ {"add", "nsec3"} \subseteq AtZone
      /\ NewKey # 0
  BY AddKeyInv, NewKeyTypes DEF IntactInv, AddKey, At, AtZone
<1>2. PICK z \in Zones : task[a].z = z
  BY <1>1, Edits
<1>3. task[a] \in TaskTypes /\ db[z] \in RowTypes /\ pdns[z] \in ZoneTypes
  BY <1>1, <1>2, Edits
<1>4. PICK k : k = NewKey
  OBVIOUS
<1>5. PICK t : t = [task[a] EXCEPT !.pc = "nsec3", !.key = k]
  OBVIOUS
<1>6. /\ t.pc = "nsec3" /\ t.key = k /\ t.z = z /\ t.op = task[a].op /\ t.left = task[a].left
      /\ t.alone = task[a].alone /\ t.rows = task[a].rows
  BY <1>2, <1>3, <1>5 DEF TaskTypes
<1>7. PICK s : s = WithKey(pdns[z], k)
  OBVIOUS
<1>8. /\ s.there = pdns[z].there /\ s.stamp = pdns[z].stamp /\ s.rrs = pdns[z].rrs
      /\ s.keys = pdns[z].keys \cup {k} /\ s.nsec3 = pdns[z].nsec3
      /\ s.allow = pdns[z].allow /\ s.names = pdns[z].names
  BY <1>3, <1>7, ServedParts
<1>9. /\ Goto(a, t) /\ pdns' = [pdns EXCEPT ![z] = s] /\ pdns[z].there
      /\ UNCHANGED <<db, mode, intact>>
  BY <1>2, <1>3, <1>4, <1>5, <1>7 DEF AddKey, There, IntactInv, TypeInv, Tables
<1>10. Whole(s) /\ GoesOn(t, task[a])
  BY <1>1, <1>2, <1>4, <1>6, <1>8, <1>9 DEF GoesOn, Whole, IntactInv
<1>11. Here(task[a], z, db[z], pdns[z], z \in intact) => Here(t, z, db[z], s, z \in intact)
  BY <1>1, <1>4, <1>6, <1>8 DEF Here, Edited, Patching, Allowing, Signing, Unsigning, AddingKey,
     DeletingKey, Deactivating, Leads, Built, BuiltTo, Agree, Adopting, Edits6
<1> QED
  BY <1>1, <1>2, <1>9, <1>10, <1>11, ServeStays

LEMMA ServeNsec3Intact ==
  ASSUME IntactInv, NEW a \in Actors, ServeNsec3(a)
  PROVE  IntactInv'
<1>1. /\ TypeInv /\ TypeInv' /\ task[a].pc = "nsec3"
      /\ {"nsec3", "fetch", "store"} \subseteq AtZone
  BY ServeNsec3Inv DEF IntactInv, ServeNsec3, At, AtZone
<1>2. PICK z \in Zones : task[a].z = z
  BY <1>1, Edits
<1>3. task[a] \in TaskTypes /\ db[z] \in RowTypes /\ pdns[z] \in ZoneTypes
  BY <1>1, <1>2, Edits
<1>4. PICK t : t = [task[a] EXCEPT !.pc = IF task[a].op = "sign" THEN "fetch" ELSE "store"]
  OBVIOUS
<1>5. /\ t.pc = IF task[a].op = "sign" THEN "fetch" ELSE "store"
      /\ t.z = z /\ t.op = task[a].op /\ t.left = task[a].left /\ t.alone = task[a].alone
      /\ t.rows = task[a].rows /\ t.key = task[a].key /\ t.nsec3 = task[a].nsec3
  BY <1>2, <1>3, <1>4 DEF TaskTypes
<1>6. PICK s : s = WithMode(pdns[z], task[a].nsec3)
  OBVIOUS
<1>7. /\ s.there = pdns[z].there /\ s.stamp = pdns[z].stamp /\ s.rrs = pdns[z].rrs
      /\ s.keys = pdns[z].keys /\ s.nsec3 = task[a].nsec3 /\ s.allow = pdns[z].allow
      /\ s.names = pdns[z].names
  BY <1>3, <1>6, ServedParts
<1>8. /\ Goto(a, t) /\ pdns' = [pdns EXCEPT ![z] = s] /\ pdns[z].there
      /\ UNCHANGED <<db, mode, intact>>
  BY <1>2, <1>4, <1>6 DEF ServeNsec3, Serve, Served, There
<1>9. Whole(s) /\ GoesOn(t, task[a])
  BY <1>1, <1>2, <1>5, <1>7, <1>8 DEF GoesOn, Whole, IntactInv
<1>10. Here(task[a], z, db[z], pdns[z], z \in intact) => Here(t, z, db[z], s, z \in intact)
  BY <1>1, <1>5, <1>7 DEF Here, Edited, Patching, Allowing, Signing, Unsigning, AddingKey,
     DeletingKey, Deactivating, Leads, Built, BuiltTo, Agree, Adopting, Edits6
<1> QED
  BY <1>1, <1>2, <1>8, <1>9, <1>10, ServeStays

LEMMA FetchKeyIntact ==
  ASSUME IntactInv, NEW a \in Actors, FetchKey(a)
  PROVE  IntactInv'
<1>1. /\ TypeInv /\ TypeInv' /\ task[a].pc = "fetch" /\ {"fetch", "store"} \subseteq AtZone
      /\ UNCHANGED <<db, pdns, mode, intact>>
  BY FetchKeyInv DEF IntactInv, FetchKey, At, AtZone
<1>2. PICK z \in Zones : task[a].z = z
  BY <1>1, Edits
<1>3. task[a] \in TaskTypes
  BY <1>1, Edits
<1>4. PICK t : t = [task[a] EXCEPT !.pc = "store"]
  OBVIOUS
<1>5. /\ t.pc = "store" /\ t.z = z /\ t.op = task[a].op /\ t.left = task[a].left
      /\ t.alone = task[a].alone /\ t.rows = task[a].rows /\ t.key = task[a].key
      /\ t.nsec3 = task[a].nsec3
  BY <1>2, <1>3, <1>4 DEF TaskTypes
<1>6. Goto(a, t) /\ GoesOn(t, task[a])
  BY <1>1, <1>2, <1>4, <1>5 DEF FetchKey, To, GoesOn
<1>7. Here(task[a], z, db[z], pdns[z], z \in intact) => Here(t, z, db[z], pdns[z], z \in intact)
  BY <1>1, <1>5 DEF Here, Edited, Patching, Allowing, Signing, Unsigning, AddingKey,
     DeletingKey, Deactivating, Leads, Built, BuiltTo, Agree, Adopting, Edits6
<1> QED
  BY <1>1, <1>2, <1>6, <1>7, QuietStays

LEMMA StoreKeyIntact ==
  ASSUME IntactInv, NEW a \in Actors, StoreKey(a)
  PROVE  IntactInv'
<1>1. /\ TypeInv /\ TypeInv' /\ task[a].pc = "store" /\ task[a].op \in {"sign", "unsign"}
      /\ "store" \in AtZone
  BY StoreKeyInv DEF IntactInv, StoreKey, At, AtZone
<1>2. PICK z \in Zones : task[a].z = z
  BY <1>1, Edits
<1>3. task[a] \in TaskTypes /\ db[z] \in RowTypes /\ pdns[z] \in ZoneTypes
  BY <1>1, <1>2, Edits
<1>4. PICK r : r = [db[z] EXCEPT !.key = task[a].key, !.nsec3 = task[a].nsec3]
  OBVIOUS
<1>5. /\ r \in RowTypes /\ r.active = db[z].active /\ r.rrs = db[z].rrs
      /\ r.key = task[a].key /\ r.nsec3 = task[a].nsec3 /\ r.allow = db[z].allow
      /\ r.tsig = db[z].tsig
  BY <1>3, <1>4 DEF RowTypes, TaskTypes
<1>6. Store(a, r, "stamp")
  BY <1>2, <1>4 DEF StoreKey, Row
<1>7. Edited(task[a], db[z], pdns[z]) => Agree(r, pdns[z], {"stamp"})
  <2>1. Stored(r) = Stored(db[z])
    BY <1>5 DEF Stored
  <2>2. task[a].nsec3 \in BOOLEAN /\ pdns[z].nsec3 \in BOOLEAN
    BY <1>3 DEF TaskTypes, ZoneTypes
  <2> QED
    BY <1>1, <1>5, <2>1, <2>2 DEF Edited, Signing, Unsigning, Agree
<1> QED
  BY <1>1, <1>2, <1>5, <1>6, <1>7, StoreMatches DEF Edits6

LEMMA CreateTsigIntact ==
  ASSUME IntactInv, NEW a \in Actors, CreateTsig(a)
  PROVE  IntactInv'
<1>1. /\ TypeInv /\ TypeInv' /\ task[a].pc = "create" /\ {"create", "store"} \subseteq AtZone
      /\ NewSecret # 0 /\ UNCHANGED <<db, pdns, mode, intact>>
  BY CreateTsigInv, NewKeyTypes DEF IntactInv, CreateTsig, At, AtZone
<1>2. PICK z \in Zones : task[a].z = z
  BY <1>1, Edits
<1>3. task[a] \in TaskTypes
  BY <1>1, Edits
<1>4. PICK k : k = NewSecret
  OBVIOUS
<1>5. PICK t : t = [task[a] EXCEPT !.pc = "store", !.key = k]
  OBVIOUS
<1>6. /\ t.pc = "store" /\ t.key = k /\ t.z = z /\ t.op = task[a].op /\ t.left = task[a].left
      /\ t.alone = task[a].alone /\ t.rows = task[a].rows
      /\ t.name = task[a].name /\ t.names = task[a].names
  BY <1>2, <1>3, <1>5 DEF TaskTypes
<1>7. Goto(a, t) /\ GoesOn(t, task[a])
  BY <1>1, <1>2, <1>4, <1>5, <1>6 DEF CreateTsig, GoesOn
<1>8. Here(task[a], z, db[z], pdns[z], z \in intact) => Here(t, z, db[z], pdns[z], z \in intact)
  BY <1>1, <1>4, <1>6 DEF Here, Edited, Patching, Allowing, Signing, Unsigning, AddingKey,
     DeletingKey, Deactivating, Leads, Built, BuiltTo, Agree, Adopting, Edits6
<1> QED
  BY <1>1, <1>2, <1>7, <1>8, QuietStays

LEMMA NameTakenIntact ==
  ASSUME IntactInv, NEW a \in Actors, NameTaken(a)
  PROVE  IntactInv'
<1>1. /\ TypeInv /\ TypeInv' /\ task[a].pc = "create" /\ "create" \in AtZone
      /\ UNCHANGED <<db, pdns, mode, intact>> /\ Goto(a, Idle)
  BY NameTakenInv DEF IntactInv, NameTaken, At, AtZone
<1>2. PICK z \in Zones : task[a].z = z
  BY <1>1, Edits
<1>3. z \in intact => Here(task[a], z, db[z], pdns[z], z \in intact)
  BY <1>1, <1>2, HereHolds
<1>4. z \in intact => Mirror(db[z], pdns[z])
  BY <1>1, <1>3 DEF Here, Edited, Patching, Allowing, Signing, Unsigning, AddingKey,
     DeletingKey, Deactivating, Leads, Built, BuiltTo, Agree, Adopting, Edits6, Mirror
<1>5. \A x \in Zones : Whole(pdns'[x])
  BY <1>1 DEF IntactInv
<1> QED
  BY <1>1, <1>2, <1>4, <1>5, Ends

LEMMA StoreTsigIntact ==
  ASSUME IntactInv, NEW a \in Actors, StoreTsig(a)
  PROVE  IntactInv'
<1>1. /\ TypeInv /\ TypeInv' /\ task[a].pc = "store" /\ task[a].op = "addkey"
      /\ "store" \in AtZone /\ "names" \in AtZone \ {"import", "active"}
  BY StoreTsigInv DEF IntactInv, StoreTsig, At, AtZone
<1>2. PICK z \in Zones : task[a].z = z
  BY <1>1, Edits
<1>3. /\ task[a] \in TaskTypes /\ db[z] \in RowTypes /\ pdns[z] \in ZoneTypes
      /\ task[a].name \in KeyNames /\ task[a].key \in Keys
  BY <1>1, <1>2, Edits, Named DEF TaskTypes
<1>4. PICK r : r = [db[z] EXCEPT !.tsig[task[a].name] = task[a].key]
  OBVIOUS
<1>5. r \in RowTypes
  BY <1>3, <1>4, TsigRow
<1>6. /\ r.active = db[z].active /\ r.rrs = db[z].rrs /\ r.key = db[z].key
      /\ r.nsec3 = db[z].nsec3 /\ r.allow = db[z].allow
      /\ r.tsig = [db[z].tsig EXCEPT ![task[a].name] = task[a].key]
  BY <1>3, <1>4 DEF RowTypes
<1>7. Store(a, r, "names")
  BY <1>2, <1>4 DEF StoreTsig, Row
<1>8. task[a].key # 0 => Stored(r) = Stored(db[z]) \cup {task[a].name}
  BY <1>3, <1>6 DEF Stored, RowTypes, Names
<1>9. ASSUME NEW t \in TaskTypes, NEW row \in RowTypes,
             t.pc = "names", t.op = task[a].op, t.names = task[a].names, t.ver = row.ver,
             row.active = r.active, row.rrs = r.rrs, row.key = r.key,
             row.nsec3 = r.nsec3, row.allow = r.allow, row.tsig = r.tsig,
             Here(task[a], z, db[z], pdns[z], z \in intact)
      PROVE  Here(t, z, row, pdns[z], z \in intact)
  <2>1. SUFFICES ASSUME z \in intact
                 PROVE  AddingKey(t, row, pdns[z])
    BY <1>1, <1>9 DEF Here, Edited
  <2>2. AddingKey(task[a], db[z], pdns[z])
    BY <1>1, <1>9, <2>1 DEF Here, Edited
  <2>3. Stored(row) = Stored(r)
    BY <1>9 DEF Stored
  <2> QED
    BY <1>1, <1>6, <1>8, <1>9, <2>2, <2>3 DEF AddingKey, Agree
<1> QED
  BY <1>1, <1>2, <1>5, <1>7, <1>9, StoreStays

LEMMA DeleteTsigRowIntact ==
  ASSUME IntactInv, NEW a \in Actors, DeleteTsigRow(a)
  PROVE  IntactInv'
<1>1. /\ TypeInv /\ TypeInv' /\ task[a].pc = "store" /\ task[a].op = "delkey"
      /\ "store" \in AtZone /\ "remaining" \in AtZone \ {"import", "active"}
  BY StoreTsigInv DEF IntactInv, DeleteTsigRow, At, AtZone
<1>2. PICK z \in Zones : task[a].z = z
  BY <1>1, Edits
<1>3. /\ task[a] \in TaskTypes /\ db[z] \in RowTypes /\ pdns[z] \in ZoneTypes
      /\ task[a].name \in KeyNames /\ 0 \in Keys
  BY <1>1, <1>2, Edits, Named, Constants
<1>4. PICK r : r = [db[z] EXCEPT !.tsig[task[a].name] = 0]
  OBVIOUS
<1>5. r \in RowTypes
  BY <1>3, <1>4, TsigRow
<1>6. /\ r.active = db[z].active /\ r.rrs = db[z].rrs /\ r.key = db[z].key
      /\ r.nsec3 = db[z].nsec3 /\ r.allow = db[z].allow
  BY <1>3, <1>4 DEF RowTypes
<1>7. Store(a, r, "remaining")
  BY <1>2, <1>4 DEF DeleteTsigRow, Row
<1>8. ASSUME NEW t \in TaskTypes, NEW row \in RowTypes,
             t.pc = "remaining", t.op = task[a].op, t.ver = row.ver,
             row.active = r.active, row.rrs = r.rrs, row.key = r.key,
             row.nsec3 = r.nsec3, row.allow = r.allow,
             Here(task[a], z, db[z], pdns[z], z \in intact)
      PROVE  Here(t, z, row, pdns[z], z \in intact)
  <2>1. SUFFICES ASSUME z \in intact
                 PROVE  DeletingKey(t, row, pdns[z])
    BY <1>1, <1>8 DEF Here, Edited
  <2>2. DeletingKey(task[a], db[z], pdns[z])
    BY <1>1, <1>8, <2>1 DEF Here, Edited
  <2> QED
    BY <1>1, <1>6, <1>8, <2>2 DEF DeletingKey, Agree
<1> QED
  BY <1>1, <1>2, <1>5, <1>7, <1>8, StoreStays

LEMMA ReadNamesIntact ==
  ASSUME IntactInv, NEW a \in Actors, ReadNames(a)
  PROVE  IntactInv'
<1>1. /\ TypeInv /\ TypeInv' /\ task[a].pc \in {"remaining", "rows"}
      /\ {"remaining", "rows", "names", "remove"} \subseteq AtZone
      /\ UNCHANGED <<db, pdns, mode, intact>>
  BY ReadNamesInv DEF IntactInv, ReadNames, AtZone
<1>2. PICK z \in Zones : task[a].z = z
  BY <1>1, Edits
<1>3. task[a] \in TaskTypes
  BY <1>1, Edits
<1>4. PICK t : t = [task[a] EXCEPT !.pc = IF @ = "rows" THEN "remove" ELSE "names",
                                   !.names = Stored(db[z])]
  OBVIOUS
<1>5. /\ t.pc = IF task[a].pc = "rows" THEN "remove" ELSE "names"
      /\ t.names = Stored(db[z]) /\ t.z = z /\ t.op = task[a].op /\ t.left = task[a].left
      /\ t.alone = task[a].alone /\ t.rows = task[a].rows /\ t.ver = task[a].ver
  BY <1>2, <1>3, <1>4 DEF TaskTypes
<1>6. Goto(a, t) /\ GoesOn(t, task[a])
  BY <1>1, <1>2, <1>4, <1>5 DEF ReadNames, Row, GoesOn
<1>7. Here(task[a], z, db[z], pdns[z], z \in intact) => Here(t, z, db[z], pdns[z], z \in intact)
  BY <1>1, <1>5 DEF Here, Edited, Patching, Allowing, Signing, Unsigning, AddingKey,
     DeletingKey, Deactivating, Leads, Built, BuiltTo, Agree, Adopting, Edits6
<1> QED
  BY <1>1, <1>2, <1>6, <1>7, QuietStays

LEMMA ServeNamesIntact ==
  ASSUME IntactInv, NEW a \in Actors, ServeNames(a)
  PROVE  IntactInv'
<1>1. /\ TypeInv /\ TypeInv' /\ task[a].pc = "names"
      /\ {"names", "stamp", "remove", "allow"} \subseteq AtZone
  BY ServeNamesInv DEF IntactInv, ServeNames, At, AtZone
<1>2. PICK z \in Zones : task[a].z = z
  BY <1>1, Edits
<1>3. task[a] \in TaskTypes /\ db[z] \in RowTypes /\ pdns[z] \in ZoneTypes
  BY <1>1, <1>2, Edits
<1>4. PICK t : t = AfterNames(task[a])
  OBVIOUS
<1>5. /\ t.pc = IF task[a].op = "addkey" THEN "stamp"
                ELSE IF task[a].op = "delkey" THEN "remove" ELSE "allow"
      /\ t.z = z /\ t.op = task[a].op /\ t.left = task[a].left /\ t.alone = task[a].alone
      /\ t.rows = task[a].rows /\ t.ver = task[a].ver /\ t.allow = task[a].allow
  <2>1. CASE task[a].op = "addkey"
    <3>1. t = [task[a] EXCEPT !.pc = "stamp", !.names = {}]
      BY <1>4, <2>1 DEF AfterNames
    <3> QED
      BY <1>2, <1>3, <2>1, <3>1 DEF TaskTypes
  <2>2. CASE task[a].op = "delkey"
    <3>1. t = [task[a] EXCEPT !.pc = "remove", !.names = {task[a].name}]
      BY <1>4, <2>2 DEF AfterNames
    <3> QED
      BY <1>2, <1>3, <2>2, <3>1 DEF TaskTypes
  <2>3. CASE task[a].op \notin {"addkey", "delkey"}
    <3>1. t = [task[a] EXCEPT !.pc = "allow", !.names = {}]
      BY <1>4, <2>3 DEF AfterNames
    <3> QED
      BY <1>2, <1>3, <2>3, <3>1 DEF TaskTypes
  <2> QED
    BY <2>1, <2>2, <2>3
<1>6. GoesOn(t, task[a])
  BY <1>1, <1>2, <1>5 DEF GoesOn
<1>7. CASE Serve(a, WithNames(Served(a), task[a].names), t)
  <2>1. PICK s : s = WithNames(pdns[z], task[a].names)
    OBVIOUS
  <2>2. /\ s.there = pdns[z].there /\ s.stamp = pdns[z].stamp /\ s.rrs = pdns[z].rrs
        /\ s.keys = pdns[z].keys /\ s.nsec3 = pdns[z].nsec3 /\ s.allow = pdns[z].allow
        /\ s.names = task[a].names
    BY <1>3, <2>1, ServedParts
  <2>3. /\ Goto(a, t) /\ pdns' = [pdns EXCEPT ![z] = s] /\ pdns[z].there
        /\ UNCHANGED <<db, mode, intact>>
    BY <1>2, <1>7, <2>1 DEF Serve, Served, There
  <2>4. Whole(s)
    BY <2>2, <2>3 DEF Whole, IntactInv
  <2>5. Here(task[a], z, db[z], pdns[z], z \in intact) => Here(t, z, db[z], s, z \in intact)
    BY <1>1, <1>5, <2>2 DEF Here, Edited, Patching, Allowing, Signing, Unsigning, AddingKey,
       DeletingKey, Deactivating, Leads, Built, BuiltTo, Based, Agree, Adopting, Edits6
  <2> QED
    BY <1>1, <1>2, <1>6, <2>3, <2>4, <2>5, ServeStays
<1>8. CASE ~There(z) /\ Goto(a, t) /\ UNCHANGED <<db, pdns, tsig, mode, intact>>
  <2>1. Here(task[a], z, db[z], pdns[z], z \in intact) => Here(t, z, db[z], pdns[z], z \in intact)
    BY <1>1, <1>5, <1>8 DEF Here, Edited, Patching, Allowing, Signing, Unsigning, AddingKey,
       DeletingKey, Deactivating, Leads, Built, BuiltTo, Based, Agree, Adopting, Edits6, There
  <2> QED
    BY <1>1, <1>2, <1>6, <1>8, <2>1, QuietStays
<1> QED
  BY <1>2, <1>4, <1>7, <1>8 DEF ServeNames

\* Where a task is that removes TSIG keys, and what it keeps
LEMMA RemovingParts ==
  ASSUME TypeInv, NEW a \in Actors, NEW names, NEW t,
         t = Removing([task[a] EXCEPT !.names = names])
  PROVE  /\ t.pc \in {"unkey", "stamp", "inactive"}
         /\ t.pc = "stamp" => t.op = "delkey"
         /\ t.pc = "inactive" => t.op # "delkey"
         /\ t.names = names /\ t.z = task[a].z /\ t.op = task[a].op
         /\ t.left = task[a].left /\ t.alone = task[a].alone
         /\ t.rows = task[a].rows /\ t.ver = task[a].ver
         /\ t.want = task[a].want /\ t.name = task[a].name
<1>1. task[a] \in TaskTypes
  BY AtZoneTypes
<1>2. PICK u : u = [task[a] EXCEPT !.names = names]
  OBVIOUS
<1>3. PICK pc : pc = IF u.names # {} THEN "unkey"
                     ELSE IF u.op = "delkey" THEN "stamp" ELSE "inactive"
  OBVIOUS
<1>4. t = [u EXCEPT !.pc = pc]
  BY <1>2, <1>3 DEF Removing
<1>5. t = [task[a] EXCEPT !.names = names, !.pc = pc]
  BY <1>2, <1>4
<1>6. u.op = task[a].op
  BY <1>1, <1>2 DEF TaskTypes
<1>7. /\ t.pc = pc /\ t.names = names /\ t.z = task[a].z /\ t.op = task[a].op
      /\ t.left = task[a].left /\ t.alone = task[a].alone
      /\ t.rows = task[a].rows /\ t.ver = task[a].ver
      /\ t.want = task[a].want /\ t.name = task[a].name
  BY <1>1, <1>5 DEF TaskTypes
<1> QED
  BY <1>3, <1>6, <1>7

LEMMA RemovingIntact ==
  ASSUME IntactInv, TypeInv', NEW a \in Actors, task[a].pc \in {"remove", "unkey"},
         NEW names, Goto(a, Removing([task[a] EXCEPT !.names = names])),
         UNCHANGED <<db, pdns, mode, intact>>
  PROVE  IntactInv'
<1>1. TypeInv /\ {"remove", "unkey", "stamp", "inactive"} \subseteq AtZone
  BY DEF IntactInv, AtZone
<1>2. PICK z \in Zones : task[a].z = z
  BY <1>1, Edits
<1>3. PICK t : t = Removing([task[a] EXCEPT !.names = names])
  OBVIOUS
<1>4. /\ t.pc \in {"unkey", "stamp", "inactive"}
      /\ t.pc = "stamp" => t.op = "delkey"
      /\ t.pc = "inactive" => t.op # "delkey"
      /\ t.z = z /\ t.op = task[a].op /\ t.left = task[a].left /\ t.alone = task[a].alone
      /\ t.rows = task[a].rows /\ t.ver = task[a].ver
  BY <1>1, <1>2, <1>3, RemovingParts
<1>5. Goto(a, t) /\ GoesOn(t, task[a])
  BY <1>1, <1>2, <1>3, <1>4 DEF GoesOn
<1>6. Here(task[a], z, db[z], pdns[z], z \in intact) => Here(t, z, db[z], pdns[z], z \in intact)
  BY <1>4 DEF Here, Edited, Patching, Allowing, Signing, Unsigning, AddingKey,
     DeletingKey, Deactivating, Leads, Built, BuiltTo, Agree, Adopting, Edits6
<1> QED
  BY <1>1, <1>2, <1>5, <1>6, QuietStays

LEMMA ListTsigIntact ==
  ASSUME IntactInv, NEW a \in Actors, ListTsig(a)
  PROVE  IntactInv'
<1>1. task[a].pc = "remove" /\ UNCHANGED <<db, pdns, mode, intact>> /\ TypeInv'
  BY ListTsigInv DEF IntactInv, ListTsig, At
<1>2. Goto(a, Removing([task[a] EXCEPT !.names = @ \cap TsigNames]))
  BY DEF ListTsig
<1> QED
  BY <1>1, <1>2, RemovingIntact

LEMMA RemoveTsigIntact ==
  ASSUME IntactInv, NEW a \in Actors, NEW n \in KeyNames, RemoveTsig(a, n)
  PROVE  IntactInv'
<1>1. task[a].pc = "unkey" /\ UNCHANGED <<db, pdns, mode, intact>> /\ TypeInv'
  BY RemoveTsigInv DEF IntactInv, RemoveTsig, At
<1>2. Goto(a, Removing([task[a] EXCEPT !.names = @ \ {n}]))
  BY DEF RemoveTsig
<1> QED
  BY <1>1, <1>2, RemovingIntact

LEMMA ActivateRowIntact ==
  ASSUME IntactInv, NEW a \in Actors, ActivateRow(a)
  PROVE  IntactInv'
<1>1. /\ TypeInv /\ TypeInv' /\ task[a].pc = "active"
      /\ {"active", "probe", "look"} \subseteq AtZone /\ UNCHANGED <<pdns, mode, intact>>
      /\ task[a].op # "sync"
  BY ActivateRowInv DEF IntactInv, ActivateRow, At, AtZone, Walks
<1>2. PICK z \in Zones : task[a].z = z
  BY <1>1, Edits
<1>3. task[a] \in TaskTypes /\ db[z] \in RowTypes
  BY <1>1, <1>2, Edits
<1>4. PICK ver : ver = IF db[z].active THEN db[z].ver ELSE db[z].ver + 1
  OBVIOUS
<1>5. PICK r : r = [db[z] EXCEPT !.active = TRUE, !.ver = ver]
  OBVIOUS
<1>6. /\ r.active = TRUE /\ r.ver = ver /\ r.rrs = db[z].rrs /\ r.key = db[z].key
      /\ r.nsec3 = db[z].nsec3 /\ r.allow = db[z].allow /\ r.tsig = db[z].tsig
  BY <1>3, <1>5 DEF RowTypes
<1>7. db[z].active => r = db[z]
  BY <1>3, <1>4, <1>5 DEF RowTypes
<1>8. PICK t : t = [task[a] EXCEPT !.pc = IF task[a].rows[z].active THEN "probe" ELSE "look",
                                   !.ver = ver, !.allow = db[z].allow, !.rows = NoRows]
  OBVIOUS
<1>9. /\ t.pc = IF task[a].rows[z].active THEN "probe" ELSE "look"
      /\ t.ver = ver /\ t.allow = db[z].allow /\ t.z = z /\ t.op = task[a].op
      /\ t.left = task[a].left /\ t.alone = task[a].alone
  BY <1>2, <1>3, <1>8 DEF TaskTypes
<1>10. db' = [db EXCEPT ![z] = r]
  <2>1. db' = [db EXCEPT ![z].active = TRUE, ![z].ver = ver]
    BY <1>2, <1>4 DEF ActivateRow, Row
  <2>2. db \in [Zones -> RowTypes]
    BY <1>1 DEF TypeInv, Tables
  <2> QED
    BY <1>3, <1>5, <2>1, <2>2 DEF RowTypes
<1>11. Goto(a, t) /\ GoesOn(t, task[a])
  BY <1>1, <1>2, <1>4, <1>8, <1>9 DEF ActivateRow, Row, GoesOn
<1>12. Here(task[a], z, db[z], pdns[z], z \in intact) => Here(t, z, r, pdns[z], z \in intact)
  <2>1. SUFFICES ASSUME Here(task[a], z, db[z], pdns[z], z \in intact)
                 PROVE  Here(t, z, r, pdns[z], z \in intact)
    OBVIOUS
  <2>2. CASE task[a].op \notin {"activate", "sync"}
    <3>1. z \notin intact
      BY <1>1, <2>1, <2>2 DEF Here, Edited, Patching, Allowing, Signing, Unsigning, AddingKey,
         DeletingKey, Deactivating
    <3> QED
      BY <1>9, <2>1, <2>2, <3>1 DEF Here
  <2>3. CASE task[a].op = "activate"
    <3>1. task[a].rows[z] = Listed(db[z]) /\ (z \in intact => Mirror(db[z], pdns[z]))
      BY <1>1, <2>1, <2>3 DEF Here, Leads, Built, BuiltTo, Adopting
    <3>2. task[a].rows[z].active = db[z].active
      BY <3>1 DEF Listed
    <3>3. Based(t, r)
      BY <1>6, <1>9 DEF Based
    <3>4. CASE db[z].active
      BY <1>7, <1>9, <2>3, <3>1, <3>2, <3>3, <3>4 DEF Here, Leads
    <3>5. CASE ~db[z].active
      BY <1>9, <2>3, <3>2, <3>3, <3>5 DEF Here, Built, BuiltTo
    <3> QED
      BY <3>4, <3>5
  <2> QED
    BY <1>1, <2>2, <2>3
<1> QED
  BY <1>1, <1>2, <1>10, <1>11, <1>12, RowStays

LEMMA ProbeIntact ==
  ASSUME IntactInv, NEW a \in Actors, Probe(a)
  PROVE  IntactInv'
<1>1. /\ TypeInv /\ TypeInv' /\ task[a].pc = "probe" /\ {"probe", "look"} \subseteq AtZone
      /\ UNCHANGED <<db, pdns, mode, intact>>
  BY ProbeInv DEF IntactInv, Probe, At, AtZone
<1>2. PICK z \in Zones : task[a].z = z
  BY <1>1, Edits
<1>3. task[a] \in TaskTypes
  BY <1>1, Edits
<1>4. CASE There(z)
  <2>1. z \in intact => Here(task[a], z, db[z], pdns[z], z \in intact)
    BY <1>1, <1>2, HereHolds
  <2>2. z \in intact => Mirror(db[z], pdns[z])
    BY <1>1, <2>1 DEF Here, Edited, Patching, Allowing, Signing, Unsigning, AddingKey,
       DeletingKey, Deactivating, Leads, Built, BuiltTo, Adopting
  <2>3. \A x \in Zones : Whole(pdns'[x])
    BY <1>1 DEF IntactInv
  <2>4. Goto(a, Idle)
    BY <1>2, <1>4 DEF Probe
  <2> QED
    BY <1>1, <1>2, <2>2, <2>3, <2>4, Ends
<1>5. CASE ~There(z)
  <2>1. PICK t : t = [task[a] EXCEPT !.pc = "look"]
    OBVIOUS
  <2>2. /\ t.pc = "look" /\ t.z = z /\ t.op = task[a].op /\ t.left = task[a].left
        /\ t.alone = task[a].alone /\ t.rows = task[a].rows /\ t.ver = task[a].ver
        /\ t.allow = task[a].allow
    BY <1>2, <1>3, <2>1 DEF TaskTypes
  <2>3. Goto(a, t) /\ GoesOn(t, task[a])
    BY <1>1, <1>2, <1>5, <2>1, <2>2 DEF Probe, GoesOn
  <2>4. Here(task[a], z, db[z], pdns[z], z \in intact) => Here(t, z, db[z], pdns[z], z \in intact)
    BY <1>1, <2>2 DEF Here, Edited, Patching, Allowing, Signing, Unsigning, AddingKey,
       DeletingKey, Deactivating, Leads, Built, BuiltTo, Based, Adopting
  <2> QED
    BY <1>1, <1>2, <2>3, <2>4, QuietStays
<1> QED
  BY <1>4, <1>5

LEMMA UnserveIntact ==
  ASSUME IntactInv, NEW a \in Actors, Unserve(a)
  PROVE  IntactInv'
<1>1. /\ TypeInv /\ TypeInv' /\ task[a].pc = "unserve" /\ {"unserve", "rows"} \subseteq AtZone
      /\ UNCHANGED <<db, mode, intact>>
  BY UnserveInv DEF IntactInv, Unserve, At, AtZone
<1>2. PICK z \in Zones : task[a].z = z
  BY <1>1, Edits
<1>3. task[a] \in TaskTypes
  BY <1>1, Edits
<1>4. PICK t : t = [task[a] EXCEPT !.pc = "rows"]
  OBVIOUS
<1>5. /\ t.pc = "rows" /\ t.z = z /\ t.op = task[a].op /\ t.left = task[a].left
      /\ t.alone = task[a].alone /\ t.rows = task[a].rows
  BY <1>2, <1>3, <1>4 DEF TaskTypes
<1>6. Goto(a, t) /\ GoesOn(t, task[a]) /\ pdns' = [pdns EXCEPT ![z] = NoServed]
  BY <1>1, <1>2, <1>4, <1>5 DEF Unserve, To, GoesOn
<1>7. Whole(NoServed) /\ ~NoServed.there
  BY DEF Whole, NoServed
<1>8. Here(task[a], z, db[z], pdns[z], z \in intact) => Here(t, z, db[z], NoServed, z \in intact)
  BY <1>1, <1>5, <1>7 DEF Here, Edited, Patching, Allowing, Signing, Unsigning, AddingKey,
     DeletingKey, Deactivating, Leads, Built, BuiltTo, Adopting
<1> QED
  BY <1>1, <1>2, <1>6, <1>7, <1>8, ServeStays

LEMMA DeactivateRowIntact ==
  ASSUME IntactInv, NEW a \in Actors, DeactivateRow(a)
  PROVE  IntactInv'
<1>1. /\ TypeInv /\ TypeInv' /\ task[a].pc = "inactive" /\ "inactive" \in AtZone
      /\ UNCHANGED <<pdns, mode, intact>> /\ Goto(a, Idle)
  BY DeactivateRowInv DEF IntactInv, DeactivateRow, At, AtZone
<1>2. PICK z \in Zones : task[a].z = z
  BY <1>1, Edits
<1>3. z \in intact => Here(task[a], z, db[z], pdns[z], z \in intact)
  BY <1>1, <1>2, HereHolds
<1>4. z \in intact => ~pdns[z].there
  BY <1>1, <1>3 DEF Here, Edited, Patching, Allowing, Signing, Unsigning, AddingKey,
     DeletingKey, Deactivating, Leads, Built, BuiltTo, Adopting, Edits6
<1>5. \A x \in Zones : Whole(pdns'[x])
  BY <1>1 DEF IntactInv
<1>6. db \in [Zones -> RowTypes] /\ db[z] \in RowTypes
  BY <1>1 DEF TypeInv, Tables
<1>7. db' = [db EXCEPT ![z] = [db[z] EXCEPT !.active = FALSE, !.ver = @ + 1]]
  BY <1>2, <1>6 DEF DeactivateRow, RowTypes
<1>8. ~db'[z].active /\ \A x \in Zones : x # z => db'[x] = db[x]
  BY <1>6, <1>7 DEF RowTypes
<1> QED
  BY <1>1, <1>2, <1>4, <1>5, <1>8, Ends DEF Mirror

LEMMA StampIntact ==
  ASSUME IntactInv, NEW a \in Actors, Stamp(a)
  PROVE  IntactInv'
<1>1. /\ TypeInv /\ TypeInv' /\ task[a].pc = "stamp" /\ "stamp" \in AtZone
      /\ UNCHANGED <<db, mode>> /\ Goto(a, Continue(task[a]))
  BY StampInv DEF IntactInv, Stamp, At, AtZone
<1>2. PICK z \in Zones : task[a].z = z
  BY <1>1, Edits
<1>3. task[a] \in TaskTypes /\ db[z] \in RowTypes /\ pdns[z] \in ZoneTypes
  BY <1>1, <1>2, Edits
<1>4. PICK s : s = WithStamp(pdns[z], task[a].ver)
  OBVIOUS
<1>5. /\ s.there = pdns[z].there /\ s.stamp = task[a].ver /\ s.rrs = pdns[z].rrs
      /\ s.keys = pdns[z].keys /\ s.nsec3 = pdns[z].nsec3 /\ s.allow = pdns[z].allow
      /\ s.names = pdns[z].names
  BY <1>3, <1>4, ServedParts
<1>6. pdns' = [pdns EXCEPT ![z] = s] /\ pdns[z].there
  BY <1>2, <1>4 DEF Stamp, There
<1>7. pdns'[z] = s /\ \A x \in Zones : x # z => pdns'[x] = pdns[x]
  BY <1>1, <1>6 DEF TypeInv, Tables
<1>8. Whole(s)
  BY <1>5, <1>6 DEF Whole, IntactInv
<1>9. ASSUME z \in intact'
      PROVE  Mirror(db[z], s)
  <2>1. z \in intact \/ (z \in task[a].alone /\ task[a].op \in {"activate", "sync"})
    BY <1>2, <1>9 DEF Stamp
  <2>2. Here(task[a], z, db[z], pdns[z], z \in intact)
    BY <1>1, <1>2, <2>1, HereHolds
  <2>3. Agree(db[z], pdns[z], {"stamp"}) /\ task[a].ver = db[z].ver
    BY <1>1, <2>1, <2>2 DEF Here, Edited, Patching, Allowing, Signing, Unsigning, AddingKey,
       DeletingKey, Deactivating, Leads, Built, BuiltTo, Based, Adopting, Edits6
  <2> QED
    BY <1>5, <2>3 DEF Agree, Mirror
<1>10. task[a].op = "sync" /\ z \in task[a].left /\ (z \in intact' \/ z \in task[a].alone) => FALSE
  <2>1. SUFFICES ASSUME task[a].op = "sync", z \in intact' \/ z \in task[a].alone
                 PROVE  z \notin task[a].left
    OBVIOUS
  <2>2. Here(task[a], z, db[z], pdns[z], z \in intact)
    BY <1>1, <1>2, <2>1, HereHolds DEF Stamp
  <2> QED
    BY <2>1, <2>2 DEF Here
<1>11. /\ intact' \subseteq intact \cup ({z} \cap task[a].alone)
       /\ \A x \in Zones : x # z => (x \in intact' <=> x \in intact)
  BY <1>2 DEF Stamp
<1> QED
  BY <1>1, <1>2, <1>7, <1>8, <1>9, <1>10, <1>11, Leaves

LEMMA EditStepIntact ==
  ASSUME IntactInv, NEW a \in Actors, EditStep(a)
  PROVE  IntactInv'
BY PatchServedIntact, ApplyRrsetsIntact, ServeAllowIntact, StoreAllowIntact, ListKeysIntact,
   AddKeyIntact, ServeNsec3Intact, FetchKeyIntact, StoreKeyIntact, CreateTsigIntact,
   NameTakenIntact, StoreTsigIntact, DeleteTsigRowIntact, ReadNamesIntact, ServeNamesIntact,
   ListTsigIntact, RemoveTsigIntact, ActivateRowIntact, ProbeIntact, UnserveIntact, DeactivateRowIntact,
   StampIntact DEF EditStep

-----------------------------------------------------------------------------
(* converge                                                                 *)

LEMMA AfterImportParts ==
  ASSUME NEW t \in TaskTypes, NEW u, u = AfterImport(t)
  PROVE  /\ u.pc = (IF t.nsec3 # t.had THEN "param" ELSE "missing")
         /\ u.pc = "param" => u.nsec3 = t.nsec3
         /\ u.z = t.z /\ u.op = t.op /\ u.left = t.left /\ u.alone = t.alone
         /\ u.rows = t.rows /\ u.ver = t.ver /\ u.allow = t.allow
<1>1. CASE t.nsec3 # t.had
  <2>1. u = [t EXCEPT !.pc = "param", !.key = 0]
    BY <1>1 DEF AfterImport
  <2> QED
    BY <1>1, <2>1 DEF TaskTypes
<1>2. CASE t.nsec3 = t.had
  <2>1. u = [t EXCEPT !.pc = "missing", !.key = 0, !.nsec3 = FALSE, !.had = FALSE]
    BY <1>2 DEF AfterImport
  <2> QED
    BY <1>2, <2>1 DEF TaskTypes
<1> QED
  BY <1>1, <1>2

LEMMA AfterDropParts ==
  ASSUME NEW t \in TaskTypes, NEW u, u = AfterDrop(t)
  PROVE  /\ u.pc = (IF t.op = "unsign" THEN "nsec3"
                    ELSE IF t.key # 0 THEN "import"
                    ELSE IF t.nsec3 # t.had THEN "param" ELSE "missing")
         /\ u.pc \in {"nsec3", "import"} => u.key = t.key /\ u.had = t.had
         /\ u.pc # "missing" => u.nsec3 = t.nsec3
         /\ u.z = t.z /\ u.op = t.op /\ u.left = t.left /\ u.alone = t.alone
         /\ u.rows = t.rows /\ u.ver = t.ver /\ u.allow = t.allow
<1>1. CASE t.op = "unsign"
  <2>1. u = [t EXCEPT !.pc = "nsec3"]
    BY <1>1 DEF AfterDrop
  <2> QED
    BY <1>1, <2>1 DEF TaskTypes
<1>2. CASE t.op # "unsign" /\ t.key # 0
  <2>1. u = [t EXCEPT !.pc = "import"]
    BY <1>2 DEF AfterDrop
  <2> QED
    BY <1>2, <2>1 DEF TaskTypes
<1>3. CASE t.op # "unsign" /\ t.key = 0
  <2>1. u = AfterImport(t)
    BY <1>3 DEF AfterDrop
  <2> QED
    BY <1>3, <2>1, AfterImportParts
<1> QED
  BY <1>1, <1>2, <1>3

\* The keys are as stored, or none is there and the stored one is to import: the rest
\* of converge goes on from there.
LEMMA KeysDone ==
  ASSUME NEW t \in TaskTypes, NEW u, u = AfterDrop(t), t.op # "unsign", NEW row, NEW s,
         Based(t, row), t.nsec3 = row.nsec3, t.had = s.nsec3,
         Agree(row, s, Records1),
         t.key # 0 => t.key = row.key /\ s.keys = {},
         t.key = 0 => s.keys = {row.key} \ {0}
  PROVE  Built(u, row, s)
<1>1. /\ u.pc = (IF t.key # 0 THEN "import"
                 ELSE IF t.nsec3 # t.had THEN "param" ELSE "missing")
      /\ u.pc = "import" => u.key = t.key /\ u.had = t.had
      /\ u.pc # "missing" => u.nsec3 = t.nsec3
      /\ u.ver = t.ver /\ u.allow = t.allow
  BY AfterDropParts
<1>2. Based(u, row)
  BY <1>1 DEF Based
<1>3. CASE u.pc = "import"
  BY <1>1, <1>2, <1>3 DEF Built, BuiltTo
<1>4. CASE u.pc = "param"
  BY <1>1, <1>2, <1>4 DEF Built, BuiltTo, Agree, Records1
<1>5. CASE u.pc = "missing"
  BY <1>1, <1>2, <1>5 DEF Built, BuiltTo, Agree, Records1
<1> QED
  BY <1>1, <1>3, <1>4, <1>5

LEMMA LookIntact ==
  ASSUME IntactInv, NEW a \in Actors, Look(a)
  PROVE  IntactInv'
<1>1. /\ TypeInv /\ TypeInv' /\ task[a].pc = "look"
      /\ {"look", "create_zone", "match", "converge"} \subseteq AtZone
      /\ UNCHANGED <<db, pdns, mode, intact>>
  BY LookInv DEF IntactInv, Look, At, AtZone
<1>2. PICK z \in Zones : task[a].z = z
  BY <1>1, Edits
<1>3. task[a] \in TaskTypes /\ db[z] \in RowTypes /\ pdns[z] \in ZoneTypes
  BY <1>1, <1>2, Edits
<1>4. PICK rrs : rrs = Desired(db[z].rrs)
  OBVIOUS
<1>5. PICK had : had = pdns[z].nsec3
  OBVIOUS
<1>6. PICK pc : pc = IF ~pdns[z].there THEN "create_zone"
                     ELSE IF pdns[z].rrs = rrs THEN "match" ELSE "converge"
  OBVIOUS
<1>7. PICK t : t = [task[a] EXCEPT !.rrs = rrs, !.had = had, !.pc = pc]
  OBVIOUS
<1>8. /\ t.pc = pc /\ t.rrs = rrs /\ t.had = had /\ t.z = z /\ t.op = task[a].op
      /\ t.left = task[a].left /\ t.alone = task[a].alone /\ t.rows = task[a].rows
      /\ t.ver = task[a].ver /\ t.allow = task[a].allow
  BY <1>2, <1>3, <1>7 DEF TaskTypes
<1>9. Goto(a, t)
  BY <1>2, <1>4, <1>5, <1>6, <1>7 DEF Look, There
<1>10. GoesOn(t, task[a])
  BY <1>1, <1>2, <1>6, <1>8 DEF GoesOn
<1>11. ~pdns[z].there => ~pdns[z].nsec3
  BY DEF IntactInv, Whole, NoServed
<1>12. Here(task[a], z, db[z], pdns[z], z \in intact) => Here(t, z, db[z], pdns[z], z \in intact)
  BY <1>1, <1>4, <1>5, <1>6, <1>8, <1>11 DEF Here, Edited, Patching, Allowing, Signing, Unsigning,
     AddingKey, DeletingKey, Deactivating, Leads, Built, BuiltTo, Based, Agree, Adopting, Records1
<1> QED
  BY <1>1, <1>2, <1>9, <1>10, <1>12, QuietStays

LEMMA CreateZoneIntact ==
  ASSUME IntactInv, NEW a \in Actors, CreateZone(a)
  PROVE  IntactInv'
<1>1. /\ TypeInv /\ TypeInv' /\ task[a].pc = "create_zone"
      /\ {"create_zone", "match"} \subseteq AtZone
      /\ UNCHANGED <<db, mode, intact>>
  BY CreateZoneInv DEF IntactInv, CreateZone, At, AtZone
<1>2. PICK z \in Zones : task[a].z = z
  BY <1>1, Edits
<1>3. task[a] \in TaskTypes
  BY <1>1, <1>2, Edits
<1>4. PICK t : t = [task[a] EXCEPT !.pc = "match"]
  OBVIOUS
<1>5. /\ t.pc = "match" /\ t.rrs = task[a].rrs /\ t.had = task[a].had /\ t.z = z
      /\ t.op = task[a].op /\ t.left = task[a].left /\ t.alone = task[a].alone
      /\ t.rows = task[a].rows /\ t.ver = task[a].ver /\ t.allow = task[a].allow
  BY <1>2, <1>3, <1>4 DEF TaskTypes
<1>6. PICK s : s = Created(task[a].rrs)
  OBVIOUS
<1>7. s.there = TRUE /\ s.rrs = task[a].rrs /\ s.nsec3 = FALSE /\ s.keys = {}
  BY <1>6 DEF Created, NoServed
<1>8. Goto(a, t) /\ pdns' = [pdns EXCEPT ![z] = s]
  BY <1>2, <1>4, <1>6 DEF CreateZone, To
<1>9. Whole(s) /\ GoesOn(t, task[a])
  BY <1>1, <1>2, <1>5, <1>7 DEF Whole, GoesOn
<1>10. task[a].had \in BOOLEAN
  BY <1>3 DEF TaskTypes
<1>11. Here(task[a], z, db[z], pdns[z], z \in intact) => Here(t, z, db[z], s, z \in intact)
  BY <1>1, <1>5, <1>7, <1>10 DEF Here, Edited, Patching, Allowing, Signing, Unsigning,
     AddingKey, DeletingKey, Deactivating, Leads, Built, BuiltTo, Based, Agree, Adopting, Records1
<1> QED
  BY <1>1, <1>2, <1>8, <1>9, <1>11, ServeStays

LEMMA ConvergeRrsetsIntact ==
  ASSUME IntactInv, NEW a \in Actors, ConvergeRrsets(a)
  PROVE  IntactInv'
<1>1. TypeInv /\ TypeInv' /\ task[a].pc = "converge" /\ {"converge", "match"} \subseteq AtZone
  BY ConvergeRrsetsInv DEF IntactInv, ConvergeRrsets, At, AtZone
<1>2. PICK z \in Zones : task[a].z = z
  BY <1>1, Edits
<1>3. task[a] \in TaskTypes /\ pdns[z] \in ZoneTypes
  BY <1>1, <1>2, Edits
<1>4. PICK t : t = [task[a] EXCEPT !.pc = "match"]
  OBVIOUS
<1>5. /\ t.pc = "match" /\ t.had = task[a].had /\ t.z = z /\ t.op = task[a].op
      /\ t.left = task[a].left /\ t.alone = task[a].alone
      /\ t.rows = task[a].rows /\ t.ver = task[a].ver /\ t.allow = task[a].allow
  BY <1>2, <1>3, <1>4 DEF TaskTypes
<1>6. PICK s : s = Patched(pdns[z], task[a].rrs)
  OBVIOUS
<1>7. s.there = pdns[z].there /\ s.rrs = task[a].rrs /\ s.nsec3 = pdns[z].nsec3
      /\ s.keys = pdns[z].keys
  BY <1>3, <1>6, ServedParts
<1>8. /\ Goto(a, t) /\ pdns' = [pdns EXCEPT ![z] = s] /\ pdns[z].there
      /\ UNCHANGED <<db, mode, intact>>
  BY <1>2, <1>4, <1>6 DEF ConvergeRrsets, Serve, Served, There
<1>9. Whole(s) /\ GoesOn(t, task[a])
  BY <1>1, <1>2, <1>5, <1>7, <1>8 DEF Whole, GoesOn, IntactInv
<1>10. Here(task[a], z, db[z], pdns[z], z \in intact) => Here(t, z, db[z], s, z \in intact)
  BY <1>1, <1>5, <1>7, <1>8 DEF Here, Edited, Patching, Allowing, Signing, Unsigning,
     AddingKey, DeletingKey, Deactivating, Leads, Built, BuiltTo, Based, Agree, Adopting, Records1
<1> QED
  BY <1>1, <1>2, <1>8, <1>9, <1>10, ServeStays

LEMMA MatchKeysIntact ==
  ASSUME IntactInv, NEW a \in Actors, MatchKeys(a)
  PROVE  IntactInv'
<1>1. /\ TypeInv /\ TypeInv' /\ task[a].pc = "match"
      /\ {"match", "drop", "nsec3", "import", "param", "missing"} \subseteq AtZone
      /\ UNCHANGED <<db, pdns, mode, intact>>
  BY MatchKeysInv DEF IntactInv, MatchKeys, At, AtZone
<1>2. PICK z \in Zones : task[a].z = z
  BY <1>1, Edits
<1>3. task[a] \in TaskTypes /\ db[z] \in RowTypes /\ pdns[z] \in ZoneTypes
  BY <1>1, <1>2, Edits
<1>4. PICK key : key = IF db[z].key \in pdns[z].keys THEN 0 ELSE db[z].key
  OBVIOUS
<1>5. PICK others : others = pdns[z].keys \ {db[z].key}
  OBVIOUS
<1>6. PICK t : t = [task[a] EXCEPT !.key = key, !.nsec3 = db[z].nsec3, !.keys = others,
                                   !.rrs = NoRrs]
  OBVIOUS
<1>7. /\ t.key = key /\ t.nsec3 = db[z].nsec3 /\ t.keys = others /\ t.had = task[a].had
      /\ t.z = z /\ t.op = task[a].op /\ t.left = task[a].left /\ t.alone = task[a].alone
      /\ t.rows = task[a].rows /\ t.ver = task[a].ver /\ t.allow = task[a].allow
  BY <1>2, <1>3, <1>6 DEF TaskTypes
<1>8. t \in TaskTypes
  <2>1. key \in Keys /\ others \in SUBSET Keys /\ NoRrs \in Records /\ db[z].nsec3 \in BOOLEAN
    BY <1>3, <1>4, <1>5, Constants DEF RowTypes, ZoneTypes
  <2> QED
    BY <1>3, <1>6, <2>1 DEF TaskTypes
<1>9. 0 \notin pdns[z].keys
  BY DEF IntactInv, Whole
<1>10. CASE others = {}
  <2>1. PICK u : u = AfterDrop(t)
    OBVIOUS
  <2>2. /\ u.pc = (IF t.op = "unsign" THEN "nsec3"
                   ELSE IF t.key # 0 THEN "import"
                   ELSE IF t.nsec3 # t.had THEN "param" ELSE "missing")
        /\ u.pc = "import" => u.key = t.key
        /\ u.z = t.z /\ u.op = t.op /\ u.left = t.left /\ u.alone = t.alone /\ u.rows = t.rows
    BY <1>8, <2>1, AfterDropParts
  <2>3. Goto(a, u)
    BY <1>2, <1>4, <1>5, <1>6, <1>10, <2>1 DEF MatchKeys, Row, Served, Others
  <2>4. GoesOn(u, task[a])
    BY <1>1, <1>2, <1>7, <2>2 DEF GoesOn
  <2>5. ASSUME Built(task[a], db[z], pdns[z]), t.op # "unsign"
        PROVE  Built(u, db[z], pdns[z])
    <3>1. task[a].had = pdns[z].nsec3 /\ Agree(db[z], pdns[z], Records1) /\ Based(t, db[z])
      BY <1>1, <1>7, <2>5 DEF Built, BuiltTo, Based
    <3>2. t.key # 0 => t.key = db[z].key /\ pdns[z].keys = {}
      BY <1>4, <1>5, <1>7, <1>10
    <3>3. t.key = 0 => pdns[z].keys = {db[z].key} \ {0}
      BY <1>4, <1>5, <1>7, <1>9, <1>10
    <3> QED
      BY <1>7, <1>8, <2>1, <2>5, <3>1, <3>2, <3>3, KeysDone
  <2>6. Here(task[a], z, db[z], pdns[z], z \in intact) => Here(u, z, db[z], pdns[z], z \in intact)
    BY <1>1, <1>7, <2>2, <2>5 DEF Here, Edited, Patching, Allowing, Signing, Unsigning,
       AddingKey, DeletingKey, Deactivating, Leads, Adopting
  <2> QED
    BY <1>1, <1>2, <2>3, <2>4, <2>6, QuietStays
<1>11. CASE others # {}
  <2>1. PICK u : u = [t EXCEPT !.pc = "drop"]
    OBVIOUS
  <2>2. /\ u.pc = "drop" /\ u.key = t.key /\ u.nsec3 = t.nsec3 /\ u.keys = t.keys
        /\ u.had = t.had /\ u.z = t.z /\ u.op = t.op /\ u.left = t.left /\ u.alone = t.alone
        /\ u.rows = t.rows /\ u.ver = t.ver /\ u.allow = t.allow
    BY <1>8, <2>1 DEF TaskTypes
  <2>3. Goto(a, u)
    BY <1>2, <1>4, <1>5, <1>6, <1>11, <2>1 DEF MatchKeys, Row, Served, Others
  <2>4. GoesOn(u, task[a])
    BY <1>1, <1>2, <1>7, <2>2 DEF GoesOn
  <2>5. Here(task[a], z, db[z], pdns[z], z \in intact) => Here(u, z, db[z], pdns[z], z \in intact)
    BY <1>1, <1>4, <1>5, <1>7, <2>2 DEF Here, Edited, Patching, Allowing, Signing, Unsigning,
       AddingKey, DeletingKey, Deactivating, Leads, Built, BuiltTo, Based, Adopting
  <2> QED
    BY <1>1, <1>2, <2>3, <2>4, <2>5, QuietStays
<1> QED
  BY <1>10, <1>11

LEMMA DropKeyIntact ==
  ASSUME IntactInv, NEW a \in Actors, NEW k \in task[a].keys, DropKey(a, k)
  PROVE  IntactInv'
<1>1. /\ TypeInv /\ TypeInv' /\ task[a].pc = "drop"
      /\ {"drop", "nsec3", "import", "param", "missing"} \subseteq AtZone
  BY DropKeyInv DEF IntactInv, DropKey, At, AtZone
<1>2. PICK z \in Zones : task[a].z = z
  BY <1>1, Edits
<1>3. task[a] \in TaskTypes /\ db[z] \in RowTypes /\ pdns[z] \in ZoneTypes
  BY <1>1, <1>2, Edits
<1>4. PICK t : t = [task[a] EXCEPT !.keys = @ \ {k}]
  OBVIOUS
<1>5. /\ t \in TaskTypes /\ t.pc = "drop" /\ t.keys = task[a].keys \ {k} /\ t.key = task[a].key
      /\ t.nsec3 = task[a].nsec3 /\ t.had = task[a].had
      /\ t.z = z /\ t.op = task[a].op /\ t.left = task[a].left /\ t.alone = task[a].alone
      /\ t.rows = task[a].rows /\ t.ver = task[a].ver /\ t.allow = task[a].allow
  <2>1. t \in TaskTypes
    BY <1>3, <1>4 DEF TaskTypes
  <2> QED
    BY <1>1, <1>2, <1>3, <1>4, <2>1 DEF TaskTypes
<1>6. PICK s : s = WithoutKey(pdns[z], k)
  OBVIOUS
<1>7. /\ s.there = pdns[z].there /\ s.stamp = pdns[z].stamp /\ s.rrs = pdns[z].rrs
      /\ s.keys = pdns[z].keys \ {k} /\ s.nsec3 = pdns[z].nsec3
      /\ s.allow = pdns[z].allow /\ s.names = pdns[z].names
  BY <1>3, <1>6, ServedParts
<1>8. PICK u : u = IF t.keys = {} THEN AfterDrop(t) ELSE t
  OBVIOUS
<1>9. /\ Goto(a, u) /\ pdns' = [pdns EXCEPT ![z] = s] /\ pdns[z].there
      /\ UNCHANGED <<db, mode, intact>> /\ k \in pdns[z].keys
  BY <1>2, <1>4, <1>6, <1>8 DEF DropKey, Serve, Served, There
<1>10. 0 \notin pdns[z].keys
  BY DEF IntactInv, Whole
<1>11. Whole(s)
  BY <1>7, <1>9, <1>10 DEF Whole
<1>12. CASE t.keys = {}
  <2>1. /\ u.pc = (IF t.op = "unsign" THEN "nsec3"
                   ELSE IF t.key # 0 THEN "import"
                   ELSE IF t.nsec3 # t.had THEN "param" ELSE "missing")
        /\ u.pc \in {"nsec3", "import"} => u.key = t.key
        /\ u.pc # "missing" => u.nsec3 = t.nsec3
        /\ u.z = t.z /\ u.op = t.op /\ u.left = t.left /\ u.alone = t.alone /\ u.rows = t.rows
        /\ u = AfterDrop(t)
    BY <1>5, <1>8, <1>12, AfterDropParts
  <2>2. GoesOn(u, task[a])
    BY <1>1, <1>2, <1>5, <2>1 DEF GoesOn
  <2>3. ASSUME Built(task[a], db[z], pdns[z]), t.op # "unsign"
        PROVE  Built(u, db[z], s)
    <3>1. /\ task[a].had = pdns[z].nsec3 /\ Agree(db[z], pdns[z], Records1) /\ Based(t, db[z])
          /\ task[a].keys = pdns[z].keys \ {db[z].key} /\ task[a].nsec3 = db[z].nsec3
          /\ task[a].key = IF db[z].key \in pdns[z].keys THEN 0 ELSE db[z].key
      BY <1>1, <1>5, <2>3 DEF Built, BuiltTo, Based
    <3>2. Agree(db[z], s, Records1)
      BY <1>7, <3>1 DEF Agree, Records1
    <3>3. t.key # 0 => t.key = db[z].key /\ s.keys = {}
      BY <1>5, <1>7, <1>12, <3>1
    <3>4. t.key = 0 => s.keys = {db[z].key} \ {0}
      BY <1>5, <1>7, <1>9, <1>10, <1>12, <3>1
    <3> QED
      BY <1>5, <1>7, <2>1, <2>3, <3>1, <3>2, <3>3, <3>4, KeysDone
  <2>4. ASSUME Unsigning(task[a], db[z], pdns[z]), t.op = "unsign"
        PROVE  Unsigning(u, db[z], s)
    BY <1>1, <1>5, <1>7, <1>12, <2>1, <2>4 DEF Unsigning, Agree
  <2>5. Here(task[a], z, db[z], pdns[z], z \in intact) => Here(u, z, db[z], s, z \in intact)
    BY <1>1, <1>5, <2>1, <2>3, <2>4 DEF Here, Edited, Patching, Allowing, Signing,
       AddingKey, DeletingKey, Deactivating, Leads, Adopting
  <2> QED
    BY <1>1, <1>2, <1>9, <1>11, <2>2, <2>5, ServeStays
<1>13. CASE t.keys # {}
  <2>1. u = t
    BY <1>8, <1>13
  <2>2. GoesOn(u, task[a])
    BY <1>1, <1>2, <1>5, <2>1 DEF GoesOn
  <2>3. Built(task[a], db[z], pdns[z]) => Built(u, db[z], s)
    BY <1>1, <1>5, <1>7, <2>1 DEF Built, BuiltTo, Based, Agree, Records1
  <2>4. Unsigning(task[a], db[z], pdns[z]) => Unsigning(u, db[z], s)
    BY <1>1, <1>5, <1>7, <2>1 DEF Unsigning, Agree
  <2>5. Here(task[a], z, db[z], pdns[z], z \in intact) => Here(u, z, db[z], s, z \in intact)
    BY <1>1, <1>5, <2>1, <2>3, <2>4 DEF Here, Edited, Patching, Allowing, Signing,
       AddingKey, DeletingKey, Deactivating, Leads, Adopting
  <2> QED
    BY <1>1, <1>2, <1>9, <1>11, <2>2, <2>5, ServeStays
<1> QED
  BY <1>12, <1>13

LEMMA ImportKeyIntact ==
  ASSUME IntactInv, NEW a \in Actors, ImportKey(a)
  PROVE  IntactInv'
<1>1. /\ TypeInv /\ TypeInv' /\ task[a].pc = "import"
      /\ {"import", "param", "missing"} \subseteq AtZone
      /\ task[a].key # 0
  BY ImportKeyInv DEF IntactInv, ImportKey, At, AtZone, Walks
<1>2. PICK z \in Zones : task[a].z = z
  BY <1>1, Edits
<1>3. task[a] \in TaskTypes /\ db[z] \in RowTypes /\ pdns[z] \in ZoneTypes
  BY <1>1, <1>2, Edits
<1>4. PICK s : s = WithKey(pdns[z], task[a].key)
  OBVIOUS
<1>5. /\ s.there = pdns[z].there /\ s.stamp = pdns[z].stamp /\ s.rrs = pdns[z].rrs
      /\ s.keys = pdns[z].keys \cup {task[a].key} /\ s.nsec3 = pdns[z].nsec3
      /\ s.allow = pdns[z].allow /\ s.names = pdns[z].names
  BY <1>3, <1>4, ServedParts
<1>6. PICK u : u = AfterImport(task[a])
  OBVIOUS
<1>7. /\ u.pc = (IF task[a].nsec3 # task[a].had THEN "param" ELSE "missing")
      /\ u.pc = "param" => u.nsec3 = task[a].nsec3
      /\ u.z = z /\ u.op = task[a].op /\ u.left = task[a].left /\ u.alone = task[a].alone
      /\ u.rows = task[a].rows /\ u.ver = task[a].ver /\ u.allow = task[a].allow
  BY <1>2, <1>3, <1>6, AfterImportParts
<1>8. /\ Goto(a, u) /\ pdns' = [pdns EXCEPT ![z] = s] /\ pdns[z].there
      /\ UNCHANGED <<db, mode, intact>>
  BY <1>2, <1>4, <1>6 DEF ImportKey, Serve, Served, There
<1>9. Whole(s) /\ GoesOn(u, task[a])
  BY <1>1, <1>2, <1>5, <1>7, <1>8 DEF Whole, GoesOn, IntactInv
<1>10. Here(task[a], z, db[z], pdns[z], z \in intact) => Here(u, z, db[z], s, z \in intact)
  <2>1. ~Edited(task[a], db[z], pdns[z])
    BY <1>1 DEF Edited, Patching, Allowing, Signing, Unsigning, AddingKey, DeletingKey,
       Deactivating
  <2>2. ~Leads(task[a], z, db[z], pdns[z], z \in intact)
    BY <1>1 DEF Leads, Adopting
  <2>3. ASSUME Built(task[a], db[z], pdns[z])
        PROVE  Built(u, db[z], s)
    <3>1. /\ Agree(db[z], pdns[z], Records1) /\ pdns[z].keys = {} /\ task[a].key = db[z].key
          /\ task[a].nsec3 = db[z].nsec3 /\ task[a].had = pdns[z].nsec3
          /\ Based(task[a], db[z])
      BY <1>1, <2>3 DEF Built, BuiltTo
    <3>2. Based(u, db[z])
      BY <1>7, <3>1 DEF Based
    <3>3. /\ Agree(db[z], s, {"stamp", "mode", "allow", "names"})
          /\ u.pc # "param" => s.nsec3 = db[z].nsec3
      BY <1>1, <1>5, <1>7, <3>1 DEF Agree, Records1
    <3>4. BuiltTo(u, db[z], s)
      BY <1>7, <3>1, <3>3 DEF BuiltTo, Agree
    <3> QED
      BY <3>2, <3>4 DEF Built
  <2> QED
    BY <1>7, <2>1, <2>2, <2>3 DEF Here
<1> QED
  BY <1>1, <1>2, <1>8, <1>9, <1>10, ServeStays

LEMMA ServeModeIntact ==
  ASSUME IntactInv, NEW a \in Actors, ServeMode(a)
  PROVE  IntactInv'
<1>1. TypeInv /\ TypeInv' /\ task[a].pc = "param" /\ {"param", "missing"} \subseteq AtZone
  BY ServeModeInv DEF IntactInv, ServeMode, At, AtZone
<1>2. PICK z \in Zones : task[a].z = z
  BY <1>1, Edits
<1>3. task[a] \in TaskTypes /\ db[z] \in RowTypes /\ pdns[z] \in ZoneTypes
  BY <1>1, <1>2, Edits
<1>4. PICK s : s = WithMode(pdns[z], task[a].nsec3)
  OBVIOUS
<1>5. /\ s.there = pdns[z].there /\ s.stamp = pdns[z].stamp /\ s.rrs = pdns[z].rrs
      /\ s.keys = pdns[z].keys /\ s.nsec3 = task[a].nsec3
      /\ s.allow = pdns[z].allow /\ s.names = pdns[z].names
  BY <1>3, <1>4, ServedParts
<1>6. PICK u : u = [task[a] EXCEPT !.pc = "missing", !.nsec3 = FALSE, !.had = FALSE]
  OBVIOUS
<1>7. /\ u.pc = "missing"
      /\ u.z = z /\ u.op = task[a].op /\ u.left = task[a].left /\ u.alone = task[a].alone
      /\ u.rows = task[a].rows /\ u.ver = task[a].ver /\ u.allow = task[a].allow
  BY <1>2, <1>3, <1>6 DEF TaskTypes
<1>8. /\ Goto(a, u) /\ pdns' = [pdns EXCEPT ![z] = s] /\ pdns[z].there
      /\ UNCHANGED <<db, mode, intact>>
  BY <1>2, <1>4, <1>6 DEF ServeMode, Serve, Served, There
<1>9. Whole(s) /\ GoesOn(u, task[a])
  BY <1>1, <1>2, <1>5, <1>7, <1>8 DEF Whole, GoesOn, IntactInv
<1>10. Here(task[a], z, db[z], pdns[z], z \in intact) => Here(u, z, db[z], s, z \in intact)
  BY <1>1, <1>5, <1>7 DEF Here, Edited, Patching, Allowing, Signing, Unsigning,
     AddingKey, DeletingKey, Deactivating, Leads, Built, BuiltTo, Based, Agree, Adopting
<1> QED
  BY <1>1, <1>2, <1>8, <1>9, <1>10, ServeStays

LEMMA MissingTsigIntact ==
  ASSUME IntactInv, NEW a \in Actors, MissingTsig(a)
  PROVE  IntactInv'
<1>1. /\ TypeInv /\ TypeInv' /\ task[a].pc = "missing"
      /\ {"missing", "names", "recreate"} \subseteq AtZone /\ UNCHANGED <<db, pdns, mode, intact>>
  BY MissingTsigInv DEF IntactInv, MissingTsig, At, AtZone
<1>2. PICK z \in Zones : task[a].z = z
  BY <1>1, Edits
<1>3. task[a] \in TaskTypes
  BY <1>1, <1>2, Edits
<1>4. PICK make : make = Missing(db[z])
  OBVIOUS
<1>5. PICK t : t = [task[a] EXCEPT !.names = Stored(db[z]), !.make = make,
                      !.pc = IF make = NoTsig THEN "names" ELSE "recreate"]
  OBVIOUS
<1>6. /\ t.pc = (IF make = NoTsig THEN "names" ELSE "recreate") /\ t.names = Stored(db[z])
      /\ t.z = z /\ t.op = task[a].op /\ t.left = task[a].left /\ t.alone = task[a].alone
      /\ t.rows = task[a].rows /\ t.ver = task[a].ver /\ t.allow = task[a].allow
  BY <1>2, <1>3, <1>5 DEF TaskTypes
<1>7. Goto(a, t) /\ GoesOn(t, task[a])
  BY <1>1, <1>2, <1>4, <1>5, <1>6 DEF MissingTsig, Row, GoesOn
<1>8. Here(task[a], z, db[z], pdns[z], z \in intact) => Here(t, z, db[z], pdns[z], z \in intact)
  BY <1>1, <1>6 DEF Here, Edited, Patching, Allowing, Signing, Unsigning,
     AddingKey, DeletingKey, Deactivating, Leads, Built, BuiltTo, Based, Adopting
<1> QED
  BY <1>1, <1>2, <1>7, <1>8, QuietStays

LEMMA RecreateTsigIntact ==
  ASSUME IntactInv, NEW a \in Actors, NEW n \in KeyNames, RecreateTsig(a, n)
  PROVE  IntactInv'
<1>1. /\ TypeInv /\ TypeInv' /\ task[a].pc = "recreate"
      /\ {"names", "recreate"} \subseteq AtZone /\ UNCHANGED <<db, pdns, mode, intact>>
  BY RecreateTsigInv DEF IntactInv, RecreateTsig, At, AtZone
<1>2. PICK z \in Zones : task[a].z = z
  BY <1>1, Edits
<1>3. task[a] \in TaskTypes
  BY <1>1, <1>2, Edits
<1>4. PICK make : make = [task[a].make EXCEPT ![n] = 0]
  OBVIOUS
<1>5. PICK t : t = [task[a] EXCEPT !.make = make,
                      !.pc = IF make = NoTsig THEN "names" ELSE "recreate"]
  OBVIOUS
<1>6. /\ t.pc = (IF make = NoTsig THEN "names" ELSE "recreate") /\ t.names = task[a].names
      /\ t.z = z /\ t.op = task[a].op /\ t.left = task[a].left /\ t.alone = task[a].alone
      /\ t.rows = task[a].rows /\ t.ver = task[a].ver /\ t.allow = task[a].allow
  BY <1>2, <1>3, <1>5 DEF TaskTypes
<1>7. Goto(a, t) /\ GoesOn(t, task[a])
  BY <1>1, <1>2, <1>4, <1>5, <1>6 DEF RecreateTsig, GoesOn
<1>8. Here(task[a], z, db[z], pdns[z], z \in intact) => Here(t, z, db[z], pdns[z], z \in intact)
  BY <1>1, <1>6 DEF Here, Edited, Patching, Allowing, Signing, Unsigning,
     AddingKey, DeletingKey, Deactivating, Leads, Built, BuiltTo, Based, Adopting
<1> QED
  BY <1>1, <1>2, <1>7, <1>8, QuietStays

LEMMA ConvergeStepIntact ==
  ASSUME IntactInv, NEW a \in Actors, ConvergeStep(a)
  PROVE  IntactInv'
BY LookIntact, CreateZoneIntact, ConvergeRrsetsIntact, MatchKeysIntact, DropKeyIntact,
   ImportKeyIntact, ServeModeIntact, MissingTsigIntact, RecreateTsigIntact DEF ConvergeStep

-----------------------------------------------------------------------------
(* sync                                                                     *)

Walking == {"served", "prune", "pick", "strays"}

\* A step of a sync that is at no zone, to another such place
LEMMA WalksOn ==
  ASSUME IntactInv, TypeInv', NEW a \in Actors, task[a].pc \in Walking,
         NEW t, Goto(a, t), t.pc \in Walking, t.op = "sync", t.z = NoZone,
         t.alone = task[a].alone, UNCHANGED <<db, mode, intact>>,
         \A x \in Zones : Whole(pdns'[x]),
         \A x \in Zones : Away(task[a], x, db[x], pdns[x], x \in intact)
                            => Away(t, x, db[x], pdns'[x], x \in intact)
  PROVE  IntactInv'
<1>1. task[a].op = "sync" /\ task[a].z = NoZone /\ task[a].pc # "idle" /\ t.pc # "idle"
  BY DEF Walking, IntactInv, Walks
<1>2. \A x : Reaches(task[a], x) /\ Reaches(t, x)
  BY <1>1 DEF Reaches
<1>3. Walks(t)
  BY DEF Walks, Walking
<1>4. ASSUME NEW x \in Zones
      PROVE  Staged(t, x, db'[x], pdns'[x], x \in intact')
  <2>1. SUFFICES ASSUME x \in intact \/ x \in task[a].alone
                 PROVE  Away(t, x, db[x], pdns'[x], x \in intact)
    BY ZonesAssumption DEF Staged
  <2>2. Away(task[a], x, db[x], pdns[x], x \in intact)
    BY <1>1, <1>2, <2>1, AwayHolds, ZonesAssumption
  <2> QED
    BY <2>2
<1> QED
  BY <1>1, <1>2, <1>3, <1>4, Frame

LEMMA PrunedParts ==
  ASSUME NEW t \in TaskTypes, NEW u, u = Pruned(t)
  PROVE  /\ u.pc = (IF t.left = {} THEN "pick" ELSE "prune")
         /\ u.left = (IF t.left = {} THEN ActiveRows(t) ELSE t.left)
         /\ u.z = t.z /\ u.op = t.op /\ u.alone = t.alone /\ u.rows = t.rows
<1>1. CASE t.left = {}
  <2>1. u = [t EXCEPT !.pc = "pick", !.left = ActiveRows(t)]
    BY <1>1 DEF Pruned
  <2> QED
    BY <1>1, <2>1 DEF TaskTypes
<1>2. CASE t.left # {}
  <2>1. u = [t EXCEPT !.pc = "prune"]
    BY <1>2 DEF Pruned
  <2> QED
    BY <1>2, <2>1 DEF TaskTypes
<1> QED
  BY <1>1, <1>2

LEMMA ListServedIntact ==
  ASSUME IntactInv, NEW a \in Actors, ListServed(a)
  PROVE  IntactInv'
<1>1. /\ TypeInv /\ TypeInv' /\ task[a].pc = "served" /\ task[a].pc \in Walking
      /\ UNCHANGED <<db, pdns, mode, intact>> /\ task[a] \in TaskTypes
      /\ task[a].op = "sync" /\ task[a].z = NoZone
  BY ListServedInv, AtZoneTypes DEF IntactInv, ListServed, At, Walking, Walks
<1>2. PICK left : left = Listing \ ActiveRows(task[a])
  OBVIOUS
<1>3. PICK t : t = [task[a] EXCEPT !.served = Listing, !.left = left]
  OBVIOUS
<1>4. /\ t \in TaskTypes /\ t.left = left /\ t.z = task[a].z /\ t.op = task[a].op
      /\ t.alone = task[a].alone /\ t.rows = task[a].rows
  <2>1. Listing \in SUBSET Zones /\ left \in SUBSET Zones
    BY <1>2 DEF Listing
  <2> QED
    BY <1>1, <1>3, <2>1 DEF TaskTypes
<1>5. PICK u : u = Pruned(t)
  OBVIOUS
<1>6. /\ u.pc = (IF t.left = {} THEN "pick" ELSE "prune")
      /\ u.left = (IF t.left = {} THEN ActiveRows(t) ELSE t.left)
      /\ u.z = t.z /\ u.op = t.op /\ u.alone = t.alone /\ u.rows = t.rows
  BY <1>4, <1>5, PrunedParts
<1>7. Goto(a, u) /\ u.pc \in Walking
  BY <1>2, <1>3, <1>5, <1>6 DEF ListServed, Walking
<1>8. ASSUME NEW x \in Zones, Away(task[a], x, db[x], pdns[x], x \in intact)
      PROVE  Away(u, x, db[x], pdns[x], x \in intact)
  <2>1. /\ task[a].rows[x] = Listed(db[x]) /\ task[a].rows[x].active = db[x].active
        /\ x \in intact => Mirror(db[x], pdns[x])
    BY <1>1, <1>8 DEF Away, Listed
  <2>2. CASE t.left = {}
    <3>1. x \in u.left => db[x].active
      BY <1>4, <1>6, <2>1, <2>2 DEF ActiveRows
    <3> QED
      BY <1>4, <1>6, <2>1, <2>2, <3>1 DEF Away
  <2>3. CASE t.left # {}
    <3>1. x \in u.left => pdns[x].there /\ ~db[x].active
      BY <1>2, <1>4, <1>6, <2>1, <2>3 DEF ActiveRows, Listing, There
    <3> QED
      BY <1>4, <1>6, <2>1, <2>3, <3>1 DEF Away, Mirror
  <2> QED
    BY <2>2, <2>3
<1>9. \A x \in Zones : Whole(pdns'[x])
  BY <1>1 DEF IntactInv
<1> QED
  BY <1>1, <1>4, <1>6, <1>7, <1>8, <1>9, WalksOn

LEMMA PruneIntact ==
  ASSUME IntactInv, NEW a \in Actors, NEW z \in Zones, Prune(a, z)
  PROVE  IntactInv'
<1>1. /\ TypeInv /\ TypeInv' /\ task[a].pc = "prune" /\ task[a].pc \in Walking
      /\ UNCHANGED <<db, mode, intact>> /\ task[a] \in TaskTypes
      /\ task[a].op = "sync" /\ task[a].z = NoZone /\ z \in task[a].left
  BY PruneInv, AtZoneTypes DEF IntactInv, Prune, At, Walking, Walks
<1>2. PICK t : t = [task[a] EXCEPT !.left = @ \ {z}]
  OBVIOUS
<1>3. /\ t \in TaskTypes /\ t.left = task[a].left \ {z} /\ t.z = task[a].z /\ t.op = task[a].op
      /\ t.alone = task[a].alone /\ t.rows = task[a].rows
  BY <1>1, <1>2 DEF TaskTypes
<1>4. PICK u : u = Pruned(t)
  OBVIOUS
<1>5. /\ u.pc = (IF t.left = {} THEN "pick" ELSE "prune")
      /\ u.left = (IF t.left = {} THEN ActiveRows(t) ELSE t.left)
      /\ u.z = t.z /\ u.op = t.op /\ u.alone = t.alone /\ u.rows = t.rows
  BY <1>3, <1>4, PrunedParts
<1>6. Goto(a, u) /\ u.pc \in Walking /\ pdns' = [pdns EXCEPT ![z] = NoServed]
  BY <1>2, <1>4, <1>5 DEF Prune, Walking
<1>7. pdns'[z] = NoServed /\ \A x \in Zones : x # z => pdns'[x] = pdns[x]
  BY <1>1, <1>6 DEF TypeInv, Tables
<1>8. ASSUME NEW x \in Zones, Away(task[a], x, db[x], pdns[x], x \in intact)
      PROVE  Away(u, x, db[x], pdns'[x], x \in intact)
  <2>1. /\ task[a].rows[x] = Listed(db[x]) /\ task[a].rows[x].active = db[x].active
        /\ x \in intact => Mirror(db[x], pdns[x])
        /\ x \in task[a].left => x \notin intact
    BY <1>1, <1>8 DEF Away, Listed
  <2>2. x \in intact => Mirror(db[x], pdns'[x])
    BY <1>1, <1>7, <2>1
  <2>3. CASE t.left = {}
    <3>1. x \in u.left => db[x].active
      BY <1>3, <1>5, <2>1, <2>3 DEF ActiveRows
    <3> QED
      BY <1>3, <1>5, <2>1, <2>2, <2>3, <3>1 DEF Away
  <2>4. CASE t.left # {}
    BY <1>3, <1>5, <2>1, <2>2, <2>4 DEF Away
  <2> QED
    BY <2>3, <2>4
<1>9. \A x \in Zones : Whole(pdns'[x])
  <2>1. Whole(NoServed)
    BY DEF Whole, NoServed
  <2> QED
    BY <1>7, <2>1 DEF IntactInv
<1> QED
  BY <1>1, <1>3, <1>5, <1>6, <1>8, <1>9, WalksOn

\* A sync goes from none to a zone.
LEMMA Arrives ==
  ASSUME IntactInv, TypeInv', NEW a \in Actors, task[a].pc = "pick", NEW z \in Zones,
         NEW t, Goto(a, t), t.pc \in {"look", "replace"}, t.op = "sync", t.z = z,
         t.alone = task[a].alone, t.left = task[a].left \ {z},
         \A x \in Zones : x # z => t.rows[x] = task[a].rows[x],
         UNCHANGED <<db, pdns, mode, intact>>,
         Away(task[a], z, db[z], pdns[z], z \in intact)
            => Here(t, z, db[z], pdns[z], z \in intact)
  PROVE  IntactInv'
<1>1. task[a].op = "sync" /\ task[a].z = NoZone
  BY DEF IntactInv, Walks
<1>2. \A x : Reaches(task[a], x) /\ Reaches(t, x)
  BY <1>1 DEF Reaches
<1>3. Walks(t)
  BY DEF Walks
<1>4. ASSUME NEW x \in Zones
      PROVE  Staged(t, x, db'[x], pdns'[x], x \in intact')
  <2>1. SUFFICES ASSUME x \in intact \/ x \in task[a].alone
                 PROVE  IF t.z = x THEN Here(t, x, db[x], pdns[x], x \in intact)
                                   ELSE Away(t, x, db[x], pdns[x], x \in intact)
    BY DEF Staged
  <2>2. Away(task[a], x, db[x], pdns[x], x \in intact)
    BY <1>1, <1>2, <2>1, AwayHolds, ZonesAssumption
  <2>3. CASE x = z
    BY <2>2, <2>3
  <2>4. CASE x # z
    BY <2>2, <2>4 DEF Away
  <2> QED
    BY <2>3, <2>4
<1>5. \A x \in Zones : Whole(pdns'[x])
  BY DEF IntactInv
<1> QED
  BY <1>1, <1>2, <1>3, <1>4, <1>5, Frame

LEMMA PickZoneIntact ==
  ASSUME IntactInv, NEW a \in Actors, NEW z \in Zones, PickZone(a, z)
  PROVE  IntactInv'
<1>1. /\ TypeInv /\ TypeInv' /\ task[a].pc = "pick" /\ task[a].pc \in Walking
      /\ UNCHANGED <<db, pdns, mode, intact>> /\ task[a] \in TaskTypes
      /\ task[a].op = "sync" /\ task[a].z = NoZone /\ z \in task[a].left
  BY PickZoneInv, AtZoneTypes DEF IntactInv, PickZone, At, Walking, Walks
<1>2. PICK row : row = task[a].rows[z]
  OBVIOUS
<1>3. PICK adopts \in BOOLEAN : adopts <=> (z \in task[a].served /\ pdns[z].stamp = 0)
  OBVIOUS
<1>4. PICK rows : rows = [task[a].rows EXCEPT ![z] = IF z \in task[a].served /\ pdns[z].stamp = 0
                                                       THEN @ ELSE NoRow]
  OBVIOUS
<1>5. \A x \in Zones : x # z => rows[x] = task[a].rows[x]
  BY <1>1, <1>4 DEF TaskTypes
<1>6. PICK t : t = [task[a] EXCEPT !.left = @ \ {z}, !.want = @ \cup Stored(db[z]),
                                   !.rows = rows]
  OBVIOUS
<1>7. /\ t.left = task[a].left \ {z} /\ t.rows = rows /\ t.z = NoZone /\ t.op = "sync"
      /\ t.alone = task[a].alone /\ t.pc = "pick"
  BY <1>1, <1>6 DEF TaskTypes
<1>8. PICK u : u = [t EXCEPT !.pc = "replace", !.z = z, !.rrs = pdns[z].rrs,
                             !.had = pdns[z].nsec3]
  OBVIOUS
<1>9. PICK w : w = [t EXCEPT !.pc = "look", !.z = z, !.ver = row.ver, !.allow = row.allow]
  OBVIOUS
<1>10. /\ u.pc = "replace" /\ u.z = z /\ u.left = t.left /\ u.rows = rows /\ u.op = "sync"
       /\ u.alone = t.alone
  BY <1>1, <1>6, <1>7, <1>8 DEF TaskTypes
<1>11. /\ w.pc = "look" /\ w.z = z /\ w.left = t.left /\ w.rows = rows /\ w.op = "sync"
       /\ w.alone = t.alone /\ w.ver = row.ver /\ w.allow = row.allow
  BY <1>1, <1>6, <1>7, <1>9 DEF TaskTypes
<1>12. \/ z \in task[a].served /\ pdns[z].stamp = 0 /\ There(z) /\ Goto(a, u)
       \/ Goto(a, t)
       \/ Goto(a, w)
  BY <1>2, <1>4, <1>6, <1>8, <1>9 DEF PickZone
<1>13. db[z] \in RowTypes /\ \A x \in Zones : Whole(pdns'[x])
  BY <1>1 DEF TypeInv, Tables, IntactInv
<1>14. CASE z \in task[a].served /\ pdns[z].stamp = 0 /\ There(z) /\ Goto(a, u)
  <2>1. ASSUME Away(task[a], z, db[z], pdns[z], z \in intact)
        PROVE  Here(u, z, db[z], pdns[z], z \in intact)
    <3>1. db[z].active /\ (z \in intact => Mirror(db[z], pdns[z]))
      BY <1>1, <2>1 DEF Away
    <3>2. z \notin intact
      BY <1>13, <1>14, <3>1 DEF Mirror, Agree, RowTypes
    <3> QED
      BY <1>7, <1>10, <3>1, <3>2 DEF Here, Leads, Adopting
  <2> QED
    BY <1>1, <1>5, <1>7, <1>10, <1>14, <2>1, Arrives
<1>15. CASE Goto(a, t)
  <2>1. ASSUME NEW x \in Zones, Away(task[a], x, db[x], pdns[x], x \in intact)
        PROVE  Away(t, x, db[x], pdns'[x], x \in intact)
    BY <1>1, <1>5, <1>7, <2>1 DEF Away
  <2> QED
    BY <1>1, <1>7, <1>13, <1>15, <2>1, WalksOn
<1>16. CASE Goto(a, w)
  <2>1. ASSUME Away(task[a], z, db[z], pdns[z], z \in intact)
        PROVE  Here(w, z, db[z], pdns[z], z \in intact)
    <3>1. db[z].active /\ row = Listed(db[z])
      BY <1>1, <1>2, <2>1 DEF Away
    <3>2. row.ver = db[z].ver /\ row.allow = db[z].allow
      BY <3>1 DEF Listed
    <3> QED
      BY <1>7, <1>11, <3>1, <3>2 DEF Here, Built, Based, BuiltTo
  <2> QED
    BY <1>1, <1>5, <1>7, <1>11, <1>16, <2>1, Arrives
<1> QED
  BY <1>12, <1>14, <1>15, <1>16

\* Places of an adoption, where the zone is not intact
LEMMA AdoptsOn ==
  ASSUME NEW t, NEW u, NEW z, NEW row, NEW r, NEW s, t.pc \in Adopting,
         u.pc \in Adopting, u.op = t.op, u.left = t.left,
         row.active => r.active,
         Here(t, z, row, s, z \in intact)
  PROVE  Here(u, z, r, s, z \in intact)
<1>1. t.op \notin {"activate", "sync"} => z \notin intact
  BY DEF Here, Edited, Patching, Allowing, Signing, Unsigning, AddingKey, DeletingKey,
     Deactivating, Adopting
<1>2. t.op # "activate"
  BY DEF Here, Leads, Built, BuiltTo, Adopting
<1>3. t.op = "sync" => z \notin intact /\ row.active
  BY DEF Here, Leads, Built, BuiltTo, Adopting
<1> QED
  BY <1>1, <1>2, <1>3 DEF Here, Leads

LEMMA AdoptStores ==
  ASSUME IntactInv, TypeInv', NEW a \in Actors, NEW z \in Zones, task[a].z = z,
         task[a].pc \in Adopting, NEW r \in RowTypes, r.active = db[z].active,
         NEW pc \in Adopting, Store(a, r, pc)
  PROVE  IntactInv'
<1>1. task[a].pc \in AtZone /\ pc \in AtZone \ {"import", "active"}
  BY DEF Adopting, AtZone
<1>2. ASSUME NEW t \in TaskTypes, NEW row \in RowTypes,
             t.pc = pc, t.op = task[a].op, t.left = task[a].left, row.active = r.active,
             Here(task[a], z, db[z], pdns[z], z \in intact)
      PROVE  Here(t, z, row, pdns[z], z \in intact)
  BY <1>2, AdoptsOn
<1> QED
  BY <1>1, <1>2, StoreStays

LEMMA AdoptIntact ==
  ASSUME IntactInv, NEW a \in Actors,
         \/ ReplaceRrsets(a) \/ AdoptKey(a) \/ StoreAdoptedKey(a)
         \/ AdoptAllow(a) \/ StoreAdoptedAllow(a)
  PROVE  IntactInv'
<1>1. /\ TypeInv /\ TypeInv' /\ task[a].pc \in Adopting /\ task[a].pc \in AtZone
      /\ Adopting \subseteq AtZone \ {"import", "active"}
  BY ReplaceRrsetsInv, AdoptKeyInv, StoreAdoptedInv, AdoptAllowInv
     DEF IntactInv, ReplaceRrsets, AdoptKey, StoreAdoptedKey, AdoptAllow, StoreAdoptedAllow, At,
     AtZone, Adopting
<1>2. PICK z \in Zones : task[a].z = z
  BY <1>1, Edits
<1>3. /\ task[a] \in TaskTypes /\ db[z] \in RowTypes /\ pdns[z] \in ZoneTypes
      /\ Row(a) = db[z] /\ Served(a) = pdns[z]
  BY <1>1, <1>2, Edits
<1>4. AdoptList(task[a]) \in Adopting /\ {"adoptkey", "adoptedkey", "adoptedallow", "reread"} \subseteq Adopting
  BY DEF AdoptList, Adopting
<1>5. CASE ReplaceRrsets(a)
  <2>1. PICK r : r = [db[z] EXCEPT !.rrs = task[a].rrs]
    OBVIOUS
  <2>2. r \in RowTypes /\ r.active = db[z].active
    BY <1>3, <2>1 DEF RowTypes, TaskTypes
  <2>3. PICK pc : pc = IF db[z].key = 0 THEN "adoptkey" ELSE AdoptList(task[a])
    OBVIOUS
  <2>4. pc \in Adopting /\ Store(a, r, pc)
    BY <1>3, <1>4, <1>5, <2>1, <2>3 DEF ReplaceRrsets
  <2> QED
    BY <1>1, <1>2, <2>2, <2>4, AdoptStores
<1>6. CASE StoreAdoptedKey(a)
  <2>1. PICK r : r = [db[z] EXCEPT !.key = task[a].key, !.nsec3 = task[a].had]
    OBVIOUS
  <2>2. r \in RowTypes /\ r.active = db[z].active
    BY <1>3, <2>1 DEF RowTypes, TaskTypes
  <2>3. Store(a, r, AdoptList(task[a]))
    BY <1>3, <1>6, <2>1 DEF StoreAdoptedKey
  <2> QED
    BY <1>1, <1>2, <1>4, <2>2, <2>3, AdoptStores
<1>7. CASE StoreAdoptedAllow(a)
  <2>1. PICK r : r = [db[z] EXCEPT !.allow = TRUE]
    OBVIOUS
  <2>2. r \in RowTypes /\ r.active = db[z].active
    BY <1>3, <2>1 DEF RowTypes
  <2>3. Store(a, r, "reread")
    BY <1>3, <1>7, <2>1 DEF StoreAdoptedAllow
  <2> QED
    BY <1>1, <1>2, <1>4, <2>2, <2>3, AdoptStores
<1>8. ASSUME NEW t, Goto(a, t), t.pc \in Adopting, t.z = z, t.op = task[a].op,
             t.left = task[a].left, t.alone = task[a].alone, t.rows = task[a].rows,
             UNCHANGED <<db, pdns, mode, intact>>
      PROVE  IntactInv'
  <2>1. GoesOn(t, task[a])
    BY <1>1, <1>2, <1>8 DEF GoesOn
  <2>2. Here(task[a], z, db[z], pdns[z], z \in intact) => Here(t, z, db[z], pdns[z], z \in intact)
    BY <1>1, <1>8, AdoptsOn
  <2> QED
    BY <1>1, <1>2, <1>8, <2>1, <2>2, QuietStays
<1>9. ASSUME NEW pc \in Adopting, To(a, pc), UNCHANGED <<db, pdns, mode, intact>>
      PROVE  IntactInv'
  <2>1. PICK t : t = [task[a] EXCEPT !.pc = pc]
    OBVIOUS
  <2>2. /\ t.pc = pc /\ t.z = z /\ t.op = task[a].op /\ t.left = task[a].left
        /\ t.alone = task[a].alone /\ t.rows = task[a].rows
    BY <1>2, <1>3, <2>1 DEF TaskTypes
  <2>3. Goto(a, t)
    BY <1>9, <2>1 DEF To
  <2> QED
    BY <1>8, <1>9, <2>2, <2>3
<1>10. CASE AdoptKey(a)
  <2>1. ASSUME NEW k \in pdns[z].keys, Goto(a, [task[a] EXCEPT !.pc = "adoptedkey", !.key = k])
        PROVE  IntactInv'
    <3>1. PICK t : t = [task[a] EXCEPT !.pc = "adoptedkey", !.key = k]
      OBVIOUS
    <3>2. /\ t.pc = "adoptedkey" /\ t.z = z /\ t.op = task[a].op /\ t.left = task[a].left
          /\ t.alone = task[a].alone /\ t.rows = task[a].rows
      BY <1>2, <1>3, <3>1 DEF TaskTypes
    <3> QED
      BY <1>4, <1>8, <1>10, <2>1, <3>1, <3>2 DEF AdoptKey
  <2> QED
    BY <1>3, <1>4, <1>9, <1>10, <2>1 DEF AdoptKey
<1>11. CASE AdoptAllow(a)
  <2>1. PICK pc : pc = IF Served(a).allow THEN "adoptedallow" ELSE "reread"
    OBVIOUS
  <2>2. pc \in Adopting /\ To(a, pc) /\ UNCHANGED <<db, pdns, mode, intact>>
    BY <1>4, <1>11, <2>1 DEF AdoptAllow
  <2> QED
    BY <1>9, <2>2
<1> QED
  BY <1>5, <1>6, <1>7, <1>10, <1>11

LEMMA RereadIntact ==
  ASSUME IntactInv, NEW a \in Actors, Reread(a)
  PROVE  IntactInv'
<1>1. /\ TypeInv /\ TypeInv' /\ task[a].pc = "reread" /\ {"reread", "look"} \subseteq AtZone
      /\ UNCHANGED <<db, pdns, mode, intact>>
  BY RereadInv DEF IntactInv, Reread, At, AtZone
<1>2. PICK z \in Zones : task[a].z = z
  BY <1>1, Edits
<1>3. task[a] \in TaskTypes /\ Row(a) = db[z]
  BY <1>1, <1>2, Edits
<1>4. PICK rows : rows = [task[a].rows EXCEPT ![z] = NoRow]
  OBVIOUS
<1>5. \A x \in Zones : x # z => rows[x] = task[a].rows[x]
  BY <1>3, <1>4 DEF TaskTypes
<1>6. PICK t : t = [task[a] EXCEPT !.pc = "look", !.ver = db[z].ver, !.allow = db[z].allow,
                                   !.key = 0, !.had = FALSE, !.rows = rows]
  OBVIOUS
<1>7. /\ t.pc = "look" /\ t.ver = db[z].ver /\ t.allow = db[z].allow /\ t.z = z
      /\ t.op = task[a].op /\ t.left = task[a].left /\ t.alone = task[a].alone /\ t.rows = rows
  BY <1>2, <1>3, <1>6 DEF TaskTypes
<1>8. Goto(a, t) /\ GoesOn(t, task[a])
  BY <1>1, <1>2, <1>3, <1>4, <1>5, <1>6, <1>7 DEF Reread, GoesOn
<1>9. Here(task[a], z, db[z], pdns[z], z \in intact) => Here(t, z, db[z], pdns[z], z \in intact)
  BY <1>1, <1>7 DEF Here, Edited, Patching, Allowing, Signing, Unsigning, AddingKey,
     DeletingKey, Deactivating, Leads, Built, BuiltTo, Based, Adopting
<1> QED
  BY <1>1, <1>2, <1>8, <1>9, QuietStays

LEMMA StraysIntact ==
  ASSUME IntactInv, NEW a \in Actors, ListStrays(a) \/ \E n \in KeyNames : RemoveStray(a, n)
  PROVE  IntactInv'
<1>1. /\ TypeInv /\ TypeInv' /\ task[a].pc \in {"pick", "strays"} /\ task[a].pc \in Walking
      /\ UNCHANGED <<db, pdns, mode, intact>> /\ task[a] \in TaskTypes
      /\ task[a].op = "sync" /\ task[a].z = NoZone
  BY ListStraysInv, RemoveStrayInv, AtZoneTypes
     DEF IntactInv, ListStrays, RemoveStray, At, Walking, Walks
<1>2. PICK t : Goto(a, t) /\ t.pc = "strays" /\ t.z = NoZone /\ t.op = "sync"
               /\ t.alone = task[a].alone /\ t.left = task[a].left /\ t.rows = task[a].rows
  <2>1. CASE ListStrays(a)
    <3>1. PICK t : t = [task[a] EXCEPT !.pc = "strays", !.served = {}, !.want = {},
                                       !.names = Strays(task[a])]
      OBVIOUS
    <3>2. Goto(a, t)
      BY <2>1, <3>1 DEF ListStrays
    <3>3. /\ t.pc = "strays" /\ t.z = NoZone /\ t.op = "sync"
          /\ t.alone = task[a].alone /\ t.left = task[a].left /\ t.rows = task[a].rows
      BY <1>1, <3>1 DEF TaskTypes
    <3> QED
      BY <3>2, <3>3
  <2>2. ASSUME NEW n \in KeyNames, RemoveStray(a, n)
        PROVE  \E t : Goto(a, t) /\ t.pc = "strays" /\ t.z = NoZone /\ t.op = "sync"
               /\ t.alone = task[a].alone /\ t.left = task[a].left /\ t.rows = task[a].rows
    <3>1. PICK t : t = [task[a] EXCEPT !.names = @ \ {n}]
      OBVIOUS
    <3>2. Goto(a, t) /\ task[a].pc = "strays"
      BY <2>2, <3>1 DEF RemoveStray, At
    <3>3. /\ t.pc = "strays" /\ t.z = NoZone /\ t.op = "sync"
          /\ t.alone = task[a].alone /\ t.left = task[a].left /\ t.rows = task[a].rows
      BY <1>1, <3>1, <3>2 DEF TaskTypes
    <3> QED
      BY <3>2, <3>3
  <2> QED
    BY <2>1, <2>2
<1>3. ASSUME NEW x \in Zones, Away(task[a], x, db[x], pdns[x], x \in intact)
      PROVE  Away(t, x, db[x], pdns'[x], x \in intact)
  BY <1>1, <1>2, <1>3 DEF Away
<1>4. \A x \in Zones : Whole(pdns'[x])
  BY <1>1 DEF IntactInv
<1>5. t.pc \in Walking
  BY <1>2 DEF Walking
<1> QED
  BY <1>1, <1>2, <1>3, <1>4, <1>5, WalksOn

LEMMA EndSyncIntact ==
  ASSUME IntactInv, NEW a \in Actors, EndSync(a)
  PROVE  IntactInv'
<1>1. /\ TypeInv' /\ task[a].pc = "strays" /\ UNCHANGED <<db, pdns, intact>> /\ mode' = "up"
      /\ Goto(a, Idle) /\ task[a].z = NoZone /\ intact \subseteq Zones
  BY EndSyncInv DEF IntactInv, EndSync, At, Walks, TypeInv, Tables
<1>2. \A x \in Zones : Whole(pdns'[x])
  BY <1>1 DEF IntactInv
<1> QED
  BY <1>1, <1>2, ZonesAssumption, Ends

LEMMA SyncStepIntact ==
  ASSUME IntactInv, NEW a \in Actors, SyncStep(a)
  PROVE  IntactInv'
BY ListServedIntact, PruneIntact, PickZoneIntact, AdoptIntact, RereadIntact, StraysIntact,
   EndSyncIntact DEF SyncStep

-----------------------------------------------------------------------------
(* Errors, and the starts of tasks                                          *)

LEMMA RefusalIntact ==
  ASSUME IntactInv, NEW a \in Actors, Refusal(a) \/ Cut(a)
  PROVE  IntactInv'
<1>1. Fails(a) /\ UNCHANGED <<db, pdns, tsig>> /\ task[a].pc # "idle"
  BY DEF Refusal, ZoneGone, KeyGone, RowRace, BuildRefused, RecreateRefused, TsigGone, Cut,
     At, Busy
<1>2. TypeInv'
  BY RefusalInv DEF IntactInv
<1>3. \A x \in Zones : Whole(pdns'[x])
  BY <1>1 DEF IntactInv
<1>4. /\ Goto(a, Idle) /\ intact' = intact \ {task[a].z}
      /\ mode' = mode \/ (mode' = "down" /\ mode = "starting")
  BY <1>1 DEF Fails
<1> QED
  BY <1>1, <1>2, <1>3, <1>4, Ends

\* What a task is at does not depend on which zones it has to itself.
LEMMA SameFields ==
  ASSUME NEW t \in TaskTypes, NEW u \in TaskTypes, NEW S, u = [t EXCEPT !.alone = S]
  PROVE  /\ u.pc = t.pc /\ u.op = t.op /\ u.z = t.z /\ u.rr = t.rr /\ u.val = t.val
         /\ u.nsec3 = t.nsec3 /\ u.had = t.had /\ u.key = t.key /\ u.keys = t.keys
         /\ u.name = t.name /\ u.names = t.names /\ u.allow = t.allow /\ u.rrs = t.rrs
         /\ u.ver = t.ver /\ u.rows = t.rows /\ u.left = t.left /\ u.alone = S
BY DEF TaskTypes

LEMMA SameStage ==
  ASSUME NEW t \in TaskTypes, NEW u \in TaskTypes, NEW S, u = [t EXCEPT !.alone = S],
         NEW x, NEW row, NEW s, NEW in
  PROVE  /\ Here(t, x, row, s, in) => Here(u, x, row, s, in)
         /\ Away(t, x, row, s, in) => Away(u, x, row, s, in)
<1>1. /\ u.pc = t.pc /\ u.op = t.op /\ u.z = t.z /\ u.rr = t.rr /\ u.val = t.val
      /\ u.nsec3 = t.nsec3 /\ u.had = t.had /\ u.key = t.key /\ u.keys = t.keys
      /\ u.name = t.name /\ u.names = t.names /\ u.allow = t.allow /\ u.rrs = t.rrs
      /\ u.ver = t.ver /\ u.rows = t.rows /\ u.left = t.left
  BY SameFields
<1>2. Edited(t, row, s) => Edited(u, row, s)
  BY <1>1 DEF Edited, Patching, Allowing, Signing, Unsigning, AddingKey, DeletingKey,
     Deactivating
<1>3. Built(t, row, s) => Built(u, row, s)
  BY <1>1 DEF Built, BuiltTo, Based
<1>4. Leads(t, x, row, s, in) => Leads(u, x, row, s, in)
  BY <1>1 DEF Leads, Based
<1>5. Here(t, x, row, s, in) => Here(u, x, row, s, in)
  BY <1>1, <1>2, <1>3, <1>4 DEF Here
<1>6. Away(t, x, row, s, in) => Away(u, x, row, s, in)
  BY <1>1 DEF Away
<1> QED
  BY <1>5, <1>6

\* A task starts: it has those zones of S to itself that no other task is at, the
\* others are intact no longer.
LEMMA Starts ==
  ASSUME IntactInv, TypeInv', NEW a \in Actors, task[a].pc = "idle",
         NEW t \in TaskTypes, NEW S \in SUBSET Zones,
         task' = [b \in Actors |-> IF b = a THEN t
                                   ELSE [task[b] EXCEPT !.alone = @ \ S]],
         UNCHANGED <<db, pdns>>, t.pc # "idle", Walks(t),
         \A x \in Zones : Reaches(t, x) <=> x \in S,
         \A x \in Zones : x \in t.alone <=> x \in S /\ ~AtWork(x),
         \A x \in Zones : x \in intact' <=> x \in intact /\ ~(x \in S /\ AtWork(x)),
         \/ mode = "up" /\ mode' = "up"
         \/ mode = "down" /\ mode' = "starting",
         \A x \in S : ~AtWork(x) =>
            IF t.z = x THEN Here(t, x, db[x], pdns[x], x \in intact)
                       ELSE Away(t, x, db[x], pdns[x], x \in intact)
  PROVE  IntactInv'
<1>1. /\ TypeInv /\ Apart /\ Starting /\ Rest /\ task'[a] = t
      /\ intact \subseteq Zones /\ intact' \subseteq Zones
  BY DEF IntactInv, TypeInv, Tables
<1>2. \A x : AtWork(x) <=> \E b \in Actors : Reaches(task[b], x)
  BY ReachesTouches DEF AtWork
<1>3. ASSUME NEW b \in Actors, b # a
      PROVE  /\ task'[b] = [task[b] EXCEPT !.alone = @ \ S]
             /\ task[b] \in TaskTypes /\ task'[b] \in TaskTypes
             /\ task[b].alone \subseteq Zones
  BY <1>3 DEF TypeInv, IntactInv, TaskTypes
<1>4. ASSUME NEW b \in Actors, b # a, NEW x
      PROVE  /\ Reaches(task'[b], x) <=> Reaches(task[b], x)
             /\ task'[b].z = task[b].z /\ task'[b].pc = task[b].pc
             /\ task'[b].alone = task[b].alone \ S
             /\ Walks(task'[b])
  <2>1. PICK T : T = task[b].alone \ S
    OBVIOUS
  <2>2. task'[b] = [task[b] EXCEPT !.alone = T]
    BY <1>3, <1>4, <2>1
  <2>3. Walks(task[b])
    BY DEF IntactInv
  <2>4. /\ task'[b].pc = task[b].pc /\ task'[b].op = task[b].op
        /\ task'[b].z = task[b].z /\ task'[b].key = task[b].key /\ task'[b].alone = T
    <3>1. PICK v \in TaskTypes : v = task[b]
      BY <1>3, <1>4
    <3>2. PICK u \in TaskTypes : u = task'[b]
      BY <1>3, <1>4
    <3>3. u = [v EXCEPT !.alone = T]
      BY <2>2, <3>1, <3>2
    <3>4. u.pc = v.pc /\ u.op = v.op /\ u.z = v.z /\ u.key = v.key /\ u.alone = T
      BY <3>3, SameFields
    <3> QED
      BY <3>1, <3>2, <3>4
  <2> QED
    BY <2>1, <2>3, <2>4 DEF Reaches, Walks
<1>5. Apart'
  <2>1. ASSUME NEW x \in intact', NEW b \in Actors, NEW c \in Actors,
               Reaches(task'[b], x), Reaches(task'[c], x)
        PROVE  b = c
    <3>1. x \in Zones /\ x \in intact /\ (x \in S => ~AtWork(x))
      BY <1>1
    <3>2. CASE x \in S
      <4>1. \A d \in Actors : ~Reaches(task[d], x)
        BY <1>2, <3>1, <3>2
      <4> QED
        BY <1>4, <2>1, <4>1
    <3>3. CASE x \notin S
      <4>1. b # a /\ c # a
        BY <1>1, <2>1, <3>1, <3>3
      <4>2. Reaches(task[b], x) /\ Reaches(task[c], x)
        BY <1>4, <2>1, <4>1
      <4> QED
        BY <1>1, <3>1, <4>2 DEF Apart
    <3> QED
      BY <3>2, <3>3
  <2>2. ASSUME NEW b \in Actors, NEW c \in Actors, NEW x \in task'[b].alone
        PROVE  Reaches(task'[b], x) /\ (Reaches(task'[c], x) => c = b)
    <3>1. CASE b = a
      <4>1. x \in Zones /\ x \in S /\ \A d \in Actors : ~Reaches(task[d], x)
        BY <1>1, <1>2, <2>2, <3>1 DEF TaskTypes
      <4> QED
        BY <1>1, <1>4, <3>1, <4>1
    <3>2. CASE b # a
      <4>1. x \in task[b].alone /\ x \notin S /\ x \in Zones
        BY <1>3, <1>4, <2>2, <3>2
      <4>2. Reaches(task[b], x) /\ (Reaches(task[c], x) => c = b)
        BY <1>1, <4>1 DEF Apart
      <4>3. ~Reaches(t, x)
        BY <4>1
      <4> QED
        BY <1>1, <1>4, <3>2, <4>2, <4>3
    <3> QED
      BY <3>1, <3>2
  <2> QED
    BY <2>1, <2>2 DEF Apart
<1>6. Starting'
  BY <1>1, <1>4 DEF Starting
<1>7. Rest'
  <2>1. ASSUME NEW x \in intact', \A b \in Actors : ~Reaches(task'[b], x)
        PROVE  Mirror(db'[x], pdns'[x])
    <3>1. x \in intact /\ \A b \in Actors : ~Reaches(task[b], x)
      <4>1. ~Reaches(task[a], x)
        BY DEF Reaches
      <4> QED
        BY <1>1, <1>4, <2>1, <4>1
    <3> QED
      BY <1>1, <3>1 DEF Rest
  <2> QED
    BY <2>1 DEF Rest
<1>8. ASSUME NEW b \in Actors
      PROVE  Walks(task'[b])
  BY <1>1, <1>4
<1>9. ASSUME NEW b \in Actors, NEW x \in Zones
      PROVE  Staged(task'[b], x, db'[x], pdns'[x], x \in intact')
  <2>1. CASE b = a
    <3>1. SUFFICES ASSUME Reaches(t, x), x \in intact' \/ x \in t.alone
                   PROVE  IF t.z = x THEN Here(t, x, db[x], pdns[x], x \in intact')
                                     ELSE Away(t, x, db[x], pdns[x], x \in intact')
      BY <1>1, <2>1 DEF Staged
    <3>2. x \in S /\ ~AtWork(x) /\ (x \in intact') = (x \in intact)
      BY <3>1
    <3> QED
      BY <3>2
  <2>2. CASE b # a
    <3>1. SUFFICES ASSUME Reaches(task'[b], x), x \in intact' \/ x \in task'[b].alone
                   PROVE  IF task'[b].z = x
                          THEN Here(task'[b], x, db[x], pdns[x], x \in intact')
                          ELSE Away(task'[b], x, db[x], pdns[x], x \in intact')
      BY DEF Staged
    <3>2. /\ Reaches(task[b], x) /\ x \notin S /\ (x \in intact \/ x \in task[b].alone)
          /\ (x \in intact') = (x \in intact)
      BY <1>2, <1>4, <2>2, <3>1
    <3>3. Staged(task[b], x, db[x], pdns[x], x \in intact)
      BY DEF IntactInv
    <3>4. IF task[b].z = x THEN Here(task[b], x, db[x], pdns[x], x \in intact)
                           ELSE Away(task[b], x, db[x], pdns[x], x \in intact)
      BY <3>2, <3>3 DEF Staged
    <3>5. PICK T : T = task[b].alone \ S
      OBVIOUS
    <3>6. task'[b] = [task[b] EXCEPT !.alone = T]
      BY <1>3, <2>2, <3>5
    <3>7. PICK i : i = (x \in intact)
      OBVIOUS
    <3>8. /\ Here(task[b], x, db[x], pdns[x], i) => Here(task'[b], x, db[x], pdns[x], i)
          /\ Away(task[b], x, db[x], pdns[x], i) => Away(task'[b], x, db[x], pdns[x], i)
      BY <1>3, <2>2, <3>6, SameStage
    <3> QED
      BY <1>4, <2>2, <3>2, <3>4, <3>7, <3>8
  <2> QED
    BY <2>1, <2>2
<1>10. \A x \in Zones : Whole(pdns'[x])
  BY DEF IntactInv
<1> QED
  BY <1>5, <1>6, <1>7, <1>8, <1>9, <1>10 DEF IntactInv

LEMMA SyncStartIntact ==
  ASSUME IntactInv, NEW a \in Actors, AdminSync(a) \/ Start(a)
  PROVE  IntactInv'
<1>1. /\ TypeInv /\ TypeInv' /\ Apart /\ Starting /\ Rest
  BY SyncStartInv DEF IntactInv
<1>2. PICK force : BeginSync(a, force)
  BY DEF AdminSync, Start
<1>3. /\ task[a].pc = "idle"
      /\ \/ mode = "up" /\ mode' = "up"
         \/ mode = "down" /\ mode' = "starting"
  BY <1>1 DEF AdminSync, Start, Busy, Starting
<1>4. PICK rows : rows = [z \in Zones |-> Listed(db[z])]
  OBVIOUS
<1>5. PICK alone : alone = {z \in Zones : ~AtWork(z)}
  OBVIOUS
<1>6. PICK t : t = [Idle EXCEPT !.pc = "served", !.op = "sync", !.force = force,
                                !.rows = rows, !.alone = alone]
  OBVIOUS
<1>7. /\ t.pc = "served" /\ t.op = "sync" /\ t.z = NoZone /\ t.rows = rows
      /\ t.alone = alone /\ t.left = {}
  BY <1>6 DEF Idle
<1>8. /\ \A b \in Actors : b # a => [task[b] EXCEPT !.alone = {}]
                                     = [task[b] EXCEPT !.alone = @ \ Zones]
  BY <1>1 DEF TypeInv, TaskTypes
<1>9. /\ task' = [b \in Actors |-> IF b = a THEN t
                                   ELSE [task[b] EXCEPT !.alone = @ \ Zones]]
      /\ UNCHANGED <<db, pdns>> /\ intact' = {z \in intact : ~AtWork(z)}
  BY <1>2, <1>4, <1>5, <1>6, <1>8 DEF BeginSync
<1>10. t \in TaskTypes /\ intact \subseteq Zones
  BY <1>1, <1>9 DEF TypeInv, Tables
<1>11. \A x : Reaches(t, x)
  BY <1>7 DEF Reaches
<1>12. ASSUME NEW x \in Zones, ~AtWork(x)
       PROVE  IF t.z = x THEN Here(t, x, db[x], pdns[x], x \in intact)
                         ELSE Away(t, x, db[x], pdns[x], x \in intact)
  <2>1. \A b \in Actors : ~Reaches(task[b], x)
    BY <1>12, ReachesTouches DEF AtWork
  <2>2. x \in intact => Mirror(db[x], pdns[x])
    BY <1>1, <2>1 DEF Rest
  <2>3. t.z # x /\ t.rows[x] = Listed(db[x])
    BY <1>4, <1>7, ZonesAssumption
  <2> QED
    BY <1>7, <2>2, <2>3 DEF Away
<1>13. Walks(t)
  BY <1>7 DEF Walks
<1>14. Zones \in SUBSET Zones /\ t.pc # "idle"
  BY <1>7
<1>15. \A x \in Zones : x \in t.alone <=> x \in Zones /\ ~AtWork(x)
  BY <1>5, <1>7
<1>16. \A x \in Zones : x \in intact' <=> x \in intact /\ ~(x \in Zones /\ AtWork(x))
  BY <1>9
<1> QED
  BY <1>1, <1>3, <1>9, <1>10, <1>11, <1>12, <1>13, <1>14, <1>15, <1>16, Starts

\* A request starts at a zone: there is something to show of it only if no other
\* task is at the zone.
LEMMA BeginIntact ==
  ASSUME IntactInv, TypeInv', NEW a \in Actors, NEW o \in AllOps \ {"sync", "start", "cut"},
         NEW z \in Zones, NEW t \in TaskTypes, Begin(a, o, z, t),
         t.pc \in AtZone \ {"import"},
         \A u : (/\ u.pc = t.pc /\ u.op = o /\ u.z = z /\ u.key = t.key /\ u.nsec3 = t.nsec3
                 /\ u.name = t.name /\ u.names = t.names /\ u.rows = t.rows
                 /\ z \in intact => Mirror(db[z], pdns[z]))
             => Here(u, z, db[z], pdns[z], z \in intact)
  PROVE  IntactInv'
<1>1. /\ TypeInv /\ Rest /\ intact \subseteq Zones /\ mode = "up" /\ mode' = "up"
      /\ task[a].pc = "idle"
  BY DEF IntactInv, TypeInv, Tables, Begin, Busy
<1>2. PICK S : S = IF AtWork(z) THEN {} ELSE {z}
  OBVIOUS
<1>3. PICK u : u = [t EXCEPT !.op = o, !.z = z, !.alone = S]
  OBVIOUS
<1>4. /\ u.pc = t.pc /\ u.op = o /\ u.z = z /\ u.alone = S /\ u.key = t.key
      /\ u.nsec3 = t.nsec3 /\ u.name = t.name /\ u.names = t.names /\ u.rows = t.rows
  BY <1>3 DEF TaskTypes
<1>5. /\ task' = [b \in Actors |-> IF b = a THEN u
                                   ELSE [task[b] EXCEPT !.alone = @ \ {z}]]
      /\ UNCHANGED <<db, pdns>> /\ intact' = IF AtWork(z) THEN intact \ {z} ELSE intact
  BY <1>2, <1>3 DEF Begin
<1>6. u \in TaskTypes
  BY <1>5 DEF TypeInv
<1>7. u.pc \notin {"idle", "served", "prune", "pick", "strays", "import"}
  BY <1>4 DEF AtZone
<1>8. \A x \in Zones : Reaches(u, x) <=> x \in {z}
  BY <1>4, <1>7 DEF Reaches
<1>9. Walks(u)
  BY <1>4, <1>7 DEF Walks
<1>10. \A x \in Zones : x \in u.alone <=> x \in {z} /\ ~AtWork(x)
  BY <1>2, <1>4
<1>11. \A x \in Zones : x \in intact' <=> x \in intact /\ ~(x \in {z} /\ AtWork(x))
  BY <1>5
<1>12. ASSUME ~AtWork(z)
       PROVE  Here(u, z, db[z], pdns[z], z \in intact)
  <2>1. \A b \in Actors : ~Reaches(task[b], z)
    BY <1>12, ReachesTouches DEF AtWork
  <2>2. z \in intact => Mirror(db[z], pdns[z])
    BY <1>1, <2>1 DEF Rest
  <2> QED
    BY <1>4, <2>2
<1>13. \A x \in {z} : ~AtWork(x) =>
          IF u.z = x THEN Here(u, x, db[x], pdns[x], x \in intact)
                     ELSE Away(u, x, db[x], pdns[x], x \in intact)
  BY <1>4, <1>12
<1>14. {z} \in SUBSET Zones /\ u.pc # "idle"
  BY <1>7
<1> QED
  BY <1>1, <1>5, <1>6, <1>8, <1>9, <1>10, <1>11, <1>13, <1>14, Starts

LEMMA RequestIntact ==
  ASSUME IntactInv, NEW a \in Actors, NEW z \in Zones, Request(a, z)
  PROVE  IntactInv'
<1>1. /\ TypeInv /\ TypeInv' /\ Idle \in TaskTypes /\ db[z] \in RowTypes
  BY RequestInv, IdleFits DEF IntactInv, TypeInv, Tables
<1>2. /\ Idle.key = 0 /\ Idle.nsec3 = FALSE
  BY DEF Idle
<1>3. ASSUME NEW r \in RRs, NEW v \in Data \cup {NoData}, Patch(a, z, r, v)
      PROVE  IntactInv'
  <2>1. PICK t : t = [Idle EXCEPT !.pc = "patch", !.rr = r, !.val = v]
    OBVIOUS
  <2>2. t \in TaskTypes /\ t.pc = "patch"
    BY <1>1, <1>3, <2>1 DEF TaskTypes, Pcs, AtZone
  <2>3. db[z].active /\ Begin(a, "patch", z, t)
    BY <1>3, <2>1 DEF Patch
  <2>4. ASSUME NEW u, u.pc = t.pc, u.op = "patch", z \in intact => Mirror(db[z], pdns[z])
        PROVE  Here(u, z, db[z], pdns[z], z \in intact)
    BY <2>2, <2>3, <2>4 DEF Here, Mirror, Edited, Patching
  <2> QED
    BY <1>1, <2>2, <2>3, <2>4, BeginIntact DEF AllOps, AtZone
<1>4. ASSUME NEW n3 \in BOOLEAN, Sign(a, z, n3)
      PROVE  IntactInv'
  <2>1. PICK t : t = [Idle EXCEPT !.pc = "keys", !.nsec3 = n3]
    OBVIOUS
  <2>2. t \in TaskTypes /\ t.pc = "keys"
    BY <1>1, <1>4, <2>1 DEF TaskTypes, Pcs, AtZone
  <2>3. db[z].active /\ Begin(a, "sign", z, t)
    BY <1>4, <2>1 DEF Sign
  <2>4. ASSUME NEW u, u.pc = t.pc, u.op = "sign", z \in intact => Mirror(db[z], pdns[z])
        PROVE  Here(u, z, db[z], pdns[z], z \in intact)
    BY <2>2, <2>3, <2>4 DEF Here, Mirror, Edited, Signing
  <2> QED
    BY <1>1, <2>2, <2>3, <2>4, BeginIntact DEF AllOps, AtZone
<1>5. CASE Unsign(a, z)
  <2>1. PICK t : t = [Idle EXCEPT !.pc = "keys"]
    OBVIOUS
  <2>2. t \in TaskTypes /\ t.pc = "keys" /\ t.key = 0 /\ t.nsec3 = FALSE
    BY <1>1, <1>2, <2>1 DEF TaskTypes, Pcs, AtZone
  <2>3. db[z].active /\ Begin(a, "unsign", z, t)
    BY <1>5, <2>1 DEF Unsign
  <2>4. ASSUME NEW u, u.pc = t.pc, u.op = "unsign", u.key = t.key, u.nsec3 = t.nsec3,
               z \in intact => Mirror(db[z], pdns[z])
        PROVE  Here(u, z, db[z], pdns[z], z \in intact)
    BY <2>2, <2>3, <2>4 DEF Here, Mirror, Edited, Unsigning
  <2> QED
    BY <1>1, <2>2, <2>3, <2>4, BeginIntact DEF AllOps, AtZone
<1>6. ASSUME NEW allow \in BOOLEAN, SetAllowFrom(a, z, allow)
      PROVE  IntactInv'
  <2>1. PICK t : t = [Idle EXCEPT !.pc = "allow", !.allow = allow]
    OBVIOUS
  <2>2. t \in TaskTypes /\ t.pc = "allow"
    BY <1>1, <1>6, <2>1 DEF TaskTypes, Pcs, AtZone
  <2>3. db[z].active /\ Begin(a, "allow", z, t)
    BY <1>6, <2>1 DEF SetAllowFrom
  <2>4. ASSUME NEW u, u.pc = t.pc, u.op = "allow", z \in intact => Mirror(db[z], pdns[z])
        PROVE  Here(u, z, db[z], pdns[z], z \in intact)
    BY <2>2, <2>3, <2>4 DEF Here, Mirror, Edited, Allowing
  <2> QED
    BY <1>1, <2>2, <2>3, <2>4, BeginIntact DEF AllOps, AtZone
<1>7. ASSUME NEW n \in KeyNames, AddTsigKey(a, z, n)
      PROVE  IntactInv'
  <2>1. PICK t : t = [Idle EXCEPT !.pc = "create", !.name = n,
                                  !.names = Stored(db[z]) \cup {n}]
    OBVIOUS
  <2>2. Stored(db[z]) \cup {n} \subseteq KeyNames
    BY DEF Stored
  <2>3. t \in TaskTypes /\ t.pc = "create" /\ t.name = n /\ t.names = Stored(db[z]) \cup {n}
    BY <1>1, <1>7, <2>1, <2>2 DEF TaskTypes, Pcs, AtZone
  <2>4. db[z].active /\ Begin(a, "addkey", z, t)
    BY <1>7, <2>1 DEF AddTsigKey
  <2>5. ASSUME NEW u, u.pc = t.pc, u.op = "addkey", u.name = t.name, u.names = t.names,
               z \in intact => Mirror(db[z], pdns[z])
        PROVE  Here(u, z, db[z], pdns[z], z \in intact)
    BY <2>3, <2>4, <2>5 DEF Here, Mirror, Edited, AddingKey
  <2> QED
    BY <1>1, <2>3, <2>4, <2>5, BeginIntact DEF AllOps, AtZone
<1>8. ASSUME NEW n \in KeyNames, DeleteTsigKey(a, z, n)
      PROVE  IntactInv'
  <2>1. PICK t : t = [Idle EXCEPT !.pc = "store", !.name = n]
    OBVIOUS
  <2>2. t \in TaskTypes /\ t.pc = "store"
    BY <1>1, <1>8, <2>1 DEF TaskTypes, Pcs, AtZone
  <2>3. db[z].active /\ Begin(a, "delkey", z, t)
    BY <1>8, <2>1 DEF DeleteTsigKey
  <2>4. ASSUME NEW u, u.pc = t.pc, u.op = "delkey", z \in intact => Mirror(db[z], pdns[z])
        PROVE  Here(u, z, db[z], pdns[z], z \in intact)
    BY <2>2, <2>3, <2>4 DEF Here, Mirror, Edited, DeletingKey
  <2> QED
    BY <1>1, <2>2, <2>3, <2>4, BeginIntact DEF AllOps, AtZone
<1>9. CASE Activate(a, z)
  <2>1. PICK rows : rows = [NoRows EXCEPT ![z] = Listed(db[z])]
    OBVIOUS
  <2>2. PICK t : t = [Idle EXCEPT !.pc = "active", !.rows = rows]
    OBVIOUS
  <2>3. Listed(db[z]) \in ListedTypes
    BY <1>1 DEF RowTypes, Listed, ListedTypes
  <2>4. rows \in [Zones -> ListedTypes] /\ rows[z] = Listed(db[z])
    BY <2>1, <2>3, Constants
  <2>5. t \in TaskTypes /\ t.rows = rows /\ t.pc = "active"
    BY <1>1, <2>2, <2>4 DEF TaskTypes, Pcs, AtZone
  <2>6. Begin(a, "activate", z, t)
    BY <1>9, <2>1, <2>2 DEF Activate
  <2>7. ASSUME NEW u, u.pc = t.pc, u.op = "activate", u.rows = t.rows,
               z \in intact => Mirror(db[z], pdns[z])
        PROVE  Here(u, z, db[z], pdns[z], z \in intact)
    BY <2>4, <2>5, <2>7 DEF Here, Leads
  <2> QED
    BY <1>1, <2>5, <2>6, <2>7, BeginIntact DEF AllOps, AtZone
<1>10. CASE Deactivate(a, z)
  <2>1. PICK t : t = [Idle EXCEPT !.pc = "unserve"]
    OBVIOUS
  <2>2. t \in TaskTypes /\ t.pc = "unserve"
    BY <1>1, <2>1 DEF TaskTypes, Pcs, AtZone
  <2>3. Begin(a, "deactivate", z, t)
    BY <1>10, <2>1 DEF Deactivate
  <2>4. ASSUME NEW u, u.pc = t.pc, u.op = "deactivate"
        PROVE  Here(u, z, db[z], pdns[z], z \in intact)
    BY <2>2, <2>4 DEF Here, Edited, Deactivating
  <2> QED
    BY <1>1, <2>2, <2>3, <2>4, BeginIntact DEF AllOps, AtZone
<1> QED
  BY <1>3, <1>4, <1>5, <1>6, <1>7, <1>8, <1>9, <1>10 DEF Request

-----------------------------------------------------------------------------
(* Losses, the first state, and the theorem                                 *)

LEMMA CrashIntact == IntactInv /\ Crash => IntactInv'
<1> SUFFICES ASSUME IntactInv, Crash PROVE IntactInv'
  OBVIOUS
<1>1. /\ TypeInv /\ TypeInv' /\ Rest /\ UNCHANGED <<db, pdns>> /\ mode' = "down"
      /\ intact' = intact \ {task[b].z : b \in Actors} /\ intact \subseteq Zones
      /\ \A b \in Actors : task'[b] = Idle
  BY CrashInv DEF IntactInv, TypeInv, Tables, Crash
<1>2. Idle.pc = "idle" /\ Idle.op = "none" /\ Idle.alone = {}
  BY DEF Idle
<1>3. \A b \in Actors : task'[b].pc = "idle" /\ task'[b].op = "none" /\ task'[b].alone = {}
  BY <1>1, <1>2
<1>4. \A b \in Actors : \A x : ~Reaches(task'[b], x)
  BY <1>3 DEF Reaches
<1>5. ASSUME NEW x \in intact'
      PROVE  Mirror(db[x], pdns[x])
  <2>1. x \in Zones /\ x \in intact /\ \A b \in Actors : task[b].z # x
    BY <1>1
  <2>2. CASE \A b \in Actors : ~Reaches(task[b], x)
    BY <1>1, <2>1, <2>2 DEF Rest
  <2>3. ASSUME NEW b \in Actors, Reaches(task[b], x)
        PROVE  Mirror(db[x], pdns[x])
    <3>1. Away(task[b], x, db[x], pdns[x], x \in intact)
      BY <2>1, <2>3, AwayHolds
    <3> QED
      BY <2>1, <3>1 DEF Away
  <2> QED
    BY <2>2, <2>3
<1>6. Apart' /\ Starting' /\ Rest'
  BY <1>1, <1>3, <1>4, <1>5 DEF Apart, Starting, Rest
<1>7. ASSUME NEW b \in Actors
      PROVE  /\ Walks(task'[b])
             /\ \A x \in Zones : Staged(task'[b], x, db'[x], pdns'[x], x \in intact')
  BY <1>3, <1>4 DEF Walks, Staged
<1>8. \A x \in Zones : Whole(pdns'[x])
  BY <1>1 DEF IntactInv
<1> QED
  BY <1>1, <1>6, <1>7, <1>8 DEF IntactInv

LEMMA WipeIntact == IntactInv /\ Wipe => IntactInv'
<1> SUFFICES ASSUME IntactInv, Wipe PROVE IntactInv'
  OBVIOUS
<1>1. /\ TypeInv /\ TypeInv' /\ Apart /\ Starting /\ UNCHANGED <<db, task, mode>>
      /\ mode = "down" /\ pdns' = AllLost /\ intact' = {x \in intact : ~db[x].active}
      /\ intact \subseteq Zones
  BY WipeInv DEF IntactInv, TypeInv, Tables, Wipe
<1>2. \A b \in Actors : task[b].pc = "idle"
  BY <1>1 DEF Starting
<1>3. \A b \in Actors : \A x : ~Reaches(task[b], x)
  BY <1>2 DEF Reaches
<1>4. \A x \in Zones : pdns'[x] = NoServed /\ ~NoServed.there /\ 0 \notin NoServed.keys
  BY <1>1 DEF AllLost, NoServed
<1>5. \A x \in Zones : Whole(pdns'[x])
  BY <1>4 DEF Whole
<1>6. Apart' /\ Starting'
  BY <1>1, <1>3 DEF Apart, Starting
<1>7. Rest'
  BY <1>1, <1>4 DEF Rest, Mirror
<1>8. ASSUME NEW b \in Actors
      PROVE  /\ Walks(task'[b])
             /\ \A x \in Zones : Staged(task'[b], x, db'[x], pdns'[x], x \in intact')
  BY <1>1, <1>3 DEF Staged, IntactInv
<1> QED
  BY <1>1, <1>5, <1>6, <1>7, <1>8 DEF IntactInv

LEMMA InitIntact == Init => IntactInv
<1> SUFFICES ASSUME Init PROVE IntactInv
  OBVIOUS
<1>1. /\ TypeInv /\ mode = "up" /\ \A b \in Actors : task[b] = Idle
      /\ pdns = AllLost /\ intact = Zones /\ \A x \in Zones : db[x] \in {NewRow, CreatedRow}
  BY InitInv DEF Init
<1>2. Idle.pc = "idle" /\ Idle.op = "none" /\ Idle.alone = {}
  BY DEF Idle
<1>3. \A b \in Actors : task[b].pc = "idle" /\ task[b].op = "none" /\ task[b].alone = {}
  BY <1>1, <1>2
<1>4. \A b \in Actors : \A x : ~Reaches(task[b], x)
  BY <1>3 DEF Reaches
<1>5. ASSUME NEW x \in Zones
      PROVE  Whole(pdns[x]) /\ Mirror(db[x], pdns[x])
  <2>1. ~db[x].active
    <3>1. PICK rrs : rrs = [NewRow.rrs EXCEPT ![ApexNs] = OwnNs]
      OBVIOUS
    <3>2. CreatedRow = [NewRow EXCEPT !.ver = 2, !.rrs = rrs]
      BY <3>1, Constants DEF CreatedRow, RowTypes
    <3>3. CreatedRow.active = FALSE /\ NewRow.active = FALSE
      BY <3>2 DEF NewRow
    <3> QED
      BY <1>1, <3>3
  <2>2. pdns[x] = NoServed /\ ~NoServed.there /\ 0 \notin NoServed.keys
    BY <1>1 DEF AllLost, NoServed
  <2> QED
    BY <2>1, <2>2 DEF Whole, Mirror
<1>6. Apart /\ Starting /\ Rest
  BY <1>1, <1>3, <1>4, <1>5 DEF Apart, Starting, Rest
<1>7. \A b \in Actors : Walks(task[b])
  BY <1>3 DEF Walks
<1> QED
  BY <1>1, <1>4, <1>5, <1>6, <1>7 DEF IntactInv, Staged

LEMMA StutterIntact == IntactInv /\ UNCHANGED vars => IntactInv'
<1> SUFFICES ASSUME IntactInv, UNCHANGED vars PROVE IntactInv'
  OBVIOUS
<1>1. TypeInv'
  BY StutterInv DEF IntactInv
<1> QED
  BY <1>1 DEF IntactInv, Apart, Starting, Rest, vars

LEMMA IntactInvariance == Spec => []IntactInv
<1>1. IntactInv /\ [Next]_vars => IntactInv'
  <2>1. ASSUME IntactInv, Next
        PROVE  IntactInv'
    BY <2>1, RequestIntact, SyncStartIntact, EditStepIntact, ConvergeStepIntact,
       SyncStepIntact, RefusalIntact, CrashIntact, WipeIntact DEF Next
  <2> QED
    BY <2>1, StutterIntact
<1> QED
  BY InitIntact, <1>1, PTL DEF Spec

\* Both stores have the same of every zone that no task failed on and no two tasks
\* met at since it was last converged: each edit leaves them as it found them, equal;
\* a converge that runs alone makes them equal, whatever a failure in the middle of
\* an edit, a race, a crash or the loss of PowerDNS's data had made of the zone.
THEOREM IntactStayMirrored == Spec => []IntactMirrored
<1>1. IntactInv => IntactMirrored
  <2> SUFFICES ASSUME IntactInv, NEW z \in intact, ~AtWork(z)
               PROVE  Mirrored(z)
    BY DEF IntactMirrored
  <2>1. z \in Zones /\ \A a \in Actors : ~Reaches(task[a], z)
    BY ReachesTouches DEF AtWork, IntactInv, TypeInv, Tables
  <2>2. Mirror(db[z], pdns[z])
    BY <2>1 DEF IntactInv, Rest
  <2> QED
    BY <2>1, <2>2, MirrorMirrored
<1> QED
  BY IntactInvariance, <1>1, PTL

\* Who changes the stored key of a zone: a task that enables or disables DNSSEC at
\* it, or a sync that adopts it.
LEMMA StoredKey ==
  ASSUME TypeInv, NEW a \in Actors, NEW row, NEW pc, Store(a, row, pc),
         task[a].z \in Zones, DOMAIN row = DOMAIN Row(a), NEW z \in Zones,
         db'[z].key # db[z].key
  PROVE  z = task[a].z /\ row.key # db[z].key /\ db'[z].key = row.key
<1>1. PICK r : r = [row EXCEPT !.ver = db[task[a].z].ver + 1]
  OBVIOUS
<1>2. db' = [db EXCEPT ![task[a].z] = r] /\ db \in [Zones -> RowTypes]
  BY <1>1 DEF Store, TypeInv, Tables
<1>3. z = task[a].z
  BY <1>2
<1>4. db'[z] = r
  BY <1>2, <1>3
<1>5. DOMAIN Row(a) = {"active", "ver", "rrs", "key", "nsec3", "allow", "tsig"}
  BY <1>2 DEF Row, RowTypes
<1>6. r.key = row.key
  BY <1>1, <1>5
<1> QED
  BY <1>3, <1>4, <1>6

LEMMA KeyChanges ==
  ASSUME TypeInv, Next, NEW z \in Zones, db'[z].key # db[z].key
  PROVE  \E a \in Actors : task[a].z = z /\ (StoreKey(a) \/ StoreAdoptedKey(a))
<1>1. \A a \in Actors : Row(a) = db[task[a].z] /\ (task[a].pc \in AtZone => task[a].z \in Zones)
  BY Edits DEF Row
<1>2. ~UNCHANGED db
  OBVIOUS
<1>3. db \in [Zones -> RowTypes]
  BY DEF TypeInv, Tables
<1>4. PICK a \in Actors :
        \/ ApplyRrsets(a) \/ StoreAllow(a) \/ StoreKey(a) \/ StoreTsig(a)
        \/ DeleteTsigRow(a) \/ ActivateRow(a) \/ DeactivateRow(a)
        \/ ReplaceRrsets(a) \/ StoreAdoptedKey(a) \/ StoreAdoptedAllow(a)
  <2>1. ~Crash /\ ~Wipe /\ \A a \in Actors : ~Refusal(a) /\ ~Cut(a) /\ ~AdminSync(a) /\ ~Start(a)
    BY <1>2 DEF Crash, Wipe, Refusal, Cut, AdminSync, Start, BeginSync, ZoneGone, KeyGone,
       RowRace, BuildRefused, RecreateRefused, TsigGone
  <2>2. \A a \in Actors, x \in Zones : ~Request(a, x)
    <3>1. \A a, o, x, u : ~Begin(a, o, x, u)
      BY <1>2 DEF Begin
    <3> QED
      BY <3>1 DEF Request, Patch, Sign, Unsign, SetAllowFrom, AddTsigKey, DeleteTsigKey,
         Activate, Deactivate
  <2>3. \A a \in Actors : ~ConvergeStep(a)
    BY <1>2 DEF ConvergeStep, Look, CreateZone, ConvergeRrsets, MatchKeys, DropKey,
       ImportKey, ServeMode, MissingTsig, RecreateTsig, Serve
  <2>4. PICK a \in Actors : EditStep(a) \/ SyncStep(a)
    BY <2>1, <2>2, <2>3 DEF Next
  <2>5. CASE EditStep(a)
    BY <1>2, <2>5 DEF EditStep, PatchServed, ServeAllow, ListKeys, AddKey, ServeNsec3,
       FetchKey, CreateTsig, NameTaken, ReadNames, ServeNames, ListTsig, RemoveTsig, Probe,
       Unserve, Stamp, Serve
  <2>6. CASE SyncStep(a)
    BY <1>2, <2>6 DEF SyncStep, ListServed, Prune, PickZone, AdoptKey, AdoptAllow, Reread,
       ListStrays, RemoveStray, EndSync, To
  <2> QED
    BY <2>4, <2>5, <2>6
<1>5. task[a].pc \in {"store", "active", "inactive", "replace", "adoptedkey", "adoptedallow"}
  BY <1>4 DEF ApplyRrsets, StoreAllow, StoreKey, StoreTsig, DeleteTsigRow, ActivateRow,
     DeactivateRow, ReplaceRrsets, StoreAdoptedKey, StoreAdoptedAllow, At
<1>6. task[a].z \in Zones /\ Row(a) \in RowTypes /\ Row(a) = db[task[a].z]
  BY <1>1, <1>3, <1>5 DEF AtZone
<1>7. PICK x \in Zones : x = task[a].z
  BY <1>6
<1>8. CASE ActivateRow(a) \/ DeactivateRow(a)
  <2>1. \/ \E act, ver : db' = [db EXCEPT ![x] = [db[x] EXCEPT !.active = act, !.ver = ver]]
    <3>1. CASE ActivateRow(a)
      <4>1. PICK ver : ver = IF Row(a).active THEN Row(a).ver ELSE Row(a).ver + 1
        OBVIOUS
      <4>2. db' = [db EXCEPT ![x].active = TRUE, ![x].ver = ver]
        BY <1>7, <3>1, <4>1 DEF ActivateRow
      <4>3. db' = [db EXCEPT ![x] = [db[x] EXCEPT !.active = TRUE, !.ver = ver]]
        BY <1>3, <4>2
      <4> QED
        BY <4>3
    <3>2. CASE DeactivateRow(a)
      <4>1. PICK ver : ver = db[x].ver + 1
        OBVIOUS
      <4>2. db' = [db EXCEPT ![x] = [db[x] EXCEPT !.active = FALSE, !.ver = ver]]
        BY <1>3, <1>7, <3>2, <4>1 DEF DeactivateRow
      <4> QED
        BY <4>2
    <3> QED
      BY <1>8, <3>1, <3>2
  <2>2. PICK act, ver : db' = [db EXCEPT ![x] = [db[x] EXCEPT !.active = act, !.ver = ver]]
    BY <2>1
  <2>3. PICK r : r = [db[x] EXCEPT !.active = act, !.ver = ver]
    OBVIOUS
  <2>4. r.key = db[x].key
    BY <1>3, <2>3 DEF RowTypes
  <2>5. db'[z] = IF z = x THEN r ELSE db[z]
    BY <1>3, <2>2, <2>3
  <2> QED
    BY <2>4, <2>5
<1>9. ASSUME NEW row, row.key = Row(a).key, DOMAIN row = DOMAIN Row(a), NEW pc, Store(a, row, pc)
      PROVE  FALSE
  BY <1>6, <1>9, StoredKey
<1>10. CASE ApplyRrsets(a) \/ ReplaceRrsets(a)
  <2>1. PICK rrs, pc : Store(a, [Row(a) EXCEPT !.rrs = rrs], pc)
    <3>1. CASE ApplyRrsets(a)
      <4>1. PICK rrs : rrs = [Row(a).rrs EXCEPT ![task[a].rr] = task[a].val]
        OBVIOUS
      <4>2. Store(a, [Row(a) EXCEPT !.rrs = rrs], "stamp")
        BY <1>6, <3>1, <4>1 DEF ApplyRrsets
      <4> QED
        BY <4>2
    <3>2. CASE ReplaceRrsets(a)
      BY <3>2 DEF ReplaceRrsets
    <3> QED
      BY <1>10, <3>1, <3>2
  <2>2. PICK r : r = [Row(a) EXCEPT !.rrs = rrs]
    OBVIOUS
  <2>3. r.key = Row(a).key /\ DOMAIN r = DOMAIN Row(a)
    BY <1>6, <2>2 DEF RowTypes
  <2> QED
    BY <1>9, <2>1, <2>2, <2>3
<1>11. CASE StoreAllow(a) \/ StoreAdoptedAllow(a)
  <2>1. PICK allow, pc : Store(a, [Row(a) EXCEPT !.allow = allow], pc)
    BY <1>11 DEF StoreAllow, StoreAdoptedAllow
  <2>2. PICK r : r = [Row(a) EXCEPT !.allow = allow]
    OBVIOUS
  <2>3. r.key = Row(a).key /\ DOMAIN r = DOMAIN Row(a)
    BY <1>6, <2>2 DEF RowTypes
  <2> QED
    BY <1>9, <2>1, <2>2, <2>3
<1>12. CASE StoreTsig(a) \/ DeleteTsigRow(a)
  <2>1. PICK names, pc : Store(a, [Row(a) EXCEPT !.tsig = names], pc)
    <3>1. PICK n, k, pc : Store(a, [Row(a) EXCEPT !.tsig[n] = k], pc)
      BY <1>12 DEF StoreTsig, DeleteTsigRow
    <3>2. PICK names : names = [Row(a).tsig EXCEPT ![n] = k]
      OBVIOUS
    <3>3. Store(a, [Row(a) EXCEPT !.tsig = names], pc)
      BY <1>6, <3>1, <3>2
    <3> QED
      BY <3>3
  <2>2. PICK r : r = [Row(a) EXCEPT !.tsig = names]
    OBVIOUS
  <2>3. r.key = Row(a).key /\ DOMAIN r = DOMAIN Row(a)
    BY <1>6, <2>2 DEF RowTypes
  <2> QED
    BY <1>9, <2>1, <2>2, <2>3
<1>13. CASE StoreKey(a) \/ StoreAdoptedKey(a)
  <2>1. PICK k, n3, pc : Store(a, [Row(a) EXCEPT !.key = k, !.nsec3 = n3], pc)
    BY <1>13 DEF StoreKey, StoreAdoptedKey
  <2>2. PICK r : r = [Row(a) EXCEPT !.key = k, !.nsec3 = n3]
    OBVIOUS
  <2>3. DOMAIN r = DOMAIN Row(a)
    BY <2>2
  <2>4. z = task[a].z
    BY <1>6, <2>1, <2>2, <2>3, StoredKey
  <2> QED
    BY <1>13, <2>4
<1> QED
  BY <1>4, <1>8, <1>10, <1>11, <1>12, <1>13

\* Enabling DNSSEC again to change the NSEC mode, or a converge or an adoption of the
\* zone, never replaces the key an intact zone is signed with, which would break the
\* DS at its parent: what is stored is the key that was there.
THEOREM SignedKeysStay == Spec => SignedKeyKept
<1>1. ASSUME IntactInv, Next, NEW z \in intact, db[z].key # 0, db'[z].key # 0
      PROVE  db'[z].key = db[z].key
  <2>1. z \in Zones /\ TypeInv
    BY <1>1 DEF IntactInv, TypeInv, Tables
  <2>2. SUFFICES ASSUME db'[z].key # db[z].key
                 PROVE  FALSE
    OBVIOUS
  <2>3. PICK a \in Actors : task[a].z = z /\ (StoreKey(a) \/ StoreAdoptedKey(a))
    BY <1>1, <2>1, <2>2, KeyChanges
  <2>4. task[a].pc \in {"store", "adoptedkey"}
    BY <2>3 DEF StoreKey, StoreAdoptedKey, At
  <2>5. Here(task[a], z, db[z], pdns[z], z \in intact)
    BY <1>1, <2>1, <2>3, <2>4, HereHolds
  <2>6. Row(a) = db[z] /\ db[z] \in RowTypes
    BY <2>1, <2>3 DEF Row, TypeInv, Tables
  <2>7. CASE StoreKey(a)
    <3>1. PICK r : r = [Row(a) EXCEPT !.key = task[a].key, !.nsec3 = task[a].nsec3]
      OBVIOUS
    <3>2. r.key = task[a].key /\ DOMAIN r = DOMAIN Row(a)
      BY <2>6, <3>1 DEF RowTypes
    <3>3. Store(a, r, "stamp") /\ task[a].pc = "store" /\ task[a].op \in {"sign", "unsign"}
      BY <2>7, <3>1 DEF StoreKey, At
    <3>4. db'[z].key = task[a].key
      BY <2>1, <2>2, <2>3, <3>2, <3>3, StoredKey
    <3>5. Edited(task[a], db[z], pdns[z])
      BY <2>5, <3>3 DEF Here
    <3>6. db[z].key \in {0, task[a].key} \/ task[a].key = 0
      BY <3>3, <3>5 DEF Edited, Signing, Unsigning
    <3> QED
      BY <1>1, <2>2, <3>4, <3>6
  <2>8. CASE StoreAdoptedKey(a)
    <3>1. task[a].pc = "adoptedkey" /\ task[a].z # NoZone
      BY <2>1, <2>3, <2>8, ZonesAssumption DEF StoreAdoptedKey, At
    <3> QED
      BY <2>5, <3>1 DEF Here, Edited, Patching, Allowing, Signing, Unsigning, AddingKey,
         DeletingKey, Deactivating, Leads, Built, BuiltTo, Adopting
  <2> QED
    BY <2>3, <2>7, <2>8
<1>2. ASSUME IntactInv, [Next]_vars
      PROVE  \A z \in intact : (db[z].key # 0 /\ db'[z].key # 0) => db'[z].key = db[z].key
  BY <1>1, <1>2 DEF vars
<1> QED
  BY IntactInvariance, <1>2, PTL DEF Spec, SignedKeyKept
=============================================================================
