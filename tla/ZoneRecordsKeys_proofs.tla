----------------------- MODULE ZoneRecordsKeys_proofs -----------------------
(***************************************************************************)
(* Theorems about the keys of ZoneRecords, and about what a sync does to    *)
(* zones that are in line: it disturbs none of them, a signed zone keeps    *)
(* its key at every moment, a zone's TSIG keys are in PowerDNS while it is  *)
(* active, and a sync that met no other task leaves no others there.  For   *)
(* any zones, records, key names and actors, any operations, every fault.   *)
(***************************************************************************)
EXTENDS ZoneRecordsIntact_proofs

-----------------------------------------------------------------------------
(* The invariants, beyond IntactInv                                         *)

\* A sync at an intact zone finds it as stored, and leaves it so at every call.
InLine(t, z, row, s, in) ==
  in /\ t.pc # "idle" /\ t.z = z /\ t.op = "sync" => Mirror(row, s)

LineInv == \A a \in Actors, z \in Zones : InLine(task[a], z, db[z], pdns[z], z \in intact)

\* Names that another zone's owner chooses too
Shared(z, n) == \E y \in Zones \ {z} : n \in NamesOf[y]

\* PowerDNS has the keys of a row, but for shared names.
Has(row, ts, z) == \A n \in Stored(row) : ts[n] # 0 \/ Shared(z, n)

\* The rows have, and tasks remove, names that the zone's owner chose.
Owned(t) ==
  /\ t.op \in {"addkey", "delkey"} => t.name \in NamesOf[t.z]
  /\ t.pc \in {"remove", "unkey"} => t.names \subseteq NamesOf[t.z]

Chosen ==
  /\ \A z \in Zones : Stored(db[z]) \subseteq NamesOf[z]
  /\ \A a \in Actors : Owned(task[a])

\* A task at a zone it has to itself
KeysHere(t, z, row, ts, in) ==
  /\ in /\ t.op \in Edits6 => Has(row, ts, z)
  /\ in /\ t.op = "addkey" /\ t.pc = "store" => ts[t.name] # 0 \/ Shared(z, t.name)
  /\ in /\ t.op = "delkey" /\ t.pc \in {"remaining", "names", "remove", "unkey"} =>
       t.name \notin Stored(row)
  /\ in /\ t.op = "delkey" /\ t.pc \in {"remove", "unkey"} => t.names \subseteq {t.name}
  /\ in /\ t.pc \in {"active", "probe"} /\ row.active => Has(row, ts, z)
  /\ t.op \in {"activate", "sync"} =>
       /\ t.pc = "recreate" =>
            \A n \in Stored(row) : ts[n] # 0 \/ t.make[n] # 0 \/ Shared(z, n)
       /\ t.pc \in {"names", "allow", "stamp"} => Has(row, ts, z)
       /\ t.op = "sync" => Stored(row) \subseteq t.want

\* A sync that is not at the zone now: what it collected protects the zone's keys.
KeysAway(t, z, row, ts, in) ==
  in /\ row.active =>
    /\ Has(row, ts, z)
    /\ t.pc = "strays" => t.names \cap Stored(row) = {}
    /\ t.pc \notin {"served", "prune", "strays"} /\ z \notin t.left =>
         Stored(row) \subseteq t.want

KeysAt(t, z, row, ts, in) ==
  Reaches(t, z) /\ (in \/ z \in t.alone) =>
    IF t.z = z THEN KeysHere(t, z, row, ts, in) ELSE KeysAway(t, z, row, ts, in)

KeysRest ==
  \A z \in intact :
    db[z].active /\ (\A a \in Actors : ~Reaches(task[a], z)) => Has(db[z], tsig, z)

KeysInv ==
  /\ Chosen /\ KeysRest
  /\ \A a \in Actors, z \in Zones : KeysAt(task[a], z, db[z], tsig, z \in intact)

\* What a sync that meets no other task has collected are keys of active zones.
Wanted == {n \in KeyNames : \E z \in Zones : db[z].active /\ n \in Stored(db[z])}

Collects(t, ts, wanted) ==
  t.pc # "idle" /\ t.op = "sync" /\ t.alone = Zones =>
    IF t.pc = "strays" THEN \A n \in KeyNames \ t.names : ts[n] # 0 => n \in wanted
                       ELSE t.want \subseteq wanted

StraysInv ==
  /\ Zones = {} => \A n \in KeyNames : tsig[n] = 0
  /\ \A a \in Actors : Collects(task[a], tsig, Wanted)

\* All of it
Local(t, z, row, s, ts, in) == InLine(t, z, row, s, in) /\ KeysAt(t, z, row, ts, in)

KeptInv ==
  /\ IntactInv /\ Chosen /\ KeysRest /\ StraysInv
  /\ \A a \in Actors, z \in Zones : Local(task[a], z, db[z], pdns[z], tsig, z \in intact)

-----------------------------------------------------------------------------
(* What a step of one actor leaves alone                                    *)

\* The keys of a zone that are there, but for shared names, stay.
Keeps(z, ts, us) == \A n \in KeyNames : ts[n] # 0 => us[n] # 0 \/ Shared(z, n)

LEMMA HasKept ==
  ASSUME NEW row, NEW ts, NEW us, NEW z, Has(row, ts, z), Keeps(z, ts, us)
  PROVE  Has(row, us, z)
BY DEF Has, Keeps, Stored

\* A sync that has every zone to itself is the only task.
LEMMA OnlyTask ==
  ASSUME IntactInv, NEW a \in Actors, NEW b \in Actors, task[a].alone = Zones,
         task[b].pc # "idle", Zones # {}
  PROVE  b = a
<1>1. PICK x : x \in Zones
  OBVIOUS
<1>2. PICK z \in Zones : Reaches(task[b], z)
  <2>1. CASE task[b].pc \in AtZone
    BY <2>1, Edits DEF Reaches, IntactInv
  <2>2. CASE task[b].pc \notin AtZone
    <3>1. task[b].pc \in {"served", "prune", "pick", "strays"}
      BY <2>2 DEF IntactInv, TypeInv, TaskTypes, Pcs
    <3>2. task[b].op = "sync"
      BY <3>1 DEF IntactInv, Walks
    <3> QED
      BY <1>1, <3>1, <3>2 DEF Reaches
  <2> QED
    BY <2>1, <2>2
<1> QED
  BY <1>2 DEF IntactInv, Apart

\* The step of one actor: of zones it does not reach, it changes nothing, and takes
\* no keys from them.
LEMMA KeysFrame ==
  ASSUME KeptInv, IntactInv', NEW a \in Actors, NEW t, Goto(a, t),
         task[a].pc # "idle",
         \A z \in Zones : ~Reaches(task[a], z) =>
            /\ db'[z] = db[z] /\ pdns'[z] = pdns[z] /\ (z \in intact' <=> z \in intact)
            /\ ~Reaches(t, z) /\ Keeps(z, tsig, tsig'),
         intact' \subseteq intact \cup task[a].alone,
         Owned(t), \A z \in Zones : Stored(db'[z]) \subseteq NamesOf[z],
         \A z \in Zones : Local(t, z, db'[z], pdns'[z], tsig', z \in intact'),
         \A z \in intact' : Reaches(task[a], z) /\ ~Reaches(t, z) /\ db'[z].active =>
            Has(db'[z], tsig', z),
         Collects(t, tsig', Wanted'), Zones = {} => \A n \in KeyNames : tsig'[n] = 0
  PROVE  KeptInv'
<1>1. /\ task'[a] = t /\ \A b \in Actors : b # a => task'[b] = task[b]
      /\ intact' \subseteq Zones /\ task[a].alone \subseteq Zones /\ IntactInv
  BY DEF Goto, KeptInv, IntactInv, TypeInv, Tables, TaskTypes
<1>2. ASSUME NEW z \in task[a].alone
      PROVE  Reaches(task[a], z) /\ \A b \in Actors : Reaches(task[b], z) => b = a
  BY <1>1 DEF IntactInv, Apart
<1>3. Chosen'
  BY <1>1 DEF Chosen, KeptInv
<1>4. ASSUME NEW z \in intact', db'[z].active, \A b \in Actors : ~Reaches(task'[b], z)
      PROVE  Has(db'[z], tsig', z)
  <2>1. CASE Reaches(task[a], z)
    BY <1>1, <1>4, <2>1
  <2>2. CASE ~Reaches(task[a], z)
    <3>1. z \in intact /\ db'[z] = db[z] /\ Keeps(z, tsig, tsig')
      BY <1>1, <2>2
    <3>2. \A b \in Actors : ~Reaches(task[b], z)
      BY <1>1, <1>4, <2>2
    <3>3. Has(db[z], tsig, z)
      BY <1>4, <3>1, <3>2 DEF KeptInv, KeysRest
    <3> QED
      BY <3>1, <3>3, HasKept
  <2> QED
    BY <2>1, <2>2
<1>5. ASSUME NEW b \in Actors, NEW z \in Zones
      PROVE  Local(task'[b], z, db'[z], pdns'[z], tsig', z \in intact')
  <2>1. CASE b = a
    BY <1>1, <2>1
  <2>2. CASE b # a
    <3>1. PICK u : u = task[b] /\ u = task'[b]
      BY <1>1, <2>2
    <3>2. Local(u, z, db[z], pdns[z], tsig, z \in intact)
      BY <3>1 DEF KeptInv
    <3>3. CASE ~Reaches(task[a], z)
      <4>1. PICK in : in = (z \in intact) /\ in = (z \in intact')
        BY <3>3
      <4>2. PICK row, s : row = db[z] /\ row = db'[z] /\ s = pdns[z] /\ s = pdns'[z]
        BY <3>3
      <4>3. Keeps(z, tsig, tsig')
        BY <3>3
      <4>4. InLine(u, z, row, s, in) /\ KeysAt(u, z, row, tsig, in)
        BY <3>2, <4>1, <4>2 DEF Local
      <4>5. Has(row, tsig, z) => Has(row, tsig', z)
        BY <4>3, HasKept
      <4>6. KeysHere(u, z, row, tsig, in) => KeysHere(u, z, row, tsig', in)
        <5>1. u \in TaskTypes
          BY <3>1 DEF KeptInv, IntactInv, TypeInv
        <5>2. u.op = "addkey" => u.name \in KeyNames
          BY <3>1 DEF KeptInv, IntactInv, TypeInv, Fits
        <5> QED
          BY <4>3, <4>5, <5>2 DEF KeysHere, Keeps, Stored
      <4>7. KeysAway(u, z, row, tsig, in) => KeysAway(u, z, row, tsig', in)
        BY <4>5 DEF KeysAway
      <4>8. KeysAt(u, z, row, tsig', in)
        BY <4>4, <4>6, <4>7 DEF KeysAt
      <4> QED
        BY <3>1, <4>1, <4>2, <4>4, <4>8 DEF Local
    <3>4. CASE Reaches(task[a], z) /\ Reaches(u, z)
      <4>1. z \notin intact /\ z \notin u.alone /\ z \notin task[a].alone
        BY <1>1, <2>2, <3>1, <3>4 DEF IntactInv, Apart
      <4>2. z \notin intact'
        BY <4>1
      <4> QED
        BY <3>1, <4>1, <4>2 DEF Local, InLine, KeysAt
    <3>5. CASE ~Reaches(u, z)
      BY <3>1, <3>5 DEF Local, InLine, KeysAt, Reaches
    <3> QED
      BY <3>3, <3>4, <3>5
  <2> QED
    BY <2>1, <2>2
<1>6. ASSUME NEW b \in Actors
      PROVE  Collects(task'[b], tsig', Wanted')
  <2>1. CASE b = a
    BY <1>1, <2>1
  <2>2. CASE b # a /\ Zones = {}
    <3>1. Wanted' = {} /\ Wanted = {}
      BY <2>2 DEF Wanted
    <3>2. Collects(task[b], tsig, Wanted)
      BY DEF KeptInv, StraysInv
    <3> QED
      BY <1>1, <2>2, <3>1, <3>2 DEF Collects
  <2>3. CASE b # a /\ Zones # {}
    <3>1. task[b].alone # Zones
      BY <1>1, <2>3, OnlyTask
    <3> QED
      BY <1>1, <2>3, <3>1 DEF Collects
  <2> QED
    BY <2>1, <2>2, <2>3
<1> QED
  BY <1>3, <1>4, <1>5, <1>6 DEF KeptInv, KeysRest, StraysInv

LEMMA KeptHere ==
  ASSUME KeptInv, NEW a \in Actors, NEW z \in Zones, task[a].z = z, task[a].pc # "idle",
         z \in intact \/ z \in task[a].alone
  PROVE  KeysHere(task[a], z, db[z], tsig, z \in intact)
BY DEF KeptInv, Local, KeysAt, Reaches

LEMMA KeptAway ==
  ASSUME KeptInv, NEW a \in Actors, NEW z \in Zones, task[a].z # z, Reaches(task[a], z),
         z \in intact \/ z \in task[a].alone
  PROVE  KeysAway(task[a], z, db[z], tsig, z \in intact)
BY DEF KeptInv, Local, KeysAt

\* A task that goes on at its zone
Keeping(t, u) ==
  /\ t.z = u.z /\ t.op = u.op /\ t.alone = u.alone /\ t.left = u.left /\ t.want = u.want
  /\ t.pc \in AtZone

LEMMA KeysStay ==
  ASSUME KeptInv, IntactInv', NEW a \in Actors, NEW z \in Zones, task[a].z = z,
         task[a].pc \in AtZone, NEW t, Goto(a, t), Keeping(t, task[a]),
         \A x \in Zones : x # z => db'[x] = db[x] /\ pdns'[x] = pdns[x]
                                   /\ Keeps(x, tsig, tsig'),
         intact' = intact, Owned(t), Stored(db'[z]) \subseteq NamesOf[z],
         z \in intact \/ z \in task[a].alone =>
            /\ InLine(t, z, db'[z], pdns'[z], z \in intact)
            /\ KeysHere(t, z, db'[z], tsig', z \in intact),
         t.op = "sync" => Stored(db'[z]) = Stored(db[z]) /\ db'[z].active = db[z].active
  PROVE  KeptInv'
<1>1. /\ task[a].pc \notin {"idle", "served", "prune", "pick", "strays"}
      /\ t.pc \notin {"idle", "served", "prune", "pick", "strays"}
  BY DEF AtZone, Keeping
<1>2. \A x \in Zones : Reaches(t, x) <=> Reaches(task[a], x)
  BY <1>1 DEF Reaches, Keeping
<1>3. ASSUME NEW x \in Zones
      PROVE  Local(t, x, db'[x], pdns'[x], tsig', x \in intact')
  <2>1. CASE x = z
    BY <2>1 DEF Local, InLine, KeysAt, Keeping
  <2>2. CASE x # z
    <3>1. PICK row, in : row = db[x] /\ row = db'[x] /\ in = (x \in intact)
      BY <2>2
    <3>2. ASSUME Reaches(t, x), in \/ x \in t.alone
          PROVE  KeysAway(t, x, row, tsig', in)
      <4>1. KeysAway(task[a], x, row, tsig, in)
        BY <1>2, <2>2, <3>1, <3>2, KeptAway DEF Keeping
      <4>2. Has(row, tsig, x) => Has(row, tsig', x)
        BY <2>2, HasKept
      <4> QED
        BY <1>1, <4>1, <4>2 DEF KeysAway, Keeping
    <3> QED
      BY <2>2, <3>1, <3>2 DEF Local, InLine, KeysAt, Keeping
  <2> QED
    BY <2>1, <2>2
<1>4. \A x \in Zones : Stored(db'[x]) \subseteq NamesOf[x]
  BY DEF KeptInv, Chosen
<1>5. Collects(t, tsig', Wanted')
  <2>1. SUFFICES ASSUME t.op = "sync", t.alone = Zones
                 PROVE  t.want \subseteq Wanted'
    BY <1>1 DEF Collects
  <2>2. task[a].want \subseteq Wanted
    BY <1>1, <2>1 DEF KeptInv, StraysInv, Collects, Keeping
  <2>3. \A x \in Zones : Stored(db'[x]) = Stored(db[x]) /\ db'[x].active = db[x].active
    BY <2>1
  <2>4. Wanted' = Wanted
    BY <2>3 DEF Wanted
  <2> QED
    BY <2>2, <2>4 DEF Keeping
<1>6. \A x \in Zones : ~Reaches(task[a], x) =>
         /\ db'[x] = db[x] /\ pdns'[x] = pdns[x] /\ (x \in intact' <=> x \in intact)
         /\ ~Reaches(t, x) /\ Keeps(x, tsig, tsig')
  BY <1>1, <1>2 DEF Reaches
<1>7. intact' \subseteq Zones
  BY DEF IntactInv, TypeInv, Tables
<1> QED
  BY <1>1, <1>2, <1>3, <1>4, <1>5, <1>6, <1>7, KeysFrame

\* What is so of the keys at one place of a task is so at its next.
Carries(u, t, z, row, s, ts) ==
  \A in \in BOOLEAN : KeysHere(u, z, row, ts, in) /\ Here(u, z, row, s, in) =>
                        KeysHere(t, z, row, ts, in)

LEMMA CarriesOn ==
  ASSUME NEW u, NEW t, NEW z, NEW row, NEW s, NEW ts, Carries(u, t, z, row, s, ts),
         KeysHere(u, z, row, ts, z \in intact), Here(u, z, row, s, z \in intact)
  PROVE  KeysHere(t, z, row, ts, z \in intact)
<1>1. PICK in : in = (z \in intact)
  OBVIOUS
<1>2. in \in BOOLEAN /\ KeysHere(u, z, row, ts, in) /\ Here(u, z, row, s, in)
  BY <1>1
<1>3. KeysHere(t, z, row, ts, in)
  BY <1>2 DEF Carries
<1> QED
  BY <1>1, <1>3

\* What a sync does at a zone that is intact is converge.
LEMMA SyncHere ==
  ASSUME NEW t, NEW z, NEW row, NEW s, NEW in, in, Here(t, z, row, s, in), t.op = "sync"
  PROVE  Based(t, row) /\ BuiltTo(t, row, s)
BY DEF Here, Leads, Built

LEMMA KeysQuiet ==
  ASSUME KeptInv, IntactInv', NEW a \in Actors, NEW z \in Zones, task[a].z = z,
         task[a].pc \in AtZone, NEW t, Goto(a, t), Keeping(t, task[a]),
         UNCHANGED <<db, pdns, tsig, intact>>, Owned(t),
         Carries(task[a], t, z, db[z], pdns[z], tsig)
  PROVE  KeptInv'
<1>1. task[a].pc # "idle"
  BY DEF AtZone
<1>2. Stored(db'[z]) \subseteq NamesOf[z] /\ \A x \in Zones : Keeps(x, tsig, tsig')
  BY DEF KeptInv, Chosen, Keeps
<1>3. z \in intact \/ z \in task[a].alone =>
        /\ InLine(t, z, db'[z], pdns'[z], z \in intact)
        /\ KeysHere(t, z, db'[z], tsig', z \in intact)
  <2>1. InLine(task[a], z, db[z], pdns[z], z \in intact)
    BY DEF KeptInv, Local
  <2> QED
    BY <1>1, <2>1, KeptHere, HereHolds, CarriesOn DEF InLine, Keeping, KeptInv
<1> QED
  BY <1>2, <1>3, KeysStay

\* A call that changes the zone as it is served
LEMMA KeysServe ==
  ASSUME KeptInv, IntactInv', NEW a \in Actors, NEW z \in Zones, task[a].z = z,
         task[a].pc \in AtZone, NEW t, Goto(a, t), Keeping(t, task[a]),
         NEW s, pdns' = [pdns EXCEPT ![z] = s], UNCHANGED <<db, tsig, intact>>, Owned(t),
         (/\ t.op = "sync" /\ Mirror(db[z], pdns[z])
          /\ Based(task[a], db[z]) /\ BuiltTo(task[a], db[z], pdns[z])) => Mirror(db[z], s),
         Carries(task[a], t, z, db[z], pdns[z], tsig)
  PROVE  KeptInv'
<1>1. task[a].pc # "idle" /\ pdns'[z] = s /\ \A x \in Zones : x # z => pdns'[x] = pdns[x]
  BY DEF AtZone, KeptInv, IntactInv, TypeInv, Tables
<1>2. Stored(db'[z]) \subseteq NamesOf[z] /\ \A x \in Zones : Keeps(x, tsig, tsig')
  BY DEF KeptInv, Chosen, Keeps
<1>3. z \in intact \/ z \in task[a].alone =>
        /\ InLine(t, z, db'[z], pdns'[z], z \in intact)
        /\ KeysHere(t, z, db'[z], tsig', z \in intact)
  <2>1. InLine(task[a], z, db[z], pdns[z], z \in intact)
    BY DEF KeptInv, Local
  <2>2. z \in intact \/ z \in task[a].alone => Here(task[a], z, db[z], pdns[z], z \in intact)
    BY <1>1, HereHolds DEF KeptInv
  <2>3. z \in intact /\ t.op = "sync" =>
          Based(task[a], db[z]) /\ BuiltTo(task[a], db[z], pdns[z])
    BY <2>2, SyncHere DEF Keeping
  <2>4. InLine(t, z, db[z], s, z \in intact)
    BY <1>1, <2>1, <2>3 DEF InLine, Keeping
  <2> QED
    BY <1>1, <2>2, <2>4, KeptHere, CarriesOn
<1> QED
  BY <1>1, <1>2, <1>3, KeysStay

\* The end of a task: what PowerDNS has of its zone's keys is all, or the zone is
\* intact no longer.
LEMMA KeysEnd ==
  ASSUME KeptInv, IntactInv', NEW a \in Actors, task[a].pc # "idle", Goto(a, Idle),
         \A x \in Zones : x # task[a].z =>
            db'[x] = db[x] /\ pdns'[x] = pdns[x] /\ (x \in intact' <=> x \in intact),
         intact' \subseteq intact \cup ({task[a].z} \cap task[a].alone), tsig' = tsig,
         \A x \in Zones : Stored(db'[x]) \subseteq NamesOf[x],
         \A z \in intact' : z = task[a].z /\ db'[z].active => Has(db'[z], tsig, z)
  PROVE  KeptInv'
<1>1. Idle.pc = "idle" /\ Idle.op = "none" /\ \A x : ~Reaches(Idle, x)
  BY DEF Idle, Reaches
<1>2. PICK t : t = Idle
  OBVIOUS
<1>3. /\ Owned(t) /\ Collects(t, tsig', Wanted')
      /\ \A x \in Zones : Local(t, x, db'[x], pdns'[x], tsig', x \in intact')
  BY <1>1, <1>2 DEF Owned, Collects, Local, InLine, KeysAt
<1>4. \A x \in Zones : Keeps(x, tsig, tsig')
  BY DEF Keeps
<1>5. ASSUME NEW x \in intact', Reaches(task[a], x), db'[x].active
      PROVE  Has(db'[x], tsig', x)
  <2>1. CASE x = task[a].z
    BY <1>5, <2>1
  <2>2. CASE x # task[a].z
    <3>1. x \in Zones /\ x \in intact /\ db'[x] = db[x]
      BY <2>2 DEF KeptInv, IntactInv, TypeInv, Tables
    <3>2. KeysAway(task[a], x, db[x], tsig, x \in intact)
      BY <1>5, <2>2, <3>1, KeptAway
    <3> QED
      BY <1>5, <3>1, <3>2 DEF KeysAway
  <2> QED
    BY <2>1, <2>2
<1>6. \A x \in Zones : ~Reaches(task[a], x) =>
         /\ db'[x] = db[x] /\ pdns'[x] = pdns[x] /\ (x \in intact' <=> x \in intact)
         /\ ~Reaches(t, x) /\ Keeps(x, tsig, tsig')
  BY <1>1, <1>2, <1>4 DEF Reaches
<1>7. Zones = {} => \A n \in KeyNames : tsig'[n] = 0
  BY DEF KeptInv, StraysInv
<1>8. Goto(a, t) /\ intact' \subseteq intact \cup task[a].alone
  BY <1>2
<1> QED
  BY <1>3, <1>5, <1>6, <1>7, <1>8, KeysFrame

LEMMA KeysFail ==
  ASSUME KeptInv, IntactInv', NEW a \in Actors, task[a].pc # "idle", Fails(a),
         UNCHANGED <<db, pdns, tsig>>
  PROVE  KeptInv'
<1>1. Goto(a, Idle) /\ intact' = intact \ {task[a].z}
  BY DEF Fails
<1>2. \A x \in Zones : Stored(db'[x]) \subseteq NamesOf[x]
  BY DEF KeptInv, Chosen
<1> QED
  BY <1>1, <1>2, KeysEnd

LEMMA RefusalKeeps ==
  ASSUME KeptInv, IntactInv', NEW a \in Actors, Refusal(a) \/ Cut(a)
  PROVE  KeptInv'
<1>1. task[a].pc # "idle" /\ Fails(a) /\ UNCHANGED <<db, pdns, tsig>>
  BY DEF Refusal, Cut, ZoneGone, KeyGone, RowRace, BuildRefused, RecreateRefused, TsigGone,
     At, Busy
<1> QED
  BY <1>1, KeysFail

-----------------------------------------------------------------------------
(* Edits                                                                    *)

\* A transaction: the task at the next place, the row as it is stored
LEMMA KeysStore ==
  ASSUME KeptInv, IntactInv', NEW a \in Actors, NEW z \in Zones, task[a].z = z,
         task[a].pc \in AtZone, NEW r \in RowTypes, NEW pc \in AtZone \ {"remove", "unkey"},
         Store(a, r, pc), Stored(r) \subseteq NamesOf[z], r.active = db[z].active,
         task[a].op = "sync" => r.tsig = db[z].tsig,
         z \in intact /\ Here(task[a], z, db[z], pdns[z], z \in intact) => task[a].op # "sync",
         \A t \in TaskTypes, row \in RowTypes :
           /\ t.pc = pc /\ t.op = task[a].op /\ t.name = task[a].name
           /\ t.names = task[a].names /\ t.make = task[a].make /\ t.want = task[a].want
           /\ row.active = r.active /\ row.tsig = r.tsig
           /\ Here(task[a], z, db[z], pdns[z], z \in intact)
           /\ KeysHere(task[a], z, db[z], tsig, z \in intact)
           => KeysHere(t, z, row, tsig, z \in intact)
  PROVE  KeptInv'
<1>1. PICK t : t = [task[a] EXCEPT !.pc = pc, !.ver = db[z].ver + 1, !.val = NoData,
                                   !.key = 0, !.nsec3 = FALSE]
  OBVIOUS
<1>2. PICK row : row = [r EXCEPT !.ver = db[z].ver + 1]
  OBVIOUS
<1>3. Goto(a, t) /\ db' = [db EXCEPT ![z] = row] /\ UNCHANGED <<pdns, tsig, intact>>
  BY <1>1, <1>2 DEF Store
<1>4. /\ task[a] \in TaskTypes /\ t \in TaskTypes /\ row \in RowTypes /\ db'[z] = row
      /\ \A x \in Zones : x # z => db'[x] = db[x]
  BY <1>3 DEF Goto, KeptInv, IntactInv, TypeInv, Tables
<1>5. /\ t.pc = pc /\ t.z = z /\ t.op = task[a].op /\ t.left = task[a].left
      /\ t.name = task[a].name /\ t.names = task[a].names /\ t.make = task[a].make
      /\ t.want = task[a].want /\ t.alone = task[a].alone
  BY <1>1, <1>4 DEF TaskTypes
<1>6. row.active = r.active /\ row.tsig = r.tsig /\ Stored(row) = Stored(r)
  BY <1>2 DEF RowTypes, Stored
<1>7. Keeping(t, task[a]) /\ Owned(t)
  BY <1>5 DEF Keeping, Owned, KeptInv, Chosen
<1>8. task[a].pc # "idle" /\ \A x \in Zones : Keeps(x, tsig, tsig')
  BY <1>3 DEF AtZone, Keeps
<1>9. ASSUME z \in intact \/ z \in task[a].alone
      PROVE  KeysHere(t, z, row, tsig, z \in intact) /\ InLine(t, z, row, pdns[z], z \in intact)
  <2>1. Here(task[a], z, db[z], pdns[z], z \in intact)
    BY <1>8, <1>9, HereHolds DEF KeptInv
  <2>2. z \in intact => t.op # "sync"
    BY <1>5, <2>1
  <2>3. KeysHere(task[a], z, db[z], tsig, z \in intact)
    BY <1>8, <1>9, KeptHere
  <2> QED
    BY <1>4, <1>5, <1>6, <2>1, <2>2, <2>3 DEF InLine
<1>10. t.op = "sync" => Stored(row) = Stored(db[z]) /\ row.active = db[z].active
  BY <1>5, <1>6 DEF Stored
<1> QED
  BY <1>3, <1>4, <1>6, <1>7, <1>8, <1>9, <1>10, KeysStay

\* One that stores other things than TSIG keys
LEMMA KeysStoreOther ==
  ASSUME KeptInv, IntactInv', NEW a \in Actors, NEW z \in Zones, task[a].z = z,
         task[a].pc \in {"store", "replace", "adoptedkey", "adoptedallow"},
         NEW r \in RowTypes, NEW pc \in {"stamp", "adoptkey", "reread", "adoptallow"},
         Store(a, r, pc), r.tsig = db[z].tsig, r.active = db[z].active,
         pc = "stamp" => task[a].pc = "store" /\ task[a].op \in Edits6 \ {"addkey", "delkey"}
  PROVE  KeptInv'
<1>1. /\ task[a].pc \in AtZone /\ pc \in AtZone \ {"remove", "unkey"} /\ Stored(r) = Stored(db[z])
      /\ Stored(db[z]) \subseteq NamesOf[z]
  BY DEF AtZone, Stored, KeptInv, Chosen
<1>2. z \in intact /\ Here(task[a], z, db[z], pdns[z], z \in intact) => task[a].op # "sync"
  BY SyncHere DEF BuiltTo
<1>3. ASSUME NEW t \in TaskTypes, NEW row \in RowTypes, t.pc = pc, t.op = task[a].op,
             t.name = task[a].name, t.names = task[a].names, t.want = task[a].want,
             row.active = r.active, row.tsig = r.tsig,
             Here(task[a], z, db[z], pdns[z], z \in intact),
             KeysHere(task[a], z, db[z], tsig, z \in intact)
      PROVE  KeysHere(t, z, row, tsig, z \in intact)
  <2>1. Stored(row) = Stored(db[z])
    BY <1>3 DEF Stored
  <2>2. Has(db[z], tsig, z) => Has(row, tsig, z)
    BY <2>1 DEF Has
  <2> QED
    BY <1>3, <2>1, <2>2 DEF KeysHere, Edits6
<1>4. \A t \in TaskTypes, row \in RowTypes :
        /\ t.pc = pc /\ t.op = task[a].op /\ t.name = task[a].name
        /\ t.names = task[a].names /\ t.make = task[a].make /\ t.want = task[a].want
        /\ row.active = r.active /\ row.tsig = r.tsig
        /\ Here(task[a], z, db[z], pdns[z], z \in intact)
        /\ KeysHere(task[a], z, db[z], tsig, z \in intact)
        => KeysHere(t, z, row, tsig, z \in intact)
  BY <1>3, Zenon
<1>5. Stored(r) \subseteq NamesOf[z]
  BY <1>1
<1> QED
  BY <1>1, <1>2, <1>4, <1>5, KeysStore

\* A call or a listing whose result is no name
LEMMA PlainPlaces ==
  ASSUME NEW t, NEW u, NEW z, NEW row, NEW ts, NEW in, t.op = u.op, t.want = u.want,
         t.pc \notin {"remaining", "names", "remove", "unkey", "active", "probe", "recreate"},
         in /\ t.op = "addkey" => t.pc # "store",
         t.op \in {"activate", "sync"} => t.pc \notin {"allow", "stamp"},
         KeysHere(u, z, row, ts, in)
  PROVE  KeysHere(t, z, row, ts, in)
BY DEF KeysHere

LEMMA PatchServedKeeps ==
  ASSUME KeptInv, IntactInv', NEW a \in Actors, PatchServed(a)
  PROVE  KeptInv'
<1>1. TypeInv /\ task[a].pc = "patch" /\ "patch" \in AtZone /\ "store" \in AtZone
  BY DEF KeptInv, IntactInv, PatchServed, At, AtZone
<1>2. PICK z \in Zones : task[a].z = z
  BY <1>1, Edits
<1>3. task[a] \in TaskTypes
  BY <1>1, Edits
<1>4. PICK t : t = [task[a] EXCEPT !.pc = "store"]
  OBVIOUS
<1>5. /\ t.pc = "store" /\ t.z = z /\ t.op = task[a].op /\ t.left = task[a].left
      /\ t.alone = task[a].alone /\ t.want = task[a].want /\ t.name = task[a].name
  BY <1>2, <1>3, <1>4 DEF TaskTypes
<1>6. PICK s : s = Patched(pdns[z], [pdns[z].rrs EXCEPT ![task[a].rr] = task[a].val])
  OBVIOUS
<1>7. Goto(a, t) /\ pdns' = [pdns EXCEPT ![z] = s] /\ UNCHANGED <<db, tsig, intact>>
  BY <1>2, <1>4, <1>6 DEF PatchServed, Serve, Served
<1>8. Keeping(t, task[a]) /\ Owned(t)
  BY <1>1, <1>2, <1>5 DEF Keeping, Owned, KeptInv, Chosen
<1>9. \A in \in BOOLEAN : in /\ Here(task[a], z, db[z], pdns[z], in) => task[a].op = "patch"
  BY <1>1 DEF Here, Edited, Patching, Allowing, Signing, Unsigning, AddingKey, DeletingKey,
     Deactivating, Leads, Built, BuiltTo, Adopting
<1>10. Carries(task[a], t, z, db[z], pdns[z], tsig)
  BY <1>5, <1>9, PlainPlaces DEF Carries
<1>11. ~BuiltTo(task[a], db[z], pdns[z])
  BY <1>1 DEF BuiltTo
<1> QED
  BY <1>1, <1>2, <1>5, <1>7, <1>8, <1>10, <1>11, KeysServe

LEMMA ApplyRrsetsKeeps ==
  ASSUME KeptInv, IntactInv', NEW a \in Actors, ApplyRrsets(a)
  PROVE  KeptInv'
<1>1. TypeInv /\ task[a].pc = "store" /\ task[a].op = "patch" /\ "store" \in AtZone
  BY DEF KeptInv, IntactInv, ApplyRrsets, At, AtZone
<1>2. PICK z \in Zones : task[a].z = z
  BY <1>1, Edits
<1>3. task[a] \in TaskTypes /\ db[z] \in RowTypes
  BY <1>1, <1>2, Edits
<1>4. PICK rrs : rrs = [db[z].rrs EXCEPT ![task[a].rr] = task[a].val]
  OBVIOUS
<1>5. rrs \in Records
  BY <1>3, <1>4 DEF TaskTypes, RowTypes, Records
<1>6. PICK r : r = [db[z] EXCEPT !.rrs = rrs]
  OBVIOUS
<1>7. r \in RowTypes /\ r.tsig = db[z].tsig /\ r.active = db[z].active
  BY <1>3, <1>5, <1>6 DEF RowTypes
<1>8. Store(a, r, "stamp")
  BY <1>2, <1>4, <1>6 DEF ApplyRrsets, Row
<1> QED
  BY <1>1, <1>2, <1>7, <1>8, KeysStoreOther DEF Edits6

LEMMA ServeAllowKeeps ==
  ASSUME KeptInv, IntactInv', NEW a \in Actors, ServeAllow(a)
  PROVE  KeptInv'
<1>1. TypeInv /\ task[a].pc = "allow" /\ {"allow", "store", "stamp"} \subseteq AtZone
  BY DEF KeptInv, IntactInv, ServeAllow, At, AtZone
<1>2. PICK z \in Zones : task[a].z = z
  BY <1>1, Edits
<1>3. task[a] \in TaskTypes /\ pdns[z] \in ZoneTypes
  BY <1>1, <1>2, Edits
<1>4. PICK t : t = [task[a] EXCEPT !.pc = IF task[a].op = "allow" THEN "store" ELSE "stamp"]
  OBVIOUS
<1>5. /\ t.pc = IF task[a].op = "allow" THEN "store" ELSE "stamp"
      /\ t.z = z /\ t.op = task[a].op /\ t.left = task[a].left /\ t.alone = task[a].alone
      /\ t.want = task[a].want /\ t.name = task[a].name
  BY <1>2, <1>3, <1>4 DEF TaskTypes
<1>6. Keeping(t, task[a]) /\ Owned(t)
  BY <1>1, <1>2, <1>5 DEF Keeping, Owned, KeptInv, Chosen
<1>7. Carries(task[a], t, z, db[z], pdns[z], tsig)
  BY <1>1, <1>5 DEF Carries, KeysHere
<1>8. CASE Serve(a, WithAllow(Served(a), task[a].allow), t)
  <2>1. PICK s : s = WithAllow(pdns[z], task[a].allow)
    OBVIOUS
  <2>2. /\ s.there = pdns[z].there /\ s.stamp = pdns[z].stamp /\ s.rrs = pdns[z].rrs
        /\ s.keys = pdns[z].keys /\ s.nsec3 = pdns[z].nsec3 /\ s.allow = task[a].allow
        /\ s.names = pdns[z].names
    BY <1>3, <2>1, ServedParts
  <2>3. Goto(a, t) /\ pdns' = [pdns EXCEPT ![z] = s] /\ UNCHANGED <<db, tsig, intact>>
    BY <1>2, <1>8, <2>1 DEF Serve, Served
  <2>4. (/\ t.op = "sync" /\ Mirror(db[z], pdns[z])
         /\ Based(task[a], db[z]) /\ BuiltTo(task[a], db[z], pdns[z])) => Mirror(db[z], s)
    <3>1. SUFFICES ASSUME Mirror(db[z], pdns[z]), Based(task[a], db[z])
                   PROVE  Mirror(db[z], s)
      OBVIOUS
    <3>2. Agree(db[z], pdns[z], {}) /\ task[a].allow = db[z].allow /\ db[z].active
      BY <3>1 DEF Mirror, Based
    <3>3. Agree(db[z], s, {})
      BY <2>2, <3>2 DEF Agree
    <3> QED
      BY <3>2, <3>3 DEF Mirror
  <2> QED
    BY <1>1, <1>2, <1>6, <1>7, <2>3, <2>4, KeysServe
<1>9. CASE Goto(a, t) /\ UNCHANGED <<db, pdns, tsig, mode, intact>>
  BY <1>1, <1>2, <1>6, <1>7, <1>9, KeysQuiet
<1> QED
  BY <1>4, <1>8, <1>9 DEF ServeAllow

LEMMA StoreAllowKeeps ==
  ASSUME KeptInv, IntactInv', NEW a \in Actors, StoreAllow(a) \/ StoreKey(a)
  PROVE  KeptInv'
<1>1. /\ TypeInv /\ task[a].pc = "store" /\ task[a].op \in {"allow", "sign", "unsign"}
      /\ "store" \in AtZone
  BY DEF KeptInv, IntactInv, StoreAllow, StoreKey, At, AtZone
<1>2. PICK z \in Zones : task[a].z = z
  BY <1>1, Edits
<1>3. task[a] \in TaskTypes /\ db[z] \in RowTypes
  BY <1>1, <1>2, Edits
<1>4. CASE StoreAllow(a)
  <2>1. PICK r : r = [db[z] EXCEPT !.allow = task[a].allow]
    OBVIOUS
  <2>2. r \in RowTypes /\ r.tsig = db[z].tsig /\ r.active = db[z].active
    BY <1>3, <2>1 DEF RowTypes, TaskTypes
  <2>3. Store(a, r, "stamp")
    BY <1>2, <1>4, <2>1 DEF StoreAllow, Row
  <2> QED
    BY <1>1, <1>2, <2>2, <2>3, KeysStoreOther DEF Edits6
<1>5. CASE StoreKey(a)
  <2>1. PICK r : r = [db[z] EXCEPT !.key = task[a].key, !.nsec3 = task[a].nsec3]
    OBVIOUS
  <2>2. r \in RowTypes /\ r.tsig = db[z].tsig /\ r.active = db[z].active
    BY <1>3, <2>1 DEF RowTypes, TaskTypes
  <2>3. Store(a, r, "stamp")
    BY <1>2, <1>5, <2>1 DEF StoreKey, Row
  <2> QED
    BY <1>1, <1>2, <2>2, <2>3, KeysStoreOther DEF Edits6
<1> QED
  BY <1>4, <1>5

LEMMA ListKeysKeeps ==
  ASSUME KeptInv, IntactInv', NEW a \in Actors, ListKeys(a)
  PROVE  KeptInv'
<1>1. /\ TypeInv /\ task[a].pc = "keys" /\ {"keys", "add", "drop", "nsec3"} \subseteq AtZone
      /\ UNCHANGED <<db, pdns, tsig, intact>>
  BY DEF KeptInv, IntactInv, ListKeys, At, AtZone
<1>2. PICK z \in Zones : task[a].z = z
  BY <1>1, Edits
<1>3. task[a] \in TaskTypes
  BY <1>1, Edits
<1>4. PICK t : /\ Goto(a, t) /\ t.pc \in {"add", "drop", "nsec3"}
               /\ t.z = z /\ t.op = task[a].op /\ t.left = task[a].left
               /\ t.alone = task[a].alone /\ t.want = task[a].want /\ t.name = task[a].name
  <2>1. CASE \E k \in pdns[z].keys : Goto(a, [task[a] EXCEPT !.pc = "nsec3", !.key = k])
    <3>1. PICK k \in pdns[z].keys : Goto(a, [task[a] EXCEPT !.pc = "nsec3", !.key = k])
      BY <2>1
    <3>2. PICK u : u = [task[a] EXCEPT !.pc = "nsec3", !.key = k]
      OBVIOUS
    <3>3. /\ u.pc = "nsec3" /\ u.z = z /\ u.op = task[a].op /\ u.left = task[a].left
          /\ u.alone = task[a].alone /\ u.want = task[a].want /\ u.name = task[a].name
      BY <1>2, <1>3, <3>2 DEF TaskTypes
    <3> QED
      BY <3>1, <3>2, <3>3
  <2>2. CASE To(a, "add")
    <3>1. PICK u : u = [task[a] EXCEPT !.pc = "add"]
      OBVIOUS
    <3>2. /\ u.pc = "add" /\ u.z = z /\ u.op = task[a].op /\ u.left = task[a].left
          /\ u.alone = task[a].alone /\ u.want = task[a].want /\ u.name = task[a].name
      BY <1>2, <1>3, <3>1 DEF TaskTypes
    <3> QED
      BY <2>2, <3>1, <3>2 DEF To
  <2>3. CASE \E pc \in {"nsec3", "drop"} : \E keys : Goto(a, [task[a] EXCEPT !.pc = pc, !.keys = keys])
    <3>0. PICK pc \in {"nsec3", "drop"} :
            \E keys : Goto(a, [task[a] EXCEPT !.pc = pc, !.keys = keys])
      BY <2>3
    <3>1. PICK keys : Goto(a, [task[a] EXCEPT !.pc = pc, !.keys = keys])
      BY <3>0
    <3>2. PICK u : u = [task[a] EXCEPT !.pc = pc, !.keys = keys]
      OBVIOUS
    <3>3. /\ u.pc = pc /\ u.z = z /\ u.op = task[a].op /\ u.left = task[a].left
          /\ u.alone = task[a].alone /\ u.want = task[a].want /\ u.name = task[a].name
      BY <1>2, <1>3, <3>2 DEF TaskTypes
    <3> QED
      BY <3>1, <3>2, <3>3
  <2> QED
    BY <1>2, <2>1, <2>2, <2>3 DEF ListKeys
<1>5. Keeping(t, task[a]) /\ Owned(t)
  BY <1>1, <1>2, <1>4 DEF Keeping, Owned, KeptInv, Chosen
<1>6. Carries(task[a], t, z, db[z], pdns[z], tsig)
  BY <1>4, PlainPlaces DEF Carries
<1> QED
  BY <1>1, <1>2, <1>4, <1>5, <1>6, KeysQuiet

LEMMA AddKeyKeeps ==
  ASSUME KeptInv, IntactInv', NEW a \in Actors, AddKey(a)
  PROVE  KeptInv'
<1>1. TypeInv /\ task[a].pc = "add" /\ {"add", "nsec3"} \subseteq AtZone
  BY DEF KeptInv, IntactInv, AddKey, At, AtZone
<1>2. PICK z \in Zones : task[a].z = z
  BY <1>1, Edits
<1>3. task[a] \in TaskTypes
  BY <1>1, Edits
<1>4. PICK t : t = [task[a] EXCEPT !.pc = "nsec3", !.key = NewKey]
  OBVIOUS
<1>5. /\ t.pc = "nsec3" /\ t.z = z /\ t.op = task[a].op /\ t.left = task[a].left
      /\ t.alone = task[a].alone /\ t.want = task[a].want /\ t.name = task[a].name
  BY <1>2, <1>3, <1>4 DEF TaskTypes
<1>6. PICK s : s = WithKey(pdns[z], NewKey)
  OBVIOUS
<1>7. Goto(a, t) /\ pdns' = [pdns EXCEPT ![z] = s] /\ UNCHANGED <<db, tsig, intact>>
  BY <1>1, <1>2, <1>4, <1>6 DEF AddKey, TypeInv, Tables
<1>8. Keeping(t, task[a]) /\ Owned(t)
  BY <1>1, <1>2, <1>5 DEF Keeping, Owned, KeptInv, Chosen
<1>9. Carries(task[a], t, z, db[z], pdns[z], tsig)
  BY <1>5, PlainPlaces DEF Carries
<1>10. ~BuiltTo(task[a], db[z], pdns[z])
  BY <1>1 DEF BuiltTo
<1> QED
  BY <1>1, <1>2, <1>7, <1>8, <1>9, <1>10, KeysServe

LEMMA ServeNsec3Keeps ==
  ASSUME KeptInv, IntactInv', NEW a \in Actors, ServeNsec3(a)
  PROVE  KeptInv'
<1>1. TypeInv /\ task[a].pc = "nsec3" /\ {"nsec3", "fetch", "store"} \subseteq AtZone
  BY DEF KeptInv, IntactInv, ServeNsec3, At, AtZone
<1>2. PICK z \in Zones : task[a].z = z
  BY <1>1, Edits
<1>3. task[a] \in TaskTypes
  BY <1>1, Edits
<1>4. PICK t : t = [task[a] EXCEPT !.pc = IF task[a].op = "sign" THEN "fetch" ELSE "store"]
  OBVIOUS
<1>5. /\ t.pc \in {"fetch", "store"} /\ t.z = z /\ t.op = task[a].op
      /\ t.left = task[a].left /\ t.alone = task[a].alone /\ t.want = task[a].want
      /\ t.name = task[a].name
  BY <1>2, <1>3, <1>4 DEF TaskTypes
<1>6. PICK s : s = WithMode(pdns[z], task[a].nsec3)
  OBVIOUS
<1>7. Goto(a, t) /\ pdns' = [pdns EXCEPT ![z] = s] /\ UNCHANGED <<db, tsig, intact>>
  BY <1>2, <1>4, <1>6 DEF ServeNsec3, Serve, Served
<1>8. Keeping(t, task[a]) /\ Owned(t)
  BY <1>1, <1>2, <1>5 DEF Keeping, Owned, KeptInv, Chosen
<1>9. \A in \in BOOLEAN : in /\ Here(task[a], z, db[z], pdns[z], in) => task[a].op # "addkey"
  BY <1>1 DEF Here, Edited, AddingKey, Edits6
<1>10. Carries(task[a], t, z, db[z], pdns[z], tsig)
  BY <1>5, <1>9, PlainPlaces DEF Carries
<1>11. ~BuiltTo(task[a], db[z], pdns[z])
  BY <1>1 DEF BuiltTo
<1> QED
  BY <1>1, <1>2, <1>7, <1>8, <1>10, <1>11, KeysServe

LEMMA FetchKeyKeeps ==
  ASSUME KeptInv, IntactInv', NEW a \in Actors, FetchKey(a)
  PROVE  KeptInv'
<1>1. /\ TypeInv /\ task[a].pc = "fetch" /\ {"fetch", "store"} \subseteq AtZone
      /\ UNCHANGED <<db, pdns, tsig, intact>>
  BY DEF KeptInv, IntactInv, FetchKey, At, AtZone
<1>2. PICK z \in Zones : task[a].z = z
  BY <1>1, Edits
<1>3. task[a] \in TaskTypes
  BY <1>1, Edits
<1>4. PICK t : t = [task[a] EXCEPT !.pc = "store"]
  OBVIOUS
<1>5. /\ t.pc = "store" /\ t.z = z /\ t.op = task[a].op /\ t.left = task[a].left
      /\ t.alone = task[a].alone /\ t.want = task[a].want /\ t.name = task[a].name
  BY <1>2, <1>3, <1>4 DEF TaskTypes
<1>6. Goto(a, t) /\ Keeping(t, task[a]) /\ Owned(t)
  BY <1>1, <1>2, <1>4, <1>5 DEF FetchKey, To, Keeping, Owned, KeptInv, Chosen
<1>7. \A in \in BOOLEAN : in /\ Here(task[a], z, db[z], pdns[z], in) => task[a].op # "addkey"
  BY <1>1 DEF Here, Edited, AddingKey, Edits6
<1>8. Carries(task[a], t, z, db[z], pdns[z], tsig)
  BY <1>5, <1>7, PlainPlaces DEF Carries
<1> QED
  BY <1>1, <1>2, <1>6, <1>8, KeysQuiet

LEMMA CreateTsigKeeps ==
  ASSUME KeptInv, IntactInv', NEW a \in Actors, CreateTsig(a)
  PROVE  KeptInv'
<1>1. /\ TypeInv /\ task[a].pc = "create" /\ {"create", "store"} \subseteq AtZone
      /\ NewSecret # 0 /\ UNCHANGED <<db, pdns, intact>>
  BY NewKeyTypes DEF KeptInv, IntactInv, CreateTsig, At, AtZone
<1>2. PICK z \in Zones : task[a].z = z
  BY <1>1, Edits
<1>3. task[a] \in TaskTypes /\ task[a].name \in KeyNames
  BY <1>1, Edits DEF TypeInv, Fits
<1>4. PICK t : t = [task[a] EXCEPT !.pc = "store", !.key = NewSecret]
  OBVIOUS
<1>5. /\ t.pc = "store" /\ t.z = z /\ t.op = task[a].op /\ t.left = task[a].left
      /\ t.alone = task[a].alone /\ t.want = task[a].want /\ t.name = task[a].name
  BY <1>2, <1>3, <1>4 DEF TaskTypes
<1>6. Goto(a, t) /\ Keeping(t, task[a]) /\ Owned(t)
  BY <1>1, <1>2, <1>4, <1>5 DEF CreateTsig, Keeping, Owned, KeptInv, Chosen
<1>7. /\ tsig' = [tsig EXCEPT ![task[a].name] = NewSecret]
      /\ tsig \in [KeyNames -> Keys]
  BY <1>1 DEF CreateTsig, WithTsig, TypeInv, Tables, Names
<1>8. tsig'[task[a].name] # 0 /\ \A n \in KeyNames : tsig[n] # 0 => tsig'[n] # 0
  BY <1>1, <1>3, <1>7
<1>9. \A x \in Zones : Keeps(x, tsig, tsig')
  BY <1>8 DEF Keeps
<1>10. ASSUME z \in intact \/ z \in task[a].alone
       PROVE  KeysHere(t, z, db[z], tsig', z \in intact)
  <2>1. PICK in : in = (z \in intact)
    OBVIOUS
  <2>2. KeysHere(task[a], z, db[z], tsig, in)
    BY <1>1, <1>2, <1>10, <2>1, KeptHere
  <2>3. Has(db[z], tsig, z) => Has(db[z], tsig', z)
    BY <1>9, HasKept
  <2>4. KeysHere(t, z, db[z], tsig', in)
    BY <1>5, <1>8, <2>2, <2>3 DEF KeysHere
  <2> QED
    BY <2>1, <2>4
<1>11. InLine(t, z, db'[z], pdns'[z], z \in intact)
  BY <1>1, <1>2, <1>5 DEF InLine, KeptInv, Local
<1>12. Stored(db'[z]) \subseteq NamesOf[z] /\ db' = db /\ pdns' = pdns
  BY <1>1 DEF KeptInv, Chosen
<1> QED
  BY <1>1, <1>2, <1>6, <1>9, <1>10, <1>11, <1>12, KeysStay

LEMMA NameTakenKeeps ==
  ASSUME KeptInv, IntactInv', NEW a \in Actors, NameTaken(a)
  PROVE  KeptInv'
<1>1. /\ TypeInv /\ task[a].pc = "create" /\ "create" \in AtZone /\ task[a].pc # "idle"
      /\ UNCHANGED <<db, pdns, tsig, mode, intact>> /\ Goto(a, Idle)
  BY DEF KeptInv, IntactInv, NameTaken, At, AtZone
<1>2. PICK z \in Zones : task[a].z = z
  BY <1>1, Edits
<1>3. ASSUME z \in intact
      PROVE  Has(db[z], tsig, z)
  <2>1. PICK in : in = (z \in intact)
    OBVIOUS
  <2>2. Here(task[a], z, db[z], pdns[z], in) /\ KeysHere(task[a], z, db[z], tsig, in)
    BY <1>1, <1>2, <1>3, <2>1, HereHolds, KeptHere DEF KeptInv
  <2>3. task[a].op = "addkey"
    BY <1>1, <1>3, <2>1, <2>2 DEF Here, Edited, Patching, Allowing, Signing, Unsigning,
       DeletingKey, Deactivating, Leads, Built, BuiltTo, Adopting
  <2> QED
    BY <1>3, <2>1, <2>2, <2>3 DEF KeysHere, Edits6
<1>4. \A x \in Zones : Stored(db'[x]) \subseteq NamesOf[x]
  BY <1>1 DEF KeptInv, Chosen
<1> QED
  BY <1>1, <1>2, <1>3, <1>4, KeysEnd

LEMMA StoreTsigKeeps ==
  ASSUME KeptInv, IntactInv', NEW a \in Actors, StoreTsig(a)
  PROVE  KeptInv'
<1>1. /\ TypeInv /\ task[a].pc = "store" /\ task[a].op = "addkey"
      /\ "store" \in AtZone /\ "names" \in AtZone \ {"remove", "unkey"}
  BY DEF KeptInv, IntactInv, StoreTsig, At, AtZone
<1>2. PICK z \in Zones : task[a].z = z
  BY <1>1, Edits
<1>3. /\ task[a] \in TaskTypes /\ db[z] \in RowTypes
      /\ task[a].name \in KeyNames /\ task[a].key \in Keys
  BY <1>1, <1>2, Edits, Named DEF TaskTypes
<1>4. PICK r : r = [db[z] EXCEPT !.tsig[task[a].name] = task[a].key]
  OBVIOUS
<1>5. r \in RowTypes
  BY <1>3, <1>4, TsigRow
<1>6. r.active = db[z].active /\ r.tsig = [db[z].tsig EXCEPT ![task[a].name] = task[a].key]
  BY <1>3, <1>4 DEF RowTypes
<1>7. Store(a, r, "names")
  BY <1>2, <1>4 DEF StoreTsig, Row
<1>8. Stored(r) \subseteq Stored(db[z]) \cup {task[a].name}
  BY <1>3, <1>6 DEF Stored, RowTypes, Names
<1>9. task[a].name \in NamesOf[z] /\ Stored(db[z]) \subseteq NamesOf[z]
  BY <1>1, <1>2 DEF KeptInv, Chosen, Owned
<1>10. ASSUME NEW t \in TaskTypes, NEW row \in RowTypes, t.pc = "names", t.op = task[a].op,
              row.active = r.active, row.tsig = r.tsig,
              KeysHere(task[a], z, db[z], tsig, z \in intact)
       PROVE  KeysHere(t, z, row, tsig, z \in intact)
  <2>1. PICK in : in = (z \in intact)
    OBVIOUS
  <2>2. KeysHere(task[a], z, db[z], tsig, in)
    BY <1>10, <2>1
  <2>3. Stored(row) \subseteq Stored(db[z]) \cup {task[a].name}
    BY <1>8, <1>10 DEF Stored
  <2>4. in => Has(db[z], tsig, z) /\ (tsig[task[a].name] # 0 \/ Shared(z, task[a].name))
    BY <1>1, <2>2 DEF KeysHere, Edits6
  <2>5. in => Has(row, tsig, z)
    BY <2>3, <2>4 DEF Has
  <2>6. KeysHere(t, z, row, tsig, in)
    BY <1>1, <1>10, <2>5 DEF KeysHere
  <2> QED
    BY <2>1, <2>6
<1>11. \A t \in TaskTypes, row \in RowTypes :
        /\ t.pc = "names" /\ t.op = task[a].op /\ t.name = task[a].name
        /\ t.names = task[a].names /\ t.make = task[a].make /\ t.want = task[a].want
        /\ row.active = r.active /\ row.tsig = r.tsig
        /\ Here(task[a], z, db[z], pdns[z], z \in intact)
        /\ KeysHere(task[a], z, db[z], tsig, z \in intact)
        => KeysHere(t, z, row, tsig, z \in intact)
  BY <1>10
<1>12. Stored(r) \subseteq NamesOf[z] /\ task[a].op # "sync"
  BY <1>1, <1>8, <1>9
<1> QED
  BY <1>1, <1>2, <1>5, <1>6, <1>7, <1>11, <1>12, KeysStore

LEMMA DeleteTsigRowKeeps ==
  ASSUME KeptInv, IntactInv', NEW a \in Actors, DeleteTsigRow(a)
  PROVE  KeptInv'
<1>1. /\ TypeInv /\ task[a].pc = "store" /\ task[a].op = "delkey"
      /\ "store" \in AtZone /\ "remaining" \in AtZone \ {"remove", "unkey"}
  BY DEF KeptInv, IntactInv, DeleteTsigRow, At, AtZone
<1>2. PICK z \in Zones : task[a].z = z
  BY <1>1, Edits
<1>3. /\ task[a] \in TaskTypes /\ db[z] \in RowTypes
      /\ task[a].name \in KeyNames /\ 0 \in Keys
  BY <1>1, <1>2, Edits, Named, Constants
<1>4. PICK r : r = [db[z] EXCEPT !.tsig[task[a].name] = 0]
  OBVIOUS
<1>5. r \in RowTypes
  BY <1>3, <1>4, TsigRow
<1>6. r.active = db[z].active /\ r.tsig = [db[z].tsig EXCEPT ![task[a].name] = 0]
  BY <1>3, <1>4 DEF RowTypes
<1>7. Store(a, r, "remaining")
  BY <1>2, <1>4 DEF DeleteTsigRow, Row
<1>8. Stored(r) = Stored(db[z]) \ {task[a].name}
  BY <1>3, <1>6 DEF Stored, RowTypes, Names
<1>9. Stored(db[z]) \subseteq NamesOf[z]
  BY DEF KeptInv, Chosen
<1>10. ASSUME NEW t \in TaskTypes, NEW row \in RowTypes, t.pc = "remaining", t.op = task[a].op,
              t.name = task[a].name, row.active = r.active, row.tsig = r.tsig,
              KeysHere(task[a], z, db[z], tsig, z \in intact)
       PROVE  KeysHere(t, z, row, tsig, z \in intact)
  <2>1. PICK in : in = (z \in intact)
    OBVIOUS
  <2>2. KeysHere(task[a], z, db[z], tsig, in)
    BY <1>10, <2>1
  <2>3. Stored(row) = Stored(db[z]) \ {task[a].name}
    BY <1>8, <1>10 DEF Stored
  <2>4. in => Has(row, tsig, z)
    BY <1>1, <2>2, <2>3 DEF KeysHere, Has, Edits6
  <2>5. KeysHere(t, z, row, tsig, in)
    BY <1>1, <1>10, <2>3, <2>4 DEF KeysHere
  <2> QED
    BY <2>1, <2>5
<1>11. \A t \in TaskTypes, row \in RowTypes :
        /\ t.pc = "remaining" /\ t.op = task[a].op /\ t.name = task[a].name
        /\ t.names = task[a].names /\ t.make = task[a].make /\ t.want = task[a].want
        /\ row.active = r.active /\ row.tsig = r.tsig
        /\ Here(task[a], z, db[z], pdns[z], z \in intact)
        /\ KeysHere(task[a], z, db[z], tsig, z \in intact)
        => KeysHere(t, z, row, tsig, z \in intact)
  BY <1>10
<1>12. Stored(r) \subseteq NamesOf[z] /\ task[a].op # "sync"
  BY <1>1, <1>8, <1>9
<1> QED
  BY <1>1, <1>2, <1>5, <1>6, <1>7, <1>11, <1>12, KeysStore

LEMMA ReadNamesKeeps ==
  ASSUME KeptInv, IntactInv', NEW a \in Actors, ReadNames(a)
  PROVE  KeptInv'
<1>1. /\ TypeInv /\ task[a].pc \in {"remaining", "rows"}
      /\ {"remaining", "rows", "names", "remove"} \subseteq AtZone
      /\ UNCHANGED <<db, pdns, tsig, intact>>
  BY DEF KeptInv, IntactInv, ReadNames, AtZone
<1>2. PICK z \in Zones : task[a].z = z
  BY <1>1, Edits
<1>3. task[a] \in TaskTypes
  BY <1>1, Edits
<1>4. PICK t : t = [task[a] EXCEPT !.pc = IF @ = "rows" THEN "remove" ELSE "names",
                                   !.names = Stored(db[z])]
  OBVIOUS
<1>5. /\ t.pc = IF task[a].pc = "rows" THEN "remove" ELSE "names"
      /\ t.names = Stored(db[z]) /\ t.z = z /\ t.op = task[a].op /\ t.left = task[a].left
      /\ t.alone = task[a].alone /\ t.want = task[a].want /\ t.name = task[a].name
  BY <1>2, <1>3, <1>4 DEF TaskTypes
<1>6. Goto(a, t) /\ Keeping(t, task[a]) /\ Owned(t)
  BY <1>1, <1>2, <1>4, <1>5 DEF ReadNames, Row, Keeping, Owned, KeptInv, Chosen
<1>7. \A in \in BOOLEAN : Here(task[a], z, db[z], pdns[z], in) =>
        /\ task[a].op \notin {"activate", "sync"}
        /\ in /\ task[a].pc = "rows" => task[a].op # "delkey"
  BY <1>1 DEF Here, Edited, Patching, Allowing, Signing, Unsigning, AddingKey, DeletingKey,
     Deactivating, Leads, Built, BuiltTo, Adopting
<1>8. Carries(task[a], t, z, db[z], pdns[z], tsig)
  BY <1>1, <1>5, <1>7 DEF Carries, KeysHere
<1> QED
  BY <1>1, <1>2, <1>6, <1>8, KeysQuiet

LEMMA ServeNamesKeeps ==
  ASSUME KeptInv, IntactInv', NEW a \in Actors, ServeNames(a)
  PROVE  KeptInv'
<1>1. /\ TypeInv /\ task[a].pc = "names"
      /\ {"names", "stamp", "remove", "allow"} \subseteq AtZone
  BY DEF KeptInv, IntactInv, ServeNames, At, AtZone
<1>2. PICK z \in Zones : task[a].z = z
  BY <1>1, Edits
<1>3. task[a] \in TaskTypes /\ pdns[z] \in ZoneTypes
  BY <1>1, <1>2, Edits
<1>4. PICK t : t = AfterNames(task[a])
  OBVIOUS
<1>5. /\ t.pc = IF task[a].op = "addkey" THEN "stamp"
                ELSE IF task[a].op = "delkey" THEN "remove" ELSE "allow"
      /\ t.z = z /\ t.op = task[a].op /\ t.left = task[a].left /\ t.alone = task[a].alone
      /\ t.want = task[a].want /\ t.name = task[a].name
      /\ t.op = "delkey" => t.names = {t.name}
  <2>1. CASE task[a].op = "addkey"
    <3>1. t = [task[a] EXCEPT !.pc = "stamp", !.names = {}]
      BY <1>4, <2>1 DEF AfterNames
    <3> QED
      BY <1>2, <1>3, <2>1, <3>1 DEF TaskTypes
  <2>2. CASE task[a].op = "delkey"
    <3>1. t = [task[a] EXCEPT !.pc = "remove", !.names = {task[a].name}]
      BY <1>4, <2>2 DEF AfterNames
    <3> QED
      BY <1>2, <1>3, <2>2, <3>1 DEF TaskTypes
  <2>3. CASE task[a].op \notin {"addkey", "delkey"}
    <3>1. t = [task[a] EXCEPT !.pc = "allow", !.names = {}]
      BY <1>4, <2>3 DEF AfterNames
    <3> QED
      BY <1>2, <1>3, <2>3, <3>1 DEF TaskTypes
  <2> QED
    BY <2>1, <2>2, <2>3
<1>6. Keeping(t, task[a]) /\ Owned(t)
  BY <1>1, <1>2, <1>5 DEF Keeping, Owned, KeptInv, Chosen
<1>7. Carries(task[a], t, z, db[z], pdns[z], tsig)
  BY <1>1, <1>5 DEF Carries, KeysHere
<1>8. CASE Serve(a, WithNames(Served(a), task[a].names), t)
  <2>1. PICK s : s = WithNames(pdns[z], task[a].names)
    OBVIOUS
  <2>2. /\ s.there = pdns[z].there /\ s.stamp = pdns[z].stamp /\ s.rrs = pdns[z].rrs
        /\ s.keys = pdns[z].keys /\ s.nsec3 = pdns[z].nsec3 /\ s.allow = pdns[z].allow
        /\ s.names = task[a].names
    BY <1>3, <2>1, ServedParts
  <2>3. Goto(a, t) /\ pdns' = [pdns EXCEPT ![z] = s] /\ UNCHANGED <<db, tsig, intact>>
    BY <1>2, <1>8, <2>1 DEF Serve, Served
  <2>4. (/\ t.op = "sync" /\ Mirror(db[z], pdns[z])
         /\ Based(task[a], db[z]) /\ BuiltTo(task[a], db[z], pdns[z])) => Mirror(db[z], s)
    <3>1. SUFFICES ASSUME Mirror(db[z], pdns[z]), Based(task[a], db[z]),
                          BuiltTo(task[a], db[z], pdns[z])
                   PROVE  Mirror(db[z], s)
      OBVIOUS
    <3>2. Agree(db[z], pdns[z], {}) /\ task[a].names = Stored(db[z]) /\ db[z].active
      BY <1>1, <3>1 DEF Mirror, Based, BuiltTo
    <3>3. Agree(db[z], s, {})
      BY <2>2, <3>2 DEF Agree
    <3> QED
      BY <3>2, <3>3 DEF Mirror
  <2> QED
    BY <1>1, <1>2, <1>6, <1>7, <2>3, <2>4, KeysServe
<1>9. CASE Goto(a, t) /\ UNCHANGED <<db, pdns, tsig, mode, intact>>
  BY <1>1, <1>2, <1>6, <1>7, <1>9, KeysQuiet
<1> QED
  BY <1>4, <1>8, <1>9 DEF ServeNames

\* What a task removes are names its own zone's owner chose.
LEMMA RemovingKeeps ==
  ASSUME KeptInv, IntactInv', NEW a \in Actors, task[a].pc \in {"remove", "unkey"},
         NEW names, names \subseteq task[a].names,
         Goto(a, Removing([task[a] EXCEPT !.names = names])),
         UNCHANGED <<db, pdns, intact>>,
         \A n \in KeyNames : n \notin task[a].names => tsig'[n] = tsig[n]
  PROVE  KeptInv'
<1>1. TypeInv /\ {"remove", "unkey", "stamp", "inactive"} \subseteq AtZone
  BY DEF KeptInv, IntactInv, AtZone
<1>2. PICK z \in Zones : task[a].z = z
  BY <1>1, Edits
<1>3. PICK t : t = Removing([task[a] EXCEPT !.names = names])
  OBVIOUS
<1>4. /\ t.pc \in {"unkey", "stamp", "inactive"}
      /\ t.pc = "stamp" => t.op = "delkey"
      /\ t.names = names /\ t.z = z /\ t.op = task[a].op /\ t.left = task[a].left
      /\ t.alone = task[a].alone /\ t.want = task[a].want /\ t.name = task[a].name
  BY <1>1, <1>2, <1>3, RemovingParts
<1>5. task[a].names \subseteq NamesOf[z]
  BY <1>2 DEF KeptInv, Chosen, Owned
<1>6. Goto(a, t) /\ Keeping(t, task[a]) /\ Owned(t)
  BY <1>1, <1>2, <1>3, <1>4, <1>5 DEF Keeping, Owned, KeptInv, Chosen
<1>7. ASSUME NEW x \in Zones, x # z
      PROVE  Keeps(x, tsig, tsig')
  BY <1>5, <1>7 DEF Keeps, Shared
<1>8. ASSUME z \in intact \/ z \in task[a].alone
      PROVE  KeysHere(t, z, db[z], tsig', z \in intact)
  <2>1. PICK in : in = (z \in intact)
    OBVIOUS
  <2>2. Here(task[a], z, db[z], pdns[z], in) /\ KeysHere(task[a], z, db[z], tsig, in)
    BY <1>1, <1>2, <1>8, <2>1, HereHolds, KeptHere DEF KeptInv
  <2>3. /\ task[a].op \notin {"activate", "sync"}
        /\ in => task[a].op \in {"delkey", "deactivate"}
    BY <2>2 DEF Here, Edited, Patching, Allowing, Signing, Unsigning, AddingKey,
       Deactivating, Leads, Built, BuiltTo, Adopting
  <2>4. in /\ task[a].op = "delkey" =>
          Has(db[z], tsig', z) /\ task[a].names \subseteq {task[a].name}
    <3>1. SUFFICES ASSUME in, task[a].op = "delkey"
                   PROVE  Has(db[z], tsig', z) /\ task[a].names \subseteq {task[a].name}
      OBVIOUS
    <3>2. /\ Has(db[z], tsig, z) /\ task[a].names \subseteq {task[a].name}
          /\ task[a].name \notin Stored(db[z])
      BY <2>2, <3>1 DEF KeysHere, Edits6
    <3> QED
      BY <3>2 DEF Has, Stored
  <2>5. KeysHere(t, z, db[z], tsig', in)
    BY <1>4, <2>2, <2>3, <2>4 DEF KeysHere, Edits6
  <2> QED
    BY <2>1, <2>5
<1>9. InLine(t, z, db'[z], pdns'[z], z \in intact)
  BY <1>1, <1>2, <1>4 DEF InLine, KeptInv, Local
<1>10. Stored(db'[z]) \subseteq NamesOf[z] /\ db' = db /\ pdns' = pdns
  BY DEF KeptInv, Chosen
<1> QED
  BY <1>1, <1>2, <1>6, <1>7, <1>8, <1>9, <1>10, KeysStay

LEMMA ListTsigKeeps ==
  ASSUME KeptInv, IntactInv', NEW a \in Actors, ListTsig(a)
  PROVE  KeptInv'
<1>1. /\ task[a].pc = "remove" /\ UNCHANGED <<db, pdns, tsig, intact>>
      /\ Goto(a, Removing([task[a] EXCEPT !.names = @ \cap TsigNames]))
  BY DEF ListTsig, At
<1> QED
  BY <1>1, RemovingKeeps

LEMMA RemoveTsigKeeps ==
  ASSUME KeptInv, IntactInv', NEW a \in Actors, NEW n \in KeyNames, RemoveTsig(a, n)
  PROVE  KeptInv'
<1>1. /\ task[a].pc = "unkey" /\ UNCHANGED <<db, pdns, intact>> /\ n \in task[a].names
      /\ Goto(a, Removing([task[a] EXCEPT !.names = @ \ {n}]))
      /\ tsig' = [m \in KeyNames |-> IF m \in {n} THEN 0 ELSE tsig[m]]
  BY DEF RemoveTsig, At, WithoutTsig
<1>2. \A m \in KeyNames : m \notin task[a].names => tsig'[m] = tsig[m]
  BY <1>1
<1> QED
  BY <1>1, <1>2, RemovingKeeps

LEMMA ActivateRowKeeps ==
  ASSUME KeptInv, IntactInv', NEW a \in Actors, ActivateRow(a)
  PROVE  KeptInv'
<1>1. /\ TypeInv /\ task[a].pc = "active" /\ task[a].op # "sync"
      /\ {"active", "probe", "look"} \subseteq AtZone /\ UNCHANGED <<pdns, tsig, intact>>
  BY DEF KeptInv, IntactInv, ActivateRow, At, AtZone, Walks
<1>2. PICK z \in Zones : task[a].z = z
  BY <1>1, Edits
<1>3. task[a] \in TaskTypes /\ db[z] \in RowTypes
  BY <1>1, <1>2, Edits
<1>4. PICK ver : ver = IF db[z].active THEN db[z].ver ELSE db[z].ver + 1
  OBVIOUS
<1>5. PICK r : r = [db[z] EXCEPT !.active = TRUE, !.ver = ver]
  OBVIOUS
<1>6. r.active = TRUE /\ r.tsig = db[z].tsig /\ Stored(r) = Stored(db[z])
  BY <1>3, <1>5 DEF RowTypes, Stored
<1>7. PICK t : t = [task[a] EXCEPT !.pc = IF task[a].rows[z].active THEN "probe" ELSE "look",
                                   !.ver = ver, !.allow = db[z].allow, !.rows = NoRows]
  OBVIOUS
<1>8. /\ t.pc = IF task[a].rows[z].active THEN "probe" ELSE "look"
      /\ t.z = z /\ t.op = task[a].op /\ t.left = task[a].left /\ t.alone = task[a].alone
      /\ t.want = task[a].want /\ t.name = task[a].name
  BY <1>2, <1>3, <1>7 DEF TaskTypes
<1>9. db'[z] = r /\ \A x \in Zones : x # z => db'[x] = db[x]
  <2>1. db' = [db EXCEPT ![z].active = TRUE, ![z].ver = ver]
    BY <1>2, <1>4 DEF ActivateRow, Row
  <2>2. db \in [Zones -> RowTypes]
    BY <1>1 DEF TypeInv, Tables
  <2> QED
    BY <1>3, <1>5, <2>1, <2>2 DEF RowTypes
<1>10. Goto(a, t) /\ Keeping(t, task[a]) /\ Owned(t)
  BY <1>1, <1>2, <1>4, <1>7, <1>8 DEF ActivateRow, Row, Keeping, Owned, KeptInv, Chosen
<1>11. ASSUME z \in intact \/ z \in task[a].alone
       PROVE  KeysHere(t, z, r, tsig, z \in intact)
  <2>1. PICK in : in = (z \in intact)
    OBVIOUS
  <2>2. Here(task[a], z, db[z], pdns[z], in) /\ KeysHere(task[a], z, db[z], tsig, in)
    BY <1>1, <1>2, <1>11, <2>1, HereHolds, KeptHere DEF KeptInv
  <2>3. /\ Has(db[z], tsig, z) => Has(r, tsig, z)
    BY <1>6 DEF Has
  <2>4. ASSUME ~in
        PROVE  KeysHere(t, z, r, tsig, in)
    <3>1. t.pc \in {"probe", "look"} /\ t.op # "sync"
      BY <1>1, <1>8
    <3> QED
      BY <2>4, <3>1 DEF KeysHere
  <2>5. ASSUME in
        PROVE  KeysHere(t, z, r, tsig, in)
    <3>1. task[a].op = "activate" /\ task[a].rows[z] = Listed(db[z])
      BY <1>1, <2>2, <2>5 DEF Here, Edited, Patching, Allowing, Signing, Unsigning, AddingKey,
         DeletingKey, Deactivating, Leads, Built, BuiltTo, Adopting, Edits6
    <3>2. t.pc = "probe" => db[z].active
      BY <1>8, <3>1 DEF Listed
    <3>3. t.pc = "probe" => Has(r, tsig, z)
      BY <1>1, <2>2, <2>3, <2>5, <3>2 DEF KeysHere
    <3> QED
      BY <1>8, <2>5, <3>1, <3>3 DEF KeysHere, Edits6
  <2>6. KeysHere(t, z, r, tsig, in)
    BY <2>4, <2>5
  <2> QED
    BY <2>1, <2>6
<1>12. InLine(t, z, r, pdns'[z], z \in intact) /\ t.op # "sync"
  BY <1>1, <1>8 DEF InLine
<1>13. Stored(r) \subseteq NamesOf[z] /\ pdns' = pdns /\ \A x \in Zones : Keeps(x, tsig, tsig')
  BY <1>1, <1>6 DEF KeptInv, Chosen, Keeps
<1> QED
  BY <1>1, <1>2, <1>9, <1>10, <1>11, <1>12, <1>13, KeysStay

LEMMA ProbeKeeps ==
  ASSUME KeptInv, IntactInv', NEW a \in Actors, Probe(a)
  PROVE  KeptInv'
<1>1. /\ TypeInv /\ task[a].pc = "probe" /\ {"probe", "look"} \subseteq AtZone
      /\ task[a].pc # "idle" /\ UNCHANGED <<db, pdns, tsig, mode, intact>>
  BY DEF KeptInv, IntactInv, Probe, At, AtZone
<1>2. PICK z \in Zones : task[a].z = z
  BY <1>1, Edits
<1>3. task[a] \in TaskTypes
  BY <1>1, Edits
<1>4. CASE There(z)
  <2>1. ASSUME z \in intact, db[z].active
        PROVE  Has(db[z], tsig, z)
    <3>1. PICK in : in = (z \in intact)
      OBVIOUS
    <3>2. KeysHere(task[a], z, db[z], tsig, in)
      BY <1>1, <1>2, <2>1, <3>1, KeptHere
    <3> QED
      BY <1>1, <2>1, <3>1, <3>2 DEF KeysHere
  <2>2. Goto(a, Idle) /\ \A x \in Zones : Stored(db'[x]) \subseteq NamesOf[x]
    BY <1>1, <1>2, <1>4 DEF Probe, KeptInv, Chosen
  <2> QED
    BY <1>1, <1>2, <2>1, <2>2, KeysEnd
<1>5. CASE ~There(z)
  <2>1. PICK t : t = [task[a] EXCEPT !.pc = "look"]
    OBVIOUS
  <2>2. /\ t.pc = "look" /\ t.z = z /\ t.op = task[a].op /\ t.left = task[a].left
        /\ t.alone = task[a].alone /\ t.want = task[a].want /\ t.name = task[a].name
    BY <1>2, <1>3, <2>1 DEF TaskTypes
  <2>3. Goto(a, t) /\ Keeping(t, task[a]) /\ Owned(t)
    BY <1>1, <1>2, <1>5, <2>1, <2>2 DEF Probe, Keeping, Owned, KeptInv, Chosen
  <2>4. Carries(task[a], t, z, db[z], pdns[z], tsig)
    BY <2>2, PlainPlaces DEF Carries
  <2> QED
    BY <1>1, <1>2, <2>3, <2>4, KeysQuiet
<1> QED
  BY <1>4, <1>5

LEMMA UnserveKeeps ==
  ASSUME KeptInv, IntactInv', NEW a \in Actors, Unserve(a)
  PROVE  KeptInv'
<1>1. TypeInv /\ task[a].pc = "unserve" /\ {"unserve", "rows"} \subseteq AtZone
  BY DEF KeptInv, IntactInv, Unserve, At, AtZone
<1>2. PICK z \in Zones : task[a].z = z
  BY <1>1, Edits
<1>3. task[a] \in TaskTypes
  BY <1>1, Edits
<1>4. PICK t : t = [task[a] EXCEPT !.pc = "rows"]
  OBVIOUS
<1>5. /\ t.pc = "rows" /\ t.z = z /\ t.op = task[a].op /\ t.left = task[a].left
      /\ t.alone = task[a].alone /\ t.want = task[a].want /\ t.name = task[a].name
  BY <1>2, <1>3, <1>4 DEF TaskTypes
<1>6. /\ Goto(a, t) /\ Keeping(t, task[a]) /\ Owned(t)
      /\ pdns' = [pdns EXCEPT ![z] = NoServed] /\ UNCHANGED <<db, tsig, intact>>
  BY <1>1, <1>2, <1>4, <1>5 DEF Unserve, To, Keeping, Owned, KeptInv, Chosen
<1>7. Carries(task[a], t, z, db[z], pdns[z], tsig)
  BY <1>5, PlainPlaces DEF Carries
<1>8. ~BuiltTo(task[a], db[z], pdns[z])
  BY <1>1 DEF BuiltTo
<1> QED
  BY <1>1, <1>2, <1>6, <1>7, <1>8, KeysServe

LEMMA DeactivateRowKeeps ==
  ASSUME KeptInv, IntactInv', NEW a \in Actors, DeactivateRow(a)
  PROVE  KeptInv'
<1>1. /\ TypeInv /\ task[a].pc = "inactive" /\ "inactive" \in AtZone /\ task[a].pc # "idle"
      /\ UNCHANGED <<pdns, tsig, mode, intact>> /\ Goto(a, Idle)
  BY DEF KeptInv, IntactInv, DeactivateRow, At, AtZone
<1>2. PICK z \in Zones : task[a].z = z
  BY <1>1, Edits
<1>3. db \in [Zones -> RowTypes] /\ db[z] \in RowTypes
  BY <1>1 DEF TypeInv, Tables
<1>4. PICK r : r = [db[z] EXCEPT !.active = FALSE, !.ver = @ + 1]
  OBVIOUS
<1>5. r.active = FALSE /\ Stored(r) = Stored(db[z])
  BY <1>3, <1>4 DEF RowTypes, Stored
<1>6. db' = [db EXCEPT ![z] = r]
  BY <1>2, <1>3, <1>4 DEF DeactivateRow, RowTypes
<1>7. db'[z] = r /\ \A x \in Zones : x # z => db'[x] = db[x]
  BY <1>3, <1>6
<1>8. \A x \in Zones : Stored(db'[x]) \subseteq NamesOf[x]
  BY <1>5, <1>7 DEF KeptInv, Chosen
<1> QED
  BY <1>1, <1>2, <1>5, <1>7, <1>8, KeysEnd

\* A sync leaves a zone: its keys are all there, and the sync knows them.
LEMMA KeysLeave ==
  ASSUME KeptInv, IntactInv', NEW a \in Actors, NEW z \in Zones, task[a].z = z,
         task[a].pc \in AtZone, task[a].op = "sync", Goto(a, Continue(task[a])),
         \A x \in Zones : x # z => pdns'[x] = pdns[x] /\ (x \in intact' <=> x \in intact),
         intact' \subseteq intact \cup ({z} \cap task[a].alone), UNCHANGED <<db, tsig>>,
         z \in intact' => Has(db[z], tsig, z) /\ Stored(db[z]) \subseteq task[a].want
  PROVE  KeptInv'
<1>1. /\ task[a].pc \notin {"idle", "served", "prune", "pick", "strays"}
      /\ task[a] \in TaskTypes
  BY DEF AtZone, KeptInv, IntactInv, TypeInv
<1>2. PICK t : t = Continue(task[a])
  OBVIOUS
<1>3. /\ t.pc = "pick" /\ t.op = "sync" /\ t.z = NoZone /\ t.alone = task[a].alone
      /\ t.left = task[a].left /\ t.want = task[a].want
  BY <1>2 DEF Continue, Idle
<1>4. /\ \A x : Reaches(t, x) /\ Reaches(task[a], x)
      /\ Owned(t) /\ Goto(a, t)
  BY <1>1, <1>2, <1>3 DEF Reaches, Owned
<1>5. ASSUME NEW x \in Zones
      PROVE  Local(t, x, db'[x], pdns'[x], tsig', x \in intact')
  <2>1. SUFFICES ASSUME x \in intact' \/ x \in t.alone
                 PROVE  KeysAway(t, x, db[x], tsig, x \in intact')
    BY <1>3, ZonesAssumption DEF Local, InLine, KeysAt
  <2>2. CASE x = z
    BY <1>3, <2>2 DEF KeysAway
  <2>3. CASE x # z
    <3>1. PICK in : in = (x \in intact) /\ in = (x \in intact')
      BY <2>3
    <3>2. KeysAway(task[a], x, db[x], tsig, in)
      BY <1>3, <1>4, <2>1, <2>3, <3>1, KeptAway
    <3>3. KeysAway(t, x, db[x], tsig, in)
      BY <1>1, <1>3, <3>2 DEF KeysAway
    <3> QED
      BY <3>1, <3>3
  <2> QED
    BY <2>2, <2>3
<1>6. Collects(t, tsig', Wanted')
  <2>1. task[a].alone = Zones => task[a].want \subseteq Wanted
    BY <1>1 DEF KeptInv, StraysInv, Collects
  <2>2. Wanted' = Wanted
    BY DEF Wanted
  <2> QED
    BY <1>3, <2>1, <2>2 DEF Collects
<1>7. /\ \A x \in Zones : Stored(db'[x]) \subseteq NamesOf[x]
      /\ Zones = {} => \A n \in KeyNames : tsig'[n] = 0
  BY DEF KeptInv, Chosen, StraysInv
<1>8. intact' \subseteq intact \cup task[a].alone
  OBVIOUS
<1>9. intact' \subseteq Zones
  BY DEF IntactInv, TypeInv, Tables
<1> QED
  BY <1>1, <1>4, <1>5, <1>6, <1>7, <1>8, <1>9, KeysFrame

LEMMA StampKeeps ==
  ASSUME KeptInv, IntactInv', NEW a \in Actors, Stamp(a)
  PROVE  KeptInv'
<1>1. /\ TypeInv /\ task[a].pc = "stamp" /\ "stamp" \in AtZone /\ task[a].pc # "idle"
      /\ UNCHANGED <<db, tsig, mode>> /\ Goto(a, Continue(task[a]))
  BY DEF KeptInv, IntactInv, Stamp, At, AtZone
<1>2. PICK z \in Zones : task[a].z = z
  BY <1>1, Edits
<1>3. \A x \in Zones : x # z => pdns'[x] = pdns[x] /\ (x \in intact' <=> x \in intact)
  <2>1. pdns \in [Zones -> ZoneTypes]
    BY <1>1 DEF TypeInv, Tables
  <2> QED
    BY <1>2, <2>1 DEF Stamp
<1>4. intact' \subseteq intact \cup ({z} \cap task[a].alone)
      /\ (z \in intact' => z \in intact \/ task[a].op \in {"activate", "sync"})
  BY <1>2 DEF Stamp
<1>5. ASSUME z \in intact'
      PROVE  /\ Has(db[z], tsig, z)
             /\ task[a].op = "sync" => Stored(db[z]) \subseteq task[a].want
  <2>1. PICK in : in = (z \in intact)
    OBVIOUS
  <2>2. Here(task[a], z, db[z], pdns[z], in) /\ KeysHere(task[a], z, db[z], tsig, in)
    BY <1>1, <1>2, <1>4, <1>5, <2>1, HereHolds, KeptHere DEF KeptInv
  <2>3. CASE task[a].op \in {"activate", "sync"}
    BY <1>1, <2>2, <2>3 DEF KeysHere
  <2>4. CASE task[a].op \notin {"activate", "sync"}
    <3>1. in
      BY <1>4, <1>5, <2>1, <2>4
    <3>2. task[a].op \in Edits6
      BY <1>1, <2>2, <2>4, <3>1 DEF Here, Edited, Patching, Allowing, Signing, Unsigning,
         AddingKey, DeletingKey, Deactivating
    <3> QED
      BY <2>2, <2>4, <3>1, <3>2 DEF KeysHere
  <2> QED
    BY <2>3, <2>4
<1>6. CASE task[a].op = "sync"
  BY <1>1, <1>2, <1>3, <1>4, <1>5, <1>6, KeysLeave
<1>7. CASE task[a].op # "sync"
  <2>1. Goto(a, Idle) /\ \A x \in Zones : Stored(db'[x]) \subseteq NamesOf[x]
    BY <1>1, <1>7 DEF Continue, KeptInv, Chosen
  <2> QED
    BY <1>1, <1>2, <1>3, <1>4, <1>5, <2>1, KeysEnd
<1> QED
  BY <1>6, <1>7

LEMMA EditStepKeeps ==
  ASSUME KeptInv, IntactInv', NEW a \in Actors, EditStep(a)
  PROVE  KeptInv'
BY PatchServedKeeps, ApplyRrsetsKeeps, ServeAllowKeeps, StoreAllowKeeps, ListKeysKeeps,
   AddKeyKeeps, ServeNsec3Keeps, FetchKeyKeeps, CreateTsigKeeps, NameTakenKeeps,
   StoreTsigKeeps, DeleteTsigRowKeeps, ReadNamesKeeps, ServeNamesKeeps,
   ListTsigKeeps, RemoveTsigKeeps,
   ActivateRowKeeps, ProbeKeeps, UnserveKeeps, DeactivateRowKeeps, StampKeeps
   DEF EditStep

-----------------------------------------------------------------------------
(* converge                                                                 *)

LEMMA AfterKeeps ==
  ASSUME NEW t \in TaskTypes, NEW u, u = AfterDrop(t) \/ u = AfterImport(t)
  PROVE  /\ u.z = t.z /\ u.op = t.op /\ u.left = t.left /\ u.alone = t.alone
         /\ u.want = t.want /\ u.name = t.name
         /\ u.pc \in {"nsec3", "import", "param", "missing"}
<1>1. CASE u = [t EXCEPT !.pc = "param", !.key = 0]
  BY <1>1 DEF TaskTypes
<1>2. CASE u = [t EXCEPT !.pc = "missing", !.key = 0, !.nsec3 = FALSE, !.had = FALSE]
  BY <1>2 DEF TaskTypes
<1>3. CASE u = [t EXCEPT !.pc = "nsec3"]
  BY <1>3 DEF TaskTypes
<1>4. CASE u = [t EXCEPT !.pc = "import"]
  BY <1>4 DEF TaskTypes
<1> QED
  BY <1>1, <1>2, <1>3, <1>4 DEF AfterDrop, AfterImport

\* Places where nothing is said of TSIG keys
Plain == {"look", "create_zone", "match", "converge", "drop", "nsec3", "import", "param",
          "missing", "replace", "adoptkey", "adoptedkey", "adoptallow", "adoptedallow", "reread"}

\* The task moved on, and what it keeps
MovesOn(t, u, pcs) ==
  /\ t.pc \in pcs /\ t.z = u.z /\ t.op = u.op /\ t.left = u.left /\ t.alone = u.alone
  /\ t.want = u.want /\ t.name = u.name

LEMMA MovesPlainly ==
  ASSUME KeptInv, NEW a \in Actors, NEW z \in Zones, task[a].z = z, NEW t,
         MovesOn(t, task[a], Plain)
  PROVE  /\ Keeping(t, task[a]) /\ Owned(t)
         /\ Carries(task[a], t, z, db[z], pdns[z], tsig)
<1>1. t.pc \in AtZone /\ t.pc \notin {"remove", "unkey"}
  BY DEF MovesOn, Plain, AtZone
<1>2. Keeping(t, task[a]) /\ Owned(t)
  BY <1>1 DEF MovesOn, Keeping, Owned, KeptInv, Chosen
<1>3. /\ t.op = task[a].op /\ t.want = task[a].want
      /\ t.pc \notin {"remaining", "names", "remove", "unkey", "active", "probe", "recreate",
                      "store", "allow", "stamp"}
  BY DEF MovesOn, Plain
<1>4. Carries(task[a], t, z, db[z], pdns[z], tsig)
  BY <1>3, PlainPlaces DEF Carries
<1> QED
  BY <1>2, <1>4

LEMMA PlainServe ==
  ASSUME KeptInv, IntactInv', NEW a \in Actors, NEW z \in Zones, task[a].z = z,
         task[a].pc \in AtZone, NEW t, Goto(a, t), MovesOn(t, task[a], Plain),
         NEW s, pdns' = [pdns EXCEPT ![z] = s], UNCHANGED <<db, tsig, intact>>,
         (Mirror(db[z], pdns[z]) /\ Based(task[a], db[z]) /\ BuiltTo(task[a], db[z], pdns[z]))
            => Mirror(db[z], s)
  PROVE  KeptInv'
<1>1. /\ Keeping(t, task[a]) /\ Owned(t)
      /\ Carries(task[a], t, z, db[z], pdns[z], tsig)
  BY MovesPlainly
<1>2. (/\ t.op = "sync" /\ Mirror(db[z], pdns[z])
       /\ Based(task[a], db[z]) /\ BuiltTo(task[a], db[z], pdns[z])) => Mirror(db[z], s)
  OBVIOUS
<1> QED
  BY <1>1, <1>2, KeysServe

LEMMA LookKeeps ==
  ASSUME KeptInv, IntactInv', NEW a \in Actors, Look(a)
  PROVE  KeptInv'
<1>1. /\ TypeInv /\ task[a].pc = "look" /\ "look" \in AtZone
      /\ UNCHANGED <<db, pdns, tsig, intact>>
  BY DEF KeptInv, IntactInv, Look, At, AtZone
<1>2. PICK z \in Zones : task[a].z = z
  BY <1>1, Edits
<1>3. task[a] \in TaskTypes
  BY <1>1, Edits
<1>4. PICK pc : /\ pc = IF ~There(z) THEN "create_zone"
                        ELSE IF pdns[z].rrs = Desired(db[z].rrs) THEN "match" ELSE "converge"
  OBVIOUS
<1>5. PICK t : t = [task[a] EXCEPT !.rrs = Desired(db[z].rrs), !.had = pdns[z].nsec3, !.pc = pc]
  OBVIOUS
<1>6. Goto(a, t)
  BY <1>2, <1>4, <1>5 DEF Look
<1>7. MovesOn(t, task[a], Plain)
  BY <1>3, <1>4, <1>5 DEF TaskTypes, MovesOn, Plain
<1> QED
  BY <1>1, <1>2, <1>6, <1>7, MovesPlainly, KeysQuiet

\* A sync never creates or patches a zone that is in line.
LEMMA CreateZoneKeeps ==
  ASSUME KeptInv, IntactInv', NEW a \in Actors, CreateZone(a)
  PROVE  KeptInv'
<1>1. /\ TypeInv /\ task[a].pc = "create_zone" /\ "create_zone" \in AtZone
      /\ UNCHANGED <<db, tsig, intact>>
  BY DEF KeptInv, IntactInv, CreateZone, At, AtZone
<1>2. PICK z \in Zones : task[a].z = z
  BY <1>1, Edits
<1>3. task[a] \in TaskTypes
  BY <1>1, Edits
<1>4. PICK t : t = [task[a] EXCEPT !.pc = "match"]
  OBVIOUS
<1>5. PICK s : s = Created(task[a].rrs)
  OBVIOUS
<1>6. Goto(a, t) /\ pdns' = [pdns EXCEPT ![z] = s] /\ ~pdns[z].there
  BY <1>2, <1>4, <1>5 DEF CreateZone, To, There
<1>7. MovesOn(t, task[a], Plain)
  BY <1>3, <1>4 DEF TaskTypes, MovesOn, Plain
<1>8. (Mirror(db[z], pdns[z]) /\ Based(task[a], db[z]) /\ BuiltTo(task[a], db[z], pdns[z]))
        => Mirror(db[z], s)
  BY <1>6 DEF Mirror, Agree, Based
<1> QED
  BY <1>1, <1>2, <1>6, <1>7, <1>8, PlainServe

LEMMA ConvergeRrsetsKeeps ==
  ASSUME KeptInv, IntactInv', NEW a \in Actors, ConvergeRrsets(a)
  PROVE  KeptInv'
<1>1. TypeInv /\ task[a].pc = "converge" /\ "converge" \in AtZone
  BY DEF KeptInv, IntactInv, ConvergeRrsets, At, AtZone
<1>2. PICK z \in Zones : task[a].z = z
  BY <1>1, Edits
<1>3. task[a] \in TaskTypes /\ pdns[z] \in ZoneTypes
  BY <1>1, <1>2, Edits
<1>4. PICK t : t = [task[a] EXCEPT !.pc = "match"]
  OBVIOUS
<1>5. PICK s : s = Patched(pdns[z], task[a].rrs)
  OBVIOUS
<1>6. /\ s.there = pdns[z].there /\ s.stamp = pdns[z].stamp /\ s.rrs = task[a].rrs
      /\ s.keys = pdns[z].keys /\ s.nsec3 = pdns[z].nsec3 /\ s.allow = pdns[z].allow
      /\ s.names = pdns[z].names
  BY <1>3, <1>5, ServedParts
<1>7. Goto(a, t) /\ pdns' = [pdns EXCEPT ![z] = s] /\ UNCHANGED <<db, tsig, intact>>
  BY <1>2, <1>4, <1>5 DEF ConvergeRrsets, Serve, Served
<1>8. MovesOn(t, task[a], Plain)
  BY <1>3, <1>4 DEF TaskTypes, MovesOn, Plain
<1>9. (Mirror(db[z], pdns[z]) /\ Based(task[a], db[z]) /\ BuiltTo(task[a], db[z], pdns[z]))
        => Mirror(db[z], s)
  <2>1. SUFFICES ASSUME Mirror(db[z], pdns[z]), Based(task[a], db[z]),
                        BuiltTo(task[a], db[z], pdns[z])
                 PROVE  Mirror(db[z], s)
    OBVIOUS
  <2>2. Agree(db[z], pdns[z], {}) /\ task[a].rrs = Desired(db[z].rrs) /\ db[z].active
    BY <1>1, <2>1 DEF Mirror, Based, BuiltTo
  <2>3. Agree(db[z], s, {})
    BY <1>6, <2>2 DEF Agree
  <2> QED
    BY <2>2, <2>3 DEF Mirror
<1> QED
  BY <1>1, <1>2, <1>7, <1>8, <1>9, PlainServe

LEMMA MatchKeysKeeps ==
  ASSUME KeptInv, IntactInv', NEW a \in Actors, MatchKeys(a)
  PROVE  KeptInv'
<1>1. /\ TypeInv /\ task[a].pc = "match" /\ "match" \in AtZone
      /\ UNCHANGED <<db, pdns, tsig, intact>>
  BY DEF KeptInv, IntactInv, MatchKeys, At, AtZone
<1>2. PICK z \in Zones : task[a].z = z
  BY <1>1, Edits
<1>3. task[a] \in TaskTypes /\ db[z] \in RowTypes /\ pdns[z] \in ZoneTypes
  BY <1>1, <1>2, Edits
<1>4. PICK key : key = IF db[z].key \in pdns[z].keys THEN 0 ELSE db[z].key
  OBVIOUS
<1>5. PICK others : others = Others(db[z].key, pdns[z].keys)
  OBVIOUS
<1>6. PICK t : t = [task[a] EXCEPT !.key = key, !.nsec3 = db[z].nsec3, !.keys = others,
                                   !.rrs = NoRrs]
  OBVIOUS
<1>7. t \in TaskTypes
  <2>1. key \in Keys /\ others \in SUBSET Keys /\ NoRrs \in Records /\ db[z].nsec3 \in BOOLEAN
    BY <1>3, <1>4, <1>5, Constants DEF RowTypes, ZoneTypes, Others
  <2> QED
    BY <1>3, <1>6, <2>1 DEF TaskTypes
<1>8. /\ t.z = task[a].z /\ t.op = task[a].op /\ t.left = task[a].left
      /\ t.alone = task[a].alone /\ t.want = task[a].want /\ t.name = task[a].name
  BY <1>3, <1>6 DEF TaskTypes
<1>9. PICK u : u = IF others = {} THEN AfterDrop(t) ELSE [t EXCEPT !.pc = "drop"]
  OBVIOUS
<1>10. Goto(a, u)
  BY <1>2, <1>4, <1>5, <1>6, <1>9 DEF MatchKeys, Row, Served
<1>11. MovesOn(u, task[a], Plain)
  <2>1. CASE others = {}
    BY <1>7, <1>8, <1>9, <2>1, AfterKeeps DEF MovesOn, Plain
  <2>2. CASE others # {}
    <3>1. u = [t EXCEPT !.pc = "drop"]
      BY <1>9, <2>2
    <3> QED
      BY <1>7, <1>8, <3>1 DEF MovesOn, Plain, TaskTypes
  <2> QED
    BY <2>1, <2>2
<1> QED
  BY <1>1, <1>2, <1>10, <1>11, MovesPlainly, KeysQuiet

\* A sync that finds the stored key has no other to take away, and none to import.
LEMMA DropKeyKeeps ==
  ASSUME KeptInv, IntactInv', NEW a \in Actors, NEW k \in task[a].keys, DropKey(a, k)
  PROVE  KeptInv'
<1>1. TypeInv /\ task[a].pc = "drop" /\ "drop" \in AtZone
  BY DEF KeptInv, IntactInv, DropKey, At, AtZone
<1>2. PICK z \in Zones : task[a].z = z
  BY <1>1, Edits
<1>3. task[a] \in TaskTypes
  BY <1>1, <1>2, Edits
<1>4. PICK t : t = [task[a] EXCEPT !.keys = @ \ {k}]
  OBVIOUS
<1>5. t \in TaskTypes
  BY <1>3, <1>4 DEF TaskTypes
<1>6. /\ t.pc = "drop" /\ t.z = task[a].z /\ t.op = task[a].op /\ t.left = task[a].left
      /\ t.alone = task[a].alone /\ t.want = task[a].want /\ t.name = task[a].name
  BY <1>1, <1>3, <1>4 DEF TaskTypes
<1>7. PICK s : s = WithoutKey(pdns[z], k)
  OBVIOUS
<1>8. PICK u : u = IF t.keys = {} THEN AfterDrop(t) ELSE t
  OBVIOUS
<1>9. Goto(a, u) /\ pdns' = [pdns EXCEPT ![z] = s] /\ UNCHANGED <<db, tsig, intact>>
  BY <1>2, <1>4, <1>7, <1>8 DEF DropKey, Serve, Served
<1>10. MovesOn(u, task[a], Plain)
  BY <1>5, <1>6, <1>8, AfterKeeps DEF MovesOn, Plain
<1>11. ~(Mirror(db[z], pdns[z]) /\ Based(task[a], db[z]) /\ BuiltTo(task[a], db[z], pdns[z]))
  <2>1. SUFFICES ASSUME Mirror(db[z], pdns[z]), Based(task[a], db[z]),
                        BuiltTo(task[a], db[z], pdns[z])
                 PROVE  FALSE
    OBVIOUS
  <2>2. pdns[z].keys = {db[z].key} \ {0} /\ task[a].keys = pdns[z].keys \ {db[z].key}
    BY <1>1, <2>1 DEF Mirror, Agree, Based, BuiltTo
  <2> QED
    BY <2>2
<1> QED
  BY <1>1, <1>2, <1>9, <1>10, <1>11, PlainServe

LEMMA ImportKeyKeeps ==
  ASSUME KeptInv, IntactInv', NEW a \in Actors, ImportKey(a)
  PROVE  KeptInv'
<1>1. TypeInv /\ task[a].pc = "import" /\ "import" \in AtZone
  BY DEF KeptInv, IntactInv, ImportKey, At, AtZone
<1>2. PICK z \in Zones : task[a].z = z
  BY <1>1, Edits
<1>3. task[a] \in TaskTypes
  BY <1>1, <1>2, Edits
<1>4. PICK s : s = WithKey(pdns[z], task[a].key)
  OBVIOUS
<1>5. PICK u : u = AfterImport(task[a])
  OBVIOUS
<1>6. Goto(a, u) /\ pdns' = [pdns EXCEPT ![z] = s] /\ UNCHANGED <<db, tsig, intact>>
  BY <1>2, <1>4, <1>5 DEF ImportKey, Serve, Served
<1>7. MovesOn(u, task[a], Plain)
  BY <1>3, <1>5, AfterKeeps DEF MovesOn, Plain
<1>8. ~(Mirror(db[z], pdns[z]) /\ Based(task[a], db[z]) /\ BuiltTo(task[a], db[z], pdns[z]))
  BY <1>1 DEF Mirror, Agree, Based, BuiltTo
<1> QED
  BY <1>1, <1>2, <1>6, <1>7, <1>8, PlainServe

LEMMA ServeModeKeeps ==
  ASSUME KeptInv, IntactInv', NEW a \in Actors, ServeMode(a)
  PROVE  KeptInv'
<1>1. TypeInv /\ task[a].pc = "param" /\ "param" \in AtZone
  BY DEF KeptInv, IntactInv, ServeMode, At, AtZone
<1>2. PICK z \in Zones : task[a].z = z
  BY <1>1, Edits
<1>3. task[a] \in TaskTypes /\ pdns[z] \in ZoneTypes
  BY <1>1, <1>2, Edits
<1>4. PICK s : s = WithMode(pdns[z], task[a].nsec3)
  OBVIOUS
<1>5. /\ s.there = pdns[z].there /\ s.stamp = pdns[z].stamp /\ s.rrs = pdns[z].rrs
      /\ s.keys = pdns[z].keys /\ s.nsec3 = task[a].nsec3
      /\ s.allow = pdns[z].allow /\ s.names = pdns[z].names
  BY <1>3, <1>4, ServedParts
<1>6. PICK u : u = [task[a] EXCEPT !.pc = "missing", !.nsec3 = FALSE, !.had = FALSE]
  OBVIOUS
<1>7. Goto(a, u) /\ pdns' = [pdns EXCEPT ![z] = s] /\ UNCHANGED <<db, tsig, intact>>
  BY <1>2, <1>4, <1>6 DEF ServeMode, Serve, Served
<1>8. MovesOn(u, task[a], Plain)
  BY <1>3, <1>6 DEF TaskTypes, MovesOn, Plain
<1>9. (Mirror(db[z], pdns[z]) /\ Based(task[a], db[z]) /\ BuiltTo(task[a], db[z], pdns[z]))
        => Mirror(db[z], s)
  <2>1. SUFFICES ASSUME Mirror(db[z], pdns[z]), Based(task[a], db[z]),
                        BuiltTo(task[a], db[z], pdns[z])
                 PROVE  Mirror(db[z], s)
    OBVIOUS
  <2>2. Agree(db[z], pdns[z], {}) /\ task[a].nsec3 = db[z].nsec3 /\ db[z].active
    BY <1>1, <2>1 DEF Mirror, Based, BuiltTo
  <2>3. Agree(db[z], s, {})
    BY <1>5, <2>2 DEF Agree
  <2> QED
    BY <2>2, <2>3 DEF Mirror
<1> QED
  BY <1>1, <1>2, <1>7, <1>8, <1>9, PlainServe

\* The stored keys that PowerDNS has not are all to be made.
LEMMA MissingTsigKeeps ==
  ASSUME KeptInv, IntactInv', NEW a \in Actors, MissingTsig(a)
  PROVE  KeptInv'
<1>1. /\ TypeInv /\ task[a].pc = "missing" /\ {"missing", "names", "recreate"} \subseteq AtZone
      /\ UNCHANGED <<db, pdns, tsig, intact>>
  BY DEF KeptInv, IntactInv, MissingTsig, At, AtZone
<1>2. PICK z \in Zones : task[a].z = z
  BY <1>1, Edits
<1>3. task[a] \in TaskTypes
  BY <1>1, <1>2, Edits
<1>4. PICK make : make = Missing(db[z])
  OBVIOUS
<1>5. PICK t : t = [task[a] EXCEPT !.names = Stored(db[z]), !.make = make,
                      !.pc = IF make = NoTsig THEN "names" ELSE "recreate"]
  OBVIOUS
<1>6. /\ t.pc = (IF make = NoTsig THEN "names" ELSE "recreate") /\ t.make = make
      /\ t.z = z /\ t.op = task[a].op /\ t.left = task[a].left /\ t.alone = task[a].alone
      /\ t.want = task[a].want /\ t.name = task[a].name
  BY <1>2, <1>3, <1>5 DEF TaskTypes
<1>7. Goto(a, t) /\ Keeping(t, task[a]) /\ Owned(t)
  BY <1>1, <1>2, <1>4, <1>5, <1>6 DEF MissingTsig, Row, Keeping, Owned, KeptInv, Chosen
<1>8. \A n \in Stored(db[z]) : tsig[n] # 0 \/ make[n] # 0
  BY <1>4 DEF Missing, Stored
<1>9. make = NoTsig => Has(db[z], tsig, z)
  BY <1>8 DEF Has, Stored, NoTsig
<1>10. \A in \in BOOLEAN : in /\ Here(task[a], z, db[z], pdns[z], in)
                             => task[a].op \in {"activate", "sync"}
  BY <1>1 DEF Here, Edited, Patching, Allowing, Signing, Unsigning, AddingKey, DeletingKey,
     Deactivating
<1>11. Carries(task[a], t, z, db[z], pdns[z], tsig)
  BY <1>6, <1>8, <1>9, <1>10 DEF Carries, KeysHere
<1> QED
  BY <1>1, <1>2, <1>7, <1>11, KeysQuiet

LEMMA RecreateTsigKeeps ==
  ASSUME KeptInv, IntactInv', NEW a \in Actors, NEW n \in KeyNames, RecreateTsig(a, n)
  PROVE  KeptInv'
<1>1. /\ TypeInv /\ task[a].pc = "recreate" /\ {"names", "recreate"} \subseteq AtZone
      /\ UNCHANGED <<db, pdns, intact>> /\ task[a].make[n] # 0
  BY DEF KeptInv, IntactInv, RecreateTsig, At, AtZone
<1>2. PICK z \in Zones : task[a].z = z
  BY <1>1, Edits
<1>3. task[a] \in TaskTypes
  BY <1>1, <1>2, Edits
<1>4. PICK make : make = [task[a].make EXCEPT ![n] = 0]
  OBVIOUS
<1>5. make[n] = 0 /\ \A m \in KeyNames : m # n => make[m] = task[a].make[m]
  BY <1>3, <1>4 DEF TaskTypes, Names
<1>6. PICK t : t = [task[a] EXCEPT !.make = make,
                      !.pc = IF make = NoTsig THEN "names" ELSE "recreate"]
  OBVIOUS
<1>7. /\ t.pc = (IF make = NoTsig THEN "names" ELSE "recreate") /\ t.make = make
      /\ t.z = z /\ t.op = task[a].op /\ t.left = task[a].left /\ t.alone = task[a].alone
      /\ t.want = task[a].want /\ t.name = task[a].name
  BY <1>2, <1>3, <1>6 DEF TaskTypes
<1>8. Goto(a, t) /\ Keeping(t, task[a]) /\ Owned(t)
  BY <1>1, <1>2, <1>4, <1>6, <1>7 DEF RecreateTsig, Keeping, Owned, KeptInv, Chosen
<1>9. /\ tsig' = [tsig EXCEPT ![n] = task[a].make[n]] /\ tsig \in [KeyNames -> Keys]
  BY <1>1 DEF RecreateTsig, WithTsig, TypeInv, Tables, Names
<1>10. tsig'[n] # 0 /\ \A m \in KeyNames : tsig[m] # 0 => tsig'[m] # 0
  BY <1>1, <1>9
<1>11. \A x \in Zones : Keeps(x, tsig, tsig')
  BY <1>10 DEF Keeps
<1>12. ASSUME z \in intact \/ z \in task[a].alone
       PROVE  KeysHere(t, z, db[z], tsig', z \in intact)
  <2>1. PICK in : in = (z \in intact)
    OBVIOUS
  <2>2. Here(task[a], z, db[z], pdns[z], in) /\ KeysHere(task[a], z, db[z], tsig, in)
    BY <1>1, <1>2, <1>12, <2>1, HereHolds, KeptHere DEF KeptInv
  <2>3. in => task[a].op \in {"activate", "sync"}
    BY <1>1, <2>2 DEF Here, Edited, Patching, Allowing, Signing, Unsigning, AddingKey,
       DeletingKey, Deactivating
  <2>4. ASSUME task[a].op \in {"activate", "sync"}
        PROVE  /\ \A m \in Stored(db[z]) : tsig'[m] # 0 \/ make[m] # 0 \/ Shared(z, m)
               /\ make = NoTsig => Has(db[z], tsig', z)
               /\ task[a].op = "sync" => Stored(db[z]) \subseteq task[a].want
    <3>1. /\ \A m \in Stored(db[z]) : tsig[m] # 0 \/ task[a].make[m] # 0 \/ Shared(z, m)
          /\ task[a].op = "sync" => Stored(db[z]) \subseteq task[a].want
      BY <1>1, <2>2, <2>4 DEF KeysHere
    <3>2. \A m \in Stored(db[z]) : tsig'[m] # 0 \/ make[m] # 0 \/ Shared(z, m)
      BY <1>5, <1>10, <3>1 DEF Stored
    <3> QED
      BY <3>1, <3>2 DEF Has, NoTsig, Stored
  <2>5. KeysHere(t, z, db[z], tsig', in)
    BY <1>7, <2>3, <2>4 DEF KeysHere, Edits6
  <2> QED
    BY <2>1, <2>5
<1>13. InLine(t, z, db'[z], pdns'[z], z \in intact)
  BY <1>1, <1>2, <1>7 DEF InLine, KeptInv, Local
<1>14. Stored(db'[z]) \subseteq NamesOf[z] /\ db' = db /\ pdns' = pdns
  BY <1>1 DEF KeptInv, Chosen
<1> QED
  BY <1>1, <1>2, <1>8, <1>11, <1>12, <1>13, <1>14, KeysStay

LEMMA ConvergeStepKeeps ==
  ASSUME KeptInv, IntactInv', NEW a \in Actors, ConvergeStep(a)
  PROVE  KeptInv'
BY LookKeeps, CreateZoneKeeps, ConvergeRrsetsKeeps, MatchKeysKeeps, DropKeyKeeps,
   ImportKeyKeeps, ServeModeKeeps, MissingTsigKeeps, RecreateTsigKeeps DEF ConvergeStep

-----------------------------------------------------------------------------
(* sync                                                                     *)

\* A step of a sync that is at no zone: on to another such place, or to a zone
LEMMA KeysWalk ==
  ASSUME KeptInv, IntactInv', NEW a \in Actors, task[a].pc \in Walking,
         NEW t, Goto(a, t), t.pc \notin {"idle", "remove", "unkey"}, t.op = "sync",
         t.alone = task[a].alone, UNCHANGED <<db, intact>>, pdns' = pdns \/ t.z = NoZone,
         \A x \in Zones :
           /\ x \in intact \/ x \in task[a].alone
           /\ Away(task[a], x, db[x], pdns[x], x \in intact)
           /\ KeysAway(task[a], x, db[x], tsig, x \in intact)
           => IF t.z = x THEN KeysHere(t, x, db[x], tsig', x \in intact)
                         ELSE KeysAway(t, x, db[x], tsig', x \in intact),
         Collects(t, tsig', Wanted), Zones = {} => \A n \in KeyNames : tsig'[n] = 0
  PROVE  KeptInv'
<1>1. task[a].op = "sync" /\ task[a].z = NoZone /\ task[a].pc # "idle"
  BY DEF Walking, KeptInv, IntactInv, Walks
<1>2. \A x : Reaches(task[a], x) /\ Reaches(t, x)
  BY <1>1 DEF Reaches
<1>3. ASSUME NEW x \in Zones
      PROVE  Local(t, x, db'[x], pdns'[x], tsig', x \in intact')
  <2>1. PICK in : in = (x \in intact)
    OBVIOUS
  <2>2. CASE ~(in \/ x \in task[a].alone)
    BY <2>1, <2>2 DEF Local, InLine, KeysAt
  <2>3. CASE in \/ x \in task[a].alone
    <3>1. task[a].z # x
      BY <1>1, ZonesAssumption
    <3>2. Away(task[a], x, db[x], pdns[x], in) /\ KeysAway(task[a], x, db[x], tsig, in)
      BY <1>2, <2>1, <2>3, <3>1, AwayHolds, KeptAway DEF KeptInv
    <3>3. IF t.z = x THEN KeysHere(t, x, db[x], tsig', in)
                     ELSE KeysAway(t, x, db[x], tsig', in)
      BY <2>1, <2>3, <3>2
    <3>4. InLine(t, x, db[x], pdns'[x], in)
      BY <3>2, ZonesAssumption DEF InLine, Away
    <3> QED
      BY <2>1, <3>3, <3>4 DEF Local, KeysAt
  <2> QED
    BY <2>2, <2>3
<1>4. Owned(t) /\ \A x \in Zones : Stored(db'[x]) \subseteq NamesOf[x]
  BY DEF Owned, KeptInv, Chosen
<1>5. Collects(t, tsig', Wanted')
  <2>1. Wanted' = Wanted
    BY DEF Wanted
  <2> QED
    BY <2>1
<1>6. intact' \subseteq intact \cup task[a].alone /\ intact' \subseteq Zones
  BY DEF IntactInv, TypeInv, Tables
<1> QED
  BY <1>1, <1>2, <1>3, <1>4, <1>5, <1>6, KeysFrame

\* What a walking sync has collected
LEMMA Collected ==
  ASSUME KeptInv, NEW a \in Actors, task[a].pc \in Walking, task[a].alone = Zones
  PROVE  Collects(task[a], tsig, Wanted) /\ task[a].pc # "idle" /\ task[a].op = "sync"
BY DEF KeptInv, StraysInv, IntactInv, Walks, Walking

LEMMA PrunedKeeps ==
  ASSUME NEW t \in TaskTypes, NEW u, u = Pruned(t)
  PROVE  u.want = t.want
<1>1. CASE t.left = {}
  <2>1. u = [t EXCEPT !.pc = "pick", !.left = ActiveRows(t)]
    BY <1>1 DEF Pruned
  <2> QED
    BY <2>1 DEF TaskTypes
<1>2. CASE t.left # {}
  <2>1. u = [t EXCEPT !.pc = "prune"]
    BY <1>2 DEF Pruned
  <2> QED
    BY <2>1 DEF TaskTypes
<1> QED
  BY <1>1, <1>2

\* The listing, and each zone it prunes: at the end every active zone is before the sync.
LEMMA ListedKeeps ==
  ASSUME KeptInv, IntactInv', NEW a \in Actors, task[a].pc \in {"served", "prune"},
         NEW t \in TaskTypes, Goto(a, Pruned(t)), t.op = "sync", t.z = NoZone,
         t.alone = task[a].alone, t.want = task[a].want, t.rows = task[a].rows,
         UNCHANGED <<db, tsig, intact>>
  PROVE  KeptInv'
<1>1. task[a].pc \in Walking
  BY DEF Walking
<1>2. PICK u : u = Pruned(t)
  OBVIOUS
<1>3. /\ u.pc = (IF t.left = {} THEN "pick" ELSE "prune")
      /\ u.left = (IF t.left = {} THEN ActiveRows(t) ELSE t.left)
      /\ u.z = NoZone /\ u.op = "sync" /\ u.alone = task[a].alone /\ u.want = task[a].want
  BY <1>2, PrunedParts, PrunedKeeps
<1>4. ASSUME NEW x \in Zones, NEW in, Away(task[a], x, db[x], pdns[x], in),
             KeysAway(task[a], x, db[x], tsig, in)
      PROVE  KeysAway(u, x, db[x], tsig, in)
  <2>1. t.rows[x].active = db[x].active
    BY <1>4 DEF Away, Listed
  <2>2. u.pc = "pick" /\ db[x].active => x \in u.left
    BY <1>3, <2>1 DEF ActiveRows
  <2> QED
    BY <1>3, <1>4, <2>2 DEF KeysAway
<1>5. ASSUME NEW x \in Zones, Away(task[a], x, db[x], pdns[x], x \in intact),
             KeysAway(task[a], x, db[x], tsig, x \in intact)
      PROVE  KeysAway(u, x, db[x], tsig', x \in intact)
  <2>1. PICK in : in = (x \in intact)
    OBVIOUS
  <2>2. KeysAway(u, x, db[x], tsig, in)
    BY <1>4, <1>5, <2>1
  <2> QED
    BY <2>1, <2>2
<1>6. Collects(u, tsig', Wanted)
  BY <1>1, <1>3, Collected DEF Collects
<1>7. Zones = {} => \A n \in KeyNames : tsig'[n] = 0
  BY DEF KeptInv, StraysInv
<1>8. \A x \in Zones : u.z # x
  BY <1>3, ZonesAssumption
<1> QED
  BY <1>1, <1>2, <1>3, <1>5, <1>6, <1>7, <1>8, KeysWalk

LEMMA ListServedKeeps ==
  ASSUME KeptInv, IntactInv', NEW a \in Actors, ListServed(a)
  PROVE  KeptInv'
<1>1. /\ task[a].pc = "served" /\ task[a] \in TaskTypes /\ task[a].op = "sync"
      /\ task[a].z = NoZone /\ UNCHANGED <<db, tsig, intact>>
  BY AtZoneTypes DEF KeptInv, IntactInv, ListServed, At, Walks
<1>2. PICK t : t = [task[a] EXCEPT !.served = Listing, !.left = Listing \ ActiveRows(task[a])]
  OBVIOUS
<1>3. /\ t \in TaskTypes /\ t.z = NoZone /\ t.op = "sync" /\ t.alone = task[a].alone
      /\ t.want = task[a].want /\ t.rows = task[a].rows
  <2>1. Listing \in SUBSET Zones /\ Listing \ ActiveRows(task[a]) \in SUBSET Zones
    BY DEF Listing
  <2> QED
    BY <1>1, <1>2, <2>1 DEF TaskTypes
<1>4. Goto(a, Pruned(t))
  BY <1>2 DEF ListServed
<1> QED
  BY <1>1, <1>3, <1>4, ListedKeeps

LEMMA PruneKeeps ==
  ASSUME KeptInv, IntactInv', NEW a \in Actors, NEW z \in Zones, Prune(a, z)
  PROVE  KeptInv'
<1>1. /\ task[a].pc = "prune" /\ task[a] \in TaskTypes /\ task[a].op = "sync"
      /\ task[a].z = NoZone /\ UNCHANGED <<db, tsig, intact>>
  BY AtZoneTypes DEF KeptInv, IntactInv, Prune, At, Walks
<1>2. PICK t : t = [task[a] EXCEPT !.left = @ \ {z}]
  OBVIOUS
<1>3. /\ t \in TaskTypes /\ t.z = NoZone /\ t.op = "sync" /\ t.alone = task[a].alone
      /\ t.want = task[a].want /\ t.rows = task[a].rows
  BY <1>1, <1>2 DEF TaskTypes
<1>4. Goto(a, Pruned(t))
  BY <1>2 DEF Prune
<1> QED
  BY <1>1, <1>3, <1>4, ListedKeeps

LEMMA PickZoneKeeps ==
  ASSUME KeptInv, IntactInv', NEW a \in Actors, NEW z \in Zones, PickZone(a, z)
  PROVE  KeptInv'
<1>1. /\ task[a].pc = "pick" /\ task[a].pc \in Walking /\ task[a] \in TaskTypes
      /\ task[a].op = "sync" /\ task[a].z = NoZone /\ z \in task[a].left
      /\ UNCHANGED <<db, pdns, tsig, intact>>
  BY AtZoneTypes DEF KeptInv, IntactInv, PickZone, At, Walking, Walks
<1>2. PICK row : row = task[a].rows[z]
  OBVIOUS
<1>3. PICK rows : rows = [task[a].rows EXCEPT ![z] = IF z \in task[a].served /\ pdns[z].stamp = 0
                                                       THEN @ ELSE NoRow]
  OBVIOUS
<1>4. PICK t : t = [task[a] EXCEPT !.left = @ \ {z}, !.want = @ \cup Stored(db[z]),
                                   !.rows = rows]
  OBVIOUS
<1>5. /\ t.left = task[a].left \ {z} /\ t.want = task[a].want \cup Stored(db[z])
      /\ t.z = NoZone /\ t.op = "sync" /\ t.alone = task[a].alone /\ t.pc = "pick"
  BY <1>1, <1>4 DEF TaskTypes
<1>6. PICK u : u = [t EXCEPT !.pc = "replace", !.z = z, !.rrs = pdns[z].rrs,
                             !.had = pdns[z].nsec3]
  OBVIOUS
<1>7. PICK w : w = [t EXCEPT !.pc = "look", !.z = z, !.ver = row.ver, !.allow = row.allow]
  OBVIOUS
<1>8. Goto(a, t) \/ Goto(a, u) \/ Goto(a, w)
  BY <1>2, <1>3, <1>4, <1>6, <1>7 DEF PickZone
<1>9. /\ u.pc = "replace" /\ u.z = z /\ u.left = t.left /\ u.want = t.want /\ u.op = "sync"
      /\ u.alone = t.alone
      /\ w.pc = "look" /\ w.z = z /\ w.left = t.left /\ w.want = t.want /\ w.op = "sync"
      /\ w.alone = t.alone
  BY <1>1, <1>4, <1>5, <1>6, <1>7 DEF TaskTypes
<1>10. PICK v : Goto(a, v) /\ v \in {t, u, w}
  BY <1>8
<1>11. /\ v.pc \in {"pick", "replace", "look"} /\ v.op = "sync" /\ v.alone = task[a].alone
       /\ v.left = task[a].left \ {z} /\ v.want = task[a].want \cup Stored(db[z])
       /\ (v.z = NoZone /\ v.pc = "pick") \/ v.z = z
  BY <1>5, <1>9, <1>10
<1>12. ASSUME NEW x \in Zones, NEW in, KeysAway(task[a], x, db[x], tsig, in)
       PROVE  IF v.z = x THEN KeysHere(v, x, db[x], tsig, in) ELSE KeysAway(v, x, db[x], tsig, in)
  <2>1. CASE v.z = x
    <3>1. v.z = z /\ v.pc \in {"replace", "look"}
      BY <1>9, <1>10, <1>11, <2>1, ZonesAssumption, <1>5
    <3>2. KeysHere(v, z, db[z], tsig, in)
      BY <1>11, <3>1 DEF KeysHere, Edits6
    <3> QED
      BY <2>1, <3>1, <3>2
  <2>2. CASE v.z # x
    BY <1>1, <1>11, <1>12, <2>2 DEF KeysAway
  <2> QED
    BY <2>1, <2>2
<1>13. ASSUME NEW x \in Zones, KeysAway(task[a], x, db[x], tsig, x \in intact)
       PROVE  IF v.z = x THEN KeysHere(v, x, db[x], tsig', x \in intact)
                         ELSE KeysAway(v, x, db[x], tsig', x \in intact)
  <2>1. PICK in : in = (x \in intact)
    OBVIOUS
  <2>2. IF v.z = x THEN KeysHere(v, x, db[x], tsig, in) ELSE KeysAway(v, x, db[x], tsig, in)
    BY <1>12, <1>13, <2>1
  <2> QED
    BY <1>1, <2>1, <2>2
<1>14. Collects(v, tsig', Wanted)
  <2>1. SUFFICES ASSUME task[a].alone = Zones
                 PROVE  v.want \subseteq Wanted
    BY <1>11 DEF Collects
  <2>2. task[a].want \subseteq Wanted
    BY <1>1, <2>1, Collected DEF Collects
  <2>3. Reaches(task[a], z) /\ task[a].z # z
    BY <1>1, ZonesAssumption DEF Reaches
  <2>4. Away(task[a], z, db[z], pdns[z], z \in intact)
    BY <2>1, <2>3, AwayHolds DEF KeptInv
  <2>5. db[z].active
    BY <1>1, <2>4 DEF Away
  <2>6. Stored(db[z]) \subseteq Wanted
    BY <2>5 DEF Wanted, Stored
  <2> QED
    BY <1>11, <2>2, <2>6
<1>15. Zones = {} => \A n \in KeyNames : tsig'[n] = 0
  OBVIOUS
<1>16. v.pc \notin {"idle", "remove", "unkey"} /\ pdns' = pdns /\ UNCHANGED <<db, intact>>
  BY <1>1, <1>11
<1> QED
  BY <1>1, <1>10, <1>11, <1>13, <1>14, <1>15, <1>16, KeysWalk

\* The adoption of a zone
LEMMA AdoptKeeps ==
  ASSUME KeptInv, IntactInv', NEW a \in Actors,
         \/ ReplaceRrsets(a) \/ AdoptKey(a) \/ StoreAdoptedKey(a)
         \/ AdoptAllow(a) \/ StoreAdoptedAllow(a) \/ Reread(a)
  PROVE  KeptInv'
<1>1. /\ TypeInv /\ task[a].pc \in Adopting /\ task[a].pc \in AtZone
  BY DEF KeptInv, IntactInv, ReplaceRrsets, AdoptKey, StoreAdoptedKey, AdoptAllow,
     StoreAdoptedAllow, Reread, At, AtZone, Adopting
<1>2. PICK z \in Zones : task[a].z = z
  BY <1>1, Edits
<1>3. /\ task[a] \in TaskTypes /\ db[z] \in RowTypes /\ pdns[z] \in ZoneTypes
      /\ Row(a) = db[z] /\ Served(a) = pdns[z]
  BY <1>1, <1>2, Edits
<1>4. AdoptList(task[a]) \in {"reread", "adoptallow"}
  BY DEF AdoptList
<1>5. CASE ReplaceRrsets(a)
  <2>1. PICK r : r = [db[z] EXCEPT !.rrs = task[a].rrs]
    OBVIOUS
  <2>2. r \in RowTypes /\ r.active = db[z].active /\ r.tsig = db[z].tsig
    BY <1>3, <2>1 DEF RowTypes, TaskTypes
  <2>3. PICK pc : pc = IF db[z].key = 0 THEN "adoptkey" ELSE AdoptList(task[a])
    OBVIOUS
  <2>4. /\ pc \in {"adoptkey", "reread", "adoptallow"} /\ Store(a, r, pc)
        /\ task[a].pc = "replace"
    BY <1>3, <1>4, <1>5, <2>1, <2>3 DEF ReplaceRrsets, At
  <2> QED
    BY <1>2, <2>2, <2>4, KeysStoreOther
<1>6. CASE StoreAdoptedKey(a)
  <2>1. PICK r : r = [db[z] EXCEPT !.key = task[a].key, !.nsec3 = task[a].had]
    OBVIOUS
  <2>2. r \in RowTypes /\ r.active = db[z].active /\ r.tsig = db[z].tsig
    BY <1>3, <2>1 DEF RowTypes, TaskTypes
  <2>3. Store(a, r, AdoptList(task[a])) /\ task[a].pc = "adoptedkey"
    BY <1>3, <1>6, <2>1 DEF StoreAdoptedKey, At
  <2> QED
    BY <1>2, <1>4, <2>2, <2>3, KeysStoreOther
<1>7. CASE StoreAdoptedAllow(a)
  <2>1. PICK r : r = [db[z] EXCEPT !.allow = TRUE]
    OBVIOUS
  <2>2. r \in RowTypes /\ r.active = db[z].active /\ r.tsig = db[z].tsig
    BY <1>3, <2>1 DEF RowTypes
  <2>3. Store(a, r, "reread") /\ task[a].pc = "adoptedallow"
    BY <1>3, <1>7, <2>1 DEF StoreAdoptedAllow, At
  <2> QED
    BY <1>2, <2>2, <2>3, KeysStoreOther
<1>8. ASSUME NEW t, Goto(a, t), MovesOn(t, task[a], Plain), UNCHANGED <<db, pdns, tsig, intact>>
      PROVE  KeptInv'
  BY <1>1, <1>2, <1>8, MovesPlainly, KeysQuiet
<1>9. ASSUME NEW pc \in Plain, To(a, pc), UNCHANGED <<db, pdns, tsig, intact>>
      PROVE  KeptInv'
  <2>1. PICK t : t = [task[a] EXCEPT !.pc = pc]
    OBVIOUS
  <2>2. Goto(a, t) /\ MovesOn(t, task[a], Plain)
    BY <1>3, <1>9, <2>1 DEF To, MovesOn, TaskTypes
  <2> QED
    BY <1>8, <1>9, <2>2
<1>10. CASE AdoptKey(a)
  <2>1. UNCHANGED <<db, pdns, tsig, intact>> /\ AdoptList(task[a]) \in Plain
    BY <1>4, <1>10 DEF AdoptKey, Plain
  <2>2. ASSUME NEW k, Goto(a, [task[a] EXCEPT !.pc = "adoptedkey", !.key = k])
        PROVE  KeptInv'
    <3>1. PICK t : t = [task[a] EXCEPT !.pc = "adoptedkey", !.key = k]
      OBVIOUS
    <3>2. Goto(a, t) /\ MovesOn(t, task[a], Plain)
      BY <1>3, <2>2, <3>1 DEF MovesOn, TaskTypes, Plain
    <3> QED
      BY <1>8, <2>1, <3>2
  <2> QED
    BY <1>9, <1>10, <2>1, <2>2 DEF AdoptKey
<1>11. CASE AdoptAllow(a)
  <2>1. PICK pc : pc = IF Served(a).allow THEN "adoptedallow" ELSE "reread"
    OBVIOUS
  <2>2. pc \in Plain /\ To(a, pc) /\ UNCHANGED <<db, pdns, tsig, intact>>
    BY <1>11, <2>1 DEF AdoptAllow, Plain
  <2> QED
    BY <1>9, <2>2
<1>12. CASE Reread(a)
  <2>1. PICK t : t = [task[a] EXCEPT !.pc = "look", !.ver = Row(a).ver, !.allow = Row(a).allow,
                             !.key = 0, !.had = FALSE, !.rows[task[a].z] = NoRow]
    OBVIOUS
  <2>2. MovesOn(t, task[a], Plain)
    BY <1>3, <2>1 DEF MovesOn, TaskTypes, Plain
  <2>3. Goto(a, t) /\ UNCHANGED <<db, pdns, tsig, intact>>
    BY <1>12, <2>1 DEF Reread
  <2> QED
    BY <1>8, <2>2, <2>3
<1> QED
  BY <1>5, <1>6, <1>7, <1>10, <1>11, <1>12

\* What the sync collected protects the keys of every zone that is active.
LEMMA ListStraysKeeps ==
  ASSUME KeptInv, IntactInv', NEW a \in Actors, ListStrays(a)
  PROVE  KeptInv'
<1>1. /\ task[a].pc = "pick" /\ task[a].pc \in Walking /\ task[a] \in TaskTypes
      /\ task[a].op = "sync" /\ task[a].z = NoZone /\ task[a].left = {}
      /\ UNCHANGED <<db, pdns, tsig, intact>>
  BY AtZoneTypes DEF KeptInv, IntactInv, ListStrays, At, Walking, Walks
<1>2. PICK names : names = Strays(task[a])
  OBVIOUS
<1>3. PICK t : t = [task[a] EXCEPT !.pc = "strays", !.served = {}, !.want = {}, !.names = names]
  OBVIOUS
<1>4. /\ t.pc = "strays" /\ t.z = NoZone /\ t.op = "sync" /\ t.alone = task[a].alone
      /\ t.left = {} /\ t.names = names
  BY <1>1, <1>3 DEF TaskTypes
<1>5. Goto(a, t)
  BY <1>2, <1>3 DEF ListStrays
<1>6. names = {n \in KeyNames : tsig[n] # 0} \ task[a].want
  BY <1>2 DEF Strays, TsigNames
<1>7. ASSUME NEW x \in Zones, NEW in, KeysAway(task[a], x, db[x], tsig, in)
      PROVE  KeysAway(t, x, db[x], tsig, in)
  BY <1>1, <1>4, <1>6, <1>7 DEF KeysAway
<1>8. ASSUME NEW x \in Zones, KeysAway(task[a], x, db[x], tsig, x \in intact)
      PROVE  KeysAway(t, x, db[x], tsig', x \in intact)
  <2>1. PICK in : in = (x \in intact)
    OBVIOUS
  <2>2. KeysAway(t, x, db[x], tsig, in)
    BY <1>7, <1>8, <2>1
  <2> QED
    BY <1>1, <2>1, <2>2
<1>9. Collects(t, tsig', Wanted)
  <2>1. task[a].alone = Zones => task[a].want \subseteq Wanted
    BY <1>1, Collected DEF Collects
  <2> QED
    BY <1>1, <1>4, <1>6, <2>1 DEF Collects
<1>10. Zones = {} => \A n \in KeyNames : tsig'[n] = 0
  BY <1>1 DEF KeptInv, StraysInv
<1>11. \A x \in Zones : t.z # x
  BY <1>4, ZonesAssumption
<1> QED
  BY <1>1, <1>4, <1>5, <1>8, <1>9, <1>10, <1>11, KeysWalk

LEMMA RemoveStrayKeeps ==
  ASSUME KeptInv, IntactInv', NEW a \in Actors, NEW n \in KeyNames, RemoveStray(a, n)
  PROVE  KeptInv'
<1>1. /\ task[a].pc = "strays" /\ task[a].pc \in Walking /\ task[a] \in TaskTypes
      /\ task[a].op = "sync" /\ task[a].z = NoZone /\ n \in task[a].names
      /\ UNCHANGED <<db, pdns, intact>>
      /\ tsig' = [m \in KeyNames |-> IF m = n THEN 0 ELSE tsig[m]]
  BY AtZoneTypes DEF KeptInv, IntactInv, RemoveStray, WithoutTsig, At, Walking, Walks
<1>2. PICK t : t = [task[a] EXCEPT !.names = @ \ {n}]
  OBVIOUS
<1>3. /\ t.pc = "strays" /\ t.z = NoZone /\ t.op = "sync" /\ t.alone = task[a].alone
      /\ t.names = task[a].names \ {n}
  BY <1>1, <1>2 DEF TaskTypes
<1>4. Goto(a, t)
  BY <1>2 DEF RemoveStray
<1>5. ASSUME NEW x \in Zones, NEW in, KeysAway(task[a], x, db[x], tsig, in)
      PROVE  KeysAway(t, x, db[x], tsig', in)
  <2>1. SUFFICES ASSUME in, db[x].active
                 PROVE  KeysAway(t, x, db[x], tsig', in)
    BY DEF KeysAway
  <2>2. Has(db[x], tsig, x) /\ task[a].names \cap Stored(db[x]) = {}
    BY <1>1, <1>5, <2>1 DEF KeysAway
  <2>3. Has(db[x], tsig', x)
    BY <1>1, <2>2 DEF Has, Stored
  <2> QED
    BY <1>3, <2>2, <2>3 DEF KeysAway
<1>6. ASSUME NEW x \in Zones, KeysAway(task[a], x, db[x], tsig, x \in intact)
      PROVE  KeysAway(t, x, db[x], tsig', x \in intact)
  <2>1. PICK in : in = (x \in intact)
    OBVIOUS
  <2>2. KeysAway(t, x, db[x], tsig', in)
    BY <1>5, <1>6, <2>1
  <2> QED
    BY <2>1, <2>2
<1>7. Collects(t, tsig', Wanted)
  <2>1. task[a].alone = Zones => \A m \in KeyNames \ task[a].names : tsig[m] # 0 => m \in Wanted
    BY <1>1, Collected DEF Collects
  <2> QED
    BY <1>1, <1>3, <2>1 DEF Collects
<1>8. Zones = {} => \A m \in KeyNames : tsig'[m] = 0
  BY <1>1 DEF KeptInv, StraysInv
<1>9. \A x \in Zones : t.z # x
  BY <1>3, ZonesAssumption
<1> QED
  BY <1>1, <1>3, <1>4, <1>6, <1>7, <1>8, <1>9, KeysWalk

LEMMA EndSyncKeeps ==
  ASSUME KeptInv, IntactInv', NEW a \in Actors, EndSync(a)
  PROVE  KeptInv'
<1>1. /\ task[a].pc = "strays" /\ task[a].z = NoZone /\ Goto(a, Idle)
      /\ UNCHANGED <<db, pdns, tsig, intact>> /\ intact \subseteq Zones
  BY DEF KeptInv, IntactInv, EndSync, At, Walks, TypeInv, Tables
<1>2. \A x \in Zones : x # task[a].z
  BY <1>1, ZonesAssumption
<1>3. \A x \in Zones : Stored(db'[x]) \subseteq NamesOf[x]
  BY <1>1 DEF KeptInv, Chosen
<1> QED
  BY <1>1, <1>2, <1>3, KeysEnd

LEMMA SyncStepKeeps ==
  ASSUME KeptInv, IntactInv', NEW a \in Actors, SyncStep(a)
  PROVE  KeptInv'
BY ListServedKeeps, PruneKeeps, PickZoneKeeps, AdoptKeeps, ListStraysKeeps, RemoveStrayKeeps,
   EndSyncKeeps DEF SyncStep

-----------------------------------------------------------------------------
(* The starts of tasks                                                      *)

\* What a task knows of keys does not depend on which zones it has to itself.
LEMMA SameKeys ==
  ASSUME NEW t \in TaskTypes, NEW u \in TaskTypes, NEW S, u = [t EXCEPT !.alone = S],
         NEW x, NEW row, NEW ts, NEW in
  PROVE  /\ KeysHere(t, x, row, ts, in) => KeysHere(u, x, row, ts, in)
         /\ KeysAway(t, x, row, ts, in) => KeysAway(u, x, row, ts, in)
         /\ Owned(t) => Owned(u)
         /\ u.pc = t.pc /\ u.op = t.op /\ u.z = t.z /\ u.want = t.want /\ u.names = t.names
         /\ u.alone = S
<1>1. /\ u.pc = t.pc /\ u.op = t.op /\ u.z = t.z /\ u.name = t.name /\ u.names = t.names
      /\ u.left = t.left /\ u.alone = S
  BY SameFields
<1>2. u.make = t.make /\ u.want = t.want
  BY DEF TaskTypes
<1>3. KeysHere(t, x, row, ts, in) => KeysHere(u, x, row, ts, in)
  BY <1>1, <1>2 DEF KeysHere
<1>4. KeysAway(t, x, row, ts, in) => KeysAway(u, x, row, ts, in)
  BY <1>1, <1>2 DEF KeysAway
<1>5. Owned(t) => Owned(u)
  BY <1>1 DEF Owned
<1> QED
  BY <1>1, <1>2, <1>3, <1>4, <1>5

LEMMA KeysStarts ==
  ASSUME KeptInv, IntactInv', NEW a \in Actors, task[a].pc = "idle",
         NEW t \in TaskTypes, NEW S \in SUBSET Zones,
         task' = [b \in Actors |-> IF b = a THEN t
                                   ELSE [task[b] EXCEPT !.alone = @ \ S]],
         UNCHANGED <<db, pdns, tsig>>, t.pc # "idle", Owned(t),
         \A x \in Zones : Reaches(t, x) <=> x \in S,
         \A x \in Zones : x \in t.alone <=> x \in S /\ ~AtWork(x),
         \A x \in Zones : x \in intact' <=> x \in intact /\ ~(x \in S /\ AtWork(x)),
         t.op = "sync" => t.pc = "served" /\ t.z = NoZone /\ t.want = {},
         \A x \in S : ~AtWork(x) =>
            IF t.z = x THEN KeysHere(t, x, db[x], tsig, x \in intact)
                       ELSE KeysAway(t, x, db[x], tsig, x \in intact)
  PROVE  KeptInv'
<1>1. /\ IntactInv /\ TypeInv /\ task'[a] = t /\ task' \in [Actors -> TaskTypes]
      /\ intact \subseteq Zones /\ intact' \subseteq Zones
  BY DEF KeptInv, IntactInv, TypeInv, Tables
<1>2. \A x : AtWork(x) <=> \E b \in Actors : Reaches(task[b], x)
  BY ReachesTouches DEF AtWork
<1>3. ASSUME NEW b \in Actors, b # a
      PROVE  /\ task[b] \in TaskTypes /\ task'[b] \in TaskTypes
             /\ task[b].alone \subseteq Zones
             /\ task'[b] = [task[b] EXCEPT !.alone = task[b].alone \ S]
  BY <1>1, <1>3 DEF TypeInv, TaskTypes
<1>4. ASSUME NEW b \in Actors, b # a
      PROVE  /\ task'[b].pc = task[b].pc /\ task'[b].op = task[b].op
             /\ task'[b].z = task[b].z /\ task'[b].want = task[b].want
             /\ task'[b].names = task[b].names /\ task'[b].alone = task[b].alone \ S
             /\ Owned(task'[b])
             /\ \A x : Reaches(task'[b], x) <=> Reaches(task[b], x)
  <2>1. PICK u, v, T : u = task[b] /\ v = task'[b] /\ T = task[b].alone \ S
    OBVIOUS
  <2>2. u \in TaskTypes /\ v \in TaskTypes /\ v = [u EXCEPT !.alone = T]
    BY <1>3, <1>4, <2>1
  <2>3. Owned(u)
    BY <2>1 DEF KeptInv, Chosen
  <2>4. /\ v.pc = u.pc /\ v.op = u.op /\ v.z = u.z /\ v.want = u.want /\ v.names = u.names
        /\ v.alone = T /\ Owned(v)
    BY <2>2, <2>3, SameKeys
  <2> QED
    BY <2>1, <2>4 DEF Reaches
<1>5. Chosen'
  BY <1>1, <1>4 DEF Chosen, KeptInv
<1>6. ASSUME NEW x \in intact', db'[x].active, \A b \in Actors : ~Reaches(task'[b], x)
      PROVE  Has(db'[x], tsig', x)
  <2>1. x \in intact
    BY <1>1
  <2>2. \A b \in Actors : ~Reaches(task[b], x)
    <3>1. ~Reaches(task[a], x)
      BY DEF Reaches
    <3> QED
      BY <1>4, <1>6, <3>1
  <2> QED
    BY <1>6, <2>1, <2>2 DEF KeptInv, KeysRest
<1>7. ASSUME NEW b \in Actors, NEW x \in Zones
      PROVE  Local(task'[b], x, db'[x], pdns'[x], tsig', x \in intact')
  <2>1. CASE b = a
    <3>1. InLine(t, x, db[x], pdns[x], x \in intact')
      BY ZonesAssumption DEF InLine
    <3>2. ASSUME Reaches(t, x), x \in intact' \/ x \in t.alone
          PROVE  IF t.z = x THEN KeysHere(t, x, db[x], tsig, x \in intact')
                            ELSE KeysAway(t, x, db[x], tsig, x \in intact')
      <4>1. x \in S /\ ~AtWork(x) /\ (x \in intact') = (x \in intact)
        BY <3>2
      <4> QED
        BY <4>1
    <3> QED
      BY <1>1, <2>1, <3>1, <3>2 DEF Local, KeysAt
  <2>2. CASE b # a
    <3>1. InLine(task'[b], x, db'[x], pdns'[x], x \in intact')
      <4>1. InLine(task[b], x, db[x], pdns[x], x \in intact)
        BY DEF KeptInv, Local
      <4> QED
        BY <1>4, <2>2, <4>1 DEF InLine
    <3>2. SUFFICES ASSUME Reaches(task'[b], x), x \in intact' \/ x \in task'[b].alone
                   PROVE  IF task'[b].z = x
                          THEN KeysHere(task'[b], x, db[x], tsig, x \in intact')
                          ELSE KeysAway(task'[b], x, db[x], tsig, x \in intact')
      BY <3>1 DEF Local, KeysAt
    <3>3. /\ Reaches(task[b], x) /\ x \notin S /\ (x \in intact \/ x \in task[b].alone)
          /\ (x \in intact') = (x \in intact)
      BY <1>2, <1>4, <2>2, <3>2
    <3>4. PICK in : in = (x \in intact) /\ in = (x \in intact')
      BY <3>3
    <3>5. PICK u, v, T : u = task[b] /\ v = task'[b] /\ T = task[b].alone \ S
      OBVIOUS
    <3>6. u \in TaskTypes /\ v \in TaskTypes /\ v = [u EXCEPT !.alone = T]
      BY <1>3, <2>2, <3>5
    <3>7. IF u.z = x THEN KeysHere(u, x, db[x], tsig, in) ELSE KeysAway(u, x, db[x], tsig, in)
      <4>1. KeysAt(u, x, db[x], tsig, in)
        BY <3>4, <3>5 DEF KeptInv, Local
      <4> QED
        BY <3>3, <3>4, <3>5, <4>1 DEF KeysAt
    <3>8. IF v.z = x THEN KeysHere(v, x, db[x], tsig, in) ELSE KeysAway(v, x, db[x], tsig, in)
      BY <3>6, <3>7, SameKeys
    <3> QED
      BY <3>4, <3>5, <3>8
  <2> QED
    BY <2>1, <2>2
<1>8. ASSUME NEW b \in Actors
      PROVE  Collects(task'[b], tsig', Wanted')
  <2>1. Wanted' = Wanted
    BY DEF Wanted
  <2>2. CASE b = a
    BY <1>1, <2>2 DEF Collects
  <2>3. CASE b # a
    <3>1. task'[b].alone = Zones => task[b].alone = Zones
      BY <1>3, <1>4, <2>3
    <3>2. Collects(task[b], tsig, Wanted)
      BY DEF KeptInv, StraysInv
    <3> QED
      BY <1>4, <2>1, <2>3, <3>1, <3>2 DEF Collects
  <2> QED
    BY <2>2, <2>3
<1> QED
  BY <1>5, <1>6, <1>7, <1>8 DEF KeptInv, KeysRest, StraysInv

LEMMA SyncStartKeeps ==
  ASSUME KeptInv, IntactInv', NEW a \in Actors, AdminSync(a) \/ Start(a)
  PROVE  KeptInv'
<1>1. /\ IntactInv /\ TypeInv /\ TypeInv' /\ Starting /\ KeysRest
  BY DEF KeptInv, IntactInv
<1>2. PICK force : BeginSync(a, force)
  BY DEF AdminSync, Start
<1>3. task[a].pc = "idle"
  BY <1>1 DEF AdminSync, Start, Busy, Starting
<1>4. PICK rows : rows = [z \in Zones |-> Listed(db[z])]
  OBVIOUS
<1>5. PICK alone : alone = {z \in Zones : ~AtWork(z)}
  OBVIOUS
<1>6. PICK t : t = [Idle EXCEPT !.pc = "served", !.op = "sync", !.force = force,
                                !.rows = rows, !.alone = alone]
  OBVIOUS
<1>7. /\ t.pc = "served" /\ t.op = "sync" /\ t.z = NoZone /\ t.alone = alone /\ t.left = {}
      /\ t.want = {}
  BY <1>6 DEF Idle
<1>8. \A b \in Actors : b # a => [task[b] EXCEPT !.alone = {}]
                                   = [task[b] EXCEPT !.alone = @ \ Zones]
  BY <1>1 DEF TypeInv, TaskTypes
<1>9. /\ task' = [b \in Actors |-> IF b = a THEN t
                                   ELSE [task[b] EXCEPT !.alone = @ \ Zones]]
      /\ UNCHANGED <<db, pdns, tsig>> /\ intact' = {z \in intact : ~AtWork(z)}
  BY <1>2, <1>4, <1>5, <1>6, <1>8 DEF BeginSync
<1>10. t \in TaskTypes
  BY <1>1, <1>9 DEF TypeInv
<1>11. \A x : Reaches(t, x)
  BY <1>7 DEF Reaches
<1>12. ASSUME NEW x \in Zones, ~AtWork(x)
       PROVE  IF t.z = x THEN KeysHere(t, x, db[x], tsig, x \in intact)
                         ELSE KeysAway(t, x, db[x], tsig, x \in intact)
  <2>1. \A b \in Actors : ~Reaches(task[b], x)
    BY <1>12, ReachesTouches DEF AtWork
  <2>2. PICK in : in = (x \in intact)
    OBVIOUS
  <2>3. in /\ db[x].active => Has(db[x], tsig, x)
    BY <1>1, <2>1, <2>2 DEF KeysRest
  <2>4. KeysAway(t, x, db[x], tsig, in) /\ t.z # x
    BY <1>7, <2>3, ZonesAssumption DEF KeysAway
  <2> QED
    BY <2>2, <2>4
<1>13. Owned(t) /\ Zones \in SUBSET Zones /\ t.pc # "idle"
  BY <1>7 DEF Owned
<1>14. \A x \in Zones : x \in t.alone <=> x \in Zones /\ ~AtWork(x)
  BY <1>5, <1>7
<1>15. \A x \in Zones : x \in intact' <=> x \in intact /\ ~(x \in Zones /\ AtWork(x))
  BY <1>9
<1> QED
  BY <1>3, <1>7, <1>9, <1>10, <1>11, <1>12, <1>13, <1>14, <1>15, KeysStarts

\* An edit starts at an active zone, whose keys are there if the zone is at rest.
LEMMA BeginKeeps ==
  ASSUME KeptInv, IntactInv', NEW a \in Actors, NEW o \in Edits6 \cup {"activate", "deactivate"},
         NEW z \in Zones, NEW t \in TaskTypes, Begin(a, o, z, t),
         t.pc \in {"patch", "keys", "allow", "create", "store", "active", "unserve"},
         o \in {"addkey", "delkey"} => t.name \in NamesOf[z],
         o = "addkey" => t.pc = "create",
         o = "activate" => t.pc = "active",
         o \in Edits6 => db[z].active
  PROVE  KeptInv'
<1>1. /\ KeysRest /\ task[a].pc = "idle" /\ TypeInv'
  BY DEF KeptInv, IntactInv, Begin, Busy
<1>2. PICK S : S = IF AtWork(z) THEN {} ELSE {z}
  OBVIOUS
<1>3. PICK u : u = [t EXCEPT !.op = o, !.z = z, !.alone = S]
  OBVIOUS
<1>4. u.pc = t.pc /\ u.op = o /\ u.z = z /\ u.alone = S /\ u.name = t.name
  BY <1>3 DEF TaskTypes
<1>5. /\ task' = [b \in Actors |-> IF b = a THEN u
                                   ELSE [task[b] EXCEPT !.alone = @ \ {z}]]
      /\ UNCHANGED <<db, pdns, tsig>> /\ intact' = IF AtWork(z) THEN intact \ {z} ELSE intact
  BY <1>2, <1>3 DEF Begin
<1>6. u \in TaskTypes
  BY <1>1, <1>5 DEF TypeInv
<1>7. u.op # "sync" /\ u.pc # "idle" /\ Owned(u) /\ {z} \in SUBSET Zones
  BY <1>4 DEF Edits6, Owned
<1>8. \A x \in Zones : Reaches(u, x) <=> x \in {z}
  BY <1>4, <1>7 DEF Reaches
<1>9. \A x \in Zones : x \in u.alone <=> x \in {z} /\ ~AtWork(x)
  BY <1>2, <1>4
<1>10. \A x \in Zones : x \in intact' <=> x \in intact /\ ~(x \in {z} /\ AtWork(x))
  BY <1>5
<1>11. ASSUME ~AtWork(z)
       PROVE  KeysHere(u, z, db[z], tsig, z \in intact)
  <2>1. \A b \in Actors : ~Reaches(task[b], z)
    BY <1>11, ReachesTouches DEF AtWork
  <2>2. PICK in : in = (z \in intact)
    OBVIOUS
  <2>3. in /\ db[z].active => Has(db[z], tsig, z)
    BY <1>1, <2>1, <2>2 DEF KeysRest
  <2>4. KeysHere(u, z, db[z], tsig, in)
    BY <1>4, <1>7, <2>3 DEF KeysHere, Edits6
  <2> QED
    BY <2>2, <2>4
<1>12. \A x \in {z} : ~AtWork(x) =>
          IF u.z = x THEN KeysHere(u, x, db[x], tsig, x \in intact)
                     ELSE KeysAway(u, x, db[x], tsig, x \in intact)
  BY <1>4, <1>11
<1> QED
  BY <1>1, <1>5, <1>6, <1>7, <1>8, <1>9, <1>10, <1>12, KeysStarts

LEMMA RequestKeeps ==
  ASSUME KeptInv, IntactInv', NEW a \in Actors, NEW z \in Zones, Request(a, z)
  PROVE  KeptInv'
<1>1. Idle \in TaskTypes /\ Stored(db[z]) \subseteq NamesOf[z] /\ db[z] \in RowTypes
  BY IdleFits DEF KeptInv, Chosen, IntactInv, TypeInv, Tables
<1>2. ASSUME NEW r \in RRs, NEW v \in Data \cup {NoData}, Patch(a, z, r, v)
      PROVE  KeptInv'
  <2>1. PICK t : t = [Idle EXCEPT !.pc = "patch", !.rr = r, !.val = v]
    OBVIOUS
  <2>2. t \in TaskTypes /\ t.pc = "patch"
    BY <1>1, <1>2, <2>1 DEF TaskTypes, Pcs, AtZone
  <2>3. db[z].active /\ Begin(a, "patch", z, t)
    BY <1>1, <1>2, <2>1 DEF Patch
  <2> QED
    BY <2>2, <2>3, BeginKeeps DEF Edits6
<1>3. ASSUME NEW n3 \in BOOLEAN, Sign(a, z, n3)
      PROVE  KeptInv'
  <2>1. PICK t : t = [Idle EXCEPT !.pc = "keys", !.nsec3 = n3]
    OBVIOUS
  <2>2. t \in TaskTypes /\ t.pc = "keys"
    BY <1>1, <1>3, <2>1 DEF TaskTypes, Pcs, AtZone
  <2>3. db[z].active /\ Begin(a, "sign", z, t)
    BY <1>1, <1>3, <2>1 DEF Sign
  <2> QED
    BY <2>2, <2>3, BeginKeeps DEF Edits6
<1>4. ASSUME Unsign(a, z)
      PROVE  KeptInv'
  <2>1. PICK t : t = [Idle EXCEPT !.pc = "keys"]
    OBVIOUS
  <2>2. t \in TaskTypes /\ t.pc = "keys"
    BY <1>1, <1>4, <2>1 DEF TaskTypes, Pcs, AtZone
  <2>3. db[z].active /\ Begin(a, "unsign", z, t)
    BY <1>1, <1>4, <2>1 DEF Unsign
  <2> QED
    BY <2>2, <2>3, BeginKeeps DEF Edits6
<1>5. ASSUME NEW allow \in BOOLEAN, SetAllowFrom(a, z, allow)
      PROVE  KeptInv'
  <2>1. PICK t : t = [Idle EXCEPT !.pc = "allow", !.allow = allow]
    OBVIOUS
  <2>2. t \in TaskTypes /\ t.pc = "allow"
    BY <1>1, <1>5, <2>1 DEF TaskTypes, Pcs, AtZone
  <2>3. db[z].active /\ Begin(a, "allow", z, t)
    BY <1>1, <1>5, <2>1 DEF SetAllowFrom
  <2> QED
    BY <2>2, <2>3, BeginKeeps DEF Edits6
<1>6. ASSUME NEW n \in KeyNames, AddTsigKey(a, z, n)
      PROVE  KeptInv'
  <2>1. Stored(db[z]) \cup {n} \subseteq KeyNames
    BY DEF Stored
  <2>2. PICK t : t = [Idle EXCEPT !.pc = "create", !.name = n,
                                  !.names = Stored(db[z]) \cup {n}]
    OBVIOUS
  <2>3. t \in TaskTypes /\ t.pc = "create" /\ t.name = n
    BY <1>1, <1>6, <2>1, <2>2 DEF TaskTypes, Pcs, AtZone
  <2>4. db[z].active /\ Begin(a, "addkey", z, t) /\ t.name \in NamesOf[z]
    BY <1>1, <1>6, <2>2, <2>3 DEF AddTsigKey
  <2> QED
    BY <2>3, <2>4, BeginKeeps DEF Edits6
<1>7. ASSUME NEW n \in KeyNames, DeleteTsigKey(a, z, n)
      PROVE  KeptInv'
  <2>1. PICK t : t = [Idle EXCEPT !.pc = "store", !.name = n]
    OBVIOUS
  <2>2. t \in TaskTypes /\ t.pc = "store" /\ t.name = n
    BY <1>1, <1>7, <2>1 DEF TaskTypes, Pcs, AtZone
  <2>3. db[z].active /\ Begin(a, "delkey", z, t) /\ t.name \in NamesOf[z]
    BY <1>1, <1>7, <2>1, <2>2 DEF DeleteTsigKey
  <2> QED
    BY <2>2, <2>3, BeginKeeps DEF Edits6
<1>8. ASSUME Activate(a, z)
      PROVE  KeptInv'
  <2>1. PICK rows : rows = [NoRows EXCEPT ![z] = Listed(db[z])]
    OBVIOUS
  <2>2. Listed(db[z]) \in ListedTypes
    BY <1>1 DEF RowTypes, Listed, ListedTypes
  <2>3. rows \in [Zones -> ListedTypes]
    BY <2>1, <2>2, Constants
  <2>4. PICK t : t = [Idle EXCEPT !.pc = "active", !.rows = rows]
    OBVIOUS
  <2>5. t \in TaskTypes /\ t.pc = "active"
    BY <1>1, <2>3, <2>4 DEF TaskTypes, Pcs, AtZone
  <2>6. Begin(a, "activate", z, t)
    BY <1>1, <1>8, <2>4, <2>1 DEF Activate
  <2> QED
    BY <2>5, <2>6, BeginKeeps DEF Edits6
<1>9. ASSUME Deactivate(a, z)
      PROVE  KeptInv'
  <2>1. PICK t : t = [Idle EXCEPT !.pc = "unserve"]
    OBVIOUS
  <2>2. t \in TaskTypes /\ t.pc = "unserve"
    BY <1>1, <1>9, <2>1 DEF TaskTypes, Pcs, AtZone
  <2>3. Begin(a, "deactivate", z, t)
    BY <1>1, <1>9, <2>1 DEF Deactivate
  <2> QED
    BY <2>2, <2>3, BeginKeeps DEF Edits6
<1> QED
  BY <1>2, <1>3, <1>4, <1>5, <1>6, <1>7, <1>8, <1>9 DEF Request

-----------------------------------------------------------------------------
(* Losses, the first state, and the theorems                                *)

LEMMA CrashKeeps == KeptInv /\ IntactInv' /\ Crash => KeptInv'
<1> SUFFICES ASSUME KeptInv, IntactInv', Crash PROVE KeptInv'
  OBVIOUS
<1>1. /\ IntactInv /\ UNCHANGED <<db, pdns, tsig>> /\ \A b \in Actors : task'[b] = Idle
      /\ intact' = intact \ {task[b].z : b \in Actors} /\ intact \subseteq Zones
  BY DEF KeptInv, IntactInv, TypeInv, Tables, Crash
<1>2. \A b \in Actors : task'[b].pc = "idle" /\ task'[b].op = "none"
  BY <1>1 DEF Idle
<1>3. \A b \in Actors : \A x : ~Reaches(task'[b], x)
  BY <1>2 DEF Reaches
<1>4. Chosen'
  BY <1>1, <1>2 DEF Chosen, KeptInv, Owned
<1>5. ASSUME NEW x \in intact', db[x].active
      PROVE  Has(db[x], tsig, x)
  <2>1. x \in Zones /\ x \in intact /\ \A b \in Actors : task[b].z # x
    BY <1>1
  <2>2. CASE \A b \in Actors : ~Reaches(task[b], x)
    BY <1>5, <2>1, <2>2 DEF KeptInv, KeysRest
  <2>3. ASSUME NEW b \in Actors, Reaches(task[b], x)
        PROVE  Has(db[x], tsig, x)
    <3>1. PICK in : in = (x \in intact)
      OBVIOUS
    <3>2. KeysAway(task[b], x, db[x], tsig, in)
      BY <2>1, <2>3, <3>1, KeptAway
    <3> QED
      BY <1>5, <2>1, <3>1, <3>2 DEF KeysAway
  <2> QED
    BY <2>2, <2>3
<1>6. KeysRest'
  BY <1>1, <1>5 DEF KeysRest
<1>7. StraysInv'
  BY <1>1, <1>2 DEF StraysInv, KeptInv, Collects
<1>8. ASSUME NEW b \in Actors, NEW x \in Zones
      PROVE  Local(task'[b], x, db'[x], pdns'[x], tsig', x \in intact')
  BY <1>2, <1>3 DEF Local, InLine, KeysAt
<1> QED
  BY <1>4, <1>6, <1>7, <1>8 DEF KeptInv

LEMMA WipeKeeps == KeptInv /\ IntactInv' /\ Wipe => KeptInv'
<1> SUFFICES ASSUME KeptInv, IntactInv', Wipe PROVE KeptInv'
  OBVIOUS
<1>1. /\ UNCHANGED <<db, task>> /\ tsig' = NoTsig /\ \A b \in Actors : task[b].pc = "idle"
      /\ intact' = {x \in intact : ~db[x].active}
  BY DEF KeptInv, IntactInv, Starting, Wipe
<1>2. \A b \in Actors : \A x : ~Reaches(task[b], x)
  BY <1>1 DEF Reaches
<1>3. Chosen' /\ KeysRest'
  BY <1>1 DEF Chosen, KeysRest, KeptInv
<1>4. StraysInv'
  BY <1>1 DEF StraysInv, Collects, NoTsig
<1>5. ASSUME NEW b \in Actors, NEW x \in Zones
      PROVE  Local(task'[b], x, db'[x], pdns'[x], tsig', x \in intact')
  BY <1>1, <1>2 DEF Local, InLine, KeysAt
<1> QED
  BY <1>3, <1>4, <1>5 DEF KeptInv

LEMMA InitKeeps == Init => KeptInv
<1> SUFFICES ASSUME Init PROVE KeptInv
  OBVIOUS
<1>1. /\ IntactInv /\ tsig = NoTsig /\ \A b \in Actors : task[b] = Idle
      /\ \A x \in Zones : db[x] \in {NewRow, CreatedRow}
  BY InitIntact DEF Init
<1>2. \A b \in Actors : task[b].pc = "idle" /\ task[b].op = "none"
  BY <1>1 DEF Idle
<1>3. \A b \in Actors : \A x : ~Reaches(task[b], x)
  BY <1>2 DEF Reaches
<1>4. ASSUME NEW x \in Zones
      PROVE  Stored(db[x]) = {}
  <2>1. PICK rrs : rrs = [NewRow.rrs EXCEPT ![ApexNs] = OwnNs]
    OBVIOUS
  <2>2. CreatedRow = [NewRow EXCEPT !.ver = 2, !.rrs = rrs]
    BY <2>1, Constants DEF CreatedRow, RowTypes
  <2>3. CreatedRow.tsig = NoTsig /\ NewRow.tsig = NoTsig
    BY <2>2 DEF NewRow
  <2> QED
    BY <1>1, <2>3 DEF Stored, NoTsig
<1>5. Chosen
  BY <1>2, <1>4 DEF Chosen, Owned
<1>6. KeysRest
  <2>1. intact \subseteq Zones
    BY <1>1 DEF IntactInv, TypeInv, Tables
  <2> QED
    BY <1>4, <2>1 DEF KeysRest, Has
<1>7. StraysInv
  BY <1>1, <1>2 DEF StraysInv, Collects, NoTsig
<1>8. ASSUME NEW b \in Actors, NEW x \in Zones
      PROVE  Local(task[b], x, db[x], pdns[x], tsig, x \in intact)
  BY <1>2, <1>3 DEF Local, InLine, KeysAt
<1> QED
  BY <1>1, <1>5, <1>6, <1>7, <1>8 DEF KeptInv

LEMMA StutterKeeps == KeptInv /\ UNCHANGED vars => KeptInv'
<1> SUFFICES ASSUME KeptInv, UNCHANGED vars PROVE KeptInv'
  OBVIOUS
<1>1. IntactInv'
  BY StutterIntact DEF KeptInv
<1>2. UNCHANGED <<db, pdns, tsig, task, mode, intact>>
  BY DEF vars
<1>3. Chosen' /\ KeysRest' /\ StraysInv'
  BY <1>2 DEF KeptInv, Chosen, KeysRest, StraysInv, Wanted
<1> QED
  BY <1>1, <1>2, <1>3 DEF KeptInv

LEMMA KeptInvariance == Spec => []KeptInv
<1>1. KeptInv /\ [Next]_vars => KeptInv'
  <2>1. ASSUME KeptInv, Next
        PROVE  IntactInv'
    <3>1. IntactInv
      BY <2>1 DEF KeptInv
    <3> QED
      BY <2>1, <3>1, RequestIntact, SyncStartIntact, EditStepIntact, ConvergeStepIntact,
         SyncStepIntact, RefusalIntact, CrashIntact, WipeIntact DEF Next
  <2>2. ASSUME KeptInv, Next
        PROVE  KeptInv'
    BY <2>1, <2>2, RequestKeeps, SyncStartKeeps, EditStepKeeps, ConvergeStepKeeps,
       SyncStepKeeps, RefusalKeeps, CrashKeeps, WipeKeeps DEF Next
  <2> QED
    BY <2>2, StutterKeeps
<1> QED
  BY InitKeeps, <1>1, PTL DEF Spec

\* A sync, the one at certo's start or one an administrator asks for, takes nothing of
\* a zone that is in line out of service, at any single call: it prunes no such zone,
\* and converge finds nothing of it to create, patch, take away or import.
THEOREM SyncsDisturbNothing == Spec => []SyncUndisturbing
<1>1. KeptInv => SyncUndisturbing
  <2> SUFFICES ASSUME KeptInv, NEW z \in intact, NEW a \in Actors, Touches(a, z),
                      task[a].op = "sync"
               PROVE  Mirrored(z)
    BY DEF SyncUndisturbing
  <2>1. z \in Zones /\ Reaches(task[a], z) /\ IntactInv
    BY ReachesTouches DEF KeptInv, IntactInv, TypeInv, Tables
  <2>2. Mirror(db[z], pdns[z])
    <3>1. CASE task[a].z = z
      <4>1. InLine(task[a], z, db[z], pdns[z], z \in intact)
        BY <2>1 DEF KeptInv, Local
      <4> QED
        BY <2>1, <3>1, <4>1 DEF InLine, Reaches
    <3>2. CASE task[a].z # z
      <4>1. Away(task[a], z, db[z], pdns[z], z \in intact)
        BY <2>1, <3>2, AwayHolds
      <4> QED
        BY <4>1 DEF Away
    <3> QED
      BY <3>1, <3>2
  <2> QED
    BY <2>1, <2>2, MirrorMirrored
<1> QED
  BY KeptInvariance, <1>1, PTL

\* An intact zone that is active and signed is served with its stored key alone at
\* every moment of its edits and of syncs; only disabling DNSSEC, a deactivation and
\* the converge of an activation may take the key away for a while.
THEOREM SignedThroughout == Spec => []SignedAllAlong
<1>1. KeptInv /\ SyncUndisturbing => SignedAllAlong
  <2> SUFFICES ASSUME KeptInv, SyncUndisturbing, NEW z \in intact, db[z].active, db[z].key # 0,
                      \A a \in Actors : Touches(a, z) =>
                        task[a].op \notin {"unsign", "activate", "deactivate"}
               PROVE  pdns[z].keys = {db[z].key}
    BY DEF SignedAllAlong
  <2>1. z \in Zones /\ IntactInv
    BY DEF KeptInv, IntactInv, TypeInv, Tables
  <2>2. Mirror(db[z], pdns[z]) => pdns[z].keys = {db[z].key}
    BY DEF Mirror, Agree
  <2>3. CASE \A a \in Actors : ~Reaches(task[a], z)
    BY <2>1, <2>2, <2>3 DEF IntactInv, Rest
  <2>4. ASSUME NEW a \in Actors, Reaches(task[a], z)
        PROVE  pdns[z].keys = {db[z].key}
    <3>1. Touches(a, z) /\ task[a].op \notin {"unsign", "activate", "deactivate"}
      BY <2>4, ReachesTouches
    <3>2. CASE task[a].op = "sync"
      <4>1. Mirrored(z)
        BY <3>1, <3>2 DEF SyncUndisturbing
      <4> QED
        BY <2>1, <2>2, <4>1, MirrorMirrored
    <3>3. CASE task[a].op # "sync"
      <4>1. task[a].z = z /\ task[a].pc # "idle"
        BY <2>4, <3>3 DEF Reaches
      <4>2. Here(task[a], z, db[z], pdns[z], z \in intact)
        BY <2>1, <4>1, HereHolds
      <4>3. Edited(task[a], db[z], pdns[z])
        BY <3>1, <3>3, <4>2 DEF Here
      <4> QED
        BY <3>1, <4>3 DEF Edited, Patching, Allowing, Signing, AddingKey, DeletingKey, Agree
    <3> QED
      BY <3>2, <3>3
  <2> QED
    BY <2>3, <2>4
<1> QED
  BY KeptInvariance, SyncsDisturbNothing, <1>1, PTL

\* While a zone is active and intact, and no task is at it, PowerDNS has the TSIG keys
\* that its rows name, but for names that another zone's owner chooses too: edits of
\* other zones, their deactivation and the search for strays leave them, and converge
\* makes anew those that a loss of PowerDNS's data or a deactivation took away.
THEOREM KeysStayAnswering == Spec => []KeysAnswer
<1>1. KeptInv => KeysAnswer
  <2> SUFFICES ASSUME KeptInv, NEW z \in intact, ~AtWork(z), db[z].active, NEW n \in Stored(db[z])
               PROVE  tsig[n] # 0 \/ \E y \in Zones \ {z} : n \in NamesOf[y]
    BY DEF KeysAnswer
  <2>1. \A a \in Actors : ~Reaches(task[a], z)
    BY ReachesTouches DEF AtWork
  <2>2. Has(db[z], tsig, z)
    BY <2>1 DEF KeptInv, KeysRest
  <2> QED
    BY <2>2 DEF Has, Shared
<1> QED
  BY KeptInvariance, <1>1, PTL

\* A sync that met no other task ends with no TSIG keys in PowerDNS but those that the
\* rows of active zones name: what it collects while it walks over the zones are such
\* names, and all others go.
THEOREM SyncsRemoveStrays == Spec => SyncRemovesStrays
<1>1. ASSUME KeptInv, NEW a \in Actors, EndSync(a), task[a].alone = Zones,
             NEW n \in KeyNames, tsig[n] # 0
      PROVE  \E z \in Zones : db[z].active /\ n \in Stored(db[z])
  <2>1. task[a].pc = "strays" /\ task[a].names = {} /\ task[a].op = "sync"
    BY <1>1 DEF EndSync, At, KeptInv, IntactInv, Walks
  <2>2. Collects(task[a], tsig, Wanted)
    BY <1>1 DEF KeptInv, StraysInv
  <2>3. n \in Wanted
    BY <1>1, <2>1, <2>2 DEF Collects
  <2> QED
    BY <2>3 DEF Wanted
<1>2. ASSUME KeptInv
      PROVE  \A a \in Actors :
               (EndSync(a) /\ task[a].alone = Zones) =>
                 \A n \in KeyNames :
                   tsig[n] # 0 => \E z \in Zones : db[z].active /\ n \in Stored(db[z])
  BY <1>1, <1>2
<1> QED
  BY KeptInvariance, <1>2, PTL DEF SyncRemovesStrays
=============================================================================
