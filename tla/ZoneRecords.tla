---------------------------- MODULE ZoneRecords ----------------------------
(***************************************************************************)
(* What PowerDNS serves for the users' zones, beyond their being there at   *)
(* all (ZoneLifecycle): records, the DNSSEC key and NSEC mode, the allow    *)
(* list and the TSIG keys of transfers.  certo's database has all of it;    *)
(* every edit changes both stores, one after the other, and moves a version *)
(* that is stamped on the zone in PowerDNS.  converge builds a zone from    *)
(* the database: at its activation, and in every sync that finds its stamp  *)
(* out of date.                                                             *)
(*                                                                          *)
(* Atomicity as in ZoneLifecycle: one step per database transaction and per *)
(* PowerDNS call.  Reads that follow one another directly are one step.     *)
(* Rows are never deleted here, and the delegation checks that lead to an   *)
(* activation or a deactivation are left out.                               *)
(***************************************************************************)
EXTENDS Naturals, FiniteSets

CONSTANTS
  Zones,       \* zone names
  Actors,      \* concurrent tasks
  NoZone,
  RRs,         \* names and types of rrsets
  ApexNs,      \* the NS rrset at the apex
  Data,        \* contents of an rrset
  NoData,      \* no such rrset
  OwnNs,       \* the NS rrset that names certo's server
  KeyNames,    \* names of TSIG keys
  NamesOf,     \* the names a zone's owner chooses from
  OpsOf,       \* the operations each actor may begin, and whether it may be cut off
  Faults,      \* the faults an instance lets happen
  MaxVersion,  \* bound on the versions of rows a task begins at
  MaxOverlap,  \* the same while another task is under way
  MaxKey       \* bound on the keys, and on the secrets, that are anywhere at a time

AllOps == {"patch", "sign", "unsign", "allow", "addkey", "delkey",
           "activate", "deactivate", "sync", "start", "cut"}
AllFaults == {"crash", "wipe"}

ASSUME ZonesAssumption == IsFiniteSet(Zones) /\ NoZone \notin Zones
ASSUME DataAssumption ==
  ApexNs \in RRs /\ OwnNs \in Data /\ NoData \notin Data
ASSUME NamesAssumption == NamesOf \in [Zones -> SUBSET KeyNames]
ASSUME OpsAssumption ==
  OpsOf \in [Actors -> SUBSET AllOps] /\ Faults \subseteq AllFaults
ASSUME BoundAssumption == {MaxVersion, MaxOverlap} \subseteq Nat /\ MaxKey \in Nat

VARIABLES
  db,       \* the zones table and the zone data tables
  pdns,     \* the zones of PowerDNS
  tsig,     \* the TSIG keys of PowerDNS: the secret by name, 0 for none
  task,     \* what each actor is at
  mode,     \* "down", "starting" or "up"
  intact    \* history: the zones no task failed on, and no two tasks were at
            \* together, since they were last converged

vars == <<db, pdns, tsig, task, mode, intact>>

NoRrs == [r \in RRs |-> NoData]
NoTsig == [n \in KeyNames |-> 0]

\* A zone's row with its records, key, allow list (whether it has entries) and
\* TSIG keys; key 0 is none.
NewRow == [active |-> FALSE, ver |-> 1, rrs |-> NoRrs,
           key |-> 0, nsec3 |-> FALSE, allow |-> FALSE, tsig |-> NoTsig]

\* A creation stores the row and then the apex NS; it may have been cut off between.
CreatedRow == [NewRow EXCEPT !.ver = 2, !.rrs[ApexNs] = OwnNs]

\* PowerDNS numbers a zone's keys; two of the same content are one here.
NoServed == [there |-> FALSE, stamp |-> 0, rrs |-> NoRrs, keys |-> {},
             nsec3 |-> FALSE, allow |-> FALSE, names |-> {}]

There(z) == pdns[z].there

\* What the calls that change a zone of PowerDNS make of it
Created(rrs) == [NoServed EXCEPT !.there = TRUE, !.rrs = rrs]
Patched(served, rrs) == [served EXCEPT !.rrs = rrs]
WithMode(served, nsec3) == [served EXCEPT !.nsec3 = nsec3]
WithKey(served, k) == [served EXCEPT !.keys = @ \cup {k}]
WithoutKey(served, k) == [served EXCEPT !.keys = @ \ {k}]
WithAllow(served, allow) == [served EXCEPT !.allow = allow]
WithNames(served, names) == [served EXCEPT !.names = names]
OneAhead(served, ver) == [served EXCEPT !.stamp = ver + 1]  \* seeded fault
WithStamp(served, ver) == [served EXCEPT !.stamp = ver]

AllLost == [z \in Zones |-> NoServed]

\* TSIG keys belong to the server, not to a zone.
Listing == {z \in Zones : There(z)}
TsigNames == {n \in KeyNames : tsig[n] # 0}
WithTsig(n, secret) == [tsig EXCEPT ![n] = secret]
WithoutTsig(names) == [n \in KeyNames |-> IF n \in names THEN 0 ELSE tsig[n]]

Stored(row) == {n \in KeyNames : row.tsig[n] # 0}

-----------------------------------------------------------------------------
(* Tasks                                                                    *)

\* What a task keeps of a row it read
Listed(row) == [active |-> row.active, ver |-> row.ver, allow |-> row.allow]
NoRow == Listed(NewRow)
NoRows == [z \in Zones |-> NoRow]

Idle == [pc |-> "idle", op |-> "none", z |-> NoZone, force |-> FALSE,
         rr |-> ApexNs, val |-> NoData, nsec3 |-> FALSE, had |-> FALSE,
         key |-> 0, keys |-> {}, name |-> "none", names |-> {},
         allow |-> FALSE, rrs |-> NoRrs, ver |-> 0, rows |-> NoRows,
         make |-> NoTsig, left |-> {}, served |-> {}, want |-> {}, alone |-> {}]

Busy(a) == task[a].pc # "idle"
At(a, pc) == task[a].pc = pc
Goto(a, t) == task' = [task EXCEPT ![a] = t]
To(a, pc) == Goto(a, [task[a] EXCEPT !.pc = pc])

\* A sync may reach any zone.
Touches(a, z) == Busy(a) /\ (task[a].z = z \/ task[a].op = "sync")
AtWork(z) == \E a \in Actors : Touches(a, z)

\* A request is over; a sync goes on to its next zone.
Continue(t) ==
  IF t.op = "sync"
  THEN [Idle EXCEPT !.pc = "pick", !.op = "sync", !.force = t.force,
                    !.rows = t.rows, !.left = t.left, !.served = t.served,
                    !.want = t.want, !.alone = t.alone]
  ELSE Idle

\* The end of a task by an error, its client's hanging up, or the process's end:
\* the zone it was at may be anything.
Fails(a) ==
  /\ Goto(a, Idle)
  /\ intact' = intact \ {task[a].z}
  /\ mode' = IF mode = "starting" THEN "down" ELSE mode

\* The keys and secrets PowerDNS generates are new: nothing has them.
UsedKeys == ((UNION {{db[z].key} \cup pdns[z].keys : z \in Zones})
             \cup (UNION {{task[a].key} \cup task[a].keys : a \in Actors})) \ {0}
UsedSecrets == ({tsig[n] : n \in KeyNames} \cup {task[a].key : a \in Actors}
                \cup (UNION {{db[z].tsig[n] : n \in KeyNames} : z \in Zones})
                \cup (UNION {{task[a].make[n] : n \in KeyNames} : a \in Actors})) \ {0}
NewOf(used) == CHOOSE k \in (1..MaxKey) \ used : \A j \in (1..MaxKey) \ used : k <= j
NewKey == NewOf(UsedKeys)
NewSecret == NewOf(UsedSecrets)

-----------------------------------------------------------------------------
(* Requests                                                                 *)

Bound(a) == IF \E b \in Actors \ {a} : Busy(b) THEN MaxOverlap ELSE MaxVersion

\* require_active looks at the row the request found.
Begin(a, o, z, t) ==
  /\ o \in OpsOf[a] /\ mode = "up" /\ ~Busy(a)
  /\ db[z].ver < IF o = "activate" THEN MaxVersion ELSE Bound(a)
  /\ task' = [b \in Actors |->
       IF b = a
       THEN [t EXCEPT !.op = o, !.z = z, !.alone = IF AtWork(z) THEN {} ELSE {z}]
       ELSE [task[b] EXCEPT !.alone = @ \ {z}]]
  /\ intact' = IF AtWork(z) THEN intact \ {z} ELSE intact
  /\ UNCHANGED <<db, pdns, tsig, mode>>

Patch(a, z, r, v) ==
  db[z].active /\ Begin(a, "patch", z, [Idle EXCEPT !.pc = "patch", !.rr = r, !.val = v])

Sign(a, z, nsec3) ==
  /\ db[z].active
  /\ Begin(a, "sign", z, [Idle EXCEPT !.pc = "keys", !.nsec3 = nsec3])

Unsign(a, z) == db[z].active /\ Begin(a, "unsign", z, [Idle EXCEPT !.pc = "keys"])

SetAllowFrom(a, z, allow) ==
  db[z].active /\ Begin(a, "allow", z, [Idle EXCEPT !.pc = "allow", !.allow = allow])

\* A name the zone's rows already have is refused.
AddTsigKey(a, z, n) ==
  /\ db[z].active /\ n \in NamesOf[z] \ Stored(db[z])
  /\ Begin(a, "addkey", z, [Idle EXCEPT !.pc = "create", !.name = n,
                                        !.names = Stored(db[z]) \cup {n}])

DeleteTsigKey(a, z, n) ==
  /\ db[z].active /\ n \in Stored(db[z])
  /\ Begin(a, "delkey", z, [Idle EXCEPT !.pc = "store", !.name = n])

\* A delegation verified, or an exemption
Activate(a, z) ==
  Begin(a, "activate", z, [Idle EXCEPT !.pc = "active",
                                       !.rows = [NoRows EXCEPT ![z] = Listed(db[z])]])

\* The delegation is lost.
Deactivate(a, z) ==
  db[z].active /\ Begin(a, "deactivate", z, [Idle EXCEPT !.pc = "unserve"])

-----------------------------------------------------------------------------
(* The two stores                                                           *)

\* Every transaction on zone data moves the version with it.
Store(a, row, pc) ==
  /\ db' = [db EXCEPT ![task[a].z] = [row EXCEPT !.ver = db[task[a].z].ver + 1]]
  /\ Goto(a, [task[a] EXCEPT !.pc = pc, !.ver = db[task[a].z].ver + 1, !.val = NoData,
                             !.key = 0, !.nsec3 = FALSE])
  /\ UNCHANGED <<pdns, tsig, mode, intact>>

\* A call that changes a zone of PowerDNS
Serve(a, served, t) ==
  /\ There(task[a].z)
  /\ pdns' = [pdns EXCEPT ![task[a].z] = served]
  /\ Goto(a, t)
  /\ UNCHANGED <<db, tsig, mode, intact>>

Served(a) == pdns[task[a].z]
Row(a) == db[task[a].z]

\* Calls on a zone PowerDNS does not have answer 404.
ZoneGone(a) ==
  /\ \/ task[a].pc \in {"patch", "keys", "add", "nsec3", "fetch", "drop", "match",
                        "import", "param", "stamp", "adoptkey"}
     \/ At(a, "allow") /\ task[a].allow
     \/ At(a, "names") /\ task[a].names # {}
  /\ ~There(task[a].z)
  /\ Fails(a)
  /\ UNCHANGED <<db, pdns, tsig>>

Stamp(a) ==
  /\ At(a, "stamp") /\ There(task[a].z)
  /\ pdns' = [pdns EXCEPT ![task[a].z] = WithStamp(@, task[a].ver)]
  /\ Goto(a, Continue(task[a]))
  /\ intact' = IF task[a].op \in {"activate", "sync"}
               THEN intact \cup ({task[a].z} \cap task[a].alone) ELSE intact
  /\ UNCHANGED <<db, tsig, mode>>

-----------------------------------------------------------------------------
(* Records, and the allow list                                              *)

PatchServed(a) ==
  /\ At(a, "patch")
  /\ Serve(a, Patched(Served(a), [Served(a).rrs EXCEPT ![task[a].rr] = task[a].val]),
           [task[a] EXCEPT !.pc = "store"])

ApplyRrsets(a) ==
  /\ At(a, "store") /\ task[a].op = "patch"
  /\ Store(a, [Row(a) EXCEPT !.rrs[task[a].rr] = task[a].val], "stamp")

\* Taking an empty list from a zone that is not there is no error.
ServeAllow(a) ==
  LET next == [task[a] EXCEPT !.pc = IF task[a].op = "allow" THEN "store" ELSE "stamp"] IN
  /\ At(a, "allow")
  /\ \/ Serve(a, WithAllow(Served(a), task[a].allow), next)
     \/ /\ ~There(task[a].z) /\ ~task[a].allow /\ Goto(a, next)
        /\ UNCHANGED <<db, pdns, tsig, mode, intact>>

StoreAllow(a) ==
  /\ At(a, "store") /\ task[a].op = "allow"
  /\ Store(a, [Row(a) EXCEPT !.allow = task[a].allow], "stamp")

-----------------------------------------------------------------------------
(* DNSSEC                                                                   *)

\* seeded fault: the key there is not looked for
AlwaysAddsKey(a) ==
  LET t == task[a] keys == pdns[t.z].keys IN
  /\ At(a, "keys") /\ There(t.z)
  /\ \/ t.op = "sign" /\ To(a, "add")
     \/ /\ t.op = "unsign"
        /\ Goto(a, [t EXCEPT !.pc = IF keys = {} THEN "nsec3" ELSE "drop", !.keys = keys])
  /\ UNCHANGED <<db, pdns, tsig, mode, intact>>

\* Enabling goes on with an active key PowerDNS has, or adds one; disabling
\* takes away those listed.
ListKeys(a) ==
  LET t == task[a] keys == pdns[t.z].keys IN
  /\ At(a, "keys") /\ There(t.z)
  /\ \/ t.op = "sign" /\ \E k \in keys : Goto(a, [t EXCEPT !.pc = "nsec3", !.key = k])
     \/ t.op = "sign" /\ keys = {} /\ To(a, "add")
     \/ /\ t.op = "unsign"
        /\ Goto(a, [t EXCEPT !.pc = IF keys = {} THEN "nsec3" ELSE "drop", !.keys = keys])
  /\ UNCHANGED <<db, pdns, tsig, mode, intact>>

AddKey(a) ==
  /\ At(a, "add") /\ There(task[a].z) /\ UsedKeys # 1..MaxKey
  /\ pdns' = [pdns EXCEPT ![task[a].z] = WithKey(@, NewKey)]
  /\ Goto(a, [task[a] EXCEPT !.pc = "nsec3", !.key = NewKey])
  /\ UNCHANGED <<db, tsig, mode, intact>>

ServeNsec3(a) ==
  /\ At(a, "nsec3")
  /\ Serve(a, WithMode(Served(a), task[a].nsec3),
           [task[a] EXCEPT !.pc = IF task[a].op = "sign" THEN "fetch" ELSE "store"])

\* The private key, unless another task deleted it
FetchKey(a) ==
  /\ At(a, "fetch") /\ There(task[a].z) /\ task[a].key \in Served(a).keys
  /\ To(a, "store")
  /\ UNCHANGED <<db, pdns, tsig, mode, intact>>

KeyGone(a) ==
  /\ \/ At(a, "fetch") /\ task[a].key \notin Served(a).keys
     \/ At(a, "drop") /\ ~(task[a].keys \subseteq Served(a).keys)
  /\ Fails(a)
  /\ UNCHANGED <<db, pdns, tsig>>

StoreKey(a) ==
  /\ At(a, "store") /\ task[a].op \in {"sign", "unsign"}
  /\ Store(a, [Row(a) EXCEPT !.key = task[a].key, !.nsec3 = task[a].nsec3], "stamp")

-----------------------------------------------------------------------------
(* TSIG keys: PowerDNS has them by name, for all zones together             *)

CreateTsig(a) ==
  LET n == task[a].name IN
  /\ At(a, "create") /\ tsig[n] = 0 /\ UsedSecrets # 1..MaxKey
  /\ tsig' = WithTsig(n, NewSecret)
  /\ Goto(a, [task[a] EXCEPT !.pc = "store", !.key = NewSecret])
  /\ UNCHANGED <<db, pdns, mode, intact>>

\* 409: the name is taken, by whichever zone; nothing has changed.
NameTaken(a) ==
  /\ At(a, "create") /\ tsig[task[a].name] # 0
  /\ Goto(a, Idle)
  /\ UNCHANGED <<db, pdns, tsig, mode, intact>>

StoreTsig(a) ==
  /\ At(a, "store") /\ task[a].op = "addkey" /\ Row(a).tsig[task[a].name] = 0
  /\ Store(a, [Row(a) EXCEPT !.tsig[task[a].name] = task[a].key], "names")

\* The zone's rows had the names the answer is made of when it was deleted.
DeleteTsigRow(a) ==
  /\ At(a, "store") /\ task[a].op = "delkey" /\ Row(a).tsig[task[a].name] # 0
  /\ Store(a, [Row(a) EXCEPT !.tsig[task[a].name] = 0], "remaining")

\* The other task was faster: a unique violation, or no row to delete.
RowRace(a) ==
  /\ At(a, "store")
  /\ \/ task[a].op = "addkey" /\ Row(a).tsig[task[a].name] # 0
     \/ task[a].op = "delkey" /\ Row(a).tsig[task[a].name] = 0
  /\ Fails(a)
  /\ UNCHANGED <<db, pdns, tsig>>

\* The names left after a deletion; the names to remove with a zone
ReadNames(a) ==
  /\ task[a].pc \in {"remaining", "rows"}
  /\ Goto(a, [task[a] EXCEPT !.pc = IF @ = "rows" THEN "remove" ELSE "names",
                             !.names = Stored(Row(a))])
  /\ UNCHANGED <<db, pdns, tsig, mode, intact>>

\* seeded fault: what is left of the request is removed after every change
NameAlways(t) == [t EXCEPT !.pc = IF t.op \in {"addkey", "delkey"} THEN "stamp" ELSE "allow",
                           !.names = {t.name}]
AfterNames(t) ==
  CASE t.op = "addkey" -> [t EXCEPT !.pc = "stamp", !.names = {}]
    [] t.op = "delkey" -> [t EXCEPT !.pc = "remove", !.names = {t.name}]
    [] OTHER -> [t EXCEPT !.pc = "allow", !.names = {}]

ServeNames(a) ==
  LET next == AfterNames(task[a]) IN
  /\ At(a, "names")
  /\ \/ Serve(a, WithNames(Served(a), task[a].names), next)
     \/ /\ ~There(task[a].z) /\ task[a].names = {} /\ Goto(a, next)
        /\ UNCHANGED <<db, pdns, tsig, mode, intact>>

\* By name, whichever zone has it: those PowerDNS lists, one call each.  What it does
\* not list is passed over.
Removing(t) ==
  [t EXCEPT !.pc = IF t.names # {} THEN "unkey"
                   ELSE IF t.op = "delkey" THEN "stamp" ELSE "inactive"]

ListTsig(a) ==
  /\ At(a, "remove")
  /\ Goto(a, Removing([task[a] EXCEPT !.names = @ \cap TsigNames]))
  /\ UNCHANGED <<db, pdns, tsig, mode, intact>>

RemoveTsig(a, n) ==
  /\ At(a, "unkey") /\ n \in task[a].names /\ tsig[n] # 0
  /\ tsig' = WithoutTsig({n})
  /\ Goto(a, Removing([task[a] EXCEPT !.names = @ \ {n}]))
  /\ UNCHANGED <<db, pdns, mode, intact>>

-----------------------------------------------------------------------------
(* Activation and deactivation                                              *)

\* The version moves only when the zone was inactive; a zone its request found
\* active is built only if PowerDNS lost it.
ActivateRow(a) ==
  LET row == Row(a) ver == IF row.active THEN row.ver ELSE row.ver + 1
      was == task[a].rows[task[a].z].active
  IN  /\ At(a, "active")
      /\ db' = [db EXCEPT ![task[a].z].active = TRUE, ![task[a].z].ver = ver]
      /\ Goto(a, [task[a] EXCEPT !.pc = IF was THEN "probe" ELSE "look", !.ver = ver,
                                 !.allow = row.allow, !.rows = NoRows])
      /\ UNCHANGED <<pdns, tsig, mode, intact>>

Probe(a) ==
  /\ At(a, "probe")
  /\ Goto(a, IF There(task[a].z) THEN Idle ELSE [task[a] EXCEPT !.pc = "look"])
  /\ UNCHANGED <<db, pdns, tsig, mode, intact>>

Unserve(a) ==
  /\ At(a, "unserve")
  /\ pdns' = [pdns EXCEPT ![task[a].z] = NoServed]
  /\ To(a, "rows")
  /\ UNCHANGED <<db, tsig, mode, intact>>

DeactivateRow(a) ==
  /\ At(a, "inactive")
  /\ db' = [db EXCEPT ![task[a].z].active = FALSE, ![task[a].z].ver = @ + 1]
  /\ Goto(a, Idle)
  /\ UNCHANGED <<pdns, tsig, mode, intact>>

-----------------------------------------------------------------------------
(* converge                                                                 *)

\* An apex NS is served although none is stored.
Desired(rrs) ==
  IF rrs[ApexNs] = NoData THEN [rrs EXCEPT ![ApexNs] = OwnNs] ELSE rrs

\* The stored records, and the zone as it is served; new says it is not.
Look(a) ==
  LET z == task[a].z IN
  /\ At(a, "look")
  /\ Goto(a, [task[a] EXCEPT !.rrs = Desired(db[z].rrs), !.had = pdns[z].nsec3,
                !.pc = IF ~There(z) THEN "create_zone"
                       ELSE IF pdns[z].rrs = Desired(db[z].rrs) THEN "match"
                       ELSE "converge"])
  /\ UNCHANGED <<db, pdns, tsig, mode, intact>>

CreateZone(a) ==
  /\ At(a, "create_zone") /\ ~There(task[a].z)
  /\ pdns' = [pdns EXCEPT ![task[a].z] = Created(task[a].rrs)]
  /\ To(a, "match")
  /\ UNCHANGED <<db, tsig, mode, intact>>

\* What differs in one PATCH
ConvergeRrsets(a) ==
  /\ At(a, "converge")
  /\ Serve(a, Patched(Served(a), task[a].rrs), [task[a] EXCEPT !.pc = "match"])

\* Another task created or deleted the zone in between: 409 or 404
BuildRefused(a) ==
  /\ \/ At(a, "create_zone") /\ There(task[a].z)
     \/ At(a, "converge") /\ ~There(task[a].z)
  /\ Fails(a)
  /\ UNCHANGED <<db, pdns, tsig>>

AfterImport(t) ==
  IF t.nsec3 # t.had THEN [t EXCEPT !.pc = "param", !.key = 0]
  ELSE [t EXCEPT !.pc = "missing", !.key = 0, !.nsec3 = FALSE, !.had = FALSE]
AfterDrop(t) ==
  IF t.op = "unsign" THEN [t EXCEPT !.pc = "nsec3"]
  ELSE IF t.key # 0 THEN [t EXCEPT !.pc = "import"] ELSE AfterImport(t)

\* The key whose content is stored stays, every other goes; key is what is
\* still to import.
NoOthers(stored, keys) == {}  \* seeded fault: a key without a stored one stays
AllKeys(stored, keys) == keys  \* seeded fault: the stored one goes with the others
Others(stored, keys) == keys \ {stored}

MatchKeys(a) ==
  LET row == Row(a) keys == Served(a).keys
      others == Others(row.key, keys)
      t == [task[a] EXCEPT !.key = IF row.key \in keys THEN 0 ELSE row.key,
                           !.nsec3 = row.nsec3, !.keys = others, !.rrs = NoRrs]
  IN  /\ At(a, "match") /\ There(task[a].z)
      /\ Goto(a, IF others = {} THEN AfterDrop(t) ELSE [t EXCEPT !.pc = "drop"])
      /\ UNCHANGED <<db, pdns, tsig, mode, intact>>

DropKey(a, k) ==
  LET t == [task[a] EXCEPT !.keys = @ \ {k}] IN
  /\ At(a, "drop") /\ k \in task[a].keys \cap Served(a).keys
  /\ Serve(a, WithoutKey(Served(a), k), IF t.keys = {} THEN AfterDrop(t) ELSE t)

ImportKey(a) ==
  /\ At(a, "import")
  /\ Serve(a, WithKey(Served(a), task[a].key), AfterImport(task[a]))

ServeMode(a) ==
  /\ At(a, "param")
  /\ Serve(a, WithMode(Served(a), task[a].nsec3),
           [task[a] EXCEPT !.pc = "missing", !.nsec3 = FALSE, !.had = FALSE])

\* The TSIG keys the rows have and PowerDNS has not, by name
NoneMissing(row) == NoTsig  \* seeded fault: any name counts as there
Missing(row) == [n \in KeyNames |-> IF tsig[n] = 0 THEN row.tsig[n] ELSE 0]

MissingTsig(a) ==
  LET row == Row(a) make == Missing(row)
  IN  /\ At(a, "missing")
      /\ Goto(a, [task[a] EXCEPT !.names = Stored(row), !.make = make,
                    !.pc = IF make = NoTsig THEN "names" ELSE "recreate"])
      /\ UNCHANGED <<db, pdns, tsig, mode, intact>>

RecreateTsig(a, n) ==
  LET make == [task[a].make EXCEPT ![n] = 0] IN
  /\ At(a, "recreate") /\ task[a].make[n] # 0 /\ tsig[n] = 0
  /\ tsig' = WithTsig(n, task[a].make[n])
  /\ Goto(a, [task[a] EXCEPT !.make = make,
                             !.pc = IF make = NoTsig THEN "names" ELSE "recreate"])
  /\ UNCHANGED <<db, pdns, mode, intact>>

\* Another task created the key in between: 409 is an error here.
RecreateRefused(a) ==
  /\ At(a, "recreate") /\ \E n \in KeyNames : task[a].make[n] # 0 /\ tsig[n] # 0
  /\ Fails(a)
  /\ UNCHANGED <<db, pdns, tsig>>

-----------------------------------------------------------------------------
(* sync                                                                     *)

BeginSync(a, force) ==
  /\ task' = [b \in Actors |->
       IF b = a
       THEN [Idle EXCEPT !.pc = "served", !.op = "sync", !.force = force,
                         !.rows = [z \in Zones |-> Listed(db[z])],
                         !.alone = {z \in Zones : ~AtWork(z)}]
       ELSE [task[b] EXCEPT !.alone = {}]]
  /\ intact' = {z \in intact : ~AtWork(z)}
  /\ UNCHANGED <<db, pdns, tsig>>

\* POST /admin/sync
AdminSync(a) ==
  /\ "sync" \in OpsOf[a] /\ mode = "up" /\ ~Busy(a)
  /\ \E z \in Zones : db[z].ver < Bound(a)
  /\ BeginSync(a, TRUE) /\ UNCHANGED mode

Start(a) ==
  "start" \in OpsOf[a] /\ mode = "down" /\ BeginSync(a, FALSE) /\ mode' = "starting"

ActiveRows(t) == {z \in Zones : t.rows[z].active}
Pruned(t) == IF t.left = {} THEN [t EXCEPT !.pc = "pick", !.left = ActiveRows(t)]
             ELSE [t EXCEPT !.pc = "prune"]

ListServed(a) ==
  /\ At(a, "served")
  /\ Goto(a, Pruned([task[a] EXCEPT !.served = Listing,
                                    !.left = Listing \ ActiveRows(task[a])]))
  /\ UNCHANGED <<db, pdns, tsig, mode, intact>>

Prune(a, z) ==
  /\ At(a, "prune") /\ z \in task[a].left
  /\ pdns' = [pdns EXCEPT ![z] = NoServed]
  /\ Goto(a, Pruned([task[a] EXCEPT !.left = @ \ {z}]))
  /\ UNCHANGED <<db, tsig, mode, intact>>

\* The zone's TSIG names and its stamp.  A zone that was served and has no stamp
\* is adopted first, one whose stamp is its row's version is passed over.
PickZone(a, z) ==
  LET row == task[a].rows[z]
      adopts == z \in task[a].served /\ pdns[z].stamp = 0
      t == [task[a] EXCEPT !.left = @ \ {z}, !.want = @ \cup Stored(db[z]),
              !.rows[z] = IF adopts THEN @ ELSE NoRow]
  IN  /\ At(a, "pick") /\ z \in task[a].left
      /\ Goto(a, CASE adopts /\ There(z) ->
                        [t EXCEPT !.pc = "replace", !.z = z, !.rrs = pdns[z].rrs,
                                  !.had = pdns[z].nsec3]
                   [] ~adopts /\ ~t.force /\ z \in t.served /\ pdns[z].stamp = row.ver -> t
                   [] OTHER ->
                        [t EXCEPT !.pc = "look", !.z = z, !.ver = row.ver,
                                  !.allow = row.allow])
      /\ UNCHANGED <<db, pdns, tsig, mode, intact>>

AdoptList(t) == IF t.rows[t.z].allow THEN "reread" ELSE "adoptallow"

ReplaceRrsets(a) ==
  /\ At(a, "replace") /\ Row(a).ver < MaxVersion
  /\ Store(a, [Row(a) EXCEPT !.rrs = task[a].rrs],
           IF Row(a).key = 0 THEN "adoptkey" ELSE AdoptList(task[a]))

AdoptKey(a) ==
  /\ At(a, "adoptkey") /\ There(task[a].z)
  /\ \/ \E k \in Served(a).keys : Goto(a, [task[a] EXCEPT !.pc = "adoptedkey", !.key = k])
     \/ Served(a).keys = {} /\ To(a, AdoptList(task[a]))
  /\ UNCHANGED <<db, pdns, tsig, mode, intact>>

StoreAdoptedKey(a) ==
  /\ At(a, "adoptedkey")
  /\ Store(a, [Row(a) EXCEPT !.key = task[a].key, !.nsec3 = task[a].had],
           AdoptList(task[a]))

AdoptAllow(a) ==
  /\ At(a, "adoptallow")
  /\ To(a, IF Served(a).allow THEN "adoptedallow" ELSE "reread")
  /\ UNCHANGED <<db, pdns, tsig, mode, intact>>

StoreAdoptedAllow(a) ==
  /\ At(a, "adoptedallow")
  /\ Store(a, [Row(a) EXCEPT !.allow = TRUE], "reread")

Reread(a) ==
  /\ At(a, "reread")
  /\ Goto(a, [task[a] EXCEPT !.pc = "look", !.ver = Row(a).ver, !.allow = Row(a).allow,
                             !.key = 0, !.had = FALSE, !.rows[task[a].z] = NoRow])
  /\ UNCHANGED <<db, pdns, tsig, mode, intact>>

\* The TSIG keys no zone listed as active has
WantedOnes(t) == TsigNames \cap t.want  \* seeded fault: the test inverted
Strays(t) == TsigNames \ t.want

ListStrays(a) ==
  /\ At(a, "pick") /\ task[a].left = {}
  /\ Goto(a, [task[a] EXCEPT !.pc = "strays", !.served = {}, !.want = {},
                !.names = Strays(task[a])])
  /\ UNCHANGED <<db, pdns, tsig, mode, intact>>

RemoveStray(a, n) ==
  /\ At(a, "strays") /\ n \in task[a].names /\ tsig[n] # 0
  /\ tsig' = WithoutTsig({n})
  /\ Goto(a, [task[a] EXCEPT !.names = @ \ {n}])
  /\ UNCHANGED <<db, pdns, mode, intact>>

\* Another task deleted a key of the list in between: 404 is an error.
TsigGone(a) ==
  /\ task[a].pc \in {"strays", "unkey"} /\ \E n \in task[a].names : tsig[n] = 0
  /\ Fails(a)
  /\ UNCHANGED <<db, pdns, tsig>>

\* The report's status reads both stores once more and changes nothing.
EndSync(a) ==
  /\ At(a, "strays") /\ task[a].names = {}
  /\ Goto(a, Idle)
  /\ mode' = "up"
  /\ UNCHANGED <<db, pdns, tsig, intact>>

-----------------------------------------------------------------------------
(* The rest of the world                                                    *)

\* A call that fails, or one that succeeds and whose answer is lost (the step
\* and then this one), or a client that hangs up.
Cut(a) ==
  /\ "cut" \in OpsOf[a] /\ Busy(a)
  /\ Fails(a)
  /\ UNCHANGED <<db, pdns, tsig>>

Crash ==
  /\ "crash" \in Faults /\ mode # "down"
  /\ mode' = "down"
  /\ task' = [a \in Actors |-> Idle]
  /\ intact' = intact \ {task[a].z : a \in Actors}
  /\ UNCHANGED <<db, pdns, tsig>>

\* pdns.sqlite3 is lost or deleted while nothing runs.
Wipe ==
  /\ "wipe" \in Faults /\ mode = "down"
  /\ pdns' = AllLost /\ tsig' = NoTsig
  /\ intact' = {z \in intact : ~db[z].active}
  /\ UNCHANGED <<db, task, mode>>

-----------------------------------------------------------------------------

Init ==
  /\ db \in [Zones -> {NewRow, CreatedRow}]
  /\ pdns = AllLost
  /\ tsig = NoTsig
  /\ task = [a \in Actors |-> Idle]
  /\ mode = "up"
  /\ intact = Zones

Request(a, z) ==
  \/ \E r \in RRs, v \in Data \cup {NoData} : Patch(a, z, r, v)
  \/ \E nsec3 \in BOOLEAN : Sign(a, z, nsec3)
  \/ \E allow \in BOOLEAN : SetAllowFrom(a, z, allow)
  \/ \E n \in KeyNames : AddTsigKey(a, z, n) \/ DeleteTsigKey(a, z, n)
  \/ Unsign(a, z) \/ Activate(a, z) \/ Deactivate(a, z)

EditStep(a) ==
  \/ PatchServed(a) \/ ApplyRrsets(a) \/ ServeAllow(a) \/ StoreAllow(a)
  \/ ListKeys(a) \/ AddKey(a) \/ ServeNsec3(a) \/ FetchKey(a) \/ StoreKey(a)
  \/ CreateTsig(a) \/ NameTaken(a) \/ StoreTsig(a) \/ DeleteTsigRow(a)
  \/ ReadNames(a) \/ ServeNames(a) \/ ListTsig(a)
  \/ \E n \in KeyNames : RemoveTsig(a, n)
  \/ ActivateRow(a) \/ Probe(a) \/ Unserve(a) \/ DeactivateRow(a) \/ Stamp(a)

ConvergeStep(a) ==
  \/ Look(a) \/ CreateZone(a) \/ ConvergeRrsets(a) \/ MatchKeys(a)
  \/ \E k \in task[a].keys : DropKey(a, k)
  \/ ImportKey(a) \/ ServeMode(a) \/ MissingTsig(a)
  \/ \E n \in KeyNames : RecreateTsig(a, n)

SyncStep(a) ==
  \/ ListServed(a) \/ \E z \in Zones : Prune(a, z) \/ PickZone(a, z)
  \/ ReplaceRrsets(a) \/ AdoptKey(a) \/ StoreAdoptedKey(a) \/ AdoptAllow(a)
  \/ StoreAdoptedAllow(a) \/ Reread(a)
  \/ ListStrays(a) \/ \E n \in KeyNames : RemoveStray(a, n)
  \/ EndSync(a)

Refusal(a) ==
  \/ ZoneGone(a) \/ KeyGone(a) \/ RowRace(a) \/ BuildRefused(a)
  \/ RecreateRefused(a) \/ TsigGone(a)

Next ==
  \/ \E a \in Actors :
       \/ \E z \in Zones : Request(a, z)
       \/ AdminSync(a) \/ Start(a)
       \/ EditStep(a) \/ ConvergeStep(a) \/ SyncStep(a) \/ Refusal(a) \/ Cut(a)
  \/ Crash \/ Wipe

Spec == Init /\ [][Next]_vars

-----------------------------------------------------------------------------
(* Properties                                                               *)

Records == [RRs -> Data \cup {NoData}]
Secrets == [KeyNames -> Nat]
Rows == [active : BOOLEAN, ver : Nat, rrs : Records, key : Nat, nsec3 : BOOLEAN,
         allow : BOOLEAN, tsig : Secrets]
ServedZones == [there : BOOLEAN, stamp : Nat, rrs : Records, keys : SUBSET Nat,
                nsec3 : BOOLEAN, allow : BOOLEAN, names : SUBSET KeyNames]

\* Every variable has its type.
TypeOK ==
  /\ db \in [Zones -> Rows] /\ pdns \in [Zones -> ServedZones]
  /\ tsig \in Secrets
  /\ DOMAIN task = Actors
  /\ \A a \in Actors :
       /\ task[a].z \in Zones \cup {NoZone} /\ task[a].rrs \in Records
       /\ task[a].rows \in [Zones -> [active : BOOLEAN, ver : Nat, allow : BOOLEAN]]
       /\ task[a].make \in Secrets
       /\ task[a].left \subseteq Zones /\ task[a].alone \subseteq Zones
       /\ task[a].ver \in Nat /\ task[a].key \in Nat
       /\ task[a].names \subseteq KeyNames
  /\ mode \in {"down", "starting", "up"}
  /\ intact \subseteq Zones

\* No stamp runs ahead of the database: status never counts changes the
\* database has not got.
StampNotAhead == \A z \in Zones : pdns[z].stamp <= db[z].ver

\* What sync means by "in line": PowerDNS serves the zone just as it is stored.
Mirrored(z) ==
  LET row == db[z] served == pdns[z] IN
  IF ~row.active THEN ~served.there
  ELSE /\ served.there /\ served.stamp = row.ver
       /\ served.rrs \in {row.rrs, Desired(row.rrs)}
       /\ served.keys = {row.key} \ {0} /\ served.nsec3 = row.nsec3
       /\ served.allow = row.allow /\ served.names = Stored(row)

\* A zone is served as stored, records, signing key, NSEC mode, allow list and
\* TSIG names alike, unless a task failed on it or two tasks met at it since it
\* was last converged: whole edits keep both stores equal, a converge that runs
\* alone repairs whatever failures, races and losses left behind.
IntactMirrored == \A z \in intact : AtWork(z) \/ Mirrored(z)

\* A sync takes nothing of a zone that is in line out of service: while it lists,
\* prunes, walks and converges, at every single call, an intact zone is served as
\* stored.
SyncUndisturbing ==
  \A z \in intact, a \in Actors :
    (Touches(a, z) /\ task[a].op = "sync") => Mirrored(z)

\* An active zone that is signed and intact is served with its stored key and no
\* other at every moment, in the middle of edits, changes of the NSEC mode and syncs:
\* resolvers that have the DS of its parent never find it unsigned or with another key.
SignedAllAlong ==
  \A z \in intact :
    (/\ db[z].active /\ db[z].key # 0
     /\ \A a \in Actors : Touches(a, z) => task[a].op \notin {"unsign", "activate", "deactivate"})
    => pdns[z].keys = {db[z].key}

\* A zone's TSIG keys are in PowerDNS while it is active and intact: its coming
\* back after a deactivation, a restart or the loss of PowerDNS's data restores
\* them, and no other zone's edits or deactivation, nor a sync's search for strays,
\* take them away.  Names that another zone's owner chooses too are not promised,
\* since PowerDNS has one key of a name for all zones; nor is that the key there has
\* the stored secret, as converge looks for the name only.
KeysAnswer ==
  \A z \in intact : (~AtWork(z) /\ db[z].active) =>
    \A n \in Stored(db[z]) : tsig[n] # 0 \/ \E y \in Zones \ {z} : n \in NamesOf[y]

\* Changing the NSEC mode keeps the key, and so the DS at the parent, of a zone
\* that is intact: nothing replaces the stored key but disabling DNSSEC.
SignedKeyKept ==
  [][\A z \in intact :
       (db[z].key # 0 /\ db'[z].key # 0) => db'[z].key = db[z].key]_vars

\* A sync that met no other task leaves in PowerDNS only the TSIG keys of
\* active zones: what failed additions left there no longer blocks its name.
SyncRemovesStrays ==
  [][\A a \in Actors :
       (EndSync(a) /\ task[a].alone = Zones) =>
         \A n \in KeyNames :
           tsig[n] # 0 => \E z \in Zones : db[z].active /\ n \in Stored(db[z])]_vars
=============================================================================
