----------------------------- MODULE ChallengeTxt -----------------------------
(***************************************************************************)
(* The ACME challenge TXT values of certo: the txt table and the version    *)
(* of the base zone in certo's database, the base zone PowerDNS serves and  *)
(* the X-CERTO-VERSION stamp on it, the request handlers and the hourly     *)
(* sweep that write the table and then push one name at a time, and the     *)
(* sync that reconciles the whole zone at startup or for an administrator.  *)
(*                                                                          *)
(* Atomicity.  A database method is one transaction on the one connection,  *)
(* so it is one step.  A PowerDNS API call is one step of a second durable  *)
(* store.  Everything a handler does between two awaits belongs to the step *)
(* before it.  Handlers interleave at every await: nothing in the code      *)
(* serialises two pushes, or a push with a sync.                            *)
(*                                                                          *)
(* Not here: the users' zones (ZoneLifecycle), the static records, DNSSEC   *)
(* and transfer data of the base zone, the token for certo's own            *)
(* certificate, which sync leaves alone.                                    *)
(***************************************************************************)
EXTENDS Naturals, FiniteSets

CONSTANTS
  Names,       \* internal challenge names, <subdomain>.<acme_domain>
  Values,      \* challenge values
  Handlers,    \* concurrent request handlers and housekeeping tasks
  Ops,         \* the operations an instance exercises
  Faults,      \* the faults an instance lets happen
  Isolation,   \* which overlaps of tasks an instance lets happen
  MaxVersion,  \* bound on the base zone's version
  NoName,      \* the name of a task that is on none
  NoValue

AllOps == {"present", "cleanup", "update", "remove", "delete_user",
           "sweep", "records", "sync"}
AllFaults == {"call", "late", "cancel", "crash", "wipe"}

ASSUME NamesAssumption == IsFiniteSet(Names) /\ NoName \notin Names
ASSUME OpsAssumption == Ops \subseteq AllOps
ASSUME FaultsAssumption == Faults \subseteq AllFaults
ASSUME IsolationAssumption == Isolation \in {"none", "name", "all"}
ASSUME BoundAssumption == MaxVersion \in Nat

VARIABLES
  registered,  \* user_domains: the names somebody owns
  txt,         \* the txt table
  horizon,     \* rows written at a version up to this one are past retention
  version,     \* zones.version of the base zone
  exists,      \* PowerDNS has the base zone
  served,      \* the TXT rrset PowerDNS answers per name, {} for none
  stamp,       \* X-CERTO-VERSION of the base zone, 0 for none
  task,        \* what each handler is at
  sync,        \* what Zones::sync is at
  mode         \* "down", "starting" (the sync of start_zones) or "up"

db == <<registered, txt, horizon, version>>
pdns == <<exists, served, stamp>>
vars == <<db, pdns, task, sync, mode>>

\* LastUpdate and rowid are one ever growing number here: the version of the
\* base zone after the write, since every insert bumps it.
Row == [name : Names, value : Values, at : Nat]

Stored(n) == {r.value : r \in {q \in txt : q.name = n}}
Mirrored(n) == served[n] = Stored(n)
Unserved == [n \in Names |-> {}]

\* The bound: versions grow for ever in the code, here no request starts that
\* would take the version past MaxVersion.  What has started always ends.
CanBump(k) == version + k <= MaxVersion

-----------------------------------------------------------------------------
(* Tasks.  A handler writes, then pushes the names in todo one by one.      *)

Idle == [pc |-> "idle", op |-> "none", name |-> NoName, value |-> NoValue,
         todo |-> {}, vals |-> {}, ver |-> 0]
IdleSync == [pc |-> "idle", force |-> FALSE, had |-> FALSE, ver |-> 0,
             want |-> Unserved, diff |-> {}]

Busy(h) == task[h].pc # "idle"
Touched(h) == task[h].todo \cup ({task[h].name} \ {NoName})
Quiet == sync.pc = "idle" /\ \A h \in Handlers : ~Busy(h)

MayStart(S) ==
  /\ mode = "up"
  /\ Isolation = "all" => Quiet
  /\ Isolation = "name" => /\ sync.pc = "idle"
                           /\ \A h \in Handlers : Touched(h) \cap S = {}

Goto(h, t) == task' = [task EXCEPT ![h] = t]

\* The end of one sync_txt: sweep, delete_user_for and the rest go on to the
\* next name, whatever became of this one; a request handler has no next.
FirstNameOnly(t) == Idle  \* seeded fault: the other names are never pushed
BackToWrite(t) ==          \* seeded fault: the write is repeated, on no name
  IF t.todo = {} THEN Idle ELSE [t EXCEPT !.pc = "write", !.name = NoName]
NextName(t) ==
  IF t.todo = {} THEN Idle
  ELSE [t EXCEPT !.pc = "read", !.name = NoName, !.vals = {}, !.ver = 0]

-----------------------------------------------------------------------------
(* Database writes                                                          *)

\* A request finds the subdomain in a transaction of its own; only present
\* registers the domain on first use.
Resolve(h, o, n, v) ==
  /\ ~Busy(h) /\ o \in Ops \cap {"present", "cleanup", "update"}
  /\ MayStart({n}) /\ CanBump(1)
  /\ o # "present" => n \in registered
  /\ registered' = registered \cup {n}
  /\ Goto(h, [Idle EXCEPT !.pc = "write", !.op = o, !.name = n, !.value = v])
  /\ UNCHANGED <<txt, horizon, version, pdns, sync, mode>>

Present(h, n, v) == Resolve(h, "present", n, v)
Cleanup(h, n, v) == Resolve(h, "cleanup", n, v)
Update(h, n, v) == Resolve(h, "update", n, v)

Inserted(t) == [name |-> t.name, value |-> t.value, at |-> version + 1]

\* The two newest of the rows of one name
Newest2(rows) == {r \in rows : Cardinality({q \in rows : q.at > r.at}) < 2}

PresentTxt(t) == txt \cup {Inserted(t)}
CleanupTxt(t) == {r \in txt : ~(r.name = t.name /\ r.value = t.value)}
UpdateAcmednsTxt(t) ==
  LET of(n, rows) == {r \in rows : r.name = n}
      all == PresentTxt(t)
  IN  (all \ of(t.name, all)) \cup Newest2(of(t.name, all))

\* bump_base_zone, in the transaction of the write
CleanupUnbumped(t) == IF t.op = "cleanup" THEN version ELSE version + 1  \* seeded fault
Bumped(t) == version + 1

Write(h) ==
  /\ task[h].pc = "write"
  /\ \/ task[h].op = "present" /\ txt' = PresentTxt(task[h])
     \/ task[h].op = "cleanup" /\ txt' = CleanupTxt(task[h])
     \/ task[h].op = "update"  /\ txt' = UpdateAcmednsTxt(task[h])
  /\ version' = Bumped(task[h])
  /\ Goto(h, [task[h] EXCEPT !.pc = "read", !.todo = {task[h].name},
                             !.name = NoName, !.value = NoValue])
  /\ UNCHANGED <<registered, horizon, pdns, sync, mode>>

RowsLeftBehind(S) == txt  \* seeded fault: the domain goes, its rows stay
DeleteSubdomainTxt(S) == {r \in txt : r.name \notin S}

\* Both delete_subdomain_txt callers: one bump per subdomain
RemoveNames(h, o, S) ==
  /\ ~Busy(h) /\ MayStart(S) /\ S \subseteq registered
  /\ CanBump(Cardinality(S))
  /\ registered' = registered \ S
  /\ txt' = DeleteSubdomainTxt(S)
  /\ version' = version + Cardinality(S)
  /\ Goto(h, NextName([Idle EXCEPT !.op = o, !.todo = S]))
  /\ UNCHANGED <<horizon, pdns, sync, mode>>

RemoveDomain(h, n) == "remove" \in Ops /\ RemoveNames(h, "remove", {n})
DeleteUser(h, S) == "delete_user" \in Ops /\ RemoveNames(h, "delete_user", S)

\* Two hours pass for everything written so far.
Age ==
  /\ "sweep" \in Ops /\ horizon # version /\ txt # {}
  /\ horizon' = version
  /\ UNCHANGED <<registered, txt, version, pdns, task, sync, mode>>

NearlyExpired == {r \in txt : r.at < horizon}  \* seeded fault: off by one
Expired == {r \in txt : r.at <= horizon}

\* There is one check_periodically loop, hence one sweep at a time.
Sweep(h) ==
  LET names == {r.name : r \in Expired} IN
  /\ ~Busy(h) /\ "sweep" \in Ops /\ MayStart(names)
  /\ \A g \in Handlers : task[g].op # "sweep"
  /\ names # {}
  /\ txt' = txt \ Expired
  /\ version' = version + 1
  /\ Goto(h, NextName([Idle EXCEPT !.op = "sweep", !.todo = names]))
  /\ UNCHANGED <<registered, horizon, pdns, sync, mode>>

\* An administrator edits static records of the base zone: PowerDNS first,
\* then the database, then the stamp.
EditRecords(h) ==
  /\ ~Busy(h) /\ "records" \in Ops /\ MayStart({}) /\ exists /\ CanBump(1)
  /\ Goto(h, [Idle EXCEPT !.pc = "apply", !.op = "records"])
  /\ UNCHANGED <<db, pdns, sync, mode>>

ApplyRecords(h) ==
  /\ task[h].pc = "apply"
  /\ version' = version + 1
  /\ Goto(h, [task[h] EXCEPT !.pc = "stamp", !.ver = version + 1])
  /\ UNCHANGED <<registered, txt, horizon, pdns, sync, mode>>

-----------------------------------------------------------------------------
(* Zones::sync_txt, one await at a time                                     *)

ReadTxt(h) ==
  /\ task[h].pc = "read"
  /\ \E n \in task[h].todo :
       Goto(h, [task[h] EXCEPT !.pc = "patch", !.name = n, !.todo = @ \ {n},
                               !.vals = Stored(n)])
  /\ UNCHANGED <<db, pdns, sync, mode>>

Extended(t) == served' = [served EXCEPT ![t.name] = @ \cup t.vals]  \* seeded fault
Patched(t) == served' = [served EXCEPT ![t.name] = t.vals]

PatchTxt(h) ==
  /\ task[h].pc = "patch" /\ exists
  /\ Patched(task[h])
  /\ Goto(h, [task[h] EXCEPT !.pc = "version"])
  /\ UNCHANGED <<db, exists, stamp, sync, mode>>

NextVersion(h) ==  \* seeded fault: the version the next write will get
  /\ task[h].pc = "version"
  /\ Goto(h, [task[h] EXCEPT !.pc = "stamp", !.ver = version + 1])
  /\ UNCHANGED <<db, pdns, sync, mode>>
ReadVersion(h) ==
  /\ task[h].pc = "version"
  /\ Goto(h, [task[h] EXCEPT !.pc = "stamp", !.ver = version])
  /\ UNCHANGED <<db, pdns, sync, mode>>

Stamp(h) ==
  /\ task[h].pc = "stamp" /\ exists
  /\ stamp' = task[h].ver
  /\ Goto(h, NextName(task[h]))
  /\ UNCHANGED <<db, exists, served, sync, mode>>

\* A call that failed without effect
CallFails(h) ==
  /\ "call" \in Faults /\ task[h].pc \in {"patch", "stamp"}
  /\ Goto(h, NextName(task[h]))
  /\ UNCHANGED <<db, pdns, sync, mode>>

\* A call PowerDNS carried out although certo saw it time out
LateAnswer(h) ==
  /\ "late" \in Faults /\ task[h].pc = "patch" /\ exists
  /\ Patched(task[h])
  /\ Goto(h, NextName(task[h]))
  /\ UNCHANGED <<db, exists, stamp, sync, mode>>

\* The client hangs up and its handler is dropped where it waits; the sweep
\* is nobody's request.
Cancel(h) ==
  /\ "cancel" \in Faults /\ Busy(h) /\ task[h].op # "sweep"
  /\ Goto(h, Idle)
  /\ UNCHANGED <<db, pdns, sync, mode>>

Handler(h) ==
  \/ Write(h) \/ ApplyRecords(h)
  \/ ReadTxt(h) \/ PatchTxt(h) \/ ReadVersion(h) \/ Stamp(h)

Request(h) ==
  \/ \E n \in Names, v \in Values :
       Present(h, n, v) \/ Cleanup(h, n, v) \/ Update(h, n, v)
  \/ \E n \in Names : RemoveDomain(h, n)
  \/ \E S \in SUBSET Names : DeleteUser(h, S)
  \/ EditRecords(h)

-----------------------------------------------------------------------------
(* Zones::sync, the base zone's part                                        *)

SyncTo(s) == sync' = s

\* main starts pdns, then runs sync(false) before it serves any request.
Start ==
  /\ mode = "down"
  /\ mode' = "starting"
  /\ SyncTo([IdleSync EXCEPT !.pc = "list", !.ver = version])
  /\ UNCHANGED <<db, pdns, task>>

\* POST /admin/sync
AdminSync ==
  /\ "sync" \in Ops /\ sync.pc = "idle" /\ mode = "up"
  /\ Isolation # "none" => Quiet
  /\ SyncTo([IdleSync EXCEPT !.pc = "list", !.force = TRUE, !.ver = version])
  /\ UNCHANGED <<db, pdns, task, mode>>

ListZones ==
  /\ sync.pc = "list"
  /\ SyncTo([sync EXCEPT !.pc = IF exists THEN "metadata" ELSE "desired",
                         !.had = exists])
  /\ UNCHANGED <<db, pdns, task, mode>>

NotAhead == stamp <= sync.ver  \* seeded fault: any stamp that is not newer
InStep == stamp = sync.ver

\* Unstamped: adopt; stamped with the version: skip, unless forced.
ReadStamp ==
  /\ sync.pc = "metadata"
  /\ SyncTo([sync EXCEPT !.pc = IF stamp = 0 THEN "adopt"
                                ELSE IF InStep /\ ~sync.force THEN "rest"
                                ELSE "desired"])
  /\ UNCHANGED <<db, pdns, task, mode>>

\* TTL-1 challenge values are not adopted; replace_zone_rrsets bumps and the
\* zone is read again.  Only the startup sync meets an unstamped base zone.
Adopt ==
  /\ sync.pc = "adopt" /\ CanBump(1)
  /\ version' = version + 1
  /\ SyncTo([sync EXCEPT !.pc = "desired", !.ver = version + 1])
  /\ UNCHANGED <<registered, txt, horizon, pdns, task, mode>>

DesiredRrsets ==
  /\ sync.pc = "desired"
  /\ SyncTo([sync EXCEPT !.pc = "zone", !.want = [n \in Names |-> Stored(n)]])
  /\ UNCHANGED <<db, pdns, task, mode>>

\* The differences against the zone as it is now, deletions included
DiffersFromStored(n) ==  \* seeded fault: what is no longer wanted stays
  served[n] # sync.want[n] /\ sync.want[n] # {}
Differs(n) == served[n] # sync.want[n]

ReadZone ==
  /\ sync.pc = "zone"
  /\ SyncTo([sync EXCEPT !.pc = "converge", !.had = exists,
                         !.diff = {n \in Names : Differs(n)}])
  /\ UNCHANGED <<db, pdns, task, mode>>

ConvergeRrsets ==
  /\ sync.pc = "converge" /\ sync.had = exists
  /\ exists' = TRUE
  /\ served' = [n \in Names |-> IF n \in sync.diff THEN sync.want[n] ELSE served[n]]
  /\ SyncTo([sync EXCEPT !.pc = "stamp"])
  /\ UNCHANGED <<db, stamp, task, mode>>

SyncStamp ==
  /\ sync.pc = "stamp" /\ exists
  /\ stamp' = sync.ver
  /\ SyncTo([sync EXCEPT !.pc = "rest"])
  /\ UNCHANGED <<db, exists, served, task, mode>>

\* Flushing the cache, the other zones, the keys and the status report: calls
\* that leave the base zone alone but fail the sync as any other.
SyncRest ==
  /\ sync.pc = "rest"
  /\ SyncTo(IdleSync)
  /\ mode' = "up"
  /\ UNCHANGED <<db, pdns, task>>

\* An error ends the sync, and at startup the process with it.
SyncFails ==
  /\ "call" \in Faults /\ sync.pc # "idle"
  /\ SyncTo(IdleSync)
  /\ mode' = IF mode = "starting" THEN "down" ELSE mode
  /\ UNCHANGED <<db, pdns, task>>

SyncStep ==
  \/ ListZones \/ ReadStamp \/ Adopt \/ DesiredRrsets \/ ReadZone
  \/ ConvergeRrsets \/ SyncStamp \/ SyncRest

-----------------------------------------------------------------------------
(* Crashes                                                                  *)

\* The process ends anywhere; both databases stay as they are.
Crash ==
  /\ "crash" \in Faults /\ mode # "down"
  /\ mode' = "down"
  /\ task' = [h \in Handlers |-> Idle]
  /\ SyncTo(IdleSync)
  /\ UNCHANGED <<db, pdns>>

\* pdns.sqlite3 is lost or deleted while nothing runs.
Wipe ==
  /\ "wipe" \in Faults /\ mode = "down" /\ exists
  /\ exists' = FALSE /\ served' = Unserved /\ stamp' = 0
  /\ UNCHANGED <<db, task, sync, mode>>

-----------------------------------------------------------------------------

\* ensure_base_zone made the row; PowerDNS starts empty.
Init ==
  /\ registered = {} /\ txt = {} /\ horizon = 0 /\ version = 1
  /\ exists = FALSE /\ served = Unserved /\ stamp = 0
  /\ task = [h \in Handlers |-> Idle]
  /\ sync = IdleSync
  /\ mode = "down"

Next ==
  \/ \E h \in Handlers : Request(h) \/ Sweep(h) \/ Handler(h)
                         \/ CallFails(h) \/ LateAnswer(h) \/ Cancel(h)
  \/ Age \/ Start \/ AdminSync \/ SyncStep \/ SyncFails \/ Crash \/ Wipe

Spec == Init /\ [][Next]_vars

\* The executor runs a task that can run; a process manager restarts certo;
\* check_periodically sweeps again and again.  Strong for the sweep: it never
\* waits for other tasks in the code, only Isolation makes it.
Fairness ==
  /\ \A h \in Handlers : WF_vars(Handler(h))
  /\ WF_vars(SyncStep) /\ WF_vars(Start)
  /\ SF_vars(\E h \in Handlers : Sweep(h))

FairSpec == Spec /\ Fairness

-----------------------------------------------------------------------------
(* Properties                                                               *)

Task == [pc : {"idle", "write", "apply", "read", "patch", "version", "stamp"},
         op : AllOps \cup {"none"}, name : Names \cup {NoName},
         value : Values \cup {NoValue}, todo : SUBSET Names,
         vals : SUBSET Values, ver : Nat]
SyncTask == [pc : {"idle", "list", "metadata", "adopt", "desired", "zone",
                   "converge", "stamp", "rest"},
             force : BOOLEAN, had : BOOLEAN, ver : Nat,
             want : [Names -> SUBSET Values], diff : SUBSET Names]

\* Every variable has its type; a task about to write knows what it writes.
TypeOK ==
  /\ registered \subseteq Names
  /\ txt \subseteq Row
  /\ horizon \in Nat /\ version \in Nat \ {0} /\ stamp \in Nat
  /\ exists \in BOOLEAN /\ served \in [Names -> SUBSET Values]
  /\ task \in [Handlers -> Task]
  /\ \A h \in Handlers : task[h].pc = "write" =>
       task[h].name \in Names /\ task[h].value \in Values
  /\ sync \in SyncTask
  /\ mode \in {"down", "starting", "up"}

\* The stamp on the PowerDNS zone, and every version a task is about to stamp
\* it with, is a version the database has reached: however pushes, syncs,
\* crashes and losses of PowerDNS interleave, the next write is never hidden
\* behind a stamp from the future (the comparison in Zones::sync).
StampNotAhead ==
  /\ stamp <= version
  /\ \A h \in Handlers : task[h].ver <= version
  /\ sync.ver <= version
  /\ \A r \in txt : r.at <= version

AllMirrored == \A n \in Names : Mirrored(n)

\* A name no task is at is served exactly as it is stored, however many other
\* names are being pushed at the same time (sync_txt reads, patches and stamps
\* without a lock; the base zone's version is shared by all names).
IdleNamesMirrored ==
  mode = "up" /\ sync.pc = "idle" =>
    \A n \in Names : (\A h \in Handlers : n \notin Touched(h)) => Mirrored(n)

\* A base zone stamped with the database's version serves what the database
\* stores: the comparison that lets the startup sync skip the zone is sound.
StampTruthful == exists /\ stamp = version => AllMirrored

\* When the startup sync lets certo serve, PowerDNS has every challenge name
\* as the txt table has it.
RestartReconciles ==
  [][mode = "starting" /\ mode' = "up" => exists' /\ AllMirrored']_vars

\* A sync that reaches its stamp with nothing else running has made PowerDNS
\* equal to the database, whatever failed calls, timeouts, dropped handlers and
\* crashes left behind.
SyncRepairs == sync.pc = "stamp" => exists /\ AllMirrored

\* Every row belongs to a domain somebody owns: removing a domain or a user
\* takes the rows along, in the same transaction.
RowsOwned == \A r \in txt : r.name \in registered

\* A value past its retention, or deleted, does not stay published for good:
\* it goes, or it is presented again.
Fresh(n) == {r.value : r \in {q \in txt : q.name = n /\ q.at > horizon}}
ExpiredWithdrawn ==
  \A n \in Names, v \in Values :
    (v \in served[n] /\ v \notin Fresh(n)) ~> (v \notin served[n] \/ v \in Fresh(n))

\* PowerDNS only ever changes to what the database stores at that moment.
Mirror == INSTANCE TxtMirror WITH stored <- [n \in Names |-> Stored(n)]
ImplementsMirror == Mirror!Spec
=============================================================================
