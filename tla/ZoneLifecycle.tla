---------------------------- MODULE ZoneLifecycle ----------------------------
(***************************************************************************)
(* The life of the users' zones: rows in certo's zones table, pending until *)
(* the parent delegates to certo or an administrator exempts them, active   *)
(* and served by PowerDNS then, deactivated after MaxFails failed checks,   *)
(* deleted by their owner, with their owner or by the hourly checks; and    *)
(* the sync at startup that makes PowerDNS serve the active rows.           *)
(*                                                                          *)
(* Atomicity as in ChallengeTxt: one step per database transaction, per     *)
(* PowerDNS call and per delegation check.  A handler works on the row its  *)
(* request found; run_checks and sync on the rows they listed first.        *)
(*                                                                          *)
(* Not here: the base zone (ChallengeTxt), edits of an active zone's        *)
(* records, DNSSEC and TSIG keys.  Time is free: any row may be due for its *)
(* check, and any pending row may be past its 30 days.                      *)
(***************************************************************************)
EXTENDS Naturals, FiniteSets

CONSTANTS
  Zones,       \* zone names
  Handlers,    \* concurrent request handlers
  Main,        \* the main task: sync at startup, then the hourly checks
  NoZone,
  Ops,         \* the operations an instance exercises
  Faults,      \* the faults an instance lets happen
  Isolation,   \* whether tasks overlap ("none") or not ("all")
  MaxFails,    \* MAX_FAILED_CHECKS
  MaxVersion,  \* bound on a row's version
  MaxId        \* bound on the number of rows ever made

AllOps == {"create", "verify", "exempt", "clear", "delete", "delete_user",
           "checks", "expire", "sync"}
AllFaults == {"undelegated", "call", "late", "check", "cancel", "crash",
              "wipe"}

ASSUME ZonesAssumption == IsFiniteSet(Zones) /\ NoZone \notin Zones
ASSUME ActorsAssumption == Main \notin Handlers
ASSUME OpsAssumption == Ops \subseteq AllOps
ASSUME FaultsAssumption == Faults \subseteq AllFaults
ASSUME IsolationAssumption == Isolation \in {"none", "all"}
ASSUME BoundAssumption ==
  MaxFails \in Nat \ {0} /\ MaxVersion \in Nat /\ MaxId \in Nat

VARIABLES
  zone,       \* the zones table
  nextId,     \* the next row id
  pdns,       \* the zones PowerDNS has
  task,       \* what each actor is at
  mode        \* "down", "starting" or "up"

vars == <<zone, nextId, pdns, task, mode>>

Actors == Handlers \cup {Main}

\* A row; id 0 is none.  data stands for the records: 0 none at all, else the
\* id of the row they were entered for.
RowOf(id) == [id |-> id, active |-> FALSE, exempt |-> FALSE, fails |-> 0,
              ver |-> 1, data |-> 0]
NoRow == [RowOf(0) EXCEPT !.ver = 0]
NoRows == [z \in Zones |-> NoRow]

\* A zone of PowerDNS; stamp 0 is none.
NoServed == [there |-> FALSE, stamp |-> 0, data |-> 0]

Exists(z) == zone[z].id # 0
There(z) == pdns[z].there
Active(rows) == {z \in Zones : rows[z].active}

\* The bound: no operation starts on a row that has reached it.
Room(z) == zone[z].ver < MaxVersion

-----------------------------------------------------------------------------
(* Tasks                                                                    *)

Idle == [pc |-> "idle", op |-> "none", z |-> NoZone, rows |-> NoRows,
         left |-> {}, seen |-> {}, exempt |-> FALSE, force |-> FALSE,
         ver |-> 0, data |-> 0, had |-> "none"]

Busy(a) == task[a].pc # "idle"
Quiet == \A a \in Actors : ~Busy(a)
MayStart(a) == mode = "up" /\ ~Busy(a) /\ (Isolation = "all" => Quiet)

At(a, pc) == task[a].pc = pc
Goto(a, t) == task' = [task EXCEPT ![a] = t]
To(a, pc) == Goto(a, [task[a] EXCEPT !.pc = pc])

\* The row a task works on, as it found it, and whether its id still exists;
\* a row never changes its name.
Snap(a) == task[a].rows[task[a].z]
Mine(a) == Exists(task[a].z) /\ zone[task[a].z].id = Snap(a).id
SetRow(a, r) == zone' = [zone EXCEPT ![task[a].z] = r]

\* Loops go on to their next zone, any other task is over.
Continue(t) ==
  IF t.op \in {"checks", "sync", "delete_user"}
  THEN [t EXCEPT !.pc = "pick", !.z = NoZone, !.exempt = FALSE, !.ver = 0,
                 !.data = 0, !.had = "none"]
  ELSE Idle

\* An error ends a task, at startup the process too; only the check loop logs
\* the error of one zone and goes on.
Fails(a) ==
  /\ Goto(a, IF task[a].op = "checks" /\ ~At(a, "expire") THEN Continue(task[a])
             ELSE Idle)
  /\ mode' = IF mode = "starting" THEN "down" ELSE mode

-----------------------------------------------------------------------------
(* Requests: each begins with the row it is about                           *)

Begin(a, o, z, pc) ==
  /\ o \in Ops /\ MayStart(a) /\ Exists(z) /\ Room(z)
  /\ Goto(a, [Idle EXCEPT !.pc = pc, !.op = o, !.z = z,
                          !.exempt = (o = "exempt" \/ zone[z].exempt),
                          !.rows = [NoRows EXCEPT ![z] = zone[z]]])
  /\ UNCHANGED <<zone, nextId, pdns, mode>>

Verify(a, z) == Begin(a, "verify", z, "check")
Exempt(a, z) == Begin(a, "exempt", z, "activate")
ClearExemption(a, z) == zone[z].active /\ Begin(a, "clear", z, "clear")
Delete(a, z) == Begin(a, "delete", z, "unserve")

ReusedId == nextId  \* seeded fault: INTEGER PRIMARY KEY without AUTOINCREMENT
AfterId == nextId + 1

Create(a, z) ==
  /\ "create" \in Ops /\ MayStart(a) /\ ~Exists(z)
  /\ nextId <= MaxId /\ 3 <= MaxVersion
  /\ zone' = [zone EXCEPT ![z] = RowOf(nextId)]
  /\ nextId' = AfterId
  /\ Goto(a, [Idle EXCEPT !.pc = "ns", !.op = "create", !.z = z,
                          !.rows = [NoRows EXCEPT ![z] = RowOf(nextId)]])
  /\ UNCHANGED <<pdns, mode>>

\* The apex NS, in a transaction after the row's
ApplyNs(a) ==
  /\ At(a, "ns") /\ Mine(a)
  /\ SetRow(a, [zone[task[a].z] EXCEPT !.data = Snap(a).id, !.ver = @ + 1])
  /\ To(a, "reread")
  /\ UNCHANGED <<nextId, pdns, mode>>

\* db.zone(name): create before its first check, sync after an adoption
Reread(a) ==
  LET z == task[a].z IN
  /\ At(a, "reread")
  /\ \/ Exists(z) /\ UNCHANGED mode
        /\ Goto(a, [task[a] EXCEPT
             !.pc = IF task[a].op = "sync" THEN "look" ELSE "check",
             !.ver = zone[z].ver, !.exempt = zone[z].exempt, !.rows[z] = zone[z]])
     \/ ~Exists(z) /\ Fails(a)
  /\ UNCHANGED <<zone, nextId, pdns>>

\* remove_user_zones lists the zones first; the zones here are of one user.
DeleteUser(a) ==
  /\ "delete_user" \in Ops /\ MayStart(a)
  /\ Goto(a, [Idle EXCEPT !.pc = "pick", !.op = "delete_user",
                          !.left = {z \in Zones : Exists(z)}])
  /\ UNCHANGED <<zone, nextId, pdns, mode>>

DeleteUserRows(a) ==
  /\ At(a, "pick") /\ task[a].op = "delete_user" /\ task[a].left = {}
  /\ zone' = NoRows
  /\ Goto(a, Idle)
  /\ UNCHANGED <<nextId, pdns, mode>>

-----------------------------------------------------------------------------
(* run_check                                                                *)

Delegated(a) ==
  /\ At(a, "check") /\ To(a, "activate")
  /\ UNCHANGED <<zone, nextId, pdns, mode>>

NotDelegated(a) ==
  /\ "undelegated" \in Faults /\ At(a, "check") /\ To(a, "fail")
  /\ UNCHANGED <<zone, nextId, pdns, mode>>

\* An answer that is none: logged in create and in the check loop.
CheckInconclusive(a) ==
  /\ "check" \in Faults /\ At(a, "check") /\ Fails(a)
  /\ UNCHANGED <<zone, nextId, pdns>>

\* failed_checks counts on for ever in the code, and nothing asks for more
\* than whether it has reached the limit.
Failed(r) == [r EXCEPT !.fails = IF @ < MaxFails THEN @ + 1 ELSE @]
GivesUpEarly(r) == r.active /\ r.fails + 1 >= MaxFails  \* seeded fault
GivesUp(r) == r.active /\ r.fails >= MaxFails

RecordFailure(a) ==
  LET r == Failed(zone[task[a].z]) IN
  /\ At(a, "fail") /\ Mine(a)
  /\ SetRow(a, r)
  /\ Goto(a, IF GivesUp(r) THEN [task[a] EXCEPT !.pc = "unserve"]
             ELSE Continue(task[a]))
  /\ UNCHANGED <<nextId, pdns, mode>>

DeactivateRow(a) ==
  /\ At(a, "deactivate") /\ Mine(a)
  /\ SetRow(a, [zone[task[a].z] EXCEPT !.active = FALSE, !.exempt = FALSE,
                                       !.ver = @ + 1])
  /\ Goto(a, Continue(task[a]))
  /\ UNCHANGED <<nextId, pdns, mode>>

\* activate_zone: the version moves only when the row was inactive.
Activated(r, exempt) ==
  [r EXCEPT !.active = TRUE, !.exempt = exempt, !.fails = 0,
            !.ver = IF r.active THEN @ ELSE @ + 1]

\* A zone its request found active is built only if PowerDNS lost it.
ActivateRow(a) ==
  LET r == Activated(zone[task[a].z], task[a].exempt) IN
  /\ At(a, "activate") /\ Mine(a)
  /\ SetRow(a, r)
  /\ Goto(a, [task[a] EXCEPT !.pc = IF Snap(a).active THEN "probe" ELSE "look",
                             !.ver = r.ver])
  /\ UNCHANGED <<nextId, pdns, mode>>

NoProbe(a) ==  \* seeded fault: what was active is taken to be served
  /\ At(a, "probe")
  /\ Goto(a, Continue(task[a]))
  /\ UNCHANGED <<zone, nextId, pdns, mode>>
Probe(a) ==
  /\ At(a, "probe")
  /\ Goto(a, IF There(task[a].z) THEN Continue(task[a])
             ELSE [task[a] EXCEPT !.pc = "look"])
  /\ UNCHANGED <<zone, nextId, pdns, mode>>

ClearRow(a) ==
  /\ At(a, "clear") /\ Mine(a)
  /\ SetRow(a, [zone[task[a].z] EXCEPT !.exempt = FALSE, !.fails = 0])
  /\ Goto(a, Idle)
  /\ UNCHANGED <<nextId, pdns, mode>>

-----------------------------------------------------------------------------
(* converge and remove_from_pdns                                            *)

\* The stored records, then the served ones: two reads in the code, joined here.
\* Between them only an adoption by another sync could change the records.
Look(a) ==
  LET z == task[a].z
      d == IF Mine(a) THEN zone[z].data ELSE 0
  IN  /\ At(a, "look")
      /\ Goto(a, [task[a] EXCEPT !.pc = "build", !.data = d,
                    !.had = IF ~There(z) THEN "none"
                            ELSE IF pdns[z].data = d THEN "same" ELSE "other"])
      /\ UNCHANGED <<zone, nextId, pdns, mode>>

\* POST of a new zone, PATCH of the differences, or no call at all
CanBuild(t) ==
  \/ t.had = "none" /\ ~There(t.z)
  \/ t.had = "same"
  \/ t.had = "other" /\ There(t.z)
Built(t) ==
  IF t.had = "same" THEN pdns
  ELSE [pdns EXCEPT ![t.z].there = TRUE, ![t.z].data = t.data]

Build(a) ==
  /\ At(a, "build") /\ CanBuild(task[a])
  /\ pdns' = Built(task[a])
  /\ Goto(a, [task[a] EXCEPT !.pc = "stamp"])
  /\ UNCHANGED <<zone, nextId, mode>>

StampZone(a) ==
  /\ At(a, "stamp") /\ There(task[a].z)
  /\ pdns' = [pdns EXCEPT ![task[a].z].stamp = task[a].ver]
  /\ Goto(a, Continue(task[a]))
  /\ UNCHANGED <<zone, nextId, mode>>

\* The zone came or went in between: 409 or 404
Rejected(a) ==
  /\ \/ At(a, "build") /\ ~CanBuild(task[a])
     \/ At(a, "stamp") /\ ~There(task[a].z)
  /\ Fails(a)
  /\ UNCHANGED <<zone, nextId, pdns>>

\* remove_from_pdns: by name, and a zone that is not there is fine
LeftServed(t) ==  \* seeded fault: a deleted zone stays served
  IF t.op = "delete" THEN pdns ELSE [pdns EXCEPT ![t.z] = NoServed]
Unserved(t) == [pdns EXCEPT ![t.z] = NoServed]

AfterPrune(t) == IF t.left = {} THEN [Continue(t) EXCEPT !.left = Active(t.rows)]
                 ELSE [Continue(t) EXCEPT !.pc = "prune"]

Unserve(a) ==
  /\ At(a, "unserve")
  /\ pdns' = Unserved(task[a])
  /\ Goto(a, CASE task[a].op = "delete" -> [task[a] EXCEPT !.pc = "delete"]
               [] task[a].op = "delete_user" -> Continue(task[a])
               [] task[a].op = "sync" -> AfterPrune(task[a])
               [] OTHER -> [task[a] EXCEPT !.pc = "deactivate"])
  /\ UNCHANGED <<zone, nextId, mode>>

DeleteRow(a) ==
  /\ task[a].pc \in {"delete", "expire"} /\ Mine(a)
  /\ SetRow(a, NoRow)
  /\ Goto(a, Continue(task[a]))
  /\ UNCHANGED <<nextId, pdns, mode>>

\* A database method that found no row of its id
NotFound(a) ==
  /\ task[a].pc \in {"ns", "fail", "deactivate", "activate", "clear", "delete",
                     "expire", "replace"}
  /\ ~Mine(a) /\ Fails(a)
  /\ UNCHANGED <<zone, nextId, pdns>>

\* A call that fails without effect, or with one certo does not learn of
CallFails(a) ==
  /\ "call" \in Faults
  /\ \/ task[a].pc \in {"probe", "look", "build", "stamp", "unserve", "list",
                        "metadata", "adopt"}
     \/ task[a].op = "sync" /\ (At(a, "reread") \/ At(a, "pick"))
  /\ Fails(a)
  /\ UNCHANGED <<zone, nextId, pdns>>

LateAnswer(a) ==
  /\ "late" \in Faults
  /\ \/ At(a, "build") /\ CanBuild(task[a]) /\ pdns' = Built(task[a])
     \/ At(a, "unserve") /\ pdns' = Unserved(task[a])
  /\ Fails(a)
  /\ UNCHANGED <<zone, nextId>>

-----------------------------------------------------------------------------
(* run_checks, on the main task                                             *)

Expirable(r) == r.id # 0 /\ ~r.active
BeingCreated(z) == \E h \in Handlers : task[h].op = "create" /\ task[h].z = z

\* seen are the rows to expire: any that are old, which no row is that is
\* still being created.
RunChecks ==
  /\ "checks" \in Ops /\ MayStart(Main)
  /\ \E old \in SUBSET {z \in Zones : Expirable(zone[z]) /\ ~BeingCreated(z)} :
       /\ old = {} \/ "expire" \in Ops
       /\ Goto(Main, [Idle EXCEPT !.pc = "pick", !.op = "checks", !.rows = zone,
                        !.left = {z \in Zones : /\ Exists(z) /\ ~zone[z].exempt
                                                /\ Room(z)},
                        !.seen = old])
  /\ UNCHANGED <<zone, nextId, pdns, mode>>

Pick(a, z, pc) ==
  /\ z \in task[a].left
  /\ Goto(a, [task[a] EXCEPT !.pc = pc, !.z = z, !.left = @ \ {z},
                             !.exempt = task[a].rows[z].exempt,
                             !.ver = task[a].rows[z].ver])
  /\ UNCHANGED <<zone, nextId, pdns, mode>>

InLoop(a, o) == At(a, "pick") /\ task[a].op = o

CheckDue(z) ==
  /\ InLoop(Main, "checks") /\ z \notin task[Main].seen
  /\ Pick(Main, z, "check")

ExpirePending(z) ==
  /\ InLoop(Main, "checks") /\ z \in task[Main].seen
  /\ Pick(Main, z, "expire")

NotDue(z) ==
  /\ InLoop(Main, "checks") /\ z \in task[Main].left \ task[Main].seen
  /\ Goto(Main, [task[Main] EXCEPT !.left = @ \ {z}])
  /\ UNCHANGED <<zone, nextId, pdns, mode>>

RemoveNext(a, z) == InLoop(a, "delete_user") /\ Pick(a, z, "unserve")
PruneNext(a, z) == At(a, "prune") /\ Pick(a, z, "unserve")
SyncNext(a, z) == InLoop(a, "sync") /\ Pick(a, z, "metadata")

\* The loop is over; after the startup sync certo serves.
Finish(a) ==
  /\ InLoop(a, "checks") \/ InLoop(a, "sync")
  /\ task[a].left = {}
  /\ Goto(a, Idle)
  /\ mode' = IF mode = "starting" THEN "up" ELSE mode
  /\ UNCHANGED <<zone, nextId, pdns>>

-----------------------------------------------------------------------------
(* sync                                                                     *)

SyncTask(force) == [Idle EXCEPT !.pc = "list", !.op = "sync", !.rows = zone,
                                !.force = force]

Start ==
  /\ mode = "down" /\ mode' = "starting"
  /\ Goto(Main, SyncTask(FALSE))
  /\ UNCHANGED <<zone, nextId, pdns>>

AdminSync(a) ==
  /\ "sync" \in Ops /\ MayStart(a)
  /\ Goto(a, SyncTask(TRUE))
  /\ UNCHANGED <<zone, nextId, pdns, mode>>

\* What PowerDNS has and the rows do not want is removed first.
NothingUnwanted(seen, rows) == {}  \* seeded fault: sync never removes a zone
Unwanted(seen, rows) == seen \ Active(rows)

ListServed(a) ==
  LET seen == {z \in Zones : There(z)} IN
  /\ At(a, "list")
  /\ Goto(a, AfterPrune([task[a] EXCEPT !.seen = seen,
                                        !.left = Unwanted(seen, task[a].rows)]))
  /\ UNCHANGED <<zone, nextId, pdns, mode>>

\* Adopt an unstamped zone, skip one stamped with the row's version unless
\* forced, converge the others; a zone that is gone has no stamp.
InStep(a) == pdns[task[a].z].stamp = Snap(a).ver

ReadStamp(a) ==
  LET z == task[a].z IN
  /\ At(a, "metadata")
  /\ Goto(a, IF z \notin task[a].seen THEN [task[a] EXCEPT !.pc = "look"]
             ELSE IF pdns[z].stamp = 0 THEN [task[a] EXCEPT !.pc = "adopt"]
             ELSE IF InStep(a) /\ ~task[a].force THEN Continue(task[a])
             ELSE [task[a] EXCEPT !.pc = "look"])
  /\ UNCHANGED <<zone, nextId, pdns, mode>>

Adopt(a) ==
  LET z == task[a].z IN
  /\ At(a, "adopt")
  /\ Goto(a, IF There(z) THEN [task[a] EXCEPT !.pc = "replace", !.data = pdns[z].data]
             ELSE [task[a] EXCEPT !.pc = "look"])
  /\ UNCHANGED <<zone, nextId, pdns, mode>>

\* Room is the bound, no condition of the code: an instance takes no rows that reach it.
ReplaceRrsets(a) ==
  /\ At(a, "replace") /\ Mine(a) /\ Room(task[a].z)
  /\ SetRow(a, [zone[task[a].z] EXCEPT !.data = task[a].data, !.ver = @ + 1])
  /\ To(a, "reread")
  /\ UNCHANGED <<nextId, pdns, mode>>

-----------------------------------------------------------------------------
(* The rest of the world                                                    *)

\* The client hangs up and its handler is dropped where it waits.
Cancel(h) ==
  /\ "cancel" \in Faults /\ Busy(h)
  /\ Goto(h, Idle)
  /\ UNCHANGED <<zone, nextId, pdns, mode>>

Crash ==
  /\ "crash" \in Faults /\ mode # "down"
  /\ mode' = "down"
  /\ task' = [a \in Actors |-> Idle]
  /\ UNCHANGED <<zone, nextId, pdns>>

\* pdns.sqlite3 is lost or deleted while nothing runs.
Wipe ==
  /\ "wipe" \in Faults /\ mode = "down"
  /\ pdns' = [z \in Zones |-> NoServed]
  /\ UNCHANGED <<zone, nextId, task, mode>>

-----------------------------------------------------------------------------

Init ==
  /\ zone = NoRows /\ nextId = 1
  /\ pdns = [z \in Zones |-> NoServed]
  /\ task = [a \in Actors |-> Idle]
  /\ mode = "down"

Request(h) ==
  \/ \E z \in Zones : \/ Create(h, z) \/ Verify(h, z) \/ Exempt(h, z)
                      \/ ClearExemption(h, z) \/ Delete(h, z)
  \/ DeleteUser(h) \/ AdminSync(h)

\* One step of a task that can take one
Step(a) ==
  \/ ApplyNs(a) \/ Reread(a) \/ Delegated(a) \/ RecordFailure(a) \/ DeactivateRow(a)
  \/ ActivateRow(a) \/ Probe(a) \/ ClearRow(a) \/ Look(a) \/ Build(a)
  \/ StampZone(a) \/ Rejected(a) \/ Unserve(a) \/ DeleteRow(a) \/ NotFound(a)
  \/ DeleteUserRows(a) \/ Finish(a)
  \/ \E z \in Zones : RemoveNext(a, z) \/ PruneNext(a, z) \/ SyncNext(a, z)
  \/ ListServed(a) \/ ReadStamp(a) \/ Adopt(a) \/ ReplaceRrsets(a)

Fault(a) ==
  NotDelegated(a) \/ CheckInconclusive(a) \/ CallFails(a) \/ LateAnswer(a)

Next ==
  \/ \E h \in Handlers : Request(h) \/ Cancel(h)
  \/ \E a \in Actors : Step(a) \/ Fault(a)
  \/ RunChecks
  \/ \E z \in Zones : CheckDue(z) \/ ExpirePending(z) \/ NotDue(z)
  \/ Start \/ Crash \/ Wipe

Spec == Init /\ [][Next]_vars

\* A task that can run does; the interval fires again and again and each row
\* is due again and again; a call retried for ever goes through at last.
Fairness ==
  /\ WF_vars(Start) /\ WF_vars(RunChecks)
  /\ \A a \in Actors : WF_vars(Step(a))
  /\ \A z \in Zones : SF_vars(CheckDue(z)) /\ WF_vars(ExpirePending(z))
  /\ SF_vars(Delegated(Main)) /\ SF_vars(Probe(Main)) /\ SF_vars(Look(Main))
  /\ SF_vars(Build(Main))

FairSpec == Spec /\ Fairness

-----------------------------------------------------------------------------
(* Properties                                                               *)

Rows == [id : 0..MaxId, active : BOOLEAN, exempt : BOOLEAN, fails : 0..MaxFails,
         ver : Nat, data : 0..MaxId]

\* Every variable has its type, an id is one row's, and rows that do not exist
\* have no state.
TypeOK ==
  /\ zone \in [Zones -> Rows]
  /\ nextId \in 1..(MaxId + 1)
  /\ pdns \in [Zones -> [there : BOOLEAN, stamp : Nat, data : 0..MaxId]]
  /\ \A a \in Actors :
       /\ task[a].z \in Zones \cup {NoZone}
       /\ task[a].rows \in [Zones -> Rows]
       /\ task[a].left \subseteq Zones /\ task[a].seen \subseteq Zones
       /\ task[a].ver \in Nat /\ task[a].data \in 0..MaxId
  /\ mode \in {"down", "starting", "up"}
  /\ \A z \in Zones : zone[z].id < nextId

\* PowerDNS has a zone only while its row is active, and with the records of
\* that row, never those of an earlier owner of the name: whatever calls fail or
\* come through late, whichever handler is dropped, wherever the process ends.
OnlyActiveServed ==
  \A z \in Zones :
    There(z) => zone[z].active /\ pdns[z].data \in {0, zone[z].id}

\* When the startup sync lets certo serve, PowerDNS has exactly the active
\* zones, whatever races, failures and losses came before.
RestartServes ==
  [][mode = "starting" /\ mode' = "up" =>
       \A z \in Zones : pdns'[z].there <=> zone'[z].active]_vars

\* An active zone goes inactive only when it has failed MaxFails checks since the
\* last one that succeeded.
DeactivationEarned ==
  [][\A z \in Zones : zone[z].active /\ zone'[z].id = zone[z].id /\ ~zone'[z].active
       => zone[z].fails >= MaxFails]_vars

\* A zone the parent delegates to certo comes to be served, although its
\* activation may have failed half-way (the row active, PowerDNS without the
\* zone): the hourly checks make up for it.
DelegatedServed ==
  \A z \in Zones :
    Exists(z) ~> There(z) \/ ~Exists(z) \/ zone[z].exempt \/ ~Room(z)
=============================================================================
