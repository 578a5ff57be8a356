# certo in TLA+

A verification development beside certo's source. certo is the control plane of a bundled
PowerDNS server: it keeps users, domains, zones and ACME challenge values in its own SQLite
database and makes `pdns_server`, a child process with a database of its own, serve them.

The hard part of certo is that it keeps **two durable stores in step without a transaction
over both**. The database is written first (or, for a zone's records, second), PowerDNS is
changed over HTTP, and a version number ties the two together: every write bumps
`zones.version`, every successful push writes that number to the PowerDNS zone as
`X-CERTO-VERSION`, and a sync at startup compares the two. Handlers run concurrently and
take no lock, calls fail or take effect although certo saw a timeout, clients hang up and
their handlers are dropped, the process ends anywhere, and PowerDNS's database may be lost.

## 1. Inventory

| Component | State it keeps | Operations | What makes it correct |
|---|---|---|---|
| **Challenge values** (`certo-db/store.rs`, `certo-api/httpreq.rs`, `acmedns.rs`, `web.rs`, `maintenance.rs`, `certo-pdns/zones.rs` `sync_txt`) | table `txt`, `user_domains`, version of the base zone; TXT rrsets and stamp in PowerDNS | present, cleanup, acme-dns update, remove a domain, delete a user, sweep of old values, static records of the base zone, push of one name | stored = served once nothing is under way; no stamp from the future; a restart reconciles; no orphan rows; old values are withdrawn |
| **Zone lifecycle** (`certo-pdns/zones.rs`, `certo-db/zones.rs`, `certo-api/zones.rs`) | table `zones` (active, exempt, failed_checks, version); the zones PowerDNS has | create, verify, exempt, clear, delete, delete a user's zones, hourly `run_checks`, sync and adoption | only active zones are served, with their own records; a delegated zone comes to be served; nothing active disappears without a reason |
| **Zone records, DNSSEC, transfers, TSIG keys** (`certo-pdns/zones.rs`, `certo-db/zones.rs`) | `zone_rrsets`, `zone_dnssec`, `zones.axfr_allow_from`, `zone_tsig_keys`; the same in PowerDNS, where TSIG keys are shared by all zones | `patch_rrsets` (PowerDNS first), `set_dnssec`, allow list, adding and deleting TSIG keys, activation and deactivation, `converge`, adoption, sync | a zone nothing went wrong with is served as stored; no stamp from the future; the signing key stays; strays are removed |
| **Sync** (`Zones::sync`) | none of its own | at startup before serving, and on an administrator's request | after it PowerDNS equals the database |
| **Supervisor** (`certo-pdns/supervisor.rs`, `main.rs`) | the child, crash times, backoff, `gave_up`, `stopping` | start, restart, give up, shutdown | an outage ends; a stable server is never given up; giving up ends certo |
| **Accounts, domains, API keys** (`store.rs`, `web.rs`, `admin.rs`, `acmedns.rs`, `httpreq.rs`, `maintenance.rs`) | `users` (acme-dns accounts are users without a login), `api_keys`, `user_domains`, sessions | register, log in, add and remove domains and keys, present, update, deletion by the user, an administrator, the clean-up and the sweep | rows have owners; a request acts for the user it authenticated as or for nobody; a lost race is forgiven; orphaned values and unused accounts go |
| **Own certificate** (`acme.rs`, `set_own_challenge`) | key and chain in a cache directory, the ACME account, the certificate served, one TXT token | order, publish and clear the token, store, renew, load at the start | a good pair is served again and again; key and chain belong together or are replaced at once; the token is there while the authority looks |
| **Authorization** (`auth.rs`) | signing key | tokens, keys and scopes | who may act for whom (in `Accounts`) |
| **Delegation checker** (`delegation.rs`) | none | one check, several DNS lookups | its three answers are told apart |
| **Names, configuration, PowerDNS client and mock, HTTP router, CORS, SPA, logging** | none | parsing, I/O, presentation | unit tests |

Interactions: handlers call `Db` methods (each one transaction on the single, mutexed
connection), then `Zones`, which calls PowerDNS; `main` starts the supervisor, then
`Zones::sync(false)`, and only then the HTTP server and `check_periodically` (sweep and
`run_checks`, once an hour, on one task); `main`'s `select!` waits for the supervisor to
give up, the HTTP server to end, or a signal. The certificate manager is a task of its own,
which reaches the base zone through a hook that spawns a task per call.

`PROJECT.json` lists every hazard of this code at its line, with the properties that cover
it. Six have none: two pushes of one name (`zones.rs:438`), the stale list of
`run_checks` (`zones.rs:1170`) and the failures of an exempt zone (`zones.rs:834`), which do go
wrong and are counterexamples in section 5; the order of the hook's tasks (`main.rs:169`),
which the models contain but no property is about; and the password and cool-down races
(`web.rs:150`, `web.rs:271`), whose state is not modelled.

## 2. Modules

| Module | What it is |
|---|---|
| `ChallengeTxt` | challenge values, pushes, sweep, the base zone's part of sync, faults |
| `TxtMirror` | the abstract promise: a store and a public copy that changes only to what the store holds at that moment |
| `ZoneLifecycle` | users' zones: rows, checks, activation, deletion, `run_checks`, sync and adoption, faults |
| `ZoneRecords` | what is served of users' zones: records, DNSSEC, allow lists, TSIG keys; edits, `converge`, adoption, sync, faults |
| `Accounts` | users, API keys, domains, sessions, and the clean-up of what nobody uses |
| `OwnCertificate` | the certificate manager, its files, its token and the ACME server it talks to |
| `Supervisor` | the supervising task, `pdns_server`, and the main task's select and shutdown |
| `MCChallengeTxt`, `MCZoneLifecycle`, `MCZoneRecords`, `MCAccounts` | sets of operations, names and symmetry for TLC |
| `ChallengeTxt_proofs`, `ZoneLifecycle_proofs`, `ZoneRecords_proofs`, `ZoneRecordsIntact_proofs`, `ZoneRecordsKeys_proofs`, `Accounts_proofs`, `OwnCertificate_proofs`, `Supervisor_proofs` | theorems about the modules they are named for, for all values of the constants |

`ChallengeTxt` refines `TxtMirror` (`Mirror == INSTANCE TxtMirror WITH stored <- ...`,
`served` by its own name). The six detailed modules stand side by side and share no
variable. What one leaves to another is a nondeterministic choice in it: the life of the
server shows elsewhere as calls that fail and as `Crash` and `Wipe`; `ZoneLifecycle` says
which zones are there and `ZoneRecords` what they contain; `Accounts` keeps of a challenge
value only its age, and `OwnCertificate` of the base zone only its own token.

### Atomicity

In `ChallengeTxt`, `ZoneLifecycle`, `ZoneRecords` and `Accounts` one database transaction is
one step, one PowerDNS call is one step, and what a task does between two awaits belongs to
the step before. Anything may happen between two steps of a task. A *task* (`task[a]`, a
record with a program counter `pc`) is a request handler or a background loop; what it
carries from one await to the next (`name`, `vals`, `ver`, or the `rows` it listed) are the
local variables that may be stale when used.

### `ChallengeTxt` and the code

| Variable | Code |
|---|---|
| `registered` | `user_domains` |
| `txt` | rows of `txt`; `at` is the version after the insert and stands for `LastUpdate` and the rowid |
| `horizon` | versions up to this are older than the 2 h retention; `Age` moves it |
| `version`, `stamp` | `zones.version` of the base zone, `X-CERTO-VERSION` |
| `exists`, `served` | the base zone in PowerDNS and its TXT rrsets (`{}` for no rrset) |
| `sync` | `Zones::sync` as far as the base zone is concerned |

`Resolve` (find or register the subdomain) and `Write` are two transactions in the code and
two steps here; `ReadTxt`, `PatchTxt`, `ReadVersion`, `Stamp` are the four awaits of
`sync_txt`; `NextName` is the end of one push, after which the sweep and the deletion of a
user go on to the next name whatever became of this one.

### `ZoneLifecycle` and the code

A row is `[id, active, exempt, fails, ver, data]`. `data` stands for the zone's records: 0
for none at all (the process ended between the row and its apex NS), else the id of the row
they were entered for, so that records of an earlier owner of a name can be told apart.
`fails` stops at `MaxFails`, since nothing asks for more. `Begin` reads the row a request is
about; `Snap` is that reading, `Mine` whether its id still exists. `Delegated`,
`NotDelegated` and `CheckInconclusive` are the checker's answers. `Look`, `Build` and
`StampZone` are `converge`; `Unserve` is `remove_from_pdns`. `Rejected` is the answer of
PowerDNS when the zone came or went since it was looked at.

### `ZoneRecords` and the code

| Variable | Code |
|---|---|
| `db` | a row of `zones` (active, version) with its rrsets, key, NSEC mode, allow list (whether it has entries) and TSIG keys |
| `pdns` | the zone in PowerDNS: its stamp, rrsets, keys, NSEC mode, `ALLOW-AXFR-FROM` and `TSIG-ALLOW-AXFR` |
| `tsig` | PowerDNS's TSIG keys by name, for all zones together |
| `task`, `mode` | handlers and syncs; whether certo is down, in its startup sync, or serving |
| `intact` | history: the zones no task failed on, and no two tasks met at, since they were last converged |

The program counter names the call a task is about to make. `patch` / `store` / `stamp` is
`patch_rrsets`; `keys`, `add`, `nsec3`, `fetch` lead to the `store` of `set_dnssec`; `create`
and `names` are the two sides of adding a TSIG key; `look` to `stamp` is `converge`, which
activation and sync share; `replace` to `reread` is `adopt`. `Cut` ends a task anywhere: as
the error of a call, as the lost answer of one that took effect (the step and then `Cut`), or
as a client that hung up. Refusals (404 of a zone that is gone, 409 of a name that was
taken, a row another task deleted) are actions of their own. A key or secret PowerDNS
generates is one that is nowhere (`NewKey`, `NewSecret`). TSIG keys to remove are listed once
(`ListTsig`) and deleted by one call each (`RemoveTsig`), of which one may find its key gone
(`TsigGone`).

### `Accounts` and the code

`users`, `keys` and `domains` are the tables, `last` their AUTOINCREMENT counters, `tokens`
the dashboard sessions, `txt` the age of each subdomain's newest value (`none`, `fresh`,
`old`). A request authenticates in one or two reads (`BearerUser`, `BearerKey`, `BasicUser`,
`BasicKey`), keeps the user id and the scope, and acts in later transactions, with anything
in between. An acme-dns account is a user without a login (`Anonymous`): it has an API key
of scope `*`, so it may do what any key may, present and domains included, and a subdomain of
its own, drawn again as long as the drawn one is taken. `Resolve`, `AddUserDomain` and `LookAgain` are what `present` does about a domain it
does not know, up to the second look after a lost race. The deletion of a user (`leave`,
`evict`, `cleanup`, `sweep`) removes its zones from PowerDNS first, which may fail. Removing
a user takes its keys, domains and values with it, in the one transaction of `delete_user`.
There is no crash: every
transaction is a step, and a handler that stops between two of them does what `Denied` and
`ZonesFail` do, or is never scheduled again.
`published` and `excused` are histories for two of the properties.

### `OwnCertificate` and the code

`disk` holds the key file and the chain file of the cache directory, each by the certificate
it is of; `served` what the resolver has; `due` the certificates with less than a third of
their lifetime left. `pc` follows `Manager::run` through `account`, `issue` and the waits.
`NewOrder` and `PollReady` hand the token to the hook, which spawns a task per call (`calls`,
a set: they run in any order, and an error is only logged). `Waits` needs `calls = {}`: the
shortest wait is 60 s and a PowerDNS call gives up after 10 s, so no task outlives one. A
certificate's number is reused once it is in no file and not served (`MaxCert` of 4 is more
than can be in use at once). `LoadCached` gives what the files hold or nothing: `load_cached` drops
the errors of reading and parsing. A manager that starts with nothing beside a good pair
issues a new one, and if it ends between the two files, the next start serves the new key
with the old chain; the history `blind` marks that pair. The ACME server is free to accept,
reject or stay silent.

### `Supervisor` and the code

`sup` is where `supervise` and `spawn_ready` are, with the timer that runs and the next
backoff; `crashes` the ages of the crashes `supervise` remembers, the oldest first; `main`
the main task. `failed()` is two steps, `CheckGaveUp` (the load of `gave_up`) and `Register`
(the future it waits on exists), because the two tasks run on different threads. `Tick`
passes one unit of time and never passes over a step that is due. `upFor` is a history
variable. A start may last `LongestStart`: `spawn_ready` looks at its deadline between two
pings, and the ping begun just before it may hang for the client's timeout (`PingTimeout`).
`ExitTime` divides starts that fail at once, because the process exits, from those that
hang.

## 3. Runs

Constants open and close the models. `Faults` names the faults an instance lets happen,
`Isolation` the overlaps of `ChallengeTxt` and `ZoneLifecycle`: `"all"` one task at a time,
`"name"` tasks on different names overlap, `"none"` everything overlaps. `OpsOf` gives each
actor of `ZoneRecords` and `Accounts` the operations it may begin. Most guarantees of this
code hold under one setting and fail beyond it, and the runs say which.

| Run | Setting | Checked |
|---|---|---|
| `txt_one_at_a_time` | no overlap, **every fault** | `TypeOK`; `RowsOwned`; `SyncRepairs`: a sync that gets to its stamp has repaired everything; `ImplementsMirror`: refinement of `TxtMirror` |
| `txt_crash_only` | no overlap, crash and loss of PowerDNS; one name per operation | `StampTruthful`: equal stamp, equal content; `RestartReconciles` |
| `txt_many_names` | names overlap, all operations | `StampNotAhead`; `IdleNamesMirrored`; `ExpiredWithdrawn` (liveness) |
| `zones_calm` | no overlap, **every fault** | `TypeOK`; `OnlyActiveServed`; `DeactivationEarned` |
| `zones_race` | **everything overlaps, every fault** | `RestartServes`: after the startup sync exactly the active zones are served |
| `zones_healed` | everything overlaps, calls and checks fail | `DelegatedServed` (liveness) |
| `records` | two tasks overlap, **every fault** | `TypeOK`; `StampNotAhead`; `IntactMirrored`: what no failure or meeting of tasks touched since it was last converged is served as stored; `KeysAnswer`; `SyncUndisturbing`; `SignedAllAlong`; `SignedKeyKept`; `SyncRemovesStrays` |
| `accounts` | presents overlap with everything else | `TypeOK`; `RowsOwned`; `IdentityKept`; `RaceForgiven`; `OrphansExpire`, `UnusedGo` (liveness) |
| `accounts_published` | one acme-dns account, updates and sweeps | *violation* of `PublishedKept` |
| `own_certificate` | ACME calls that fail or get no answer, failed writes, files a start cannot read, failed hook calls, crashes | `TypeOK`; `MismatchDue`; `RestartKeeps`; `OwnTokenStays`; `Renewed` (liveness) |
| `supervisor` | the server exits, hangs or recovers at any time | `TypeOK`; `OutageEnds`: an outage whose failed starts fail soon ends (liveness); `StableNotGivenUp` |
| `supervisor_wakeup` | the supervisor gives up inside `failed()` | *violation* of `GaveUpEnds` |

`PROJECT.json` names a mutation of the modelled code for each property; the seeded faults
stand beside the definitions they replace, marked as such, and no specification uses them.

### Bounds

* `MaxVersion` (4, 5 in `records`): no operation starts that would take a version past it;
  what has started always ends. That leaves room for two writes of different tasks, an
  adoption and a write after it, which is what the hazards need: a stamp can be behind,
  equal to, or (mutated) ahead of the version. `MaxOverlap` (3 in `records`, 1 in
  `accounts`) is the same bound for tasks that begin beside another.
* `MaxId` (2): a name can be deleted and created again once, so that records and stamps of a
  former row, and sessions and keys of a former user, exist. `MaxFails` is 2 in `zones_calm`
  (the limit needs a failure that does not reach it) and 1 where the count is not the
  question; the code has 7.
* Two names, two values, or two zones where the run is about their interference; one
  handler where tasks do not overlap, two handlers or a handler and the main task where they
  do: each race among the hazards is one of two tasks.
* `records` has one zone with one rrset (the NS at the apex, whose absence `converge`
  treats specially) and one TSIG key name. One actor does everything, the other adds and
  deletes keys and syncs, which meets the first in both orders. `MaxKey` (2) keys and secrets
  at a time: an old one and a new one.
* What `records` cannot show with one zone, that no *other* zone takes a key away, is proved
  for all zones and names (`KeysStayAnswering`).
* `accounts` has one user name, one domain and one subdomain, which the domain is given and
  every acme-dns account draws: the two meet on it in both orders, and a present also finds no
  subdomain free. One actor publishes, the other does all the rest. `accounts_published` has
  one acme-dns account at a time, and one actor.
* `own_certificate`: waits of 60 and then 100 seconds (twice the wait is over the cap), two
  ends of the process.
* `supervisor` has short durations: more than 3 crashes in 10, backoff 1 to 3, starts of 3,
  pings of 1, an exit within 1. `CrashLimit + 1` starts that exit fit into `CrashWindow`,
  starts that hang do not, and the backoff reaches its maximum. The real durations (more than
  5 in 60 s, 1 to 30 s, 10 s, 10 s) stand in the same relation: starts that fail within 5 s
  crash at 0, 6, 13, 22, 35 and 56 s, starts that hang for 10 s at 0, 11, 23, 37, 55 and 81 s.
* Symmetry is used in `zones_calm` alone. Deadlock is checked everywhere.

The largest instances have 1.8 million (`zones_race`), 1.75 million (`records`) and
0.6 million (`zones_calm`) distinct states; `accounts` has 0.26 million.

### Fairness

* Weak fairness of each task's own steps: the executor polls a task that can run. Requests,
  faults and checks that find no delegation have none.
* `Start`: whoever runs certo (lode, Docker) starts it again.
* `Sweep` (`ChallengeTxt`, `Accounts`): strong. In the code the hourly loop waits for nobody;
  in the models an instance could keep the sweep's names, or the actor that runs it, busy.
  `ZonesRemoved` (`Accounts`) is strong too: that removing an account's zones succeeds in
  the end is what `UnusedGo` assumes. Values grow old (weak).
* `CheckDue`, and the main task's `Delegated`, `Probe`, `Look` and `Build`
  (`ZoneLifecycle`): strong. The interval fires again and again and each row is due again
  and again; that a call and a check succeed at last is the assumption under which a
  delegated zone can come to be served at all.
* `OwnCertificate`: weak fairness of the tasks and the waits. Strong fairness of the chain
  from account to certificate, each link only in the state the one before should leave:
  nothing is issued unless, in some attempt, the token is published before the server is
  told to look, the server finds it, and the disk takes both files.
* `Supervisor`: weak fairness of both tasks and of time; none that a start ever succeeds.

## 4. Proofs

Eight modules of theorems, checked by TLAPS for every value of the constants that satisfies
the assumptions the modules name: any finite set of names, zones, users' names or subdomains,
any number of actors with any operations, any faults, durations and bounds.

| Module | Theorem | States | Assumes |
|---|---|---|---|
| `ChallengeTxt_proofs` | `TypeCorrect` | `Spec => []TypeOK` | nothing |
| | `StampNeverAhead` | `Spec => []StampNotAhead` | nothing: full concurrency, every fault |
| | `SyncConverges` | `Spec => []SyncRepairs` | `Isolation = "all"` |
| | `OrphansComeLate` | `Spec => OrphanedByLateWrites` | nothing: full concurrency, every fault |
| | `Refines` | `Spec => ImplementsMirror` | `Isolation = "all"` |
| | `StampProves` | `Spec => []StampTruthful` | `CrashOnly` |
| | `RestartsReconcile` | `Spec => RestartReconciles` | `CrashOnly` |
| | `NamesStayMirrored` | `Spec => []IdleNamesMirrored` | `Isolation = "name"`, no faults |
| `ZoneLifecycle_proofs` | `TypeCorrect` | `Spec => []TypeOK` | nothing |
| | `RestartsServe` | `Spec => RestartServes` | nothing: full concurrency, every fault |
| | `AloneServesActive` | `Spec => []OnlyActiveServed` | `Isolation = "all"` |
| | `AloneEarned` | `Spec => DeactivationEarned` | `Isolation = "all"` |
| `ZoneRecords_proofs` | `TypeCorrect` | `Spec => []TypeOK` | nothing |
| | `StampNeverAhead` | `Spec => []StampNotAhead` | nothing: full concurrency, every fault |
| `ZoneRecordsIntact_proofs` | `IntactStayMirrored` | `Spec => []IntactMirrored` | nothing: full concurrency, every fault |
| | `SignedKeysStay` | `Spec => SignedKeyKept` | nothing: full concurrency, every fault |
| `ZoneRecordsKeys_proofs` | `SyncsDisturbNothing` | `Spec => []SyncUndisturbing` | nothing: full concurrency, every fault |
| | `SignedThroughout` | `Spec => []SignedAllAlong` | nothing: full concurrency, every fault |
| | `KeysStayAnswering` | `Spec => []KeysAnswer` | nothing: full concurrency, every fault |
| | `SyncsRemoveStrays` | `Spec => SyncRemovesStrays` | nothing: full concurrency, every fault |
| `Accounts_proofs` | `TypeCorrect` | `Spec => []TypeOK` | nothing |
| | `RowsStayOwned` | `Spec => []RowsOwned` | nothing |
| | `IdentityStays` | `Spec => []IdentityKept` | nothing |
| | `RacesForgiven` | `Spec => []RaceForgiven` | nothing |
| `OwnCertificate_proofs` | `TypeCorrect`, `MismatchesAreDue`, `RestartsKeep` | the invariants of the run | nothing |
| | `TokenStays` | `Spec => OwnTokenStays` | nothing |
| `Supervisor_proofs` | `TypeCorrect` | `Spec => []TypeOK` | nothing |
| | `StormsEndCerto` | `Spec => StableNotGivenUp` | nothing |

`CrashOnly` is: no overlap, no failed, late or dropped call, and no operation that pushes
several names.

**`ChallengeTxt_proofs`**

* `TypeCorrect` goes action by action, with `NextNameType`, `StoredType`, `RemovedCount`
  (the number of names a removal takes is a natural number, from `NamesAssumption`).
* `StampNotAhead` is inductive together with `TypeOK`: a task's and the sync's version were
  read from a version that only grows.
* `SyncRepairs` and the refinement are not inductive: that a patch publishes what is stored
  *now* needs that what the task carries is still true. `AloneInv` adds `OneTask` (at most
  one task, none while a sync runs; PowerDNS has the base zone while certo serves) and
  `FreshCopies` (`vals` of a task about to patch, `want` and `diff` of a sync equal the
  stored ones). `Refines` maps `PatchTxt` and `ConvergeRrsets` to `Publish`, the database
  writes to `Write`, `Wipe` to `Lose` and every other step to a stutter.
* `OrphansComeLate` says what is left of `RowsOwned` when tasks overlap: a name comes to have
  rows without an owner only by a request that writes after its domain was removed, never by
  a removal. `WriteAdds` says that a write adds rows of its own name; every other step
  (`OthersOrphanNone`) adds no row, and takes a name's rows together with its owner.
* `StampTruthful` needs more: between the write and the stamp the version is ahead of the
  stamp, and only one name can differ. `CrashInv` says so stage by stage of a task and a
  sync; its case for `Stamp` is where an operation on several names would fail.
* `NamesStayMirrored` is about the other setting, names that overlap without faults, and has
  an invariant of its own. `NamesInv` is `TypeOK` with four parts: `Apart` (tasks under way
  have no name in common, and a sync has all of them to itself), `AllCarried` (what a task
  read of its name is still stored, and the name it patched is served so until it lets it
  go), `Syncing` (the same of a sync's `want` and `diff`), and `RestMirrored` (every other
  name is served as stored). A step disturbs only names of its own task, so each part is
  kept by looking at one actor.

**`ZoneLifecycle_proofs`.** `TypeInv` adds to the types where a task may be with what it
carries (`Placed`). `RestartServes` rests on `StartInv`, which holds under every overlap and
fault: while certo does not serve yet, no handler is at work, and the startup sync walks from
a listing (`Syncing`) over zones to remove (`Pruning`) to zones to build (`Converging`), with
each zone it is done with served exactly if its row is active. The two theorems under
`Isolation = "all"` share `Calm`: every served zone is one the rows account for or the task
at work is at (`Kept`), and that task's snapshot is still the row (`Alone`: shape of the
record, what it has in hand, and where its loop is).

**`ZoneRecords_proofs`.** `TypeInv` is the types, with generated keys and secrets within
`MaxKey` (`NewOfFree`: a free one exists while the guard of the call holds, by the
well-foundedness of the natural numbers), and `Fits` of every task: it has a zone and a name
wherever it needs one, and the version it will stamp, and those of the rows it listed, are
versions the database has reached. `StampNotAhead` follows because rows only move up.

**`ZoneRecordsIntact_proofs`.** `IntactMirrored` speaks of zones at rest, so `IntactInv` says
of a zone with a task at it how far the two stores may be apart at each call. `Agree` is the
comparison part by part, less the parts a task has still to write; `Here` uses it for the one
task at an intact zone (`Edited`: what an edit has changed in PowerDNS is what it will store;
`Built`: what converge has already made equal), and `Away` for a sync on its way there (what
it listed of the row is still so, and nothing intact is among what it prunes). Two parts make
this hold under concurrency: `Apart` (only one task reaches an intact zone, or one it is
`alone` at) and `Starting` (a starting sync is the only task). `Built` is kept for zones that
are *not* intact as well, as long as the task is alone there: that is how a converge after
any failure earns the zone its place in `intact`. `Frame` is the argument about one actor's
step; `Stays`, `Leaves`, `Ends`, `WalksOn`, `Arrives` and `Starts` are its uses. `SignedKeysStay`
needs no more: `KeyChanges` finds the two steps that write the key column, `Signing` says that
the key about to be stored is the one stored, and a zone under adoption is not intact.

**`ZoneRecordsKeys_proofs`.** `IntactInv` says nothing of `tsig`, which all zones share, and
lets a sync change an intact zone as long as it ends equal. `KeptInv` adds to it, for every
task and zone:

* `InLine`: a sync that has come to an intact zone finds it `Mirror`ed, and every call it
  makes there keeps it so. This is why `Others` keeps the stored key, and with the `Agree` of
  `IntactInv` it gives `SyncsDisturbNothing` and `SignedThroughout`.
* `Chosen`: rows have, and tasks remove, only names the zone's owner chose. So an edit or a
  deactivation of one zone can take from another only a name both may choose (`Keeps`).
* `KeysHere`: how far a task at its own zone may be from having every key there: before it
  has looked, everything (`Has`); at `recreate`, what is missing is still in `make`.
* `KeysAway`: what protects a zone from a sync that is elsewhere. Its keys are in `want` once
  the sync has been there, and not among the strays it removes.
* `KeysRest`: no task reaches the zone, and its keys are there.
* `StraysInv`: what a sync that has all zones to itself has collected in `want` are keys of
  active zones, and at `strays` everything else PowerDNS has is still to be removed.

`Has` also holds of zones that are not intact while a task is alone there, for the reason
`Built` does: a converge after a failure restores the keys with the rest. `KeysFrame` is the
argument about one actor's step: what it does not reach keeps its part, provided no key but
a shared one is taken from it. That a step keeps
`IntactInv` is known from the module it extends: the lemmas assume `IntactInv'`.

**`Accounts_proofs`.** `Inv` is `Tables` (types; `RowsOwned`; `Counted`: ids and keys run to
`last`; `SessionsKnown`) and `TasksInv`
(the shape of each task; `Known`: the user it acts for had the name it remembers; `Backed`: a
present about to look again finds the row that beat it, or is excused).

**`OwnCertificate_proofs`.** `Inv` is `TypeOK` with `ServesDisk` (what is served is on the disk
until a new key is written), `MixedAreDue` (a key and a chain that differ have a chain that is
due, or the key was written by a manager that could not read them: `blind`),
`IssuedWhenNeeded` (the manager issues only when
what it serves is due or nothing) and `ClearsLate` (a task that clears the token runs only
after `PollReady` and before the next attempt). `SmallestFree` gives `Finalize` its number
from `MaxCert >= 4`.

**`Supervisor_proofs`.** `StableNotGivenUp` needs `Older`: while a server is awaited, every
remembered crash is at least as old as the server has been up; after a whole window `Recent`
drops them all, and one crash is not more than `CrashLimit`.

Model-checked only: the liveness properties (`ExpiredWithdrawn`, `DelegatedServed`,
`OutageEnds`, `OrphansExpire`, `UnusedGo`, `Renewed`), which rest on fairness, and the two
violations, which are counterexamples. Of the invariants and
action properties of the passing runs, every one is a theorem except `RowsOwned` of
`txt_one_at_a_time`: under the overlaps the code allows it does not hold, and what holds
instead is `OrphansComeLate`.

## 5. What the code does otherwise than its documents say

Two are runs that end in a violation.

1. `supervisor_wakeup`: `Supervisor::failed` can miss the supervisor's giving up, when that
   falls between its look at `gave_up` and its waiting for the notification. Nothing wakes it
   then, and certo stays up without PowerDNS.
2. `accounts_published`: the clean-up is for accounts "whose subdomains never got a challenge
   value" (`store.rs:451-453`), but values are deleted after two hours (`maintenance.rs`), so
   an account in regular use has no `txt` row most of the time. It is deleted as unused once
   it is old enough and its last value has gone.

The others show in the models as soon as an instance is opened further than the runs above:

3. Pushes of one name may overlap: `sync_txt` reads, patches and stamps without a lock, so
   an older reading can be patched last. Both requests succeeded, and a value that
   `docs/architecture.md` says is published after every write is not. (`IdleNamesMirrored`
   in `TxtManyNames.cfg` with `Isolation = "none"` and `Ops = {"present"}`.)
4. A stamp says more than it knows. The next push of *another* name stamps the zone with a
   version that includes a write whose push failed, and the restart skips the zone, although
   `web.rs` counts on "the next write or restart". A process that ends in the middle of a
   sweep or of a user's deletion has the same effect without a failed call, which is why
   `txt_crash_only` leaves these two out. `POST /admin/sync` does repair it (`SyncRepairs`).
   (`RestartReconciles` in `TxtCrashOnly.cfg` with `Faults = {"call", "crash"}`.)
5. An exempt zone is "never re-checked", but `verify` checks it, and seven failures take the
   exemption and the activation away. (`ZonesCalm.cfg` with one zone, `MaxFails = 7`,
   `Ops = {"create", "exempt", "verify"}`, `Faults = {"undelegated"}` and
   `[][\A z \in Zones : zone[z].exempt /\ zone'[z].id = zone[z].id => zone'[z].active]_vars`.)
6. `run_checks` works on the rows it listed first; a pending zone its owner activates during
   the pass can be deleted as abandoned, and is served until the next restart.
   (`ZonesRace.cfg` with `Faults = {"undelegated"}`,
   `Ops = {"create", "verify", "checks", "expire"}` and
   `[][\A z \in Zones : zone[z].active => zone'[z].id = zone[z].id]_vars`: no operation of this
   instance deletes on request.)

Observed while modelling, without a run:

* The documents say certo exits after 5 crashes within a minute, the code after the sixth
  (`CRASH_LIMIT` is compared with `>`). With the real durations a `pdns_server` that hangs at
  every start crashes at 0, 11, 23, 37, 55, 81 seconds and then every 40, which is never more
  than five in a minute, so certo retries for ever; once hanging starts have driven the backoff up, starts that
  exit do not fit into the minute either. `OutageEnds` is about outages whose starts all fail
  soon, and excuses the others (`SlowStart`).
* TSIG keys are the server's, not a zone's: a name a deactivated zone gave up may be taken by
  another zone, and the first, when it comes back, meets a key of its name with another
  secret, which `converge` takes for its own (`docs/architecture.md:204-209`). `KeysAnswer`
  therefore says that a key of the name is there, not whose secret it has, and says it only
  of names no other zone's owner chooses: the other zone's deactivation removes the key both
  have.
* Edits of a zone that overlap, and an edit that fails between PowerDNS and the database,
  leave the two different with the stamp equal to the version. `IntactMirrored` is about the
  other zones; a forced sync repairs these.
* `change_password` checks the old password against the hash the session was authenticated
  with, not the one stored when it writes. `check_domain` reads its cool-down before the
  lookup and writes it after, and the map never shrinks. `storage_fetch` answers an error to
  the second of two first fetches at a time, where `present` looks again.
* Clean-up and sweep act on a list: an account that publishes after the listing is deleted
  all the same, and the first account whose zones cannot be removed holds up those after it
  until the next hour.
* A process that ends between the key file and the chain file leaves a pair that does not
  belong together; `load_cached` does not ask, and certo serves it until the renewal that is
  due at once has succeeded (`MismatchDue`). It is not due at once when the manager that ended
  had replaced the key of a good pair it could not read (`blind`): then certo serves the wrong
  key until the old chain has a third of its lifetime left. An error of `set_ready` leaves the token
  published until the next attempt.

## 6. What is left out, and why

* Clocks: `LastUpdate` is taken to grow with the version. A wall clock set back is not
  modelled.
* A PowerDNS call takes effect when its step happens or not at all. A request that PowerDNS
  carries out after certo sent a *later* one on the same zone is not modelled.
* `ChallengeTxt`: one administrator's sync at a time; PowerDNS refusing a duplicate value;
  the flush of the cache, the other zones and the keys are one step of the sync that may
  fail; the anonymous accounts the sweep deletes (in `Accounts`).
* `ZoneLifecycle`: the base zone; the content of zones (in `ZoneRecords`), whose calls within
  `converge` only fail or not; the overlap check between owners (all zones are one user's);
  the cool-down of `verify` (time is free).
* `ZoneRecords`: the checks that lead to an activation or a deactivation, and the creation
  and deletion of rows (in `ZoneLifecycle`); the content of records and the rules for which
  are accepted; two keys of one zone with the same content.
* `Accounts`: password hashes, token signatures, header parsing, client addresses and the
  cool-down map; of an acme-dns account, its generated name; the crash between the deletion
  of zones and that of the user (the same as `ZonesFail`).
* `OwnCertificate`: the account file's being unreadable; the ACME protocol below the calls
  certo makes; static PEM files (`tls.rs`), which have no state.
* `Supervisor`: pids and signals. A server told to stop may exit as any other; when certo
  ends its child is killed (`kill_on_drop`). A server that survives a killed certo is not
  modelled.
* Parsing, routing, presentation: pure or stateless, covered by unit tests.

## 7. Plan

Every component with state of its own is modelled, and each has its type invariant and its
safety properties proved. What would add most from here:

1. The composition of `ZoneLifecycle` and `ZoneRecords`: one row with both its life and its
   contents, to state that a zone that is re-created starts empty.
