------------------------------ MODULE Accounts ------------------------------
(***************************************************************************)
(* Users, their API keys and domains, and who may act for whom.  Named      *)
(* users register with a password; acme-dns clients register anonymously    *)
(* and get an account without login that is deleted when it stays unused.   *)
(* Of the challenge values only their presence and age count here           *)
(* (ChallengeTxt has the rest), and of users' zones only that removing them *)
(* from PowerDNS, the first step of a user's deletion, may fail.            *)
(*                                                                          *)
(* One database transaction is one step.  A request authenticates in one    *)
(* or two reads, keeps what it read (the user, the key's scope), and acts   *)
(* in transactions of its own, with anything in between.                    *)
(***************************************************************************)
EXTENDS Naturals, FiniteSets

CONSTANTS
  Actors,     \* concurrent tasks
  Usernames,  \* names users register with
  Anonymous,  \* the name of every acme-dns account; in the code each has a random one
  Domains,    \* the users' domain names
  Subs,       \* subdomains of the base domain
  NoDomain, NoSub,
  Salts,      \* the attempts to find a free subdomain: 0..9 in the code
  SubOf,      \* subdomain by username, domain and salt; different ones may collide
  Drawn,      \* the random subdomains an acme-dns account may draw
  Any,        \* the scope "*"
  OpsOf,      \* the operations each actor may begin
  LoginNames, \* the names somebody logs in with
  Watched,    \* the users whose publishing the history remembers
  MaxId,      \* bound on the users ever made
  MaxKey,     \* bound on the keys ever made
  MaxTokens,  \* bound on the sessions at a time
  MaxOverlap  \* bound on the users made before a task begins beside another

ApiOps == {"add", "remove", "newkey", "delkey", "leave", "password"}
LegoOps == {"present", "clear", "fetch", "update"}
AdminOps == {"reset", "evict", "adminadd", "adminremove", "cleanup"}
AllOps == ApiOps \cup LegoOps \cup AdminOps \cup {"login", "sweep"}

ASSUME NamesAssumption ==
  /\ Anonymous \notin Usernames /\ NoDomain \notin Domains \cup Subs /\ NoSub \notin Subs
  /\ Domains \cap Subs = {}
ASSUME SaltsAssumption == Salts \subseteq Nat
ASSUME SubsAssumption ==
  /\ SubOf \in [(Usernames \cup {Anonymous}) \X Domains \X Salts -> Subs]
  /\ Drawn \subseteq Subs
ASSUME OpsAssumption == OpsOf \in [Actors -> SUBSET AllOps]
ASSUME BoundAssumption == MaxId \in Nat /\ MaxKey \in Nat /\ MaxTokens \in Nat /\ MaxOverlap \in Nat

VARIABLES
  users,      \* the users table, by id
  keys,       \* the api_keys table, by id
  domains,    \* the user_domains table
  txt,        \* the newest value of each subdomain: "none", "fresh", or "old" for expired
  last,       \* the AUTOINCREMENT counters of users and keys
  tokens,     \* the dashboard sessions that have not run out
  task,       \* what each actor is at
  published,  \* history: the users there are that ever published a value
  excused     \* history: the actors at a present that may be refused: its user or domain
              \* was removed meanwhile, or no subdomain was free for it

vars == <<users, keys, domains, txt, last, tokens, task, published, excused>>

Global == {Any}
Scopes == {Global} \cup {{d} : d \in Domains}

Idle == [pc |-> "idle", op |-> "none", uid |-> 0, who |-> Anonymous, scope |-> Global,
         dom |-> NoDomain, sub |-> NoSub, left |-> {}]

At(a, pc) == task[a].pc = pc
Goto(a, t) == task' = [task EXCEPT ![a] = t]
To(a, pc) == Goto(a, [task[a] EXCEPT !.pc = pc])

Begins(a, o) ==
  /\ At(a, "idle") /\ o \in OpsOf[a]
  /\ \/ o = "sweep" \/ last.user <= MaxOverlap
     \/ \A b \in Actors : At(b, "idle")

\* The end of a handler, by its answer or an error
Done(a) == Goto(a, Idle) /\ excused' = excused \ {a}

\* From here on the subdomain is all that counts.
ToWrite(a, sub) ==
  /\ Goto(a, [task[a] EXCEPT !.pc = "write", !.dom = NoDomain, !.sub = sub, !.scope = Global])
  /\ excused' = excused \ {a}

\* The presents that act for a user, or for one domain of a user
Presents(u) == {a \in Actors : task[a].op = "present" /\ ~At(a, "write") /\ task[a].uid = u}
PresentsOf(u, dom) == {a \in Presents(u) : task[a].dom = dom}

-----------------------------------------------------------------------------
(* Tables                                                                   *)

Ids == DOMAIN users
Taken == {d.sub : d \in domains}
RowsOf(u) == {d \in domains : d.user = u}
RowOf(u, dom) == {d \in domains : d.user = u /\ d.dom = dom}
SubsOf(u) == {d.sub : d \in RowsOf(u)}

\* users.id is AUTOINCREMENT: an id is never given twice.
ReusedId == CHOOSE i \in 1..MaxId : i \notin Ids  \* seeded fault: the first free one
NewId == last.user + 1

UserRow(name, login) == [name |-> name, login |-> login, old |-> FALSE]
WithUser(row) == [u \in Ids \cup {NewId} |-> IF u = NewId THEN row ELSE users[u]]
WithKey(u, scope) ==
  [k \in DOMAIN keys \cup {last.key + 1} |->
     IF k = last.key + 1 THEN [user |-> u, scope |-> scope] ELSE keys[k]]

\* Rows of api_keys and user_domains refer to users; SQLite refuses others.
NoForeignKeys(u) == TRUE  \* seeded fault
ForeignKey(u) == u \in Ids

\* has_domain_access
MayAccess(scope, dom) == Any \in scope \/ dom \in scope

\* delete_subdomain_txt
Withdrawn(subs) == [s \in Subs |-> IF s \in subs THEN "none" ELSE txt[s]]

-----------------------------------------------------------------------------
(* Accounts and sessions                                                    *)

\* create_user stores the user and a global key in one transaction.
CreateUser(name, login) ==
  /\ last.user < MaxId /\ last.key < MaxKey
  /\ users' = WithUser(UserRow(name, login))
  /\ keys' = WithKey(NewId, Global)
  /\ last' = [user |-> last.user + 1, key |-> last.key + 1]
  /\ UNCHANGED <<txt, task, published, excused>>

\* By the user, who is logged in with it, or by an administrator
Register(name, session) ==
  /\ \A u \in Ids : users[u].name # name
  /\ CreateUser(name, TRUE)
  /\ session => Cardinality(tokens) < MaxTokens
  /\ tokens' = IF session THEN tokens \cup {[uid |-> NewId, usr |-> name]} ELSE tokens
  /\ UNCHANGED domains

\* A name or subdomain that somebody has is drawn again.
CreateAcmednsAccount(sub) ==
  /\ sub \notin Taken
  /\ CreateUser(Anonymous, FALSE)
  /\ domains' = domains \cup {[user |-> NewId, dom |-> sub, sub |-> sub]}
  /\ UNCHANGED tokens

\* Between the row with the hash and the token the password is verified.
Login(a, u) ==
  /\ Begins(a, "login") /\ u \in Ids /\ users[u].login /\ users[u].name \in LoginNames
  /\ Cardinality(tokens) < MaxTokens
  /\ Goto(a, [Idle EXCEPT !.pc = "token", !.op = "login", !.uid = u, !.who = users[u].name])
  /\ UNCHANGED <<users, keys, domains, txt, last, tokens, published, excused>>

IssueToken(a) ==
  /\ At(a, "token")
  /\ tokens' = tokens \cup {[uid |-> task[a].uid, usr |-> task[a].who]}
  /\ Done(a)
  /\ UNCHANGED <<users, keys, domains, txt, last, published>>

\* 72 hours after it was issued
TokenExpires(s) ==
  /\ tokens' = tokens \ {s}
  /\ UNCHANGED <<users, keys, domains, txt, last, task, published, excused>>

-----------------------------------------------------------------------------
(* Authentication: what a request asks for is chosen when it comes in       *)

\* What to do first, once authorized
First(op) == CASE op \in {"present", "clear", "fetch"} -> "resolve"
               [] op = "update" -> "find"
               [] op \in {"add", "adminadd"} -> "create"
               [] op = "leave" -> "zones"
               [] OTHER -> op

ApiRequests ==
  {[Idle EXCEPT !.op = x[1], !.dom = x[2]] : x \in {"add", "remove"} \X Domains}
  \cup {[Idle EXCEPT !.op = "remove", !.dom = s] : s \in Taken}
  \cup {[Idle EXCEPT !.op = o] : o \in {"newkey", "delkey", "leave"}}
SessionRequests == ApiRequests \cup {[Idle EXCEPT !.op = "password"]}

\* present and cleanup take a domain or the subdomain its CNAME leads to; one that
\* nobody has is refused at once.
LegoRequests ==
  {[Idle EXCEPT !.op = x[1], !.dom = x[2]]
     : x \in {"present", "clear", "fetch"} \X Domains}
  \cup {[Idle EXCEPT !.op = x[1], !.sub = x[2]]
          : x \in {"present", "clear", "update"} \X Taken}

\* acme-dns update keeps the key's scope until it knows the domain.
InScope(req, scope) == req.op = "update" \/ MayAccess(scope, req.dom)
Kept(req, scope) == IF req.op = "update" THEN scope ELSE Global

\* A session token: one read of its user
Bearer(a, s, req) ==
  LET t == [req EXCEPT !.pc = First(req.op), !.uid = s.uid, !.who = users[s.uid].name] IN
  /\ Begins(a, req.op) /\ s.uid \in Ids
  /\ Goto(a, t)
  /\ UNCHANGED <<users, keys, domains, txt, last, tokens, published, excused>>

\* A key as bearer: the key, then its user; keys with a scope manage no keys or accounts.
BearerKey(a, k, req) ==
  /\ Begins(a, req.op) /\ InScope(req, keys[k].scope)
  /\ Goto(a, [req EXCEPT !.pc = "user", !.uid = keys[k].user])
  /\ UNCHANGED <<users, keys, domains, txt, last, tokens, published, excused>>

BearerUser(a) ==
  LET t == [task[a] EXCEPT !.pc = First(task[a].op), !.who = users[task[a].uid].name] IN
  /\ At(a, "user") /\ task[a].uid \in Ids
  /\ Goto(a, t)
  /\ UNCHANGED <<users, keys, domains, txt, last, tokens, published, excused>>

\* user_key: the user by name, then the key, which must be the user's
BasicUser(a, u, req) ==
  LET t == [req EXCEPT !.pc = "key", !.uid = u, !.who = users[u].name] IN
  /\ Begins(a, req.op)
  /\ Goto(a, t)
  /\ UNCHANGED <<users, keys, domains, txt, last, tokens, published, excused>>

BasicKey(a, k) ==
  LET t == task[a] scope == keys[k].scope IN
  /\ At(a, "key") /\ keys[k].user = t.uid /\ InScope(t, scope)
  /\ Goto(a, [t EXCEPT !.pc = First(t.op), !.scope = Kept(t, scope)])
  /\ UNCHANGED <<users, keys, domains, txt, last, tokens, published, excused>>

\* 401 or 403
Denied(a) ==
  /\ task[a].pc \in {"user", "key"}
  /\ Done(a)
  /\ UNCHANGED <<users, keys, domains, txt, last, tokens, published>>

-----------------------------------------------------------------------------
(* Domains                                                                  *)

\* The subdomain of the first salt that nobody has
FreeSalts(who, dom) == {n \in Salts : SubOf[<<who, dom, n>>] \notin Taken}
FirstFree(who, dom) ==
  LET free == FreeSalts(who, dom) IN
  SubOf[<<who, dom, CHOOSE n \in free : \A m \in free : n <= m>>]

CanAdd(t) == /\ RowOf(t.uid, t.dom) = {}
             /\ FreeSalts(t.who, t.dom) # {} /\ ForeignKey(t.uid)

AddUserDomain(a) ==
  LET t == task[a] sub == FirstFree(t.who, t.dom) IN
  /\ At(a, "create") /\ CanAdd(t)
  /\ domains' = domains \cup {[user |-> t.uid, dom |-> t.dom, sub |-> sub]}
  /\ IF t.op = "present"
     THEN ToWrite(a, sub)
     ELSE Done(a)
  /\ UNCHANGED <<users, keys, txt, last, tokens, published>>

\* present looks again: a concurrent request may have created the domain.
NoSecondLook == "refused"  \* seeded fault
BlindWrite == "write"      \* seeded fault: without the subdomain it was about to create
AfterConflict == "again"

AddFails(a) ==
  /\ At(a, "create") /\ ~CanAdd(task[a])
  /\ IF task[a].op = "present"
     THEN /\ To(a, AfterConflict)
          /\ excused' = excused \cup {b \in {a} : RowOf(task[a].uid, task[a].dom) = {}
                                                 /\ FreeSalts(task[a].who, task[a].dom) = {}}
     ELSE Done(a)
  /\ UNCHANGED <<users, keys, domains, txt, last, tokens, published>>

\* The domain and its values go in one transaction; pushing them is ChallengeTxt's.
RemoveUserDomain(a, u, dom, t) ==
  LET rows == RowOf(u, dom) IN
  /\ domains' = domains \ rows
  /\ txt' = Withdrawn({r.sub : r \in rows})
  /\ Goto(a, t)
  /\ excused' = (excused \cup PresentsOf(u, dom)) \ {a}
  /\ UNCHANGED <<users, keys, last, tokens, published>>

RemoveDomain(a) ==
  At(a, "remove") /\ RemoveUserDomain(a, task[a].uid, task[a].dom, Idle)

\* An administrator removes a domain from every user there was when it began.
AdminRemove(a, dom) ==
  /\ Begins(a, "adminremove") /\ Ids # {}
  /\ Goto(a, [Idle EXCEPT !.pc = "owners", !.op = "adminremove", !.dom = dom, !.left = Ids])
  /\ UNCHANGED <<users, keys, domains, txt, last, tokens, published, excused>>

RemoveFrom(a, u) ==
  LET left == task[a].left \ {u} IN
  /\ At(a, "owners") /\ \A v \in left : u < v
  /\ RemoveUserDomain(a, u, task[a].dom,
                      IF left = {} THEN Idle ELSE [task[a] EXCEPT !.left = left])

\* user_by_id, then as AddUserDomain
AdminAdd(a, u, dom) ==
  /\ Begins(a, "adminadd") /\ u \in Ids
  /\ Goto(a, [Idle EXCEPT !.pc = "create", !.op = "adminadd", !.dom = dom,
                          !.uid = u, !.who = users[u].name])
  /\ UNCHANGED <<users, keys, domains, txt, last, tokens, published, excused>>

-----------------------------------------------------------------------------
(* Challenge values                                                         *)

\* resolve_subdomain, and the first half of storage_fetch: the caller's row, by
\* the subdomain or by the domain
Found(t) == IF t.sub # NoSub THEN {r \in RowsOf(t.uid) : r.sub = t.sub}
            ELSE RowOf(t.uid, t.dom)

Resolve(a) ==
  LET t == task[a] found == Found(t) IN
  /\ At(a, "resolve")
  /\ \/ /\ t.op # "fetch"
        /\ \E r \in found : ToWrite(a, r.sub)
     \/ /\ found = {} /\ t.op # "clear" /\ t.sub = NoSub
        /\ To(a, "create")
        /\ UNCHANGED excused
     \/ /\ IF found # {} THEN t.op = "fetch" ELSE t.op = "clear" \/ t.sub # NoSub
        /\ Done(a)
  /\ UNCHANGED <<users, keys, domains, txt, last, tokens, published>>

LookAgain(a) ==
  LET t == task[a] found == Found(t) IN
  /\ At(a, "again")
  /\ \/ \E r \in found : ToWrite(a, r.sub)
     \/ found = {} /\ To(a, "refused") /\ UNCHANGED excused
  /\ UNCHANGED <<users, keys, domains, txt, last, tokens, published>>

\* 403 domain_not_authorized
Refuse(a) ==
  /\ At(a, "refused") /\ Done(a)
  /\ UNCHANGED <<users, keys, domains, txt, last, tokens, published>>

\* acme-dns update names a subdomain; the key's scope is about its domain.
FindSubdomain(a) ==
  LET t == task[a] rows == {r \in Found(t) : MayAccess(t.scope, r.dom)} IN
  /\ At(a, "find")
  /\ \/ \E r \in rows : ToWrite(a, r.sub)
     \/ Done(a)  \* not found, out of scope, or not from an allowed address
  /\ UNCHANGED <<users, keys, domains, txt, last, tokens, published>>

\* The value is written under the subdomain's name, whoever has it by now.
Write(a) ==
  LET t == task[a] IN
  /\ At(a, "write") /\ t.op \in {"present", "update"}
  /\ txt' = [txt EXCEPT ![t.sub] = "fresh"]
  /\ published' = published \cup ({t.uid} \cap Ids \cap Watched)
  /\ Done(a)
  /\ UNCHANGED <<users, keys, domains, last, tokens>>

\* Others may stay when one value goes.
Cleanup(a) ==
  LET t == task[a] IN
  /\ At(a, "write") /\ t.op = "clear"
  /\ txt' \in {txt, Withdrawn({t.sub})}
  /\ Done(a)
  /\ UNCHANGED <<users, keys, domains, last, tokens, published>>

-----------------------------------------------------------------------------
(* Keys and passwords                                                       *)

CreateKey(a, scope) ==
  LET u == task[a].uid IN
  /\ At(a, "newkey")
  /\ IF ForeignKey(u) /\ last.key < MaxKey
     THEN keys' = WithKey(u, scope) /\ last' = [last EXCEPT !.key = @ + 1]
     ELSE UNCHANGED <<keys, last>>
  /\ Done(a)
  /\ UNCHANGED <<users, domains, txt, tokens, published>>

\* Somebody else's key stays where it is.
DeleteKey(a, k) ==
  /\ At(a, "delkey")
  /\ keys' = [j \in {j \in DOMAIN keys : j # k \/ keys[j].user # task[a].uid} |-> keys[j]]
  /\ Done(a)
  /\ UNCHANGED <<users, domains, txt, last, tokens, published>>

\* Hashing the password takes a while; the user may be gone then.  A password
\* set for an anonymous account makes it one that logs in.
ResetPassword(a, u) ==
  /\ Begins(a, "reset")
  /\ Goto(a, [Idle EXCEPT !.pc = "password", !.op = "reset", !.uid = u])
  /\ UNCHANGED <<users, keys, domains, txt, last, tokens, published, excused>>

SetPassword(a) ==
  /\ At(a, "password")
  /\ users' = [u \in Ids |-> IF u = task[a].uid THEN [users[u] EXCEPT !.login = TRUE]
                             ELSE users[u]]
  /\ Done(a)
  /\ UNCHANGED <<keys, domains, txt, last, tokens, published>>

-----------------------------------------------------------------------------
(* Deleting users                                                           *)

\* stale_acmedns_accounts: no login, old enough, and no value at the moment
WithoutDomain(u) == RowsOf(u) = {}  \* seeded fault: unused taken for without a subdomain
Unused(u) == \A s \in SubsOf(u) : txt[s] = "none"
Stale(young) == {u \in Ids : ~users[u].login /\ (users[u].old \/ young) /\ Unused(u)}

\* expire_txt
ClaimedOnly == [s \in Subs |-> IF txt[s] = "old" /\ s \in Taken THEN "none" ELSE txt[s]]
               \* seeded fault: values whose domain is gone stay
Expired == [s \in Subs |-> IF txt[s] = "old" THEN "none" ELSE txt[s]]

Sweep(a) ==
  /\ Begins(a, "sweep")
  /\ txt' = Expired
  /\ Goto(a, [Idle EXCEPT !.pc = "stale", !.op = "sweep"])
  /\ UNCHANGED <<users, keys, domains, last, tokens, published, excused>>

ListStale(a) ==
  /\ At(a, "stale")
  /\ Goto(a, IF Stale(FALSE) = {} THEN Idle
             ELSE [task[a] EXCEPT !.pc = "next", !.left = Stale(FALSE)])
  /\ UNCHANGED <<users, keys, domains, txt, last, tokens, published, excused>>

\* An administrator may ask for accounts of any age.
AdminCleanup(a, young) ==
  /\ Begins(a, "cleanup") /\ Stale(young) # {}
  /\ Goto(a, [Idle EXCEPT !.pc = "next", !.op = "cleanup", !.left = Stale(young)])
  /\ UNCHANGED <<users, keys, domains, txt, last, tokens, published, excused>>

\* delete_user and delete_users of an administrator
Evict(a, ids) ==
  /\ Begins(a, "evict") /\ ids # {}
  /\ Goto(a, [Idle EXCEPT !.pc = "next", !.op = "evict", !.left = ids])
  /\ UNCHANGED <<users, keys, domains, txt, last, tokens, published, excused>>

\* The lists of a clean-up are in the order of ids.
NextUser(a, u) ==
  LET t == task[a] IN
  /\ At(a, "next") /\ u \in t.left
  /\ t.op = "evict" \/ \A v \in t.left : u <= v
  /\ Goto(a, [t EXCEPT !.pc = "zones", !.uid = u, !.left = @ \ {u}])
  /\ UNCHANGED <<users, keys, domains, txt, last, tokens, published, excused>>

\* remove_user_zones: PowerDNS and the zone rows first
ZonesRemoved(a) ==
  /\ At(a, "zones") /\ To(a, "delete")
  /\ UNCHANGED <<users, keys, domains, txt, last, tokens, published, excused>>

\* A zone that cannot be removed ends the request, and the whole pass of a sweep.
ZonesFail(a) ==
  /\ At(a, "zones") /\ Done(a)
  /\ UNCHANGED <<users, keys, domains, txt, last, tokens, published>>

DeleteUser(a) ==
  LET t == task[a] u == t.uid IN
  /\ At(a, "delete")
  /\ users' = [v \in Ids \ {u} |-> users[v]]
  /\ keys' = [k \in {k \in DOMAIN keys : keys[k].user # u} |-> keys[k]]
  /\ domains' = domains \ RowsOf(u)
  /\ txt' = Withdrawn(SubsOf(u))
  /\ Goto(a, IF t.left = {} THEN Idle ELSE [t EXCEPT !.pc = "next", !.uid = 0])
  /\ excused' = (excused \cup Presents(u)) \ {a}
  /\ published' = published \ {u}
  /\ UNCHANGED <<last, tokens>>

-----------------------------------------------------------------------------
(* Time, and the whole                                                      *)

\* A week after the registration, two hours after the write
AccountAges(u) ==
  /\ ~users[u].old /\ ~users[u].login  \* nothing asks for the age of others
  /\ users' = [users EXCEPT ![u].old = TRUE]
  /\ UNCHANGED <<keys, domains, txt, last, tokens, task, published, excused>>

ValueAges(s) ==
  /\ txt[s] = "fresh"
  /\ txt' = [txt EXCEPT ![s] = "old"]
  /\ UNCHANGED <<users, keys, domains, last, tokens, task, published, excused>>

Init ==
  /\ users = [u \in {} |-> UserRow(Anonymous, FALSE)]
  /\ keys = [k \in {} |-> [user |-> 0, scope |-> Global]]
  /\ domains = {}
  /\ txt = [s \in Subs |-> "none"]
  /\ last = [user |-> 0, key |-> 0]
  /\ tokens = {}
  /\ task = [a \in Actors |-> Idle]
  /\ published = {}
  /\ excused = {}

Authenticates(a) ==
  \/ \E s \in tokens, req \in SessionRequests : Bearer(a, s, req)
  \/ \E k \in DOMAIN keys, req \in ApiRequests : BearerKey(a, k, req)
  \/ BearerUser(a)
  \/ \E u \in Ids, req \in LegoRequests : BasicUser(a, u, req)
  \/ \E k \in DOMAIN keys : BasicKey(a, k)

Administers(a) ==
  \/ \E d \in Domains : AdminRemove(a, d)
  \/ \E u \in Ids, d \in Domains : AdminAdd(a, u, d)
  \/ \E u \in Ids : ResetPassword(a, u)
  \/ \E young \in BOOLEAN : AdminCleanup(a, young)
  \/ \E ids \in SUBSET Ids : Evict(a, ids)

\* The steps of a task that is under way
DomainStep(a) ==
  \/ AddUserDomain(a) \/ AddFails(a) \/ RemoveDomain(a)
  \/ \E u \in task[a].left : RemoveFrom(a, u)

ValueStep(a) ==
  \/ Resolve(a) \/ LookAgain(a) \/ Refuse(a) \/ FindSubdomain(a)
  \/ Write(a) \/ Cleanup(a)

AccountStep(a) ==
  \/ IssueToken(a) \/ SetPassword(a)
  \/ \E scope \in Scopes : CreateKey(a, scope)
  \/ \E k \in 1..MaxKey : DeleteKey(a, k)

DeletionStep(a) ==
  \/ ListStale(a) \/ ZonesRemoved(a) \/ DeleteUser(a)
  \/ \E u \in task[a].left : NextUser(a, u)

Step(a) == DomainStep(a) \/ ValueStep(a) \/ AccountStep(a) \/ DeletionStep(a)

Next ==
  \/ \E name \in Usernames, session \in BOOLEAN : Register(name, session)
  \/ \E sub \in Drawn : CreateAcmednsAccount(sub)
  \/ \E s \in tokens : TokenExpires(s)
  \/ \E u \in Ids : AccountAges(u)
  \/ \E s \in Subs : ValueAges(s)
  \/ \E a \in Actors :
       \/ \E u \in Ids : Login(a, u)
       \/ Authenticates(a) \/ Denied(a)
       \/ Administers(a) \/ Sweep(a)
       \/ Step(a) \/ ZonesFail(a)

Spec == Init /\ [][Next]_vars

\* Time passes, handlers end, and the sweep begins again and again: strong, for
\* in an instance its actor may be kept busy by requests.  That a removal of zones
\* succeeds in the end is assumed.
Sweepers == {a \in Actors : "sweep" \in OpsOf[a]}

Fairness ==
  /\ \A s \in Subs : WF_vars(ValueAges(s))
  /\ \A a \in Actors : WF_vars(Step(a) \/ Denied(a))
  /\ \A a \in Sweepers : SF_vars(Sweep(a)) /\ SF_vars(ZonesRemoved(a))

FairSpec == Spec /\ Fairness

-----------------------------------------------------------------------------
(* Properties                                                               *)

Pcs == {"idle", "token", "user", "key", "resolve", "find", "create", "again", "refused",
        "write", "remove", "owners", "newkey", "delkey", "password", "stale", "next",
        "zones", "delete"}
UserRows == [name : Usernames \cup {Anonymous}, login : BOOLEAN, old : BOOLEAN]
Tasks == [pc : Pcs, op : AllOps \cup {"none"}, uid : Nat,
          who : Usernames \cup {Anonymous}, scope : Scopes,
          dom : Domains \cup Subs \cup {NoDomain}, sub : Subs \cup {NoSub}, left : SUBSET Nat]

\* The types of the variables; whoever is about to write values knows under which
\* subdomain.
TypeOK ==
  /\ Ids \subseteq Nat /\ users \in [Ids -> UserRows]
  /\ DOMAIN keys \subseteq Nat /\ keys \in [DOMAIN keys -> [user : Nat, scope : Scopes]]
  /\ domains \subseteq [user : Nat, dom : Domains \cup Subs, sub : Subs]
  /\ txt \in [Subs -> {"none", "fresh", "old"}]
  /\ last \in [user : Nat, key : Nat]
  /\ tokens \subseteq [uid : Nat, usr : Usernames \cup {Anonymous}]
  /\ task \in [Actors -> Tasks]
  /\ published \subseteq Nat /\ excused \subseteq Actors
  /\ \A a \in Actors : At(a, "write") => task[a].sub \in Subs

\* Keys and domains belong to users there are, although a user may be deleted while
\* requests of its own are under way; no subdomain has two owners and no user a
\* domain twice, whoever provisions it at the same time.
RowsOwned ==
  /\ \A k \in DOMAIN keys : keys[k].user \in Ids
  /\ \A r \in domains : r.user \in Ids
  /\ \A r, q \in domains :
       (r.sub = q.sub \/ (r.user = q.user /\ r.dom = q.dom)) => r = q

\* A session, and a request that carries the id of the user it authenticated as,
\* act for that user or for nobody: never for a later user, although users are
\* deleted and others register between any two steps.
IdentityKept ==
  /\ \A s \in tokens : s.uid \in Ids => users[s.uid].name = s.usr
  /\ \A a \in Actors :
       (task[a].pc \in {"token", "key", "resolve", "find", "create", "again", "write",
                        "remove", "newkey", "delkey"}
        /\ task[a].uid \in Ids) => users[task[a].uid].name = task[a].who

\* A present that lost the race to provision its domain still finds it: only one
\* whose domain or user was removed meanwhile, or that found every subdomain
\* taken, is refused.
RaceForgiven == \A a \in Actors : At(a, "refused") => a \in excused

\* Values a present wrote for a domain that was removed under its hands do not
\* stay: the sweep withdraws them although nobody owns them.
OrphansExpire ==
  \A s \in Subs : (txt[s] # "none" /\ s \notin Taken) ~> (txt[s] = "none" \/ s \in Taken)

\* An anonymous account that stays unused goes in the end, also when removing the
\* zones of another one fails before it, as long as that does not fail for ever.
IdleAccount(u) ==
  /\ u \in Ids /\ ~users[u].login /\ users[u].old
  /\ \A r \in domains : r.user = u => txt[r.sub] = "none"

UnusedGo == \A u \in 1..MaxId : []<>~IdleAccount(u)

\* stale_acmedns_accounts: "whose subdomains never got a challenge value" --
\* the clean-up leaves alone who ever published one.
PublishedKept ==
  [][\A a \in Actors :
       (task[a].op \in {"sweep", "cleanup"} /\ DeleteUser(a))
         => task[a].uid \notin published]_vars
=============================================================================
