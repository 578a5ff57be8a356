------------------------- MODULE ChallengeTxt_proofs -------------------------
(***************************************************************************)
(* Machine-checked proofs about ChallengeTxt, for every set of names,       *)
(* values and handlers and every bound.                                     *)
(***************************************************************************)
EXTENDS ChallengeTxt, FiniteSetTheorems, TLAPS

-----------------------------------------------------------------------------
(* Types                                                                    *)

\* The task of a handler with nothing to do is a task.
LEMMA IdleType == Idle \in Task /\ IdleSync \in SyncTask
  BY DEF Idle, IdleSync, Task, SyncTask, Unserved

\* Ending one push leaves a task, idle or about to read the next name.
LEMMA NextNameType ==
  ASSUME NEW t \in Task
  PROVE  NextName(t) \in Task
<1>1. CASE t.todo = {}
  BY <1>1, IdleType DEF NextName
<1>2. CASE t.todo # {}
  BY <1>2 DEF NextName, Task
<1> QED
  BY <1>1, <1>2

\* The values of the rows of a name are values.
LEMMA StoredType ==
  ASSUME txt \subseteq Row, NEW n
  PROVE  Stored(n) \subseteq Values
  BY DEF Stored, Row

\* How many names a removal takes is a natural number, which it adds to the
\* version.
LEMMA RemovedCount ==
  ASSUME NEW S \in SUBSET Names
  PROVE  Cardinality(S) \in Nat
  BY NamesAssumption, FS_Subset, FS_CardinalityType

\* A handler that may write knows what.
TasksOK ==
  /\ task \in [Handlers -> Task]
  /\ \A h \in Handlers : task[h].pc = "write" =>
       task[h].name \in Names /\ task[h].value \in Values

\* A change of one task keeps the tasks' types.
LEMMA GotoType ==
  ASSUME TasksOK, NEW h \in Handlers, NEW t \in Task, Goto(h, t),
         t.pc = "write" => t.name \in Names /\ t.value \in Values
  PROVE  TasksOK'
  BY DEF Goto, TasksOK

\* A record written by a task is a row.
LEMMA InsertedType ==
  ASSUME NEW t \in Task, t.name \in Names, t.value \in Values, version \in Nat
  PROVE  Inserted(t) \in Row
  BY DEF Inserted, Row

-----------------------------------------------------------------------------

\* Init gives every variable its type.
LEMMA InitType == Init => TypeOK
<1> SUFFICES ASSUME Init PROVE TypeOK
  OBVIOUS
<1>1. task \in [Handlers -> Task] /\ sync \in SyncTask
  BY IdleType DEF Init
<1>2. \A h \in Handlers : task[h].pc # "write"
  BY DEF Init, Idle
<1>3. served \in [Names -> SUBSET Values]
  BY DEF Init, Unserved
<1> QED
  <2>1. registered \subseteq Names /\ txt \subseteq Row
    BY DEF Init
  <2>2. horizon \in Nat /\ version \in Nat \ {0} /\ stamp \in Nat
    BY DEF Init
  <2>3. exists \in BOOLEAN /\ mode \in {"down", "starting", "up"}
    BY DEF Init
  <2> QED
    BY <1>1, <1>2, <1>3, <2>1, <2>2, <2>3 DEF TypeOK

\* The steps that write the database keep the types.
LEMMA WriteTypes ==
  ASSUME TypeOK, NEW h \in Handlers,
         \/ \E n \in Names, v \in Values,
               o \in {"present", "cleanup", "update"} : Resolve(h, o, n, v)
         \/ Write(h)
         \/ \E n \in Names : RemoveDomain(h, n)
         \/ \E S \in SUBSET Names : DeleteUser(h, S)
         \/ Sweep(h)
  PROVE  TypeOK'
<1>0. TasksOK
  BY DEF TypeOK, TasksOK
<1>1. ASSUME NEW n \in Names, NEW v \in Values,
             NEW o \in {"present", "cleanup", "update"}, Resolve(h, o, n, v)
      PROVE  TypeOK'
  <2> DEFINE t == [Idle EXCEPT !.pc = "write", !.op = o, !.name = n, !.value = v]
  <2>1. t \in Task /\ t.name \in Names /\ t.value \in Values
    BY DEF Idle, Task, AllOps
  <2>2. TasksOK'
    BY <1>0, <1>1, <2>1, GotoType DEF Resolve
  <2> QED
    BY <1>1, <2>2 DEF Resolve, TypeOK, TasksOK, pdns
<1>2. ASSUME Write(h)
      PROVE  TypeOK'
  <2> DEFINE t == [task[h] EXCEPT !.pc = "read", !.todo = {task[h].name},
                                  !.name = NoName, !.value = NoValue]
  <2>1. task[h] \in Task /\ task[h].name \in Names /\ task[h].value \in Values
    BY <1>2 DEF TypeOK, Write
  <2>2. t \in Task /\ t.pc # "write"
    BY <2>1 DEF Task
  <2>3. TasksOK'
    BY <1>0, <1>2, <2>2, GotoType DEF Write, Bumped
  <2>4. Inserted(task[h]) \in Row
    BY <2>1, InsertedType DEF TypeOK
  <2>5. txt' \subseteq Row
    BY <1>2, <2>4 DEF Write, Bumped, PresentTxt, CleanupTxt, UpdateAcmednsTxt, Newest2, TypeOK
  <2> QED
    BY <1>2, <2>3, <2>5 DEF Write, Bumped, TypeOK, TasksOK, pdns
<1>3. ASSUME NEW o \in {"remove", "delete_user"}, NEW S \in SUBSET Names,
             RemoveNames(h, o, S)
      PROVE  TypeOK'
  <2> DEFINE t == NextName([Idle EXCEPT !.op = o, !.todo = S])
  <2>1. t \in Task
    <3>1. [Idle EXCEPT !.op = o, !.todo = S] \in Task
      BY DEF Idle, Task, AllOps
    <3> QED
      BY <3>1, NextNameType
  <2>2. t.pc # "write"
    BY DEF NextName, Idle
  <2>3. TasksOK'
    BY <1>0, <1>3, <2>1, <2>2, GotoType DEF RemoveNames
  <2> QED
    BY <1>3, <2>3, RemovedCount DEF RemoveNames, DeleteSubdomainTxt, TypeOK, TasksOK, pdns
<1>4. ASSUME Sweep(h)
      PROVE  TypeOK'
  <2> DEFINE names == {r.name : r \in Expired}
             t == NextName([Idle EXCEPT !.op = "sweep", !.todo = names])
  <2>1. names \subseteq Names
    BY DEF Expired, TypeOK, Row
  <2>2. t \in Task
    <3>1. [Idle EXCEPT !.op = "sweep", !.todo = names] \in Task
      BY <2>1 DEF Idle, Task, AllOps
    <3> QED
      BY <3>1, NextNameType
  <2>3. t.pc # "write"
    BY DEF NextName, Idle
  <2>4. TasksOK'
    BY <1>0, <1>4, <2>2, <2>3, GotoType DEF Sweep
  <2> QED
    BY <1>4, <2>4 DEF Sweep, TypeOK, TasksOK, pdns
<1> QED
  BY <1>1, <1>2, <1>3, <1>4 DEF RemoveDomain, DeleteUser

\* The steps of sync_txt and of an edit of static records keep the types.
LEMMA PushTypes ==
  ASSUME TypeOK, NEW h \in Handlers,
         \/ EditRecords(h) \/ ApplyRecords(h) \/ ReadTxt(h) \/ PatchTxt(h)
         \/ ReadVersion(h) \/ Stamp(h) \/ CallFails(h) \/ LateAnswer(h)
         \/ Cancel(h)
  PROVE  TypeOK'
<1>0. TasksOK /\ task[h] \in Task
  BY DEF TypeOK, TasksOK
<1>1. ASSUME NEW t \in Task, Goto(h, t), t.pc # "write"
      PROVE  TasksOK'
  BY <1>0, <1>1, GotoType
<1>2. NextName(task[h]) \in Task /\ NextName(task[h]).pc # "write"
  BY <1>0, NextNameType DEF NextName, Idle, Task
<1>3. Idle \in Task /\ Idle.pc # "write"
  BY IdleType DEF Idle
<1>4. CASE EditRecords(h)
  <2>1. [Idle EXCEPT !.pc = "apply", !.op = "records"] \in Task
    BY DEF Idle, Task, AllOps
  <2>2. TasksOK'
    BY <1>1, <1>4, <2>1 DEF EditRecords, Idle
  <2> QED
    BY <1>4, <2>2 DEF EditRecords, TypeOK, TasksOK, pdns, db
<1>5. CASE ApplyRecords(h)
  <2> DEFINE v == version + 1
             t == [task[h] EXCEPT !.pc = "stamp", !.ver = v]
  <2>1. v \in Nat
    BY DEF TypeOK
  <2>2. Goto(h, t)
    BY <1>5 DEF ApplyRecords
  <2> HIDE DEF v
  <2>3. t \in Task /\ t.pc # "write"
    BY <1>0, <2>1 DEF Task
  <2>4. TasksOK'
    BY <1>1, <2>2, <2>3
  <2> QED
    BY <1>5, <2>4 DEF ApplyRecords, TypeOK, TasksOK, pdns
<1>6. CASE ReadTxt(h)
  <2>1. PICK n \in task[h].todo :
          Goto(h, [task[h] EXCEPT !.pc = "patch", !.name = n, !.todo = @ \ {n},
                                  !.vals = Stored(n)])
    BY <1>6 DEF ReadTxt
  <2>2. Stored(n) \subseteq Values
    BY StoredType DEF TypeOK
  <2> DEFINE t == [task[h] EXCEPT !.pc = "patch", !.name = n, !.todo = @ \ {n},
                                  !.vals = Stored(n)]
  <2>3. t \in Task /\ t.pc # "write"
    BY <1>0, <2>2 DEF Task
  <2>4. TasksOK'
    BY <1>1, <2>1, <2>3
  <2> QED
    BY <1>6, <2>4 DEF ReadTxt, TypeOK, TasksOK, pdns, db
<1>7. CASE PatchTxt(h)
  <2> DEFINE t == [task[h] EXCEPT !.pc = "version"]
  <2>1. t \in Task /\ t.pc # "write"
    BY <1>0 DEF Task
  <2>2. TasksOK'
    BY <1>1, <1>7, <2>1 DEF PatchTxt
  <2>3. task[h].vals \subseteq Values
    BY <1>0 DEF Task
  <2> QED
    BY <1>7, <2>2, <2>3 DEF PatchTxt, Patched, TypeOK, TasksOK, db
<1>8. CASE ReadVersion(h)
  <2> DEFINE t == [task[h] EXCEPT !.pc = "stamp", !.ver = version]
  <2>1. version \in Nat
    BY DEF TypeOK
  <2>2. t \in Task /\ t.pc # "write"
    BY <1>0, <2>1 DEF Task
  <2>3. TasksOK'
    BY <1>1, <1>8, <2>2 DEF ReadVersion
  <2> QED
    BY <1>8, <2>3 DEF ReadVersion, TypeOK, TasksOK, pdns, db
<1>9. CASE Stamp(h)
  <2>1. TasksOK'
    BY <1>1, <1>2, <1>9 DEF Stamp
  <2>2. task[h].ver \in Nat
    BY <1>0 DEF Task
  <2> QED
    BY <1>9, <2>1, <2>2 DEF Stamp, TypeOK, TasksOK, db
<1>10. CASE CallFails(h)
  <2>1. TasksOK'
    BY <1>1, <1>2, <1>10 DEF CallFails
  <2> QED
    BY <1>10, <2>1 DEF CallFails, TypeOK, TasksOK, pdns, db
<1>11. CASE LateAnswer(h)
  <2>1. TasksOK'
    BY <1>1, <1>2, <1>11 DEF LateAnswer
  <2>2. task[h].vals \subseteq Values
    BY <1>0 DEF Task
  <2> QED
    BY <1>11, <2>1, <2>2 DEF LateAnswer, Patched, TypeOK, TasksOK, db
<1>12. CASE Cancel(h)
  <2>1. TasksOK'
    BY <1>1, <1>3, <1>12 DEF Cancel
  <2> QED
    BY <1>12, <2>1 DEF Cancel, TypeOK, TasksOK, pdns, db
<1> QED
  BY <1>4, <1>5, <1>6, <1>7, <1>8, <1>9, <1>10, <1>11, <1>12

\* The steps of Zones::sync, crashes and the passing of time keep the types.
LEMMA SyncTypes ==
  ASSUME TypeOK,
         \/ Age \/ Start \/ AdminSync \/ SyncStep \/ SyncFails \/ Crash \/ Wipe
  PROVE  TypeOK'
<1> USE DEF SyncTo
<1>0. sync \in SyncTask /\ IdleSync \in SyncTask /\ version \in Nat \ {0}
  BY IdleType DEF TypeOK
<1>1. CASE Age
  BY <1>1 DEF Age, TypeOK, pdns
<1>2. CASE Start
  <2>1. sync' \in SyncTask
    BY <1>0, <1>2 DEF Start, SyncTask
  <2> QED
    BY <1>2, <2>1 DEF Start, TypeOK, db, pdns
<1>3. CASE AdminSync
  <2>1. sync' \in SyncTask
    BY <1>0, <1>3 DEF AdminSync, SyncTask
  <2> QED
    BY <1>3, <2>1 DEF AdminSync, TypeOK, db, pdns
<1>4. CASE ListZones
  <2>1. exists \in BOOLEAN
    BY DEF TypeOK
  <2>2. sync' \in SyncTask
    BY <1>0, <1>4, <2>1 DEF ListZones, SyncTask
  <2> QED
    BY <1>4, <2>2 DEF ListZones, TypeOK, db, pdns
<1>5. CASE ReadStamp
  <2>1. sync' \in SyncTask
    BY <1>0, <1>5 DEF ReadStamp, SyncTask
  <2> QED
    BY <1>5, <2>1 DEF ReadStamp, TypeOK, db, pdns
<1>6. CASE Adopt
  <2> DEFINE v == version + 1
  <2>1. v \in Nat \ {0}
    BY <1>0
  <2>2. sync' = [sync EXCEPT !.pc = "desired", !.ver = v]
    BY <1>6 DEF Adopt
  <2>3. version' = v
    BY <1>6 DEF Adopt
  <2> HIDE DEF v
  <2>4. sync' \in SyncTask
    BY <1>0, <2>1, <2>2 DEF SyncTask
  <2> QED
    BY <1>6, <2>1, <2>3, <2>4 DEF Adopt, TypeOK, pdns
<1>7. CASE DesiredRrsets
  <2>1. \A n \in Names : Stored(n) \subseteq Values
    BY StoredType DEF TypeOK
  <2>2. sync' \in SyncTask
    BY <1>0, <1>7, <2>1 DEF DesiredRrsets, SyncTask
  <2> QED
    BY <1>7, <2>2 DEF DesiredRrsets, TypeOK, db, pdns
<1>8. CASE ReadZone
  <2>1. exists \in BOOLEAN
    BY DEF TypeOK
  <2>2. sync' \in SyncTask
    BY <1>0, <1>8, <2>1 DEF ReadZone, SyncTask
  <2> QED
    BY <1>8, <2>2 DEF ReadZone, TypeOK, db, pdns
<1>9. CASE ConvergeRrsets
  <2>1. sync' \in SyncTask
    BY <1>0, <1>9 DEF ConvergeRrsets, SyncTask
  <2>2. sync.want \in [Names -> SUBSET Values]
    BY <1>0 DEF SyncTask
  <2>3. served' \in [Names -> SUBSET Values]
    BY <1>9, <2>2 DEF ConvergeRrsets, TypeOK
  <2> QED
    BY <1>9, <2>1, <2>3 DEF ConvergeRrsets, TypeOK, db
<1>10. CASE SyncStamp
  <2>1. sync.ver \in Nat /\ sync' \in SyncTask
    BY <1>0, <1>10 DEF SyncStamp, SyncTask
  <2> QED
    BY <1>10, <2>1 DEF SyncStamp, TypeOK, db
<1>14. CASE SyncRest
  BY <1>0, <1>14 DEF SyncRest, TypeOK, db, pdns
<1>11. CASE SyncFails
  BY <1>0, <1>11 DEF SyncFails, TypeOK, db, pdns
<1>12. CASE Crash
  <2>1. task' \in [Handlers -> Task]
    BY <1>12, IdleType DEF Crash
  <2>2. \A h \in Handlers : task'[h].pc # "write"
    BY <1>12 DEF Crash, Idle
  <2> QED
    BY <1>0, <1>12, <2>1, <2>2 DEF Crash, TypeOK, db, pdns
<1>13. CASE Wipe
  BY <1>13 DEF Wipe, TypeOK, Unserved, db
<1> QED
  BY <1>1, <1>2, <1>3, <1>4, <1>5, <1>6, <1>7, <1>8, <1>9, <1>10, <1>11, <1>12,
     <1>13, <1>14 DEF SyncStep

\* No step of the system breaks a type.
LEMMA StepTypes == TypeOK /\ [Next]_vars => TypeOK'
<1> SUFFICES ASSUME TypeOK, [Next]_vars PROVE TypeOK'
  OBVIOUS
<1>1. CASE UNCHANGED vars
  BY <1>1 DEF vars, db, pdns, TypeOK
<1>2. ASSUME NEW h \in Handlers,
             Request(h) \/ Sweep(h) \/ Handler(h) \/ CallFails(h) \/ LateAnswer(h)
               \/ Cancel(h)
      PROVE  TypeOK'
  BY <1>2, WriteTypes, PushTypes
     DEF Request, Present, Cleanup, Update, Handler
<1>3. CASE Age \/ Start \/ AdminSync \/ SyncStep \/ SyncFails \/ Crash \/ Wipe
  BY <1>3, SyncTypes
<1> QED
  BY <1>1, <1>2, <1>3 DEF Next

\* Type correctness: whatever handlers, syncs, faults and restarts do, every
\* variable keeps its type.
THEOREM TypeCorrect == Spec => []TypeOK
<1> QED
  BY InitType, StepTypes, PTL DEF Spec

-----------------------------------------------------------------------------
(* The stamp never runs ahead of the database.  StampNotAhead is inductive  *)
(* beside the types: every version a task carries was read from the         *)
(* database, whose version only grows.                                      *)

\* Handlers keep the stamp behind.
LEMMA HandlerStamps ==
  ASSUME TypeOK, StampNotAhead, NEW h \in Handlers,
         Request(h) \/ Sweep(h) \/ Handler(h) \/ CallFails(h) \/ LateAnswer(h)
           \/ Cancel(h)
  PROVE  StampNotAhead'
<1>0. /\ version \in Nat /\ stamp \in Nat /\ sync.ver \in Nat
      /\ task \in [Handlers -> Task] /\ \A g \in Handlers : task[g].ver \in Nat
      /\ \A r \in txt : r.at \in Nat
  BY DEF TypeOK, SyncTask, Task, Row
<1>1. ASSUME NEW t, Goto(h, t), t.ver <= version', version' \in Nat,
             version <= version', stamp' = stamp, sync' = sync,
             \A r \in txt' : r.at <= version'
      PROVE  StampNotAhead'
  <2>1. \A g \in Handlers : task'[g].ver <= version'
    BY <1>0, <1>1 DEF Goto, StampNotAhead
  <2> QED
    BY <1>0, <1>1, <2>1 DEF StampNotAhead
<1>2. ASSUME NEW t, Goto(h, t), t.ver <= version, UNCHANGED <<db, sync>>,
             stamp' <= version
      PROVE  StampNotAhead'
  <2>1. \A g \in Handlers : task'[g].ver <= version'
    BY <1>0, <1>2 DEF Goto, StampNotAhead, db
  <2> QED
    BY <1>0, <1>2, <2>1 DEF StampNotAhead, db
<1>3. /\ task[h] \in Task /\ task[h].ver <= version /\ stamp <= version
      /\ Idle.ver = 0 /\ NextName(task[h]).ver <= version
  BY <1>0 DEF StampNotAhead, TypeOK, Idle, NextName, Task
<1>4. ASSUME NEW n \in Names, NEW v \in Values,
             NEW o \in {"present", "cleanup", "update"}, Resolve(h, o, n, v)
      PROVE  StampNotAhead'
  <2> DEFINE t == [Idle EXCEPT !.pc = "write", !.op = o, !.name = n, !.value = v]
  <2>1. Goto(h, t) /\ t.ver = 0
    BY <1>4 DEF Resolve, Idle
  <2>2. txt' = txt /\ version' = version /\ sync' = sync /\ stamp' = stamp
    BY <1>4 DEF Resolve, pdns
  <2> HIDE DEF t
  <2> QED
    BY <1>0, <1>1, <2>1, <2>2 DEF StampNotAhead
<1>5. CASE Write(h)
  <2> DEFINE t == [task[h] EXCEPT !.pc = "read", !.todo = {task[h].name},
                                  !.name = NoName, !.value = NoValue]
  <2>1. Goto(h, t) /\ t.ver = task[h].ver
    BY <1>3, <1>5 DEF Write, Bumped, Task
  <2>2. txt' \subseteq txt \cup {Inserted(task[h])}
    BY <1>5 DEF Write, Bumped, PresentTxt, CleanupTxt, UpdateAcmednsTxt, Newest2
  <2>3. Inserted(task[h]).at = version + 1
    BY DEF Inserted
  <2>4. version' = version + 1 /\ sync' = sync /\ stamp' = stamp
    BY <1>5 DEF Write, Bumped, pdns
  <2>5. \A r \in txt' : r.at <= version'
    BY <1>0, <2>2, <2>3, <2>4 DEF StampNotAhead
  <2> HIDE DEF t
  <2> QED
    BY <1>0, <1>1, <1>3, <2>1, <2>4, <2>5
<1>6. ASSUME NEW o, NEW S \in SUBSET Names, RemoveNames(h, o, S)
      PROVE  StampNotAhead'
  <2> DEFINE t == NextName([Idle EXCEPT !.op = o, !.todo = S])
  <2>1. Cardinality(S) \in Nat
    BY RemovedCount
  <2>2. Goto(h, t) /\ t.ver = 0
    BY <1>6 DEF RemoveNames, NextName, Idle
  <2>3. /\ txt' \subseteq txt /\ version' = version + Cardinality(S)
        /\ sync' = sync /\ stamp' = stamp
    BY <1>6 DEF RemoveNames, DeleteSubdomainTxt, pdns
  <2> HIDE DEF t
  <2> QED
    BY <1>0, <1>1, <2>1, <2>2, <2>3 DEF StampNotAhead
<1>7. CASE Sweep(h)
  <2> DEFINE t == NextName([Idle EXCEPT !.op = "sweep",
                                        !.todo = {r.name : r \in Expired}])
  <2>1. Goto(h, t) /\ t.ver = 0
    BY <1>7 DEF Sweep, NextName, Idle
  <2>2. txt' \subseteq txt /\ version' = version + 1 /\ sync' = sync /\ stamp' = stamp
    BY <1>7 DEF Sweep, pdns
  <2> HIDE DEF t
  <2> QED
    BY <1>0, <1>1, <2>1, <2>2 DEF StampNotAhead
<1>8. CASE EditRecords(h)
  <2> DEFINE t == [Idle EXCEPT !.pc = "apply", !.op = "records"]
  <2>1. Goto(h, t) /\ t.ver = 0 /\ UNCHANGED <<db, sync>> /\ stamp' = stamp
    BY <1>8 DEF EditRecords, Idle, pdns
  <2> HIDE DEF t
  <2> QED
    BY <1>0, <1>2, <1>3, <2>1
<1>9. CASE ApplyRecords(h)
  <2> DEFINE t == [task[h] EXCEPT !.pc = "stamp", !.ver = version + 1]
  <2>1. Goto(h, t) /\ t.ver = version + 1
    BY <1>3, <1>9 DEF ApplyRecords, Task
  <2>2. txt' = txt /\ version' = version + 1 /\ sync' = sync /\ stamp' = stamp
    BY <1>9 DEF ApplyRecords, pdns
  <2> HIDE DEF t
  <2> QED
    BY <1>0, <1>1, <2>1, <2>2 DEF StampNotAhead
<1>10. CASE ReadTxt(h)
  <2>1. PICK n \in task[h].todo :
          Goto(h, [task[h] EXCEPT !.pc = "patch", !.name = n, !.todo = @ \ {n},
                                  !.vals = Stored(n)])
    BY <1>10 DEF ReadTxt
  <2> DEFINE t == [task[h] EXCEPT !.pc = "patch", !.name = n, !.todo = @ \ {n},
                                  !.vals = Stored(n)]
  <2>2. Goto(h, t) /\ t.ver = task[h].ver
    BY <1>3, <2>1 DEF Task
  <2>3. UNCHANGED <<db, sync>> /\ stamp' = stamp
    BY <1>10 DEF ReadTxt, pdns
  <2> HIDE DEF t
  <2> QED
    BY <1>2, <1>3, <2>2, <2>3
<1>11. CASE PatchTxt(h)
  <2> DEFINE t == [task[h] EXCEPT !.pc = "version"]
  <2>1. Goto(h, t) /\ t.ver = task[h].ver /\ UNCHANGED <<db, sync>> /\ stamp' = stamp
    BY <1>3, <1>11 DEF PatchTxt, Task
  <2> HIDE DEF t
  <2> QED
    BY <1>2, <1>3, <2>1
<1>12. CASE ReadVersion(h)
  <2> DEFINE t == [task[h] EXCEPT !.pc = "stamp", !.ver = version]
  <2>1. Goto(h, t) /\ t.ver = version /\ UNCHANGED <<db, sync>> /\ stamp' = stamp
    BY <1>3, <1>12 DEF ReadVersion, Task, pdns
  <2> HIDE DEF t
  <2> QED
    BY <1>0, <1>2, <1>3, <2>1
<1>13. CASE Stamp(h) \/ CallFails(h) \/ LateAnswer(h)
  <2>1. Goto(h, NextName(task[h])) /\ UNCHANGED <<db, sync>>
    BY <1>13 DEF Stamp, CallFails, LateAnswer
  <2>2. stamp' = task[h].ver \/ stamp' = stamp
    BY <1>13 DEF Stamp, CallFails, LateAnswer, pdns
  <2> QED
    BY <1>2, <1>3, <2>1, <2>2
<1>14. CASE Cancel(h)
  <2>1. Goto(h, Idle) /\ UNCHANGED <<db, sync>> /\ stamp' = stamp
    BY <1>14 DEF Cancel, pdns
  <2> QED
    BY <1>0, <1>2, <1>3, <2>1
<1> QED
  BY <1>4, <1>5, <1>6, <1>7, <1>8, <1>9, <1>10, <1>11, <1>12, <1>13, <1>14
     DEF Request, Present, Cleanup, Update, Handler, RemoveDomain, DeleteUser

\* Syncs, crashes and losses keep the stamp behind.
LEMMA SyncStamps ==
  ASSUME TypeOK, StampNotAhead,
         Age \/ Start \/ AdminSync \/ SyncStep \/ SyncFails \/ Crash \/ Wipe
  PROVE  StampNotAhead'
<1> USE DEF SyncTo
<1>0. /\ version \in Nat /\ stamp \in Nat /\ sync \in SyncTask /\ sync.ver \in Nat
      /\ task \in [Handlers -> Task] /\ \A g \in Handlers : task[g].ver \in Nat
      /\ \A r \in txt : r.at \in Nat
  BY DEF TypeOK, SyncTask, Task, Row
<1>1. CASE Age
  BY <1>1 DEF Age, StampNotAhead, pdns
<1>2. CASE Start \/ AdminSync
  <2>1. sync'.ver = version
    BY <1>2 DEF Start, AdminSync, IdleSync
  <2> QED
    BY <1>0, <1>2, <2>1 DEF Start, AdminSync, StampNotAhead, db, pdns
<1>3. CASE ListZones \/ ReadStamp \/ DesiredRrsets \/ ReadZone \/ ConvergeRrsets
  <2>1. sync'.ver = sync.ver
    BY <1>0, <1>3 DEF ListZones, ReadStamp, DesiredRrsets, ReadZone, ConvergeRrsets,
                      SyncTask
  <2> QED
    BY <1>3, <2>1 DEF ListZones, ReadStamp, DesiredRrsets, ReadZone, ConvergeRrsets,
                      StampNotAhead, db, pdns
<1>4. CASE SyncRest
  <2>1. sync'.ver = 0
    BY <1>4 DEF SyncRest, IdleSync
  <2> QED
    BY <1>0, <1>4, <2>1 DEF SyncRest, StampNotAhead, db, pdns
<1>5. CASE Adopt
  <2>1. sync'.ver = version + 1 /\ version' = version + 1
    BY <1>0, <1>5 DEF Adopt, SyncTask
  <2> QED
    BY <1>0, <1>5, <2>1 DEF Adopt, StampNotAhead, pdns
<1>6. CASE SyncStamp
  <2>1. sync'.ver = sync.ver
    BY <1>0, <1>6 DEF SyncStamp, SyncTask
  <2> QED
    BY <1>0, <1>6, <2>1 DEF SyncStamp, StampNotAhead, db
<1>7. CASE SyncFails
  <2>1. sync'.ver = 0
    BY <1>7 DEF SyncFails, IdleSync
  <2> QED
    BY <1>0, <1>7, <2>1 DEF SyncFails, StampNotAhead, db, pdns
<1>8. CASE Crash
  <2>1. sync'.ver = 0 /\ \A h \in Handlers : task'[h].ver = 0
    BY <1>8 DEF Crash, IdleSync, Idle
  <2> QED
    BY <1>0, <1>8, <2>1 DEF Crash, StampNotAhead, db, pdns
<1>9. CASE Wipe
  BY <1>0, <1>9 DEF Wipe, StampNotAhead, db
<1> QED
  BY <1>1, <1>2, <1>3, <1>4, <1>5, <1>6, <1>7, <1>8, <1>9 DEF SyncStep

\* The version comparison of Zones::sync never meets a stamp from the future,
\* for any number of concurrent handlers and any faults.
THEOREM StampNeverAhead == Spec => []StampNotAhead
<1>1. Init => StampNotAhead
  BY DEF Init, StampNotAhead, Idle, IdleSync
<1>2. TypeOK /\ StampNotAhead /\ [Next]_vars => StampNotAhead'
  <2> SUFFICES ASSUME TypeOK, StampNotAhead, [Next]_vars PROVE StampNotAhead'
    OBVIOUS
  <2>1. CASE UNCHANGED vars
    BY <2>1 DEF vars, db, pdns, StampNotAhead
  <2>2. CASE Next
    BY <2>2, HandlerStamps, SyncStamps DEF Next
  <2> QED
    BY <2>1, <2>2
<1> QED
  BY <1>1, <1>2, TypeCorrect, PTL DEF Spec

-----------------------------------------------------------------------------
(* One task at a time.  When tasks do not overlap, what a task has read is  *)
(* still what the database holds when it uses it, whatever calls fail, time *)
(* out or are dropped and wherever certo crashes.                           *)

\* At most one task is under way, only while certo serves and no sync runs.
OneTask ==
  /\ \A g, h \in Handlers : Busy(g) /\ Busy(h) => g = h
  /\ \A h \in Handlers : Busy(h) => sync.pc = "idle" /\ mode = "up"
  /\ mode = "down" => sync.pc = "idle"
  /\ mode = "starting" => sync.pc # "idle"
  /\ mode = "up" => exists

\* What handlers and syncs carry is what the database holds.
FreshCopies ==
  /\ \A h \in Handlers : task[h].pc = "patch" =>
       task[h].name \in Names /\ task[h].vals = Stored(task[h].name)
  /\ sync.pc \in {"zone", "converge"} => sync.want = [n \in Names |-> Stored(n)]
  /\ sync.pc = "converge" => /\ sync.diff = {n \in Names : served[n] # sync.want[n]}
                             /\ sync.had = exists
  /\ sync.pc \in {"metadata", "adopt", "rest"} => exists
  /\ SyncRepairs

AloneInv == TypeOK /\ OneTask /\ FreshCopies

\* An unchanged table stores the same values.
LEMMA SameStored ==
  ASSUME txt' = txt
  PROVE  \A n : Stored(n)' = Stored(n)
  BY DEF Stored

\* A task that starts finds everything else at rest.
LEMMA StartAlone ==
  ASSUME Isolation = "all", AloneInv, NEW h \in Handlers, Request(h) \/ Sweep(h)
  PROVE  OneTask' /\ FreshCopies'
<1>0. task \in [Handlers -> Task]
  BY DEF AloneInv, TypeOK
<1>1. ASSUME NEW t, Goto(h, t), t.pc # "patch", mode = "up", Quiet,
             UNCHANGED <<pdns, sync, mode>>
      PROVE  OneTask' /\ FreshCopies'
  <2>1. \A g \in Handlers : g # h => task'[g].pc = "idle"
    BY <1>0, <1>1 DEF Goto, Quiet, Busy
  <2>2. task'[h] = t
    BY <1>0, <1>1 DEF Goto
  <2>3. OneTask'
    BY <1>1, <2>1 DEF OneTask, AloneInv, Busy, Quiet, pdns
  <2> QED
    BY <1>1, <2>1, <2>2, <2>3 DEF FreshCopies, SyncRepairs, Quiet
<1>2. \A S : MayStart(S) => mode = "up" /\ Quiet
  BY DEF MayStart, AloneInv
<1>3. ASSUME NEW n \in Names, NEW v \in Values,
             NEW o \in {"present", "cleanup", "update"}, Resolve(h, o, n, v)
      PROVE  OneTask' /\ FreshCopies'
  BY <1>1, <1>2, <1>3 DEF Resolve, Idle
<1>4. ASSUME NEW o, NEW S, RemoveNames(h, o, S)
      PROVE  OneTask' /\ FreshCopies'
  BY <1>1, <1>2, <1>4 DEF RemoveNames, NextName, Idle
<1>5. CASE Sweep(h)
  BY <1>1, <1>2, <1>5 DEF Sweep, NextName, Idle
<1>6. CASE EditRecords(h)
  BY <1>1, <1>2, <1>6 DEF EditRecords, Idle
<1> QED
  BY <1>3, <1>4, <1>5, <1>6 DEF Request, Present, Cleanup, Update, RemoveDomain, DeleteUser

\* A task under way is the only one, and reads what it then writes.
LEMMA StepAlone ==
  ASSUME AloneInv, NEW h \in Handlers,
         Handler(h) \/ CallFails(h) \/ LateAnswer(h) \/ Cancel(h)
  PROVE  OneTask' /\ FreshCopies'
<1>0. task \in [Handlers -> Task] /\ task[h] \in Task
  BY DEF AloneInv, TypeOK
<1>1. /\ Busy(h) /\ sync.pc = "idle" /\ mode = "up" /\ exists
      /\ \A g \in Handlers : g # h => task[g].pc = "idle"
  <2>1. Busy(h)
    BY DEF Handler, Write, ApplyRecords, ReadTxt, PatchTxt, ReadVersion, Stamp,
           CallFails, LateAnswer, Cancel, Busy
  <2> QED
    BY <2>1 DEF AloneInv, OneTask, Busy
<1>2. ASSUME NEW t, Goto(h, t), UNCHANGED <<sync, mode, exists>>,
             t.pc = "patch" =>
               t.name \in Names /\ t.vals = {r.value : r \in {q \in txt' : q.name = t.name}}
      PROVE  OneTask' /\ FreshCopies'
  <2>1. \A g \in Handlers : g # h => task'[g].pc = "idle"
    BY <1>0, <1>1, <1>2 DEF Goto
  <2>2. task'[h] = t
    BY <1>0, <1>2 DEF Goto
  <2>3. OneTask'
    BY <1>1, <1>2, <2>1 DEF OneTask, Busy
  <2>4. \A g \in Handlers : task'[g].pc = "patch" =>
          /\ task'[g].name \in Names
          /\ task'[g].vals = {r.value : r \in {q \in txt' : q.name = task'[g].name}}
    BY <1>2, <2>1, <2>2
  <2>5. sync'.pc = "idle"
    BY <1>1, <1>2
  <2> QED
    BY <2>3, <2>4, <2>5 DEF FreshCopies, SyncRepairs, Stored
<1>3. NextName(task[h]).pc # "patch"
  BY <1>0 DEF NextName, Idle, Task
<1>4. CASE Write(h)
  <2> DEFINE t == [task[h] EXCEPT !.pc = "read", !.todo = {task[h].name},
                                  !.name = NoName, !.value = NoValue]
  <2>1. Goto(h, t) /\ t.pc = "read"
    BY <1>0, <1>4 DEF Write, Bumped, Task
  <2> HIDE DEF t
  <2> QED
    BY <1>2, <1>4, <2>1 DEF Write, Bumped, pdns
<1>5. CASE ApplyRecords(h)
  <2> DEFINE t == [task[h] EXCEPT !.pc = "stamp", !.ver = version + 1]
  <2>1. Goto(h, t) /\ t.pc = "stamp"
    BY <1>0, <1>5 DEF ApplyRecords, Task
  <2> HIDE DEF t
  <2> QED
    BY <1>2, <1>5, <2>1 DEF ApplyRecords, pdns
<1>6. CASE ReadTxt(h)
  <2>1. PICK n \in task[h].todo :
          Goto(h, [task[h] EXCEPT !.pc = "patch", !.name = n, !.todo = @ \ {n},
                                  !.vals = Stored(n)])
    BY <1>6 DEF ReadTxt
  <2> DEFINE t == [task[h] EXCEPT !.pc = "patch", !.name = n, !.todo = @ \ {n},
                                  !.vals = Stored(n)]
  <2>2. Goto(h, t) /\ t.name = n /\ t.vals = Stored(n)
    BY <1>0, <2>1 DEF Task
  <2>3. n \in Names
    BY <1>0 DEF Task
  <2>4. t.vals = {r.value : r \in {q \in txt' : q.name = n}}
    BY <1>6, <2>2 DEF ReadTxt, db, Stored
  <2> HIDE DEF t
  <2> QED
    BY <1>2, <1>6, <2>2, <2>3, <2>4 DEF ReadTxt, pdns
<1>7. CASE PatchTxt(h)
  <2> DEFINE t == [task[h] EXCEPT !.pc = "version"]
  <2>1. Goto(h, t) /\ t.pc = "version"
    BY <1>0, <1>7 DEF PatchTxt, Task
  <2> HIDE DEF t
  <2> QED
    BY <1>2, <1>7, <2>1 DEF PatchTxt
<1>8. CASE ReadVersion(h)
  <2> DEFINE t == [task[h] EXCEPT !.pc = "stamp", !.ver = version]
  <2>1. Goto(h, t) /\ t.pc = "stamp"
    BY <1>0, <1>8 DEF ReadVersion, Task
  <2> HIDE DEF t
  <2> QED
    BY <1>2, <1>8, <2>1 DEF ReadVersion, pdns
<1>9. CASE Stamp(h) \/ CallFails(h) \/ LateAnswer(h)
  BY <1>2, <1>3, <1>9 DEF Stamp, CallFails, LateAnswer, pdns
<1>10. CASE Cancel(h)
  BY <1>2, <1>10 DEF Cancel, Idle, pdns
<1> QED
  BY <1>4, <1>5, <1>6, <1>7, <1>8, <1>9, <1>10 DEF Handler

\* A sync runs alone, and converges to what it read.
LEMMA SyncAlone ==
  ASSUME Isolation = "all", AloneInv,
         Age \/ Start \/ AdminSync \/ SyncStep \/ SyncFails \/ Crash \/ Wipe
  PROVE  OneTask' /\ FreshCopies'
<1> USE DEF SyncTo
<1>0. /\ task \in [Handlers -> Task] /\ sync \in SyncTask
      /\ served \in [Names -> SUBSET Values] /\ OneTask /\ FreshCopies
  BY DEF AloneInv, TypeOK
<1>1. CASE Age
  <2>1. \A n : Stored(n)' = Stored(n)
    BY <1>1, SameStored DEF Age
  <2> QED
    BY <1>0, <1>1, <2>1 DEF Age, OneTask, FreshCopies, SyncRepairs, AllMirrored,
                            Mirrored, Busy, pdns
\* No task is under way: only the sync and the copy need a look.
<1>2. ASSUME \A h \in Handlers : task'[h].pc = "idle",
             mode' = "down" => sync'.pc = "idle",
             mode' = "starting" => sync'.pc # "idle",
             mode' = "up" => exists',
             sync'.pc \in {"zone", "converge"} =>
               sync'.want = [n \in Names |-> Stored(n)'],
             sync'.pc = "converge" =>
               /\ sync'.diff = {n \in Names : served'[n] # sync'.want[n]}
               /\ sync'.had = exists',
             sync'.pc \in {"metadata", "adopt", "rest"} => exists',
             SyncRepairs'
      PROVE  OneTask' /\ FreshCopies'
  BY <1>2 DEF OneTask, FreshCopies, Busy
<1>3. sync.pc # "idle" \/ mode # "up" => \A h \in Handlers : task[h].pc = "idle"
  BY <1>0 DEF OneTask, Busy
<1>4. CASE Start
  BY <1>0, <1>2, <1>3, <1>4 DEF Start, IdleSync, SyncRepairs, pdns
<1>5. CASE AdminSync
  BY <1>0, <1>2, <1>5 DEF AdminSync, IdleSync, SyncRepairs, pdns, Quiet, Busy,
                          OneTask
<1>6. CASE SyncFails
  BY <1>0, <1>2, <1>3, <1>6 DEF SyncFails, IdleSync, SyncRepairs, OneTask, pdns
<1>7. CASE Crash
  <2>1. \A h \in Handlers : task'[h].pc = "idle"
    BY <1>7 DEF Crash, Idle
  <2> QED
    BY <1>2, <1>7, <2>1 DEF Crash, IdleSync, SyncRepairs
<1>8. CASE Wipe
  BY <1>0, <1>2, <1>3, <1>8 DEF Wipe, OneTask, SyncRepairs
<1>9. CASE ListZones
  <2>1. sync'.pc = IF exists THEN "metadata" ELSE "desired"
    BY <1>0, <1>9 DEF ListZones, SyncTask
  <2> QED
    BY <1>0, <1>2, <1>3, <1>9, <2>1 DEF ListZones, SyncRepairs, OneTask, pdns
<1>10. CASE ReadStamp
  <2>1. exists
    BY <1>0, <1>10 DEF ReadStamp, FreshCopies
  <2>2. sync'.pc \in {"adopt", "desired", "rest"}
    BY <1>0, <1>10 DEF ReadStamp, SyncTask
  <2> QED
    BY <1>0, <1>2, <1>3, <1>10, <2>1, <2>2 DEF ReadStamp, SyncRepairs, OneTask, pdns
<1>11. CASE Adopt
  <2>1. sync'.pc = "desired"
    BY <1>0, <1>11 DEF Adopt, SyncTask
  <2> QED
    BY <1>0, <1>2, <1>3, <1>11, <2>1 DEF Adopt, SyncRepairs, OneTask, pdns
<1>12. CASE DesiredRrsets
  <2>1. sync'.pc = "zone" /\ sync'.want = [n \in Names |-> Stored(n)]
    BY <1>0, <1>12 DEF DesiredRrsets, SyncTask
  <2>2. \A n : Stored(n)' = Stored(n)
    BY <1>12, SameStored DEF DesiredRrsets, db
  <2> QED
    BY <1>0, <1>2, <1>3, <1>12, <2>1, <2>2
       DEF DesiredRrsets, SyncRepairs, OneTask, pdns
<1>13. CASE ReadZone
  <2>1. /\ sync'.pc = "converge" /\ sync'.want = sync.want /\ sync'.had = exists
        /\ sync'.diff = {n \in Names : served[n] # sync.want[n]}
    BY <1>0, <1>13 DEF ReadZone, Differs, SyncTask
  <2>2. \A n : Stored(n)' = Stored(n)
    BY <1>13, SameStored DEF ReadZone, db
  <2>3. sync.want = [n \in Names |-> Stored(n)]
    BY <1>0, <1>13 DEF ReadZone, FreshCopies
  <2> QED
    BY <1>0, <1>2, <1>3, <1>13, <2>1, <2>2, <2>3
       DEF ReadZone, SyncRepairs, OneTask, pdns
<1>14. CASE ConvergeRrsets
  <2>1. sync'.pc = "stamp"
    BY <1>0, <1>14 DEF ConvergeRrsets, SyncTask
  <2>2. \A n : Stored(n)' = Stored(n)
    BY <1>14, SameStored DEF ConvergeRrsets, db
  <2>3. /\ sync.want = [n \in Names |-> Stored(n)]
        /\ sync.diff = {n \in Names : served[n] # sync.want[n]}
    BY <1>0, <1>14 DEF ConvergeRrsets, FreshCopies
  <2>4. \A n \in Names : served'[n] = Stored(n)
    BY <1>14, <2>3 DEF ConvergeRrsets
  <2>5. SyncRepairs'
    BY <1>14, <2>2, <2>4 DEF ConvergeRrsets, SyncRepairs, AllMirrored, Mirrored
  <2> QED
    BY <1>0, <1>2, <1>3, <1>14, <2>1, <2>5 DEF ConvergeRrsets, OneTask
<1>15. CASE SyncStamp
  <2>1. sync'.pc = "rest"
    BY <1>0, <1>15 DEF SyncStamp, SyncTask
  <2> QED
    BY <1>0, <1>2, <1>3, <1>15, <2>1 DEF SyncStamp, SyncRepairs, OneTask
<1>16. CASE SyncRest
  BY <1>0, <1>2, <1>3, <1>16 DEF SyncRest, IdleSync, SyncRepairs, FreshCopies, pdns
<1> QED
  BY <1>1, <1>4, <1>5, <1>6, <1>7, <1>8, <1>9, <1>10, <1>11, <1>12, <1>13, <1>14,
     <1>15, <1>16 DEF SyncStep

\* Without overlap every copy a task carries stays fresh, under all faults.
LEMMA AloneInductive ==
  ASSUME Isolation = "all", AloneInv, [Next]_vars
  PROVE  AloneInv'
<1>1. TypeOK'
  BY StepTypes DEF AloneInv
<1>2. CASE UNCHANGED vars
  <2>1. OneTask'
    BY <1>2 DEF AloneInv, OneTask, Busy, vars, db, pdns
  <2>2. \A n : Stored(n)' = Stored(n)
    BY <1>2, SameStored DEF vars, db
  <2>3. FreshCopies'
    BY <1>2, <2>2 DEF AloneInv, FreshCopies, SyncRepairs, AllMirrored, Mirrored,
                      vars, db, pdns
  <2> QED
    BY <1>1, <2>1, <2>3 DEF AloneInv
<1>3. CASE Next
  <2>1. OneTask' /\ FreshCopies'
    BY <1>3, StartAlone, StepAlone, SyncAlone DEF Next
  <2> QED
    BY <1>1, <2>1 DEF AloneInv
<1> QED
  BY <1>2, <1>3

\* AloneInv is an invariant of any instance without overlap.
LEMMA AloneAlways == Isolation = "all" => (Spec => []AloneInv)
<1> SUFFICES ASSUME Isolation = "all" PROVE Spec => []AloneInv
  OBVIOUS
<1>1. Init => AloneInv
  <2>1. Init => OneTask /\ FreshCopies
    BY DEF Init, OneTask, FreshCopies, SyncRepairs, Busy, Idle, IdleSync
  <2> QED
    BY <2>1, InitType DEF AloneInv
<1>2. AloneInv /\ [Next]_vars => AloneInv'
  BY AloneInductive
<1> QED
  BY <1>1, <1>2, PTL DEF Spec

\* A sync that meets no other task has repaired the base zone when it stamps
\* it, whatever faults came before (Zones::sync and converge).
THEOREM SyncConverges == Isolation = "all" => (Spec => []SyncRepairs)
<1> SUFFICES ASSUME Isolation = "all" PROVE Spec => []SyncRepairs
  OBVIOUS
<1>1. AloneInv => SyncRepairs
  BY DEF AloneInv, FreshCopies
<1>2. Spec => []AloneInv
  BY AloneAlways
<1> QED
  BY <1>1, <1>2, PTL

\* A name with rows that nobody owns
Orphaned(n) == n \notin registered /\ \E r \in txt : r.name = n

\* Rows lose their owner in one way only: a request found the subdomain, its domain
\* was removed, and the request writes after it (resolve_subdomain and present_txt
\* are transactions of their own).  No removal leaves rows behind, of a domain or of
\* a user with several, whatever else is under way.
OrphanedByLateWrites ==
  [][\A n \in Names : ~Orphaned(n) /\ Orphaned(n)' =>
       n \notin registered
       /\ \E h \in Handlers : task[h].pc = "write" /\ task[h].name = n /\ Write(h)]_vars

\* What a write adds is a row of its name.
LEMMA WriteAdds ==
  ASSUME NEW h \in Handlers, Write(h)
  PROVE  registered' = registered /\ \A r \in txt' : r \in txt \/ r.name = task[h].name
<1>1. \A r \in PresentTxt(task[h]) : r \in txt \/ r.name = task[h].name
  BY DEF PresentTxt, Inserted
<1>2. txt' \subseteq PresentTxt(task[h])
  BY DEF Write, PresentTxt, CleanupTxt, UpdateAcmednsTxt, Newest2
<1> QED
  BY <1>1, <1>2 DEF Write

\* Every other step keeps the owners of the rows it keeps.
LEMMA OthersOrphanNone ==
  ASSUME Next, \A h \in Handlers : ~Write(h)
  PROVE  \A n \in Names : Orphaned(n)' => Orphaned(n)
<1>1. ASSUME NEW h \in Handlers, NEW n \in Names, NEW v \in Values,
             NEW o \in {"present", "cleanup", "update"}, Resolve(h, o, n, v)
      PROVE  txt' = txt /\ registered \subseteq registered'
  BY <1>1 DEF Resolve
<1>2. ASSUME NEW h \in Handlers, NEW o, NEW S, RemoveNames(h, o, S)
      PROVE  /\ registered' = registered \ S
             /\ txt' = {r \in txt : r.name \notin S}
  BY <1>2 DEF RemoveNames, DeleteSubdomainTxt
<1>3. ASSUME NEW h \in Handlers,
             Sweep(h) \/ EditRecords(h) \/ ApplyRecords(h) \/ ReadTxt(h) \/ PatchTxt(h)
             \/ ReadVersion(h) \/ Stamp(h) \/ CallFails(h) \/ LateAnswer(h) \/ Cancel(h)
      PROVE  txt' \subseteq txt /\ registered' = registered
  BY <1>3 DEF Sweep, EditRecords, ApplyRecords, ReadTxt, PatchTxt, ReadVersion, Stamp,
              CallFails, LateAnswer, Cancel, db
<1>4. ASSUME Age \/ Start \/ AdminSync \/ SyncStep \/ SyncFails \/ Crash \/ Wipe
      PROVE  txt' = txt /\ registered' = registered
  BY <1>4 DEF Age, Start, AdminSync, SyncFails, Crash, Wipe, db, SyncStep, ListZones,
              ReadStamp, Adopt, DesiredRrsets, ReadZone, ConvergeRrsets, SyncStamp, SyncRest
<1>5. \/ txt' \subseteq txt /\ registered \subseteq registered'
      \/ \E S : registered' = registered \ S /\ txt' = {r \in txt : r.name \notin S}
  BY <1>1, <1>2, <1>3, <1>4 DEF Next, Request, Handler, Present, Cleanup, Update,
                                RemoveDomain, DeleteUser
<1> QED
  BY <1>5 DEF Orphaned

\* For any overlap of tasks and every fault, rows without an owner come from late
\* writes alone.
THEOREM OrphansComeLate == Spec => OrphanedByLateWrites
<1>1. ASSUME [Next]_vars, NEW n \in Names, ~Orphaned(n), Orphaned(n)'
      PROVE  n \notin registered
             /\ \E h \in Handlers : task[h].pc = "write" /\ task[h].name = n /\ Write(h)
  <2>1. CASE UNCHANGED vars
    BY <1>1, <2>1 DEF vars, db, Orphaned
  <2>2. CASE Next
    <3>1. PICK h \in Handlers : Write(h)
      BY <1>1, <2>2, OthersOrphanNone
    <3>2. registered' = registered /\ \A r \in txt' : r \in txt \/ r.name = task[h].name
      BY <3>1, WriteAdds
    <3>3. n \notin registered /\ task[h].name = n
      BY <1>1, <3>2 DEF Orphaned
    <3> QED
      BY <3>1, <3>3 DEF Write
  <2> QED
    BY <1>1, <2>1, <2>2
<1>2. [Next]_vars =>
        [\A n \in Names : ~Orphaned(n) /\ Orphaned(n)' =>
           n \notin registered
           /\ \E h \in Handlers : task[h].pc = "write" /\ task[h].name = n /\ Write(h)]_vars
  BY <1>1
<1> QED
  BY <1>2, PTL DEF Spec, OrphanedByLateWrites

\* Each step of the detailed system is a step of TxtMirror or leaves its state
\* alone: only a patch, a convergence and a loss touch what is served.
LEMMA StepRefines ==
  ASSUME AloneInv, TypeOK', [Next]_vars
  PROVE  [Mirror!Next]_<<[n \in Names |-> Stored(n)], served>>
<1> DEFINE stored == [n \in Names |-> Stored(n)]
<1>0. TypeOK /\ OneTask /\ FreshCopies
  BY DEF AloneInv
<1>1. stored' \in [Names -> SUBSET Values]
  BY StoredType DEF TypeOK, Stored, Row
<1>2. CASE served' = served
  BY <1>1, <1>2 DEF Mirror!Next, Mirror!Write
<1>3. ASSUME NEW h \in Handlers, PatchTxt(h) \/ LateAnswer(h)
      PROVE  Mirror!Next
  <2>1. /\ served' = [served EXCEPT ![task[h].name] = task[h].vals]
        /\ task[h].pc = "patch" /\ UNCHANGED txt
    BY <1>3 DEF PatchTxt, LateAnswer, Patched, db
  <2>2. task[h].name \in Names /\ task[h].vals = Stored(task[h].name)
    BY <1>0, <2>1 DEF FreshCopies
  <2>3. stored' = stored
    BY <2>1, SameStored
  <2>4. served' = [n \in Names |-> IF n \in {task[h].name} THEN stored[n] ELSE served[n]]
    BY <1>0, <2>1, <2>2 DEF TypeOK
  <2> HIDE DEF stored
  <2>5. \E S \in SUBSET Names :
          served' = [n \in Names |-> IF n \in S THEN stored[n] ELSE served[n]]
    <3>1. {task[h].name} \in SUBSET Names
      BY <2>2
    <3> QED
      BY <2>4, <3>1
  <2> QED
    BY <2>3, <2>5 DEF Mirror!Next, Mirror!Publish, stored
<1>4. CASE ConvergeRrsets
  <2>1. sync.want = stored /\ sync.diff \in SUBSET Names
    BY <1>0, <1>4 DEF ConvergeRrsets, FreshCopies
  <2>2. stored' = stored
    BY <1>4, SameStored DEF ConvergeRrsets, db
  <2> HIDE DEF stored
  <2>3. \E S \in SUBSET Names :
          served' = [n \in Names |-> IF n \in S THEN stored[n] ELSE served[n]]
    BY <1>4, <2>1 DEF ConvergeRrsets
  <2> QED
    BY <2>2, <2>3 DEF Mirror!Next, Mirror!Publish, stored
<1>5. CASE Wipe
  <2>1. stored' = stored
    BY <1>5, SameStored DEF Wipe, db
  <2> QED
    BY <1>5, <2>1 DEF Wipe, Unserved, Mirror!Next, Mirror!Lose
<1>6. \/ served' = served \/ ConvergeRrsets \/ Wipe
      \/ \E h \in Handlers : PatchTxt(h) \/ LateAnswer(h)
  <2>1. ASSUME NEW h \in Handlers,
               Request(h) \/ Sweep(h) \/ Handler(h) \/ CallFails(h) \/ Cancel(h)
        PROVE  served' = served \/ PatchTxt(h)
    BY <2>1 DEF Request, Present, Cleanup, Update, Resolve, RemoveDomain, DeleteUser, RemoveNames,
         EditRecords, Sweep, Handler, Write, ApplyRecords, ReadTxt, ReadVersion,
         Stamp, CallFails, Cancel, pdns
  <2>2. CASE Age \/ Start \/ AdminSync \/ SyncFails \/ Crash
    BY <2>2 DEF Age, Start, AdminSync, SyncFails, Crash, pdns
  <2>3. CASE SyncStep
    BY <2>3 DEF SyncStep, ListZones, ReadStamp, Adopt, DesiredRrsets, ReadZone,
         SyncStamp, SyncRest, pdns
  <2>4. CASE UNCHANGED vars
    BY <2>4 DEF vars, pdns
  <2> QED
    BY <2>1, <2>2, <2>3, <2>4 DEF Next
<1> QED
  BY <1>2, <1>3, <1>4, <1>5, <1>6

\* Refinement: with tasks that do not overlap, the handlers, the sweep and the
\* sync implement a store and a public copy that only ever moves to the store's
\* current contents.
THEOREM Refines == Isolation = "all" => (Spec => ImplementsMirror)
<1> SUFFICES ASSUME Isolation = "all" PROVE Spec => ImplementsMirror
  OBVIOUS
<1>1. Init => Mirror!Init
  BY DEF Init, Mirror!Init, Unserved, Stored
<1>2. AloneInv /\ [Next]_vars => [Mirror!Next]_<<[n \in Names |-> Stored(n)], served>>
  BY StepRefines, AloneInductive DEF AloneInv
<1>3. Spec => []AloneInv
  BY AloneAlways
<1> QED
  BY <1>1, <1>2, <1>3, PTL DEF Spec, ImplementsMirror, Mirror!Spec

\* Faults that lose no call, operations that push one name at most
CrashOnly ==
  /\ Isolation = "all"
  /\ Faults \subseteq {"crash", "wipe"}
  /\ Ops \cap {"sweep", "delete_user"} = {}

\* How far behind PowerDNS may be at each point of a task
Stage(h) ==
  /\ task[h].pc \in {"write", "apply"} => stamp = version
  /\ task[h].pc \in {"read", "patch"} => stamp # version
  /\ task[h].pc = "read" =>
       \E n \in Names : /\ task[h].todo = {n}
                        /\ \A m \in Names \ {n} : Mirrored(m)
  /\ task[h].pc \in {"apply", "patch", "version", "stamp"} => task[h].todo = {}
  /\ task[h].pc = "patch" => \A m \in Names \ {task[h].name} : Mirrored(m)
  /\ task[h].pc \in {"version", "stamp"} => AllMirrored
  /\ task[h].pc = "stamp" => task[h].ver = version

CrashInv ==
  /\ AloneInv
  /\ StampNotAhead
  /\ StampTruthful
  /\ mode = "up" /\ Quiet => stamp = version
  /\ \A h \in Handlers : Stage(h)
  /\ sync.pc # "idle" => sync.ver = version
  /\ sync.pc = "rest" => stamp = version

\* What is left to show of CrashInv beside AloneInv and StampNotAhead
CrashRest ==
  /\ StampTruthful
  /\ mode = "up" /\ Quiet => stamp = version
  /\ \A h \in Handlers : Stage(h)
  /\ sync.pc # "idle" => sync.ver = version
  /\ sync.pc = "rest" => stamp = version

\* A step of the one task under way, seen from the task alone.
LEMMA OneTaskStep ==
  ASSUME CrashInv, AloneInv', NEW h \in Handlers, NEW t, t.pc # "idle",
         Goto(h, t), UNCHANGED <<sync, mode>>, sync.pc = "idle",
         \A g \in Handlers : g # h => task[g].pc = "idle",
         StampTruthful', Stage(h)'
  PROVE  CrashRest'
<1>0. task \in [Handlers -> Task]
  BY DEF CrashInv, AloneInv, TypeOK
<1>1. task'[h] = t /\ \A g \in Handlers : g # h => task'[g].pc = "idle"
  BY <1>0 DEF Goto
<1>2. \A g \in Handlers : Stage(g)'
  BY <1>1 DEF Stage
<1>3. ~Quiet'
  BY <1>1 DEF Quiet, Busy
<1> QED
  BY <1>2, <1>3 DEF CrashRest

\* Without lost calls a task that starts finds PowerDNS in step.
LEMMA StartInStep ==
  ASSUME CrashOnly, CrashInv, AloneInv', NEW h \in Handlers, Request(h) \/ Sweep(h)
  PROVE  CrashRest'
<1>0. /\ task \in [Handlers -> Task] /\ version \in Nat /\ stamp \in Nat
      /\ Isolation = "all" /\ "sweep" \notin Ops /\ "delete_user" \notin Ops
  BY DEF CrashInv, AloneInv, TypeOK, CrashOnly
<1>1. \A S : MayStart(S) =>
        /\ mode = "up" /\ stamp = version /\ AllMirrored /\ sync.pc = "idle"
        /\ \A g \in Handlers : task[g].pc = "idle"
  BY <1>0 DEF MayStart, CrashInv, AloneInv, OneTask, StampTruthful, Quiet, Busy
<1>2. ASSUME NEW n \in Names, NEW v \in Values,
             NEW o \in {"present", "cleanup", "update"}, Resolve(h, o, n, v)
      PROVE  CrashRest'
  <2> DEFINE t == [Idle EXCEPT !.pc = "write", !.op = o, !.name = n, !.value = v]
  <2>1. /\ Goto(h, t) /\ t.pc = "write" /\ MayStart({n})
        /\ UNCHANGED <<txt, version, pdns, sync, mode>>
    BY <1>2 DEF Resolve, Idle
  <2> HIDE DEF t
  <2>2. task'[h] = t
    BY <1>0, <2>1 DEF Goto
  <2>3. Stage(h)'
    BY <1>1, <2>1, <2>2 DEF Stage, pdns
  <2>4. StampTruthful'
    BY <2>1, SameStored DEF CrashInv, StampTruthful, AllMirrored, Mirrored, pdns
  <2> QED
    BY <1>1, <2>1, <2>3, <2>4, OneTaskStep
<1>3. ASSUME NEW n \in Names, RemoveNames(h, "remove", {n})
      PROVE  CrashRest'
  <2> DEFINE t == NextName([Idle EXCEPT !.op = "remove", !.todo = {n}])
  <2>1. Goto(h, t) /\ MayStart({n}) /\ UNCHANGED <<pdns, sync, mode>>
    BY <1>3 DEF RemoveNames
  <2>2. t.pc = "read" /\ t.todo = {n}
    BY DEF NextName, Idle
  <2> HIDE DEF t
  <2>3. version' = version + 1
    BY <1>3, FS_Singleton DEF RemoveNames
  <2>4. stamp' # version'
    BY <1>0, <1>1, <2>1, <2>3 DEF pdns
  <2>5. \A m \in Names \ {n} : Stored(m)' = Stored(m)
    BY <1>3 DEF RemoveNames, DeleteSubdomainTxt, Stored
  <2>6. \A m \in Names \ {n} : Mirrored(m)'
    BY <1>1, <2>1, <2>5 DEF AllMirrored, Mirrored, pdns
  <2>7. task'[h] = t
    BY <1>0, <2>1 DEF Goto
  <2>8. Stage(h)'
    BY <2>2, <2>4, <2>6, <2>7 DEF Stage
  <2>9. StampTruthful'
    BY <2>4 DEF StampTruthful
  <2> QED
    BY <1>1, <2>1, <2>2, <2>8, <2>9, OneTaskStep
<1>4. CASE EditRecords(h)
  <2> DEFINE t == [Idle EXCEPT !.pc = "apply", !.op = "records"]
  <2>1. /\ Goto(h, t) /\ t.pc = "apply" /\ t.todo = {} /\ MayStart({})
        /\ UNCHANGED <<db, pdns, sync, mode>>
    BY <1>4 DEF EditRecords, Idle
  <2> HIDE DEF t
  <2>2. task'[h] = t
    BY <1>0, <2>1 DEF Goto
  <2>3. Stage(h)'
    BY <1>1, <2>1, <2>2 DEF Stage, db, pdns
  <2>4. StampTruthful'
    BY <2>1, SameStored DEF CrashInv, StampTruthful, AllMirrored, Mirrored, db, pdns
  <2> QED
    BY <1>1, <2>1, <2>3, <2>4, OneTaskStep
<1> QED
  BY <1>0, <1>2, <1>3, <1>4 DEF Request, Present, Cleanup, Update, RemoveDomain, DeleteUser, Sweep

\* A write leaves the rows of the other names alone.
LEMMA OtherRows ==
  ASSUME NEW t,
         \/ txt' = PresentTxt(t) \/ txt' = CleanupTxt(t)
         \/ txt' = UpdateAcmednsTxt(t)
  PROVE  \A r : r.name # t.name => (r \in txt' <=> r \in txt)
<1>1. Inserted(t).name = t.name
  BY DEF Inserted
<1>2. ASSUME NEW r, r.name # t.name
      PROVE  /\ r \in PresentTxt(t) <=> r \in txt
             /\ r \in CleanupTxt(t) <=> r \in txt
             /\ r \in UpdateAcmednsTxt(t) <=> r \in txt
  BY <1>1, <1>2 DEF PresentTxt, CleanupTxt, UpdateAcmednsTxt, Newest2
<1> QED
  BY <1>2

\* Without lost calls a push brings PowerDNS in step before it stamps it.
LEMMA PushInStep ==
  ASSUME CrashOnly, CrashInv, AloneInv', NEW h \in Handlers,
         Handler(h) \/ CallFails(h) \/ LateAnswer(h) \/ Cancel(h)
  PROVE  CrashRest'
<1>0. /\ task \in [Handlers -> Task] /\ task[h] \in Task /\ version \in Nat
      /\ stamp \in Nat /\ served \in [Names -> SUBSET Values] /\ Stage(h)
      /\ Handler(h) /\ StampTruthful
  BY DEF CrashInv, AloneInv, TypeOK, CrashOnly, CallFails, LateAnswer, Cancel
<1>1. /\ sync.pc = "idle" /\ mode = "up" /\ exists
      /\ \A g \in Handlers : g # h => task[g].pc = "idle"
  <2>1. Busy(h)
    BY <1>0 DEF Handler, Write, ApplyRecords, ReadTxt, PatchTxt, ReadVersion,
                Stamp, Busy
  <2> QED
    BY <2>1 DEF CrashInv, AloneInv, OneTask, Busy
<1>2. ASSUME NEW t, Goto(h, t) PROVE task'[h] = t
  BY <1>0, <1>2 DEF Goto
<1>3. CASE Write(h)
  <2> DEFINE t == [task[h] EXCEPT !.pc = "read", !.todo = {task[h].name},
                                  !.name = NoName, !.value = NoValue]
             n == task[h].name
  <2>1. /\ Goto(h, t) /\ t.pc = "read" /\ t.todo = {n} /\ task[h].pc = "write"
        /\ UNCHANGED <<pdns, sync, mode>>
    BY <1>0, <1>3 DEF Write, Bumped, Task
  <2>2. n \in Names
    BY <2>1 DEF CrashInv, AloneInv, TypeOK
  <2> HIDE DEF t
  <2>3. stamp = version /\ AllMirrored
    BY <1>0, <1>1, <2>1 DEF Stage, StampTruthful
  <2>4. stamp' # version'
    BY <1>0, <1>3, <2>1, <2>3 DEF Write, Bumped, pdns
  <2>5. \A m \in Names \ {n} : Stored(m)' = Stored(m)
    <3>1. \A r : r.name # n => (r \in txt' <=> r \in txt)
      BY <1>3, OtherRows DEF Write, Bumped
    <3> QED
      BY <3>1 DEF Stored
  <2>6. \A m \in Names \ {n} : Mirrored(m)'
    BY <2>1, <2>3, <2>5 DEF AllMirrored, Mirrored, pdns
  <2>7. task'[h] = t
    BY <1>2, <2>1
  <2> HIDE DEF n
  <2>8. Stage(h)'
    BY <2>1, <2>2, <2>4, <2>6, <2>7 DEF Stage
  <2>9. StampTruthful'
    BY <2>4 DEF StampTruthful
  <2> QED
    BY <1>1, <2>1, <2>8, <2>9, OneTaskStep
<1>4. CASE ApplyRecords(h)
  <2> DEFINE t == [task[h] EXCEPT !.pc = "stamp", !.ver = version + 1]
  <2>1. /\ Goto(h, t) /\ t.pc = "stamp" /\ t.todo = {} /\ t.ver = version + 1
        /\ task[h].pc = "apply" /\ version' = version + 1
        /\ UNCHANGED <<txt, pdns, sync, mode>>
    BY <1>0, <1>4 DEF ApplyRecords, Task, Stage
  <2> HIDE DEF t
  <2>2. AllMirrored'
    BY <1>0, <1>1, <2>1, SameStored
       DEF Stage, StampTruthful, AllMirrored, Mirrored, pdns
  <2>3. task'[h] = t
    BY <1>2, <2>1
  <2>4. Stage(h)'
    BY <2>1, <2>2, <2>3 DEF Stage
  <2>5. StampTruthful'
    BY <2>2 DEF StampTruthful
  <2> QED
    BY <1>1, <2>1, <2>4, <2>5, OneTaskStep
<1>5. CASE ReadTxt(h)
  <2>1. PICK n \in task[h].todo :
          Goto(h, [task[h] EXCEPT !.pc = "patch", !.name = n, !.todo = @ \ {n},
                                  !.vals = Stored(n)])
    BY <1>5 DEF ReadTxt
  <2> DEFINE t == [task[h] EXCEPT !.pc = "patch", !.name = n, !.todo = @ \ {n},
                                  !.vals = Stored(n)]
  <2>2. /\ Goto(h, t) /\ t.pc = "patch" /\ t.name = n /\ t.todo = task[h].todo \ {n}
        /\ task[h].pc = "read" /\ UNCHANGED <<db, pdns, sync, mode>>
    BY <1>0, <1>5, <2>1 DEF ReadTxt, Task
  <2> HIDE DEF t
  <2>3. /\ task[h].todo = {n} /\ stamp # version
        /\ \A m \in Names \ {n} : Mirrored(m)
    BY <1>0, <2>2 DEF Stage
  <2>4. \A m \in Names \ {n} : Mirrored(m)'
    BY <2>2, <2>3, SameStored DEF Mirrored, db, pdns
  <2>5. task'[h] = t
    BY <1>2, <2>2
  <2>6. stamp' # version'
    BY <2>2, <2>3 DEF db, pdns
  <2>7. Stage(h)'
    BY <2>2, <2>3, <2>4, <2>5, <2>6 DEF Stage
  <2>8. StampTruthful'
    BY <2>6 DEF StampTruthful
  <2> QED
    BY <1>1, <2>2, <2>7, <2>8, OneTaskStep
<1>6. CASE PatchTxt(h)
  <2> DEFINE t == [task[h] EXCEPT !.pc = "version"]
             n == task[h].name
  <2>1. /\ Goto(h, t) /\ t.pc = "version" /\ t.todo = task[h].todo
        /\ task[h].pc = "patch" /\ UNCHANGED <<db, stamp, sync, mode>>
        /\ served' = [served EXCEPT ![n] = task[h].vals]
    BY <1>0, <1>6 DEF PatchTxt, Patched, Task
  <2> HIDE DEF t
  <2>2. task[h].vals = Stored(n)
    BY <2>1 DEF CrashInv, AloneInv, FreshCopies
  <2>3. \A m \in Names \ {n} : served[m] = Stored(m)
    BY <1>0, <2>1 DEF Stage, Mirrored
  <2>4. \A m \in Names : Stored(m)' = Stored(m)
    BY <2>1, SameStored DEF db
  <2>5. AllMirrored'
    BY <1>0, <2>1, <2>2, <2>3, <2>4 DEF AllMirrored, Mirrored
  <2>6. task'[h] = t
    BY <1>2, <2>1
  <2>7. Stage(h)'
    BY <1>0, <2>1, <2>5, <2>6 DEF Stage
  <2>8. StampTruthful'
    BY <2>5 DEF StampTruthful
  <2> QED
    BY <1>1, <2>1, <2>7, <2>8, OneTaskStep
<1>7. CASE ReadVersion(h)
  <2> DEFINE t == [task[h] EXCEPT !.pc = "stamp", !.ver = version]
  <2>1. /\ Goto(h, t) /\ t.pc = "stamp" /\ t.todo = task[h].todo
        /\ t.ver = version /\ task[h].pc = "version"
        /\ UNCHANGED <<db, pdns, sync, mode>>
    BY <1>0, <1>7 DEF ReadVersion, Task
  <2> HIDE DEF t
  <2>2. AllMirrored'
    BY <1>0, <2>1, SameStored DEF Stage, AllMirrored, Mirrored, db, pdns
  <2>3. task'[h] = t
    BY <1>2, <2>1
  <2>4. Stage(h)'
    BY <1>0, <2>1, <2>2, <2>3 DEF Stage, db
  <2>5. StampTruthful'
    BY <2>2 DEF StampTruthful
  <2> QED
    BY <1>1, <2>1, <2>4, <2>5, OneTaskStep
<1>8. CASE Stamp(h)
  <2>1. /\ task[h].pc = "stamp" /\ task[h].todo = {} /\ task[h].ver = version
        /\ AllMirrored /\ stamp' = version
        /\ UNCHANGED <<db, served, sync, mode>>
    BY <1>0, <1>8 DEF Stamp, Stage
  <2>2. Goto(h, Idle)
    BY <1>8, <2>1 DEF Stamp, NextName
  <2>3. \A g \in Handlers : task'[g].pc = "idle"
    BY <1>0, <1>1, <2>2 DEF Goto, Idle
  <2>4. AllMirrored'
    BY <2>1, SameStored DEF AllMirrored, Mirrored, db
  <2>5. \A g \in Handlers : Stage(g)'
    BY <2>3 DEF Stage
  <2> QED
    BY <1>1, <2>1, <2>4, <2>5 DEF CrashRest, StampTruthful, db
<1> QED
  BY <1>0, <1>3, <1>4, <1>5, <1>6, <1>7, <1>8 DEF Handler

\* Without lost calls a sync brings PowerDNS in step, and skips only a zone
\* that is.
LEMMA SyncInStep ==
  ASSUME CrashOnly, CrashInv, AloneInv',
         Age \/ Start \/ AdminSync \/ SyncStep \/ SyncFails \/ Crash \/ Wipe
  PROVE  CrashRest'
<1> USE DEF SyncTo
<1>0. /\ task \in [Handlers -> Task] /\ sync \in SyncTask /\ version \in Nat \ {0}
      /\ stamp \in Nat /\ stamp <= version /\ StampTruthful
      /\ sync.pc # "idle" => sync.ver = version
      /\ sync.pc = "rest" => stamp = version
      /\ OneTask /\ FreshCopies
  BY DEF CrashInv, AloneInv, TypeOK, StampNotAhead
<1>1. ~Age /\ ~SyncFails
  BY DEF CrashOnly, Age, SyncFails
\* No task is under way: the stamp and the sync's version are left to check.
<1>2. ASSUME \A h \in Handlers : task'[h].pc = "idle", StampTruthful',
             sync'.pc = "idle" /\ mode' = "up" => stamp' = version',
             sync'.pc # "idle" => sync'.ver = version',
             sync'.pc = "rest" => stamp' = version'
      PROVE  CrashRest'
  BY <1>2 DEF CrashRest, Stage, Quiet
<1>3. sync.pc # "idle" \/ mode # "up" => \A h \in Handlers : task[h].pc = "idle"
  BY <1>0 DEF OneTask, Busy
<1>4. ASSUME txt' = txt, version' = version, UNCHANGED pdns
      PROVE  StampTruthful'
  BY <1>0, <1>4, SameStored DEF StampTruthful, AllMirrored, Mirrored, pdns
<1>5. CASE Start \/ AdminSync
  <2>1. sync'.pc = "list" /\ sync'.ver = version
    BY <1>5 DEF Start, AdminSync, IdleSync
  <2>2. \A h \in Handlers : task'[h].pc = "idle"
    BY <1>3, <1>5 DEF Start, AdminSync, Quiet, Busy, CrashOnly
  <2> QED
    BY <1>2, <1>4, <1>5, <2>1, <2>2 DEF Start, AdminSync, db
<1>6. CASE ListZones \/ DesiredRrsets \/ ReadZone
  <2>1. /\ sync'.pc \notin {"idle", "rest"} /\ sync'.ver = sync.ver
        /\ sync.pc # "idle"
    BY <1>0, <1>6 DEF ListZones, DesiredRrsets, ReadZone, SyncTask
  <2> QED
    BY <1>0, <1>2, <1>3, <1>4, <1>6, <2>1 DEF ListZones, DesiredRrsets, ReadZone, db
<1>7. CASE ReadStamp
  <2>1. /\ sync.pc = "metadata" /\ UNCHANGED <<db, pdns, task, mode>>
        /\ sync'.ver = sync.ver /\ sync'.pc # "idle"
        /\ sync'.pc = "rest" => stamp = sync.ver
    BY <1>0, <1>7 DEF ReadStamp, InStep, SyncTask
  <2> QED
    BY <1>0, <1>2, <1>3, <1>4, <2>1 DEF db, pdns
<1>8. CASE Adopt
  <2>1. /\ sync'.pc = "desired" /\ sync'.ver = version + 1 /\ version' = version + 1
        /\ UNCHANGED <<pdns, task>> /\ sync.pc = "adopt"
    BY <1>0, <1>8 DEF Adopt, SyncTask
  <2>2. stamp' # version'
    BY <1>0, <2>1 DEF pdns
  <2> QED
    BY <1>0, <1>2, <1>3, <2>1, <2>2 DEF StampTruthful
<1>9. CASE ConvergeRrsets
  <2>1. sync'.pc = "stamp" /\ sync'.ver = sync.ver /\ sync.pc = "converge"
    BY <1>0, <1>9 DEF ConvergeRrsets, SyncTask
  <2>2. AllMirrored'
    BY <2>1 DEF AloneInv, FreshCopies, SyncRepairs
  <2> QED
    BY <1>0, <1>2, <1>3, <1>9, <2>1, <2>2 DEF ConvergeRrsets, StampTruthful, db
<1>10. CASE SyncStamp
  <2>1. AllMirrored /\ exists /\ sync.pc = "stamp" /\ stamp' = version
    BY <1>0, <1>10 DEF SyncStamp, FreshCopies, SyncRepairs
  <2>2. AllMirrored'
    BY <1>10, <2>1, SameStored DEF SyncStamp, AllMirrored, Mirrored, db
  <2>3. sync'.pc = "rest" /\ sync'.ver = sync.ver
    BY <1>0, <1>10 DEF SyncStamp, SyncTask
  <2> QED
    BY <1>0, <1>2, <1>3, <1>10, <2>1, <2>2, <2>3 DEF SyncStamp, StampTruthful, db
<1>13. CASE SyncRest
  BY <1>0, <1>2, <1>3, <1>4, <1>13 DEF SyncRest, IdleSync, db, pdns
<1>11. CASE Crash
  <2>1. \A h \in Handlers : task'[h].pc = "idle"
    BY <1>11 DEF Crash, Idle
  <2> QED
    BY <1>2, <1>4, <1>11, <2>1 DEF Crash, IdleSync, db
<1>12. CASE Wipe
  BY <1>0, <1>2, <1>3, <1>12 DEF Wipe, StampTruthful, db, OneTask
<1> QED
  BY <1>1, <1>5, <1>6, <1>7, <1>8, <1>9, <1>10, <1>11, <1>12, <1>13
     DEF SyncStep

\* CrashInv is an invariant of instances where certo may crash anywhere and
\* PowerDNS may lose its database, but no call is lost.
LEMMA CrashAlways == CrashOnly => (Spec => []CrashInv)
<1> SUFFICES ASSUME CrashOnly PROVE Spec => []CrashInv
  OBVIOUS
<1>1. Init /\ AloneInv => CrashInv
  <2> SUFFICES ASSUME Init, AloneInv PROVE CrashInv
    OBVIOUS
  <2>1. StampNotAhead /\ StampTruthful
    BY DEF Init, StampNotAhead, StampTruthful, Idle, IdleSync
  <2>2. \A h \in Handlers : Stage(h)
    BY DEF Init, Idle, Stage
  <2> QED
    BY <2>1, <2>2 DEF Init, CrashInv, IdleSync
<1>2. CrashInv /\ AloneInv' /\ StampNotAhead' /\ [Next]_vars => CrashInv'
  <2> SUFFICES ASSUME CrashInv, AloneInv', StampNotAhead', [Next]_vars
               PROVE  CrashInv'
    OBVIOUS
  <2>1. CASE UNCHANGED vars
    <3>1. StampTruthful'
      BY <2>1, SameStored DEF CrashInv, StampTruthful, AllMirrored, Mirrored,
                              vars, db, pdns
    <3>2. \A h \in Handlers : Stage(h)'
      BY <2>1, SameStored DEF CrashInv, Stage, AllMirrored, Mirrored, vars, db, pdns
    <3> QED
      BY <2>1, <3>1, <3>2 DEF CrashInv, Quiet, Busy, vars, db, pdns
  <2>2. CASE Next
    <3>1. CrashRest'
      BY <2>2, StartInStep, PushInStep, SyncInStep DEF Next
    <3> QED
      BY <3>1 DEF CrashInv, CrashRest
  <2> QED
    BY <2>1, <2>2
<1>3. Spec => []AloneInv
  BY AloneAlways DEF CrashOnly
<1>4. Spec => []StampNotAhead
  BY StampNeverAhead
<1> QED
  BY <1>1, <1>2, <1>3, <1>4, PTL DEF Spec

\* When nothing but crashes and a loss of PowerDNS's database goes wrong, a
\* stamp equal to the database's version is proof of a mirrored base zone: the
\* comparison that spares the startup sync its work is sound.
THEOREM StampProves == CrashOnly => (Spec => []StampTruthful)
<1>1. CrashInv => StampTruthful
  BY DEF CrashInv
<1> QED
  BY <1>1, CrashAlways, PTL

\* In the same setting a restart that gets as far as serving has reconciled
\* every challenge name.
THEOREM RestartsReconcile == CrashOnly => (Spec => RestartReconciles)
<1>1. ASSUME CrashInv, [Next]_vars
      PROVE  [mode = "starting" /\ mode' = "up" => exists' /\ AllMirrored']_vars
  <2> SUFFICES ASSUME mode = "starting", mode' = "up"
               PROVE  exists' /\ AllMirrored'
    OBVIOUS
  <2>1. /\ FreshCopies /\ StampTruthful
        /\ sync.pc = "rest" => stamp = version
    BY <1>1 DEF CrashInv, AloneInv, OneTask
  <2>2. SyncRest
    <3>1. ASSUME NEW h \in Handlers,
                 Request(h) \/ Sweep(h) \/ Handler(h) \/ CallFails(h)
                   \/ LateAnswer(h) \/ Cancel(h)
          PROVE  mode' = mode
      BY <3>1 DEF Request, Present, Cleanup, Update, Resolve, RemoveDomain, DeleteUser, RemoveNames,
           EditRecords, Sweep, Handler, Write, ApplyRecords, ReadTxt, PatchTxt,
           ReadVersion, Stamp, CallFails, LateAnswer, Cancel
    <3>2. CASE Age \/ Start \/ AdminSync \/ SyncFails \/ Crash \/ Wipe
      BY <3>2 DEF Age, Start, AdminSync, SyncFails, Crash, Wipe
    <3>3. CASE SyncStep
      BY <3>3 DEF SyncStep, ListZones, Adopt, DesiredRrsets, ReadZone, ConvergeRrsets,
                     ReadStamp, SyncStamp
    <3>4. CASE UNCHANGED vars
      BY <3>4 DEF vars
    <3> QED
      BY <1>1, <3>1, <3>2, <3>3, <3>4 DEF Next
  <2>3. exists /\ AllMirrored
    BY <2>1, <2>2 DEF SyncRest, FreshCopies, StampTruthful
  <2>4. UNCHANGED <<db, exists, served>>
    BY <2>2 DEF SyncRest, pdns
  <2> QED
    BY <2>3, <2>4, SameStored DEF AllMirrored, Mirrored, db
<1> QED
  BY <1>1, CrashAlways, PTL DEF Spec, RestartReconciles

-----------------------------------------------------------------------------
(* Names that no two tasks are at.  Pushes of different names share the base *)
(* zone's version and stamp and overlap step by step; as long as every call  *)
(* succeeds, a name that nobody is at is served as it is stored.             *)

\* What the txt table holds, by name
Table == [n \in Names |-> Stored(n)]

\* The names a task is at
Touch(t) == t.todo \cup ({t.name} \ {NoName})

\* What a task knows: the values it read are still those stored, as no other task
\* writes its name, and the name it patched is served as stored until it lets go.
Carried(t, table, copy) ==
  /\ t.pc = "idle" => t.todo = {} /\ t.name = NoName
  /\ t.pc \in {"read", "apply"} => t.name = NoName
  /\ t.pc = "write" => t.todo = {} /\ t.name \in Names
  /\ t.pc = "patch" => t.name \in Names /\ t.vals = table[t.name]
  /\ t.pc \in {"version", "stamp"} /\ t.name # NoName => copy[t.name] = table[t.name]

AllCarried == \A h \in Handlers : Carried(task[h], Table, served)

\* Tasks share no name, and a sync shares certo with no task.
Apart ==
  /\ mode # "up" \/ sync.pc # "idle" => \A h \in Handlers : task[h].pc = "idle"
  /\ mode = "down" => sync.pc = "idle"
  /\ mode = "up" => exists
  /\ \A g, h \in Handlers : g # h => Touch(task[g]) \cap Touch(task[h]) = {}

\* The sync at startup finds no zone and builds it; a later one repairs it.
Syncing ==
  /\ sync.pc \in {"zone", "converge"} => sync.want = Table
  /\ sync.pc = "converge" => sync.diff = {n \in Names : served[n] # sync.want[n]}
  /\ sync.pc = "stamp" => exists /\ served = Table
  /\ mode # "up" => /\ sync.pc \in {"idle", "list"} => ~exists
                    /\ sync.pc \notin {"metadata", "adopt"}
                    /\ sync.pc = "rest" => exists /\ served = Table

RestMirrored ==
  mode = "up" =>
    \A n \in Names : (\A h \in Handlers : n \notin Touch(task[h])) => served[n] = Table[n]

NamesInv == TypeOK /\ Apart /\ AllCarried /\ Syncing /\ RestMirrored

-----------------------------------------------------------------------------

LEMMA SameTable == txt' = txt => Table' = Table
  BY DEF Table, Stored

\* A change of the rows of S leaves the other names' values alone.
LEMMA OtherNames ==
  ASSUME NEW S, \A r : r.name \notin S => (r \in txt' <=> r \in txt)
  PROVE  \A n \in Names \ S : Table'[n] = Table[n]
<1>1. ASSUME NEW n \in Names \ S
      PROVE  {r \in txt' : r.name = n} = {r \in txt : r.name = n}
  BY <1>1
<1> QED
  BY <1>1 DEF Table, Stored

\* The step of a task: it changes nothing but the names S it is at, before or
\* after, and those it lets go are mirrored.
LEMMA NameStep ==
  ASSUME NamesInv, NEW h \in Handlers, NEW t, NEW S, Goto(h, t),
         mode = "up", sync.pc = "idle", UNCHANGED <<sync, mode, exists>>,
         Touch(task[h]) \cup Touch(t) \subseteq S,
         \A g \in Handlers : g # h => Touch(task[g]) \cap S = {},
         \A n \in Names \ S : Table'[n] = Table[n] /\ served'[n] = served[n],
         \A n \in (Names \cap S) \ Touch(t) : served'[n] = Table'[n],
         Carried(t, Table', served')
  PROVE  Apart' /\ AllCarried' /\ Syncing' /\ RestMirrored'
<1>1. /\ task \in [Handlers -> Task] /\ Apart /\ AllCarried /\ RestMirrored
  BY DEF NamesInv, TypeOK
<1>2. task'[h] = t /\ \A g \in Handlers : g # h => task'[g] = task[g]
  BY <1>1 DEF Goto
<1>3. Apart'
  <2>1. ASSUME NEW f \in Handlers, NEW g \in Handlers, f # g
        PROVE  Touch(task'[f]) \cap Touch(task'[g]) = {}
    <3>1. CASE f = h
      BY <1>2, <2>1, <3>1
    <3>2. CASE g = h
      BY <1>2, <2>1, <3>2
    <3>3. CASE f # h /\ g # h
      BY <1>1, <1>2, <2>1, <3>3 DEF Apart
    <3> QED
      BY <3>1, <3>2, <3>3
  <2> QED
    BY <1>1, <2>1 DEF Apart, Touch
<1>4. ASSUME NEW g \in Handlers
      PROVE  Carried(task'[g], Table', served')
  <2>1. CASE g = h
    BY <1>2, <2>1
  <2>2. CASE g # h
    <3>1. task'[g] = task[g] /\ Carried(task[g], Table, served) /\ task[g] \in Task
      BY <1>1, <1>2, <2>2 DEF AllCarried
    <3>2. task[g].name # NoName => task[g].name \in Names \ S
      BY <2>2, <3>1 DEF Touch, Task
    <3> QED
      BY <3>1, <3>2, NamesAssumption DEF Carried
  <2> QED
    BY <2>1, <2>2
<1>5. AllCarried'
  BY <1>4 DEF AllCarried
<1>6. Syncing'
  BY DEF Syncing
<1>7. ASSUME NEW n \in Names, \A g \in Handlers : n \notin Touch(task'[g])
      PROVE  served'[n] = Table'[n]
  <2>1. CASE n \in S
    BY <1>2, <1>7, <2>1
  <2>2. CASE n \notin S
    <3>1. \A g \in Handlers : n \notin Touch(task[g])
      BY <1>2, <1>7, <2>2
    <3> QED
      BY <1>1, <2>2, <3>1 DEF RestMirrored
  <2> QED
    BY <2>1, <2>2
<1>8. RestMirrored'
  BY <1>7 DEF RestMirrored, Touch
<1> QED
  BY <1>3, <1>5, <1>6, <1>8

-----------------------------------------------------------------------------
(* Tasks start at names where nobody is                                     *)

LEMMA StartNames ==
  ASSUME Isolation = "name", NamesInv, NEW h \in Handlers, Request(h) \/ Sweep(h)
  PROVE  Apart' /\ AllCarried' /\ Syncing' /\ RestMirrored'
<1>0. task \in [Handlers -> Task] /\ Apart /\ AllCarried
  BY DEF NamesInv, TypeOK
\* The start, at the names S, of a task that has written or not yet written theirs
<1>1. ASSUME NEW t, NEW S, Goto(h, t), ~Busy(h), MayStart(S), Touch(t) = S,
             \A r : r.name \notin S => (r \in txt' <=> r \in txt),
             UNCHANGED <<pdns, sync, mode>>, t.pc \in {"write", "read", "apply", "idle"},
             Carried(t, Table', served')
      PROVE  Apart' /\ AllCarried' /\ Syncing' /\ RestMirrored'
  <2>1. /\ mode = "up" /\ sync.pc = "idle"
        /\ \A g \in Handlers : Touch(task[g]) \cap S = {}
    BY <1>1 DEF MayStart, Touched, Touch
  <2>2. Touch(task[h]) = {}
    BY <1>0, <1>1, NamesAssumption DEF AllCarried, Carried, Touch, Busy
  <2>3. \A n \in Names \ S : Table'[n] = Table[n]
    BY <1>1, OtherNames
  <2>4. UNCHANGED <<sync, mode, exists>> /\ served' = served
    BY <1>1 DEF pdns
  <2>5. (Names \cap S) \ Touch(t) = {} /\ Touch(task[h]) \cup Touch(t) \subseteq S
    BY <1>1, <2>2
  <2> QED
    BY <1>1, <2>1, <2>3, <2>4, <2>5, NameStep
<1>2. ASSUME NEW n \in Names, NEW v \in Values,
             NEW o \in {"present", "cleanup", "update"}, Resolve(h, o, n, v)
      PROVE  Apart' /\ AllCarried' /\ Syncing' /\ RestMirrored'
  <2>1. PICK t : t = [Idle EXCEPT !.pc = "write", !.op = o, !.name = n, !.value = v]
    OBVIOUS
  <2>2. t.pc = "write" /\ t.name = n /\ t.todo = {}
    BY <2>1 DEF Idle
  <2>3. Touch(t) = {n} /\ Carried(t, Table', served')
    BY <2>2, NamesAssumption DEF Touch, Carried
  <2> QED
    BY <1>1, <1>2, <2>1, <2>2, <2>3 DEF Resolve
<1>3. ASSUME NEW S \in SUBSET Names, NEW o
      PROVE  /\ Touch(NextName([Idle EXCEPT !.op = o, !.todo = S])) = S
             /\ NextName([Idle EXCEPT !.op = o, !.todo = S]).pc \in {"read", "idle"}
             /\ Carried(NextName([Idle EXCEPT !.op = o, !.todo = S]), Table', served')
  <2> DEFINE t == NextName([Idle EXCEPT !.op = o, !.todo = S])
  <2>1. /\ t.todo = S /\ t.name = NoName /\ t.pc = IF S = {} THEN "idle" ELSE "read"
    BY DEF NextName, Idle
  <2> QED
    BY <2>1 DEF Touch, Carried
<1>4. ASSUME NEW o, NEW S, RemoveNames(h, o, S)
      PROVE  Apart' /\ AllCarried' /\ Syncing' /\ RestMirrored'
  <2>1. PICK t : t = NextName([Idle EXCEPT !.op = o, !.todo = S])
    OBVIOUS
  <2>2. S \in SUBSET Names
    BY <1>4 DEF RemoveNames, NamesInv, TypeOK
  <2>3. \A r : r.name \notin S => (r \in txt' <=> r \in txt)
    BY <1>4 DEF RemoveNames, DeleteSubdomainTxt
  <2>4. Touch(t) = S /\ t.pc \in {"read", "idle"} /\ Carried(t, Table', served')
    BY <1>3, <2>1, <2>2
  <2> QED
    BY <1>1, <1>4, <2>1, <2>3, <2>4 DEF RemoveNames
<1>5. CASE Sweep(h)
  <2> DEFINE S == {r.name : r \in Expired}
  <2>1. PICK t : t = NextName([Idle EXCEPT !.op = "sweep", !.todo = S])
    OBVIOUS
  <2>2. S \in SUBSET Names
    BY DEF NamesInv, TypeOK, Expired, Row
  <2>3. \A r : r.name \notin S => (r \in txt' <=> r \in txt)
    BY <1>5 DEF Sweep
  <2>4. Touch(t) = S /\ t.pc \in {"read", "idle"} /\ Carried(t, Table', served')
    BY <1>3, <2>1, <2>2
  <2>5. Goto(h, t) /\ ~Busy(h) /\ MayStart(S) /\ UNCHANGED <<pdns, sync, mode>>
    BY <1>5, <2>1 DEF Sweep
  <2> HIDE DEF S
  <2> QED
    BY <1>1, <2>3, <2>4, <2>5
<1>6. CASE EditRecords(h)
  <2>1. PICK t : t = [Idle EXCEPT !.pc = "apply", !.op = "records"]
    OBVIOUS
  <2>2. t.pc = "apply" /\ t.name = NoName /\ t.todo = {}
    BY <2>1 DEF Idle
  <2>3. Touch(t) = {} /\ Carried(t, Table', served')
    BY <2>2 DEF Touch, Carried
  <2> QED
    BY <1>1, <1>6, <2>1, <2>2, <2>3 DEF EditRecords, db
<1> QED
  BY <1>2, <1>4, <1>5, <1>6
     DEF Request, Present, Cleanup, Update, RemoveDomain, DeleteUser

-----------------------------------------------------------------------------
(* Tasks at work                                                            *)

LEMMA HandlerNames ==
  ASSUME NamesInv, NEW h \in Handlers, Handler(h)
  PROVE  Apart' /\ AllCarried' /\ Syncing' /\ RestMirrored'
<1>0. /\ task \in [Handlers -> Task] /\ task[h] \in Task
      /\ served \in [Names -> SUBSET Values] /\ NoName \notin Names
  BY NamesAssumption DEF NamesInv, TypeOK
<1>1. Carried(task[h], Table, served)
  BY DEF NamesInv, AllCarried
<1>2. mode = "up" /\ sync.pc = "idle"
  BY DEF NamesInv, Apart, Handler, Write, ApplyRecords, ReadTxt, PatchTxt,
         ReadVersion, Stamp
<1>3. \A g \in Handlers : g # h => Touch(task[g]) \cap Touch(task[h]) = {}
  BY DEF NamesInv, Apart
<1>4. ASSUME NEW t, Goto(h, t), UNCHANGED <<sync, mode, exists>>,
             Touch(t) \subseteq Touch(task[h]),
             \A n \in Names \ Touch(task[h]) :
               Table'[n] = Table[n] /\ served'[n] = served[n],
             \A n \in (Names \cap Touch(task[h])) \ Touch(t) : served'[n] = Table'[n],
             Carried(t, Table', served')
      PROVE  Apart' /\ AllCarried' /\ Syncing' /\ RestMirrored'
  <2>1. PICK S : S = Touch(task[h])
    OBVIOUS
  <2> QED
    BY <1>2, <1>3, <1>4, <2>1, NameStep
<1>5. CASE Write(h)
  <2>1. PICK t : t = [task[h] EXCEPT !.pc = "read", !.todo = {task[h].name},
                                     !.name = NoName, !.value = NoValue]
    OBVIOUS
  <2>2. /\ t.pc = "read" /\ t.todo = {task[h].name} /\ t.name = NoName
        /\ task[h].todo = {} /\ task[h].name \in Names
    BY <1>0, <1>1, <1>5, <2>1 DEF Write, Carried, Task
  <2>3. Touch(t) = {task[h].name} /\ Touch(task[h]) = {task[h].name}
        /\ Carried(t, Table', served')
    BY <1>0, <2>2 DEF Touch, Carried
  <2>4. \A r : r.name \notin {task[h].name} => (r \in txt' <=> r \in txt)
    BY <1>5, OtherRows DEF Write
  <2>5. PICK n : n = task[h].name
    OBVIOUS
  <2>6. \A m \in Names \ {n} : Table'[m] = Table[m]
    BY <2>4, <2>5, OtherNames
  <2> QED
    BY <1>4, <1>5, <2>1, <2>3, <2>5, <2>6 DEF Write, pdns
<1>6. CASE ApplyRecords(h)
  <2>1. PICK t : t = [task[h] EXCEPT !.pc = "stamp", !.ver = version + 1]
    OBVIOUS
  <2>2. t.pc = "stamp" /\ t.todo = task[h].todo /\ t.name = NoName /\ task[h].name = NoName
    BY <1>0, <1>1, <1>6, <2>1 DEF ApplyRecords, Carried, Task
  <2>3. Touch(t) = Touch(task[h]) /\ Carried(t, Table', served')
    BY <2>2 DEF Touch, Carried
  <2> QED
    BY <1>4, <1>6, <2>1, <2>3, SameTable DEF ApplyRecords, pdns
<1>7. CASE ReadTxt(h)
  <2>1. PICK n \in task[h].todo :
          Goto(h, [task[h] EXCEPT !.pc = "patch", !.name = n, !.todo = @ \ {n},
                                  !.vals = Stored(n)])
    BY <1>7 DEF ReadTxt
  <2>2. PICK t : t = [task[h] EXCEPT !.pc = "patch", !.name = n, !.todo = @ \ {n},
                                     !.vals = Stored(n)]
    OBVIOUS
  <2>3. /\ t.pc = "patch" /\ t.name = n /\ t.todo = task[h].todo \ {n}
        /\ t.vals = Stored(n) /\ n \in Names /\ task[h].name = NoName
    BY <1>0, <1>1, <1>7, <2>1, <2>2 DEF ReadTxt, Carried, Task
  <2>4. Table' = Table
    BY <1>7, SameTable DEF ReadTxt, db
  <2>5. Touch(t) = Touch(task[h]) /\ Carried(t, Table', served')
    BY <1>0, <2>3, <2>4 DEF Touch, Carried, Table
  <2> QED
    BY <1>4, <1>7, <2>1, <2>2, <2>4, <2>5 DEF ReadTxt, pdns
<1>8. CASE PatchTxt(h)
  <2>1. PICK t : t = [task[h] EXCEPT !.pc = "version"]
    OBVIOUS
  <2>2. /\ t.pc = "version" /\ t.name = task[h].name /\ t.todo = task[h].todo
        /\ task[h].name \in Names /\ task[h].vals = Table[task[h].name]
    BY <1>0, <1>1, <1>8, <2>1 DEF PatchTxt, Carried, Task
  <2>3. Table' = Table
    BY <1>8, SameTable DEF PatchTxt, db
  <2>4. served' = [served EXCEPT ![task[h].name] = task[h].vals]
    BY <1>8 DEF PatchTxt, Patched
  <2>5. /\ served'[task[h].name] = Table'[task[h].name]
        /\ \A n \in Names \ {task[h].name} : served'[n] = served[n]
    BY <1>0, <2>2, <2>3, <2>4
  <2>6. Touch(t) = Touch(task[h]) /\ task[h].name \in Touch(t)
        /\ Carried(t, Table', served')
    BY <1>0, <2>2, <2>5 DEF Touch, Carried
  <2>7. UNCHANGED <<sync, mode, exists>> /\ Goto(h, t)
    BY <1>8, <2>1 DEF PatchTxt
  <2> QED
    BY <1>4, <2>3, <2>5, <2>6, <2>7
<1>9. CASE ReadVersion(h)
  <2>1. PICK t : t = [task[h] EXCEPT !.pc = "stamp", !.ver = version]
    OBVIOUS
  <2>2. /\ t.pc = "stamp" /\ t.name = task[h].name /\ t.todo = task[h].todo
        /\ task[h].pc = "version"
    BY <1>0, <1>9, <2>1 DEF ReadVersion, Task
  <2>3. Table' = Table /\ served' = served
    BY <1>9, SameTable DEF ReadVersion, db, pdns
  <2>4. Touch(t) = Touch(task[h]) /\ Carried(t, Table', served')
    BY <1>1, <2>2, <2>3 DEF Touch, Carried
  <2> QED
    BY <1>4, <1>9, <2>1, <2>3, <2>4 DEF ReadVersion, pdns
<1>10. CASE Stamp(h)
  <2>1. PICK t : t = NextName(task[h])
    OBVIOUS
  <2>2. /\ t.name = NoName /\ t.todo = task[h].todo
        /\ t.pc = IF task[h].todo = {} THEN "idle" ELSE "read"
    BY <1>0, <2>1 DEF NextName, Idle, Task
  <2>3. Table' = Table /\ served' = served
    BY <1>10, SameTable DEF Stamp, db
  <2>4. Touch(t) = task[h].todo /\ Carried(t, Table', served')
    BY <2>2 DEF Touch, Carried
  <2>5. \A n \in Touch(task[h]) \ Touch(t) : served[n] = Table[n]
    BY <1>1, <1>10, <2>4 DEF Stamp, Touch, Carried
  <2>6. Touch(t) \subseteq Touch(task[h])
    BY <2>4 DEF Touch
  <2> QED
    BY <1>4, <1>10, <2>1, <2>3, <2>4, <2>5, <2>6 DEF Stamp
<1> QED
  BY <1>5, <1>6, <1>7, <1>8, <1>9, <1>10 DEF Handler

-----------------------------------------------------------------------------
(* The sync                                                                 *)

LEMMA SyncNames ==
  ASSUME Isolation = "name", Faults = {}, NamesInv,
         Age \/ Start \/ AdminSync \/ SyncStep \/ UNCHANGED vars
  PROVE  Apart' /\ AllCarried' /\ Syncing' /\ RestMirrored'
<1> USE DEF SyncTo
<1>0. /\ task \in [Handlers -> Task] /\ sync \in SyncTask
      /\ served \in [Names -> SUBSET Values]
      /\ Apart /\ AllCarried /\ Syncing /\ RestMirrored
  BY DEF NamesInv, TypeOK
<1>1. task' = task /\ txt' = txt
  BY DEF Age, Start, AdminSync, SyncStep, vars, db, ListZones, ReadStamp, Adopt,
         DesiredRrsets, ReadZone, ConvergeRrsets, SyncStamp, SyncRest
<1>2. Table' = Table
  BY <1>1, SameTable
<1>3. ASSUME served' = served
      PROVE  AllCarried'
  BY <1>0, <1>1, <1>2, <1>3 DEF AllCarried
<1>4. ASSUME UNCHANGED <<pdns, mode>>, mode = "up" \/ mode' # "up"
      PROVE  AllCarried' /\ RestMirrored'
  <2>1. served' = served
    BY <1>4 DEF pdns
  <2> QED
    BY <1>0, <1>1, <1>2, <1>3, <1>4, <2>1 DEF RestMirrored, Touch
<1>5. CASE Age \/ UNCHANGED vars
  <2>1. UNCHANGED <<pdns, sync, mode>>
    BY <1>5 DEF Age, vars
  <2> QED
    BY <1>0, <1>1, <1>2, <1>4, <2>1 DEF Apart, Syncing, Touch, pdns
<1>6. CASE Start
  <2>1. sync'.pc = "list" /\ mode = "down" /\ mode' = "starting" /\ UNCHANGED pdns
    BY <1>6 DEF Start, IdleSync
  <2>2. ~exists
    BY <1>0, <2>1 DEF Apart, Syncing
  <2> QED
    BY <1>0, <1>1, <1>3, <2>1, <2>2 DEF Apart, Syncing, RestMirrored, Touch, pdns
<1>7. CASE AdminSync
  <2>1. sync'.pc = "list" /\ mode = "up" /\ UNCHANGED <<pdns, mode>> /\ Quiet
    BY <1>7 DEF AdminSync, IdleSync
  <2> QED
    BY <1>0, <1>1, <1>4, <2>1 DEF Apart, Syncing, Quiet, Busy, Touch, pdns
<1>8. CASE ListZones \/ ReadStamp \/ Adopt \/ DesiredRrsets \/ ReadZone
  <2>1. UNCHANGED <<pdns, mode>> /\ sync.pc # "idle" /\ sync'.pc # "idle"
    BY <1>0, <1>8 DEF ListZones, ReadStamp, Adopt, DesiredRrsets, ReadZone, SyncTask
  <2>2. Apart'
    BY <1>0, <1>1, <2>1 DEF Apart, Touch, pdns
  <2>3. Syncing'
    <3>1. CASE ListZones
      <4>1. sync.pc = "list" /\ sync'.pc = IF exists THEN "metadata" ELSE "desired"
        BY <1>0, <3>1 DEF ListZones, SyncTask
      <4> QED
        BY <1>0, <2>1, <4>1 DEF Syncing, pdns
    <3>2. CASE ReadStamp
      <4>1. sync.pc = "metadata" /\ sync'.pc \in {"adopt", "desired", "rest"}
        BY <1>0, <3>2 DEF ReadStamp, SyncTask
      <4> QED
        BY <1>0, <2>1, <4>1 DEF Syncing, pdns
    <3>3. CASE Adopt
      <4>1. sync.pc = "adopt" /\ sync'.pc = "desired"
        BY <1>0, <3>3 DEF Adopt, SyncTask
      <4> QED
        BY <1>0, <2>1, <4>1 DEF Syncing, pdns
    <3>4. CASE DesiredRrsets
      <4>1. sync'.pc = "zone" /\ sync'.want = Table
        BY <1>0, <3>4 DEF DesiredRrsets, SyncTask, Table
      <4> QED
        BY <1>0, <1>2, <2>1, <4>1 DEF Syncing, pdns
    <3>5. CASE ReadZone
      <4>1. /\ sync'.pc = "converge" /\ sync'.want = sync.want /\ sync.pc = "zone"
            /\ sync'.diff = {n \in Names : served[n] # sync.want[n]}
        BY <1>0, <3>5 DEF ReadZone, Differs, SyncTask
      <4> QED
        BY <1>0, <1>2, <2>1, <4>1 DEF Syncing, pdns
    <3> QED
      BY <1>8, <3>1, <3>2, <3>3, <3>4, <3>5
  <2> QED
    BY <1>4, <2>1, <2>2, <2>3
<1>9. CASE ConvergeRrsets
  <2>1. /\ sync.pc = "converge" /\ sync'.pc = "stamp" /\ exists' = TRUE /\ mode' = mode
    BY <1>0, <1>9 DEF ConvergeRrsets, SyncTask
  <2>2. /\ sync.want = Table
        /\ sync.diff = {n \in Names : served[n] # sync.want[n]}
    BY <1>0, <2>1 DEF Syncing
  <2>3. served' = [n \in Names |-> IF n \in sync.diff THEN sync.want[n] ELSE served[n]]
    BY <1>9 DEF ConvergeRrsets
  <2>4. \A n \in Names : served'[n] = Table[n]
    BY <2>2, <2>3
  <2>5. served' = Table
    BY <2>3, <2>4 DEF Table
  <2>6. \A h \in Handlers : task[h].pc = "idle"
    BY <1>0, <2>1 DEF Apart
  <2>7. AllCarried'
    BY <1>0, <1>1, <2>6 DEF AllCarried, Carried
  <2> QED
    BY <1>0, <1>1, <1>2, <2>1, <2>5, <2>6, <2>7 DEF Apart, Syncing, RestMirrored, Touch
<1>10. CASE SyncStamp
  <2>1. /\ sync.pc = "stamp" /\ sync'.pc = "rest" /\ UNCHANGED <<exists, served, mode>>
    BY <1>0, <1>10 DEF SyncStamp, SyncTask
  <2> QED
    BY <1>0, <1>1, <1>2, <1>3, <2>1 DEF Apart, Syncing, RestMirrored, Touch
<1>11. CASE SyncRest
  <2>1. /\ sync.pc = "rest" /\ sync'.pc = "idle" /\ mode' = "up"
        /\ UNCHANGED <<exists, served>>
    BY <1>0, <1>11 DEF SyncRest, IdleSync, pdns
  <2>2. exists /\ (mode # "up" => served = Table)
    BY <1>0, <2>1 DEF Apart, Syncing
  <2> QED
    BY <1>0, <1>1, <1>2, <1>3, <2>1, <2>2 DEF Apart, Syncing, RestMirrored, Touch
<1> QED
  BY <1>5, <1>6, <1>7, <1>8, <1>9, <1>10, <1>11 DEF SyncStep

-----------------------------------------------------------------------------

\* However the pushes of different names interleave, a name no task is at is
\* served as it is stored, as long as calls succeed and certo runs (sync_txt
\* patches one name and stamps the version all names share).
THEOREM NamesStayMirrored ==
  Isolation = "name" /\ Faults = {} => (Spec => []IdleNamesMirrored)
<1> SUFFICES ASSUME Isolation = "name", Faults = {} PROVE Spec => []IdleNamesMirrored
  OBVIOUS
<1>1. Init => NamesInv
  <2> SUFFICES ASSUME Init PROVE NamesInv
    OBVIOUS
  <2>1. \A h \in Handlers : task[h] = Idle
    BY DEF Init
  <2>2. AllCarried /\ Apart
    BY <2>1 DEF Init, AllCarried, Carried, Apart, Touch, Idle, IdleSync
  <2>3. Syncing /\ RestMirrored
    BY DEF Init, Syncing, RestMirrored, IdleSync
  <2> QED
    BY <2>2, <2>3, InitType DEF NamesInv
<1>2. NamesInv /\ [Next]_vars => NamesInv'
  <2> SUFFICES ASSUME NamesInv, [Next]_vars PROVE NamesInv'
    OBVIOUS
  <2>1. TypeOK'
    BY StepTypes DEF NamesInv
  <2>2. /\ \A h \in Handlers : ~CallFails(h) /\ ~LateAnswer(h) /\ ~Cancel(h)
        /\ ~SyncFails /\ ~Crash /\ ~Wipe
    BY DEF CallFails, LateAnswer, Cancel, SyncFails, Crash, Wipe
  <2>3. Apart' /\ AllCarried' /\ Syncing' /\ RestMirrored'
    BY <2>2, StartNames, HandlerNames, SyncNames DEF Next
  <2> QED
    BY <2>1, <2>3 DEF NamesInv
<1>3. NamesInv => IdleNamesMirrored
  BY DEF NamesInv, RestMirrored, IdleNamesMirrored, Touched, Touch, Mirrored, Table
<1> QED
  BY <1>1, <1>2, <1>3, PTL DEF Spec
=============================================================================
