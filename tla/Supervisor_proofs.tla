-------------------------- MODULE Supervisor_proofs --------------------------
(***************************************************************************)
(* Theorems about Supervisor, for all durations and limits: the types, and  *)
(* that a server which ran for a whole window is never given up.            *)
(***************************************************************************)
EXTENDS Supervisor, FiniteSetTheorems, SequenceTheorems, TLAPS

-----------------------------------------------------------------------------
(* What the supervisor remembers                                            *)

\* The number of crashes that left the window is one of 0..Len(c).
LEMMA OldCrashes ==
  ASSUME NEW c \in Seq(0..CrashWindow)
  PROVE  /\ Cardinality({i \in DOMAIN c : c[i] >= CrashWindow}) \in 0..Len(c)
         /\ (\A i \in DOMAIN c : c[i] >= CrashWindow)
              => Cardinality({i \in DOMAIN c : c[i] >= CrashWindow}) = Len(c)
<1> DEFINE old == {i \in DOMAIN c : c[i] >= CrashWindow}
<1>1. DOMAIN c = 1..Len(c) /\ Len(c) \in Nat
  OBVIOUS
<1>2. IsFiniteSet(1..Len(c)) /\ Cardinality(1..Len(c)) = Len(c)
  BY <1>1, FS_Interval
<1>3. old \subseteq 1..Len(c)
  BY <1>1
<1>4. IsFiniteSet(old) /\ Cardinality(old) <= Len(c)
  BY <1>2, <1>3, FS_Subset
<1>5. Cardinality(old) \in Nat
  BY <1>4, FS_CardinalityType
<1>6. ASSUME \A i \in DOMAIN c : c[i] >= CrashWindow
      PROVE  Cardinality(old) = Len(c)
  <2>1. old = 1..Len(c)
    BY <1>1, <1>6
  <2> QED
    BY <1>2, <2>1
<1> QED
  BY <1>1, <1>4, <1>5, <1>6

\* Recent keeps some of the crashes, and none that are all a window old.
LEMMA RecentCrashes ==
  ASSUME NEW c \in Seq(0..CrashWindow)
  PROVE  /\ Recent(c) \in Seq(0..CrashWindow)
         /\ (\A i \in DOMAIN c : c[i] >= CrashWindow) => Len(Recent(c)) = 0
<1> DEFINE n == Cardinality({i \in DOMAIN c : c[i] >= CrashWindow})
<1>1. n \in 0..Len(c) /\ Len(c) \in Nat
  BY OldCrashes
<1>2. (\A i \in DOMAIN c : c[i] >= CrashWindow) => n = Len(c)
  BY OldCrashes
<1>3. Recent(c) = SubSeq(c, n + 1, Len(c))
  BY DEF Recent
<1> HIDE DEF n
<1>4. SubSeq(c, n + 1, Len(c)) \in Seq(0..CrashWindow)
  <2>1. \A i \in 1..Len(c) : c[i] \in 0..CrashWindow
    BY ElementOfSeq, Zenon
  <2>2. (n + 1)..Len(c) \subseteq 1..Len(c)
    BY <1>1
  <2>3. \A i \in (n + 1)..Len(c) : c[i] \in 0..CrashWindow
    BY <2>1, <2>2, Zenon
  <2>4. n + 1 \in Int /\ Len(c) \in Int
    BY <1>1
  <2> QED
    BY <2>3, <2>4, SubSeqProperties, Zenon
<1>5. n = Len(c) => Len(SubSeq(c, n + 1, Len(c))) = 0
  BY <1>1
<1> QED
  BY <1>2, <1>3, <1>4, <1>5

-----------------------------------------------------------------------------
(* Types                                                                    *)

Pcs == {"wait", "sleep", "spawn", "ready", "gone"}
Sups == [pc : Pcs, timer : Nat, backoff : RestartBackoff..MaxBackoff]
Mains == [pc : {"off", "starting", "boot", "failed", "register", "select",
                "grace", "shutdown", "stop"}, timer : Nat]

LEMMA CountCrashType ==
  ASSUME TypeOK, CountCrash
  PROVE  /\ crashes' \in Seq(0..CrashWindow) /\ sup' \in Sups /\ main' \in Mains
         /\ gaveUp' \in BOOLEAN /\ stopping' \in BOOLEAN /\ upFor' \in 0..CrashWindow
<1> USE DurationsAssumption
<1>1. crashes' \in Seq(0..CrashWindow)
  <2>1. Recent(crashes) \in Seq(0..CrashWindow)
    BY RecentCrashes DEF TypeOK
  <2>2. crashes' = Append(Recent(crashes), 0)
    BY DEF CountCrash, Remembered
  <2>3. 0 \in 0..CrashWindow
    OBVIOUS
  <2> QED
    BY <2>1, <2>2, <2>3
<1>2. NextBackoff(sup.backoff) \in RestartBackoff..MaxBackoff /\ sup.backoff \in Nat
  BY DEF TypeOK, NextBackoff, Capped
<1>3. sup' = Gone \/ sup' = [pc |-> "sleep", timer |-> sup.backoff,
                             backoff |-> NextBackoff(sup.backoff)]
  BY DEF CountCrash, GiveUp
<1>4. sup' \in Sups
  BY <1>2, <1>3 DEF Sups, Pcs, Gone
<1>5. main' = main \/ main' = Main("shutdown")
  BY DEF CountCrash, GiveUp
<1>6. main' \in Mains
  BY <1>5 DEF TypeOK, Mains, Main
<1>7. gaveUp' \in BOOLEAN /\ stopping' \in BOOLEAN /\ upFor' \in 0..CrashWindow
  BY DEF TypeOK, CountCrash, GiveUp
<1> QED
  BY <1>1, <1>4, <1>6, <1>7

\* The types, taken apart
LEMMA Types ==
  /\ RestartBackoff \in RestartBackoff..MaxBackoff /\ 0 \in Nat /\ 0 \in 0..CrashWindow
  /\ {LongestStart, StopTimeout, ShutdownGrace} \subseteq Nat
  /\ Gone \in Sups
  /\ TypeOK <=> /\ server \in {"none", "starting", "up"} /\ sup \in Sups
                /\ crashes \in Seq(0..CrashWindow)
                /\ gaveUp \in BOOLEAN /\ stopping \in BOOLEAN /\ main \in Mains
                /\ upFor \in 0..CrashWindow
BY DurationsAssumption DEF TypeOK, Sups, Pcs, Mains, Gone, LongestStart

LEMMA TickType ==
  ASSUME TypeOK, Tick
  PROVE  TypeOK'
<1> USE DurationsAssumption
<1>1. crashes' \in Seq(0..CrashWindow)
  <2>1. crashes \in Seq(0..CrashWindow) /\ DOMAIN crashes = 1..Len(crashes)
    BY DEF TypeOK
  <2>2. \A i \in DOMAIN crashes : Capped(crashes[i] + 1, CrashWindow) \in 0..CrashWindow
    BY <2>1 DEF Capped
  <2> QED
    BY <2>1, <2>2 DEF Tick
<1>2. sup' \in Sups /\ main' \in Mains
  <2>1. sup \in Sups /\ main \in Mains
    BY Types
  <2>2. \A n \in Nat : Less(n) \in Nat
    BY DEF Less
  <2>3. sup' = [sup EXCEPT !.timer = Less(@)] /\ main' = [main EXCEPT !.timer = Less(@)]
    BY DEF Tick
  <2> QED
    BY <2>1, <2>2, <2>3 DEF Sups, Mains
<1>3. upFor' \in 0..CrashWindow
  BY DEF Tick, Capped, TypeOK
<1> QED
  BY <1>1, <1>2, <1>3 DEF Tick, TypeOK, Sups, Pcs, Mains

LEMMA StepType ==
  ASSUME TypeOK, [Next]_vars
  PROVE  TypeOK'
<1> USE DurationsAssumption
<1>0. /\ sup \in Sups /\ main \in Mains /\ Gone \in Sups
      /\ \A pc \in Pcs : [sup EXCEPT !.pc = pc] \in Sups
  BY Types DEF Sups
<1>1. CASE UNCHANGED vars
  BY <1>1 DEF vars, TypeOK
<1>2. CASE ServerExits \/ Ready \/ Wake \/ Spawn \/ Stopped
  <2>1. sup' \in Sups
    <3>1. "wait" \in Pcs /\ "spawn" \in Pcs /\ "ready" \in Pcs
      BY DEF Pcs
    <3>2. [Gone EXCEPT !.pc = "wait"] \in Sups
      BY <1>0, <3>1 DEF Sups
    <3>3. [sup EXCEPT !.pc = "ready", !.timer = LongestStart] \in Sups
      BY <1>0, <3>1, Types DEF Sups
    <3> QED
      BY <1>0, <1>2, <3>1, <3>2, <3>3 DEF ServerExits, Ready, Wake, Spawn, Stopped
  <2>2. main' \in Mains
    BY <1>0, <1>2 DEF ServerExits, Ready, Wake, Spawn, Stopped, Main, Mains
  <2>3. /\ server' \in {"none", "starting", "up"} /\ upFor' \in 0..CrashWindow
        /\ UNCHANGED <<crashes, gaveUp, stopping>>
    BY <1>2 DEF ServerExits, Ready, Wake, Spawn, Stopped, TypeOK
  <2> QED
    BY <2>1, <2>2, <2>3 DEF TypeOK, Sups, Pcs, Mains
<1>3. CASE Crashed \/ StartFails
  <2>1. CountCrash /\ server' \in {"none", "starting", "up"}
    BY <1>3 DEF Crashed, StartFails, TypeOK
  <2> QED
    BY <2>1, CountCrashType DEF TypeOK, Sups, Pcs, Mains
<1>4. CASE Start
  <2>1. <<>> \in Seq(0..CrashWindow)
    OBVIOUS
  <2>2. [Gone EXCEPT !.pc = "ready", !.timer = LongestStart] \in Sups
    BY <1>0, Types DEF Sups, Pcs
  <2>3. sup' \in Sups /\ main' \in Mains /\ 0 \in 0..CrashWindow
    BY <1>4, <2>2 DEF Start, Main, Mains
  <2>4. /\ server' = "starting" /\ upFor' = 0 /\ crashes' = <<>>
        /\ gaveUp' = FALSE /\ stopping' = FALSE
    BY <1>4 DEF Start
  <2> QED
    BY <2>1, <2>2, <2>3, <2>4 DEF TypeOK, Sups, Pcs, Mains
<1>5. CASE FirstStartFails \/ RunFails \/ Exit
  <2>1. End
    BY <1>5 DEF FirstStartFails, RunFails, Exit
  <2>2. main' \in Mains
    BY <2>1 DEF End, Main, Mains
  <2> QED
    BY <1>0, <2>1, <2>2 DEF End, TypeOK, Sups, Pcs, Mains
<1>6. CASE Booted \/ CheckGaveUp \/ Register \/ Drained \/ ApiEnds
  BY <1>6 DEF Booted, CheckGaveUp, Register, Drained, ApiEnds, MainTo, Main, TypeOK
<1>7. CASE Shutdown \/ Signal
  <2>1. main' \in Mains
    BY <1>7 DEF Shutdown, Signal, Mains
  <2>2. stopping' \in BOOLEAN
    BY <1>7 DEF Shutdown, Signal, TypeOK
  <2> QED
    BY <1>7, <2>1, <2>2 DEF Shutdown, Signal, TypeOK, Mains
<1>8. CASE Tick
  BY <1>8, TickType
<1> QED
  BY <1>1, <1>2, <1>3, <1>4, <1>5, <1>6, <1>7, <1>8 DEF Next, Supervise, Run

LEMMA InitType == Init => TypeOK
<1> SUFFICES ASSUME Init PROVE TypeOK
  OBVIOUS
<1>1. sup \in Sups /\ main \in Mains
  BY Types DEF Init, Main, Mains
<1>2. crashes \in Seq(0..CrashWindow) /\ upFor \in 0..CrashWindow
  BY DurationsAssumption DEF Init
<1> QED
  BY <1>1, <1>2, Types DEF Init

\* Every variable keeps its type, and the backoff its bounds, whatever the durations.
THEOREM TypeCorrect == Spec => []TypeOK
<1>1. TypeOK /\ [Next]_vars => TypeOK'
  BY StepType
<1> QED
  BY InitType, <1>1, PTL DEF Spec

-----------------------------------------------------------------------------
(* A server that ran for a window is not given up                           *)

\* Every crash the supervisor remembers is at least as old as the server is up;
\* a server that is awaited has not been up.
Older ==
  /\ sup.pc \in {"wait", "ready"} => \A i \in DOMAIN crashes : crashes[i] >= upFor
  /\ sup.pc = "ready" => upFor = 0 /\ server # "up"
  /\ server = "up" => sup.pc \in {"wait", "gone"}

LEMMA TickOlder ==
  ASSUME TypeOK, Older, Tick
  PROVE  Older'
<1> USE DurationsAssumption
<1>1. sup'.pc = sup.pc /\ server' = server /\ DOMAIN crashes' = DOMAIN crashes
  BY DEF Tick, TypeOK
<1>2. ASSUME sup.pc \in {"wait", "ready"}, NEW i \in DOMAIN crashes
      PROVE  crashes'[i] >= upFor'
  <2>1. crashes[i] \in 0..CrashWindow /\ upFor \in 0..CrashWindow
    BY <1>2 DEF TypeOK
  <2>2. crashes[i] >= upFor
    BY <1>2 DEF Older
  <2>3. crashes'[i] = Capped(crashes[i] + 1, CrashWindow)
        /\ upFor' \in {Capped(upFor + 1, CrashWindow), upFor}
    BY <1>2 DEF Tick
  <2> QED
    BY <2>1, <2>2, <2>3 DEF Capped
<1>3. sup.pc = "ready" => upFor' = 0
  BY DEF Older, Tick
<1> QED
  BY <1>1, <1>2, <1>3 DEF Older

LEMMA StepOlder ==
  ASSUME TypeOK, Older, [Next]_vars
  PROVE  Older'
<1> USE DurationsAssumption
<1>1. CASE UNCHANGED vars
  BY <1>1 DEF vars, Older
<1>2. CASE ServerExits \/ Ready \/ Wake \/ Stopped
  BY <1>2 DEF ServerExits, Ready, Wake, Stopped, TypeOK, Older, Gone
<1>3. CASE Spawn
  <2>1. \A i \in DOMAIN crashes : crashes[i] >= 0
    BY DEF TypeOK
  <2> QED
    BY <1>3, <2>1 DEF Spawn, Older, TypeOK
<1>4. CASE Crashed \/ StartFails
  <2>1. sup'.pc \in {"sleep", "gone"} /\ server' = "none"
    BY <1>4 DEF Crashed, StartFails, CountCrash, GiveUp, Gone
  <2> QED
    BY <2>1 DEF Older
<1>5. CASE Start
  BY <1>5 DEF Start, Older, Gone
<1>6. CASE FirstStartFails \/ RunFails \/ Exit
  BY <1>6 DEF FirstStartFails, RunFails, Exit, End, Older, Gone
<1>7. CASE Booted \/ CheckGaveUp \/ Register \/ Drained \/ ApiEnds
  BY <1>7 DEF Booted, CheckGaveUp, Register, Drained, ApiEnds, MainTo, Older
<1>8. CASE Shutdown \/ Signal
  BY <1>8 DEF Shutdown, Signal, Older
<1>9. CASE Tick
  BY <1>9, TickOlder
<1> QED
  BY <1>1, <1>2, <1>3, <1>4, <1>5, <1>6, <1>7, <1>8, <1>9 DEF Next, Supervise, Run

\* Only a crash, or a failed restart, makes the supervisor give up.
LEMMA OnlyCrashesGiveUp ==
  ASSUME TypeOK, [Next]_vars, gaveUp', ~gaveUp
  PROVE  CountCrash /\ TooMany(Append(Recent(crashes), 0)) /\ sup.pc \in {"wait", "ready"}
<1>1. CASE Crashed \/ StartFails
  BY <1>1 DEF Crashed, StartFails, CountCrash, Remembered
<1>2. CASE Ready \/ Wake \/ Spawn \/ Stopped \/ ServerExits \/ UNCHANGED vars
  BY <1>2 DEF Ready, Wake, Spawn, Stopped, ServerExits, vars
<1>3. CASE Start \/ FirstStartFails \/ RunFails \/ Exit
  BY <1>3 DEF Start, FirstStartFails, RunFails, Exit, End
<1>4. CASE Booted \/ CheckGaveUp \/ Register \/ Drained \/ ApiEnds
  BY <1>4 DEF Booted, CheckGaveUp, Register, Drained, ApiEnds, MainTo
<1>5. CASE Shutdown \/ Signal \/ Tick
  BY <1>5 DEF Shutdown, Signal, Tick
<1> QED
  BY <1>1, <1>2, <1>3, <1>4, <1>5 DEF Next, Supervise, Run

LEMMA StormsOnly ==
  ASSUME TypeOK, Older, [Next]_vars, gaveUp', ~gaveUp
  PROVE  upFor < CrashWindow
<1> USE DurationsAssumption
<1>1. TooMany(Append(Recent(crashes), 0)) /\ sup.pc \in {"wait", "ready"}
  BY OnlyCrashesGiveUp
<1>2. crashes \in Seq(0..CrashWindow) /\ upFor \in 0..CrashWindow
  BY DEF TypeOK
<1>3. ASSUME upFor = CrashWindow
      PROVE  FALSE
  <2>1. \A i \in DOMAIN crashes : crashes[i] >= CrashWindow
    BY <1>1, <1>3 DEF Older
  <2>2. Recent(crashes) \in Seq(0..CrashWindow) /\ Len(Recent(crashes)) = 0
    BY <1>2, <2>1, RecentCrashes
  <2>3. Len(Append(Recent(crashes), 0)) = 1
    BY <2>2
  <2> QED
    BY <1>1, <2>3 DEF TooMany
<1> QED
  BY <1>2, <1>3

\* A server that ran for a whole window is never given up, whatever the limit
\* (of one crash or more), the window and the delays, and however often it
\* crashed before.
THEOREM StormsEndCerto == Spec => StableNotGivenUp
<1>1. Init => TypeOK /\ Older
  BY InitType DEF Init, Older, Gone
<1>2. TypeOK /\ Older /\ [Next]_vars => TypeOK' /\ Older'
  BY StepType, StepOlder
<1>3. TypeOK /\ Older /\ [Next]_vars => [gaveUp' /\ ~gaveUp => upFor < CrashWindow]_vars
  BY StormsOnly
<1> QED
  BY <1>1, <1>2, <1>3, PTL DEF Spec, StableNotGivenUp
=============================================================================
