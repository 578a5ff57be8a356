------------------------------ MODULE Supervisor ------------------------------
(***************************************************************************)
(* pdns_server as certo's child: the task that restarts it with a growing   *)
(* backoff and gives up when it crashes too often, and the main task, which *)
(* starts it, notices that the supervisor gave up, and stops it with certo. *)
(*                                                                          *)
(* The two tasks run on different threads.  Time is discrete: Tick ages the *)
(* crashes and runs down the timers, and never passes over a step that is   *)
(* due.  The durations are constants, in any unit.                          *)
(*                                                                          *)
(* Not here: signals and pids (a server told to stop exits like any other,  *)
(* one that does not is killed when certo ends), a server that outlives a   *)
(* killed certo.                                                            *)
(***************************************************************************)
EXTENDS Naturals, Sequences, FiniteSets

CONSTANTS
  CrashLimit, CrashWindow,
  RestartBackoff, MaxBackoff,
  ReadyTimeout, PingTimeout, StopTimeout, ShutdownGrace,
  ExitTime,  \* a start that fails sooner than this is an exit and not a hang
  Preempt    \* whether the supervisor may give up inside failed()

ASSUME DurationsAssumption ==
  /\ CrashLimit \in Nat \ {0} /\ CrashWindow \in Nat \ {0}
  /\ RestartBackoff \in Nat \ {0} /\ MaxBackoff \in Nat
  /\ RestartBackoff <= MaxBackoff
  /\ ReadyTimeout \in Nat /\ PingTimeout \in Nat
  /\ StopTimeout \in Nat /\ ShutdownGrace \in Nat /\ ExitTime \in Nat
ASSUME PreemptAssumption == Preempt \in BOOLEAN

VARIABLES
  server,    \* the process: "none", "starting" (no API yet) or "up"
  sup,       \* the supervising task: where it is, its timer, the next backoff
  crashes,   \* how long ago each crash it remembers was
  gaveUp,
  stopping,
  main,      \* the main task: where it is and its timer
  upFor      \* history: how long the server was last up

vars == <<server, sup, crashes, gaveUp, stopping, main, upFor>>

Capped(n, limit) == IF n < limit THEN n ELSE limit

Gone == [pc |-> "gone", timer |-> 0, backoff |-> RestartBackoff]
Main(pc) == [pc |-> pc, timer |-> 0]
MainTo(from, to) ==
  /\ main.pc = from /\ main' = Main(to)
  /\ UNCHANGED <<server, sup, crashes, gaveUp, stopping, upFor>>

-----------------------------------------------------------------------------
(* The server                                                               *)

ServerExits ==
  /\ server # "none" /\ server' = "none"
  /\ UNCHANGED <<sup, crashes, gaveUp, stopping, main, upFor>>

\* The API answers a ping, the last one begun before the deadline included.
Ready ==
  /\ sup.pc = "ready" /\ server = "starting"
  /\ server' = "up"
  /\ sup' = [Gone EXCEPT !.pc = "wait"]
  /\ main' = IF main.pc = "starting" THEN Main("boot") ELSE main
  /\ UNCHANGED <<crashes, gaveUp, stopping, upFor>>

-----------------------------------------------------------------------------
(* The supervising task                                                     *)

\* The oldest come first, so those that leave the window are the first ones.
AllOfThem(c) == c  \* seeded fault: old crashes count for ever
Recent(c) ==
  SubSeq(c, Cardinality({i \in DOMAIN c : c[i] >= CrashWindow}) + 1, Len(c))

\* A failed restart counts as one more crash.
StartsForgotten ==  \* seeded fault
  IF sup.pc = "ready" THEN Recent(crashes) ELSE Append(Recent(crashes), 0)
Remembered == Append(Recent(crashes), 0)

TooMany(c) == Len(c) > CrashLimit

Doubled(b) == 2 * b  \* seeded fault: no upper bound
NextBackoff(b) == Capped(2 * b, MaxBackoff)

GiveUp ==
  /\ main.pc = "register" => Preempt
  /\ gaveUp' = TRUE
  /\ sup' = Gone
  /\ main' = IF main.pc = "select" THEN Main("shutdown") ELSE main

\* notify_waiters reaches a main task that waits, no other.
CountCrash ==
  LET c == Remembered IN
  /\ crashes' = c
  /\ \/ TooMany(c) /\ GiveUp
     \/ ~TooMany(c) /\ UNCHANGED <<gaveUp, main>>
        /\ sup' = [pc |-> "sleep", timer |-> sup.backoff,
                   backoff |-> NextBackoff(sup.backoff)]
  /\ UNCHANGED <<stopping, upFor>>

Crashed ==
  /\ sup.pc = "wait" /\ server = "none" /\ ~stopping
  /\ CountCrash /\ UNCHANGED server

Stopped ==
  /\ \/ sup.pc = "wait" /\ server = "none"
     \/ sup.pc = "sleep" /\ sup.timer = 0
  /\ stopping /\ sup' = Gone
  /\ UNCHANGED <<server, crashes, gaveUp, stopping, main, upFor>>

Wake ==
  /\ sup.pc = "sleep" /\ sup.timer = 0 /\ ~stopping
  /\ sup' = [sup EXCEPT !.pc = "spawn"]
  /\ UNCHANGED <<server, crashes, gaveUp, stopping, main, upFor>>

\* The deadline is looked at between two pings, and the ping over it may hang.
LongestStart == ReadyTimeout + PingTimeout
NotReady == server = "none" \/ sup.timer <= PingTimeout

Spawn ==
  /\ sup.pc = "spawn"
  /\ sup' = [sup EXCEPT !.pc = "ready", !.timer = LongestStart]
  /\ server' = "starting" /\ upFor' = 0
  /\ UNCHANGED <<crashes, gaveUp, stopping, main>>

\* The first start fails certo, a restart counts as a crash, told to stop or not.
StartFails ==
  /\ sup.pc = "ready" /\ main.pc # "starting"
  /\ NotReady
  /\ server' = "none" /\ CountCrash

-----------------------------------------------------------------------------
(* The main task                                                            *)

\* Whoever runs certo starts it again.
Start ==
  /\ main.pc = "off" /\ main' = Main("starting")
  /\ sup' = [Gone EXCEPT !.pc = "ready", !.timer = LongestStart]
  /\ server' = "starting" /\ upFor' = 0
  /\ crashes' = <<>> /\ gaveUp' = FALSE /\ stopping' = FALSE

\* The process ends, its tasks with it, and the child is killed when dropped.
End ==
  /\ main' = Main("off") /\ sup' = Gone /\ server' = "none"
  /\ UNCHANGED <<crashes, gaveUp, stopping, upFor>>

FirstStartFails ==
  /\ main.pc = "starting" /\ NotReady
  /\ End

\* The first sync, the listener, the certificate, a panic of the server task:
\* an error that leaves run at once, without a shutdown of pdns_server
RunFails == main.pc \in {"boot", "select", "grace"} /\ End
Booted == MainTo("boot", "failed")

\* Supervisor::failed, polled on entering the select
CheckGaveUp == MainTo("failed", IF gaveUp THEN "shutdown" ELSE "register")
Register == MainTo("register", "select")

ApiEnds == MainTo("select", "shutdown")
Signal ==
  /\ main.pc = "select" /\ main' = [pc |-> "grace", timer |-> ShutdownGrace]
  /\ UNCHANGED <<server, sup, crashes, gaveUp, stopping, upFor>>
Drained == MainTo("grace", "shutdown")

Shutdown ==
  /\ main.pc = "shutdown" /\ main' = [pc |-> "stop", timer |-> StopTimeout]
  /\ stopping' = TRUE
  /\ UNCHANGED <<server, sup, crashes, gaveUp, upFor>>

Exit == main.pc = "stop" /\ (sup.pc = "gone" \/ main.timer = 0) /\ End

-----------------------------------------------------------------------------

Due ==
  \/ sup.pc \in {"wait", "ready"} /\ server = "none"
  \/ sup.pc \in {"sleep", "spawn", "ready"} /\ sup.timer = 0
  \/ main.pc \notin {"starting", "boot", "select"} /\ main.timer = 0

Less(n) == IF n = 0 THEN 0 ELSE n - 1

Tick ==
  /\ ~Due
  /\ sup' = [sup EXCEPT !.timer = Less(@)]
  /\ main' = [main EXCEPT !.timer = Less(@)]
  /\ crashes' = [i \in DOMAIN crashes |-> Capped(crashes[i] + 1, CrashWindow)]
  /\ upFor' = IF server = "up" THEN Capped(upFor + 1, CrashWindow) ELSE upFor
  /\ UNCHANGED <<server, gaveUp, stopping>>

Init ==
  /\ server = "none" /\ sup = Gone /\ crashes = <<>> /\ upFor = 0
  /\ gaveUp = FALSE /\ stopping = FALSE /\ main = Main("off")

Supervise == Crashed \/ Stopped \/ Wake \/ Spawn \/ StartFails
Run ==
  \/ Start \/ FirstStartFails \/ Booted \/ CheckGaveUp \/ Register
  \/ Drained \/ Shutdown \/ Exit

Next ==
  \/ ServerExits \/ Ready \/ Supervise \/ Run
  \/ RunFails \/ ApiEnds \/ Signal \/ Tick

Spec == Init /\ [][Next]_vars

\* Both tasks run when they can, and time goes on; a server owes nothing.
Fairness == WF_vars(Supervise) /\ WF_vars(Run) /\ WF_vars(Tick)
FairSpec == Spec /\ Fairness

-----------------------------------------------------------------------------
(* Properties                                                               *)

\* Every variable has its type, and the backoff keeps to its upper bound.
TypeOK ==
  /\ server \in {"none", "starting", "up"}
  /\ sup \in [pc : {"wait", "sleep", "spawn", "ready", "gone"}, timer : Nat,
              backoff : RestartBackoff..MaxBackoff]
  /\ crashes \in Seq(0..CrashWindow)
  /\ gaveUp \in BOOLEAN /\ stopping \in BOOLEAN
  /\ main \in [pc : {"off", "starting", "boot", "failed", "register", "select",
                     "grace", "shutdown", "stop"}, timer : Nat]
  /\ upFor \in 0..CrashWindow

\* The restart under way has taken longer than an exit does.
SlowStart == sup.pc = "ready" /\ LongestStart - sup.timer > ExitTime

\* A server that ran has exited and the supervisor is about to notice.
OutageBegins == sup.pc = "wait" /\ server = "none"

\* An outage in which every start that fails does so soon, because pdns_server exits,
\* ends: with the server back or with certo ended for whoever runs it to start afresh.
\* It takes durations for which CrashLimit + 1 such failures fit into the window.
\* Starts that hang do not fit and are tried for ever; once they have driven the
\* backoff up, neither do exits.
OutageEnds == OutageBegins ~> (server = "up" \/ main.pc = "off" \/ SlowStart)

\* A crash after a whole window of service is no reason to give up, however
\* many there were before: only a storm ends certo.
StableNotGivenUp == [][gaveUp' /\ ~gaveUp => upFor < CrashWindow]_vars

\* When the supervisor gives up, certo ends.
GaveUpEnds == gaveUp ~> main.pc = "off"
=============================================================================
