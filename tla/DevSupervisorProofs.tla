------------------------- MODULE DevSupervisorProofs -------------------------
(***************************************************************************)
(* What holds of bin/dev for any number of processes: type correctness,    *)
(* that an ordinary end leaves no process behind, that nobody is forgotten *)
(* unless a signal came while they were being started, and how many steps  *)
(* the script takes.                                                       *)
(***************************************************************************)
EXTENDS DevSupervisor, TLAPS

LEMMA TypeInit == ASSUME Init PROVE TypeOK
<1> USE DevAssumption DEF DevAssumption, Init, Process
<1>1. next \in Process
  OBVIOUS
<1>2. child \in [Process -> {"none", "running", "ended", "reaped"}]
  OBVIOUS
<1>3. pid \in [Process -> BOOLEAN] /\ told \in [Process -> BOOLEAN]
  OBVIOUS
<1> QED
  BY <1>1, <1>2, <1>3 DEF TypeOK

LEMMA TypeStep == ASSUME TypeOK, [Next]_vars PROVE TypeOK'
<1> USE DevAssumption DEF DevAssumption, TypeOK, Process, Advance, AfterStopAll
<1>1. CASE UNCHANGED vars
  BY <1>1 DEF vars
<1>2. CASE CheckPorts  BY <1>2 DEF CheckPorts
<1>3. CASE Spawn       BY <1>3 DEF Spawn
<1>4. CASE AssignPid   BY <1>4 DEF AssignPid
<1>5. CASE SpawnFails  BY <1>5 DEF SpawnFails
<1>6. ASSUME NEW c \in Process, Wait(c) PROVE TypeOK'
  BY <1>6 DEF Wait
<1>7. CASE StopAll     BY <1>7 DEF StopAll
<1>8. CASE KillNext    BY <1>8 DEF KillNext
<1>9. CASE ReapNext    BY <1>9 DEF ReapNext
<1>10. ASSUME NEW c \in Process, ChildEnds(c) PROVE TypeOK'
  BY <1>10 DEF ChildEnds
<1>11. ASSUME NEW group, Signalled(group) PROVE TypeOK'
  BY <1>11 DEF Signalled, Starting
<1> QED
  BY <1>1, <1>2, <1>3, <1>4, <1>5, <1>6, <1>7, <1>8, <1>9, <1>10, <1>11
     DEF Next, Main, Terminate, Interrupt

\* No step takes a variable out of its type; in particular the loops never
\* come to a process that is not there.
THEOREM TypeCorrect == Spec => []TypeOK
<1>1. Init => TypeOK
  BY TypeInit
<1>2. TypeOK /\ [Next]_vars => TypeOK'
  BY TypeStep
<1> QED
  BY <1>1, <1>2, PTL DEF Spec

-----------------------------------------------------------------------------
(***************************************************************************)
(* The ordinary end.                                                       *)
(***************************************************************************)

\* The last loop leaves only reaped processes behind it.
ReapInv ==
  /\ at = "ports" => Started = {}
  /\ at = "reap" => \A c \in Process : c < next => child[c] = "reaped"
  /\ NormalExitLeavesNobody

LEMMA ReapStep == ASSUME TypeOK, ReapInv, [Next]_vars PROVE ReapInv'
<1> USE DevAssumption DEF DevAssumption, TypeOK, Process, Advance, AfterStopAll,
      ReapInv, NormalExitLeavesNobody, Started
<1>1. CASE UNCHANGED vars
  BY <1>1 DEF vars
<1>2. CASE CheckPorts  BY <1>2 DEF CheckPorts
<1>3. CASE Spawn       BY <1>3 DEF Spawn
<1>4. CASE AssignPid   BY <1>4 DEF AssignPid
<1>5. CASE SpawnFails  BY <1>5 DEF SpawnFails
<1>6. ASSUME NEW c \in Process, Wait(c) PROVE ReapInv'
  BY <1>6 DEF Wait
<1>7. CASE StopAll     BY <1>7 DEF StopAll
<1>8. CASE KillNext    BY <1>8 DEF KillNext
<1>9. CASE ReapNext
  <2>1. \A c \in Process : c <= next => child'[c] = "reaped"
    BY <1>9 DEF ReapNext
  <2>2. CASE next < N  BY <1>9, <2>1, <2>2 DEF ReapNext
  <2>3. CASE ~(next < N)
    <3>1. at' = "exited" /\ \A c \in Process : child'[c] = "reaped"
      BY <1>9, <2>1, <2>3 DEF ReapNext
    <3> QED
      BY <3>1
  <2> QED
    BY <2>2, <2>3
<1>10. ASSUME NEW c \in Process, ChildEnds(c) PROVE ReapInv'
  BY <1>10 DEF ChildEnds
<1>11. ASSUME NEW group, Signalled(group) PROVE ReapInv'
  BY <1>11 DEF Signalled
<1> QED
  BY <1>1, <1>2, <1>3, <1>4, <1>5, <1>6, <1>7, <1>8, <1>9, <1>10, <1>11
     DEF Next, Main, Terminate, Interrupt

\* Once the script has ended the ordinary way every process it started has
\* ended and was reaped, whatever signals came and when.
THEOREM NormalExitAlwaysClean == Spec => []NormalExitLeavesNobody
<1>1. Init => TypeOK /\ ReapInv
  BY TypeInit DEF Init, ReapInv, Started, NormalExitLeavesNobody
<1>2. TypeOK /\ ReapInv /\ [Next]_vars => TypeOK' /\ ReapInv'
  BY TypeStep, ReapStep
<1>3. ReapInv => NormalExitLeavesNobody
  BY DEF ReapInv
<1> QED
  BY <1>1, <1>2, <1>3, PTL DEF Spec

-----------------------------------------------------------------------------
(***************************************************************************)
(* Nobody is forgotten.                                                    *)
(***************************************************************************)

AllTold == \A c \in Process : child[c] = "running" => told[c]

\* Without an early signal stop_all is first called when every process that
\* runs has its pid, so that it reaches them all.
ToldInv ==
  ~early =>
    /\ at = "ports" => Started = {}
    /\ at = "ports" \/ Starting => ~shuttingDown
    /\ \A c \in Process :
         child[c] = "running" /\ at # "exited" => pid[c] \/ (at = "assign" /\ c = next)
    /\ at \in {"wait", "stopAll"} /\ shuttingDown => AllTold
    /\ at = "kill" => \A c \in Process : c < next /\ child[c] = "running" => told[c]
    /\ at \in {"reap", "exited"} => AllTold

LEMMA ToldStep == ASSUME TypeOK, ToldInv, [Next]_vars PROVE ToldInv'
<1> USE DevAssumption DEF DevAssumption, TypeOK, Process, Advance, AfterStopAll,
      ToldInv, AllTold, Starting, Started
<1>1. CASE UNCHANGED vars
  BY <1>1 DEF vars
<1>2. CASE CheckPorts  BY <1>2 DEF CheckPorts
<1>3. CASE Spawn       BY <1>3 DEF Spawn
<1>4. CASE AssignPid   BY <1>4 DEF AssignPid
<1>5. CASE SpawnFails  BY <1>5 DEF SpawnFails
<1>6. ASSUME NEW c \in Process, Wait(c) PROVE ToldInv'
  BY <1>6 DEF Wait
<1>7. CASE StopAll     BY <1>7 DEF StopAll
<1>8. CASE KillNext
  <2>1. SUFFICES ASSUME ~early PROVE ToldInv'
    BY <1>8 DEF KillNext
  <2>2. \A c \in Process : c <= next /\ child[c] = "running" => told'[c]
    BY <1>8, <2>1 DEF KillNext
  <2> QED
    BY <1>8, <2>1, <2>2 DEF KillNext
<1>9. CASE ReapNext    BY <1>9 DEF ReapNext
<1>10. ASSUME NEW c \in Process, ChildEnds(c) PROVE ToldInv'
  BY <1>10 DEF ChildEnds
<1>11. ASSUME NEW group, Signalled(group) PROVE ToldInv'
  BY <1>11 DEF Signalled
<1> QED
  BY <1>1, <1>2, <1>3, <1>4, <1>5, <1>6, <1>7, <1>8, <1>9, <1>10, <1>11
     DEF Next, Main, Terminate, Interrupt

\* When the script is gone, every process it started has ended or was told to
\* stop, unless a signal came before all of them were started.
THEOREM NobodyForgotten == Spec => []NothingLeftRunning
<1>1. Init => TypeOK /\ ToldInv
  BY TypeInit DEF Init, ToldInv, Starting, Started, AllTold
<1>2. TypeOK /\ ToldInv /\ [Next]_vars => TypeOK' /\ ToldInv'
  BY TypeStep, ToldStep
<1>3. ToldInv => NothingLeftRunning
  BY DEF ToldInv, AllTold, NothingLeftRunning
<1> QED
  BY <1>1, <1>2, <1>3, PTL DEF Spec

-----------------------------------------------------------------------------
(***************************************************************************)
(* The script comes to its end.  OneEndsAllEnd and SignalStopsAll need     *)
(* fairness; what they need of the program itself is proved here: its      *)
(* loops end, and it waits only for processes that end.                    *)
(***************************************************************************)

ScriptRank ==
  IF at = "ports" THEN 4 * N + 3 ELSE
  IF at = "spawn" THEN 2 * (N - next) + 2 * N + 4 ELSE
  IF at = "assign" THEN 2 * (N - next) + 2 * N + 3 ELSE
  IF at = "wait" THEN 2 * N + 2 ELSE IF at = "stopAll" THEN 2 * N + 1 ELSE
  IF at = "kill" THEN N + (N - next) + 1 ELSE
  IF at = "reap" THEN (N - next) + 1 ELSE 0

ScriptIsBounded ==
  [][ScriptRank' <= ScriptRank /\ (Main => ScriptRank' < ScriptRank)]_vars

\* The script takes at most 4 * N + 3 steps of its own: neither an end of a
\* child nor a signal, however many there are, sends it back.
THEOREM ScriptTakesBoundedSteps ==
  Spec => [](ScriptRank \in 0 .. 4 * N + 3) /\ ScriptIsBounded
<1> USE DevAssumption DEF DevAssumption, TypeOK, Process, ScriptRank, Advance, AfterStopAll
<1>1. ASSUME TypeOK PROVE ScriptRank \in 0 .. 4 * N + 3
  BY <1>1
<1>2. ASSUME TypeOK, Main PROVE ScriptRank' < ScriptRank /\ ScriptRank' <= ScriptRank
  <2>1. CASE CheckPorts \/ Spawn \/ AssignPid \/ SpawnFails
    BY <1>2, <2>1 DEF CheckPorts, Spawn, AssignPid, SpawnFails
  <2>2. ASSUME NEW c \in Process, Wait(c)
        PROVE  ScriptRank' < ScriptRank /\ ScriptRank' <= ScriptRank
    BY <1>2, <2>2 DEF Wait
  <2>3. CASE StopAll \/ KillNext \/ ReapNext
    BY <1>2, <2>3 DEF StopAll, KillNext, ReapNext
  <2> QED
    BY <1>2, <2>1, <2>2, <2>3 DEF Main
<1>3. ASSUME TypeOK, NEW group, Signalled(group) PROVE ScriptRank' <= ScriptRank
  BY <1>3 DEF Signalled
<1>4. ASSUME TypeOK, NEW c \in Process, ChildEnds(c) PROVE ScriptRank' <= ScriptRank
  BY <1>4 DEF ChildEnds
<1>5. TypeOK /\ [Next]_vars =>
        [ScriptRank' <= ScriptRank /\ (Main => ScriptRank' < ScriptRank)]_vars
  BY <1>2, <1>3, <1>4 DEF Next, Terminate, Interrupt
<1> QED
  BY <1>1, <1>5, TypeCorrect, PTL DEF Spec, ScriptIsBounded

\* Until the first of them has been reaped everybody runs or has ended.
WaitInv ==
  /\ at = "ports" => next = 1
  /\ at \in {"ports", "spawn", "assign", "wait"} =>
       \A c \in Process : child[c] # "reaped"
  /\ at = "spawn" => \A c \in Process : c < next => child[c] # "none"
  /\ at = "assign" => \A c \in Process : c <= next => child[c] # "none"
  /\ at = "wait" => \A c \in Process : child[c] # "none"

LEMMA WaitStep == ASSUME TypeOK, WaitInv, [Next]_vars PROVE WaitInv'
<1> USE DevAssumption DEF DevAssumption, TypeOK, Process, Advance, AfterStopAll, WaitInv
<1>1. CASE UNCHANGED vars
  BY <1>1 DEF vars
<1>2. CASE CheckPorts  BY <1>2 DEF CheckPorts
<1>3. CASE Spawn       BY <1>3 DEF Spawn
<1>4. CASE AssignPid   BY <1>4 DEF AssignPid
<1>5. CASE SpawnFails  BY <1>5 DEF SpawnFails
<1>6. ASSUME NEW c \in Process, Wait(c) PROVE WaitInv'
  BY <1>6 DEF Wait
<1>7. CASE StopAll \/ KillNext \/ ReapNext
  BY <1>7 DEF StopAll, KillNext, ReapNext
<1>8. ASSUME NEW c \in Process, ChildEnds(c) PROVE WaitInv'
  BY <1>8 DEF ChildEnds
<1>9. ASSUME NEW group, Signalled(group) PROVE WaitInv'
  BY <1>9 DEF Signalled
<1> QED
  BY <1>1, <1>2, <1>3, <1>4, <1>5, <1>6, <1>7, <1>8, <1>9
     DEF Next, Main, Terminate, Interrupt

\* Once one has ended or a signal came, whoever the script waits for has ended
\* or was told to.
WaitsForTheTold ==
  ~early =>
    /\ at = "wait" /\ (shuttingDown \/ SomeoneEnded) =>
         \E c \in Process : child[c] = "ended" \/ (child[c] = "running" /\ told[c])
    /\ at = "reap" /\ child[next] = "running" => told[next]

\* Unless a signal came before all were started, the script is never left
\* waiting for a process that nobody told to stop.
THEOREM NeverWaitsForTheUntold == Spec => []WaitsForTheTold
<1>1. Init => TypeOK /\ ToldInv /\ WaitInv
  BY TypeInit, DevAssumption
     DEF Init, ToldInv, WaitInv, Starting, Started, AllTold, Process, DevAssumption
<1>2. TypeOK /\ ToldInv /\ WaitInv /\ [Next]_vars => TypeOK' /\ ToldInv' /\ WaitInv'
  BY TypeStep, ToldStep, WaitStep
<1>3. ASSUME TypeOK, ToldInv, WaitInv PROVE WaitsForTheTold
  <2>1. 1 \in Process /\ next \in Process
    BY <1>3, DevAssumption DEF TypeOK, Process, DevAssumption
  <2>2. at = "wait" => \A c \in Process : child[c] \in {"running", "ended"}
    BY <1>3 DEF WaitInv, TypeOK
  <2> QED
    BY <1>3, <2>1, <2>2 DEF WaitsForTheTold, ToldInv, AllTold, SomeoneEnded
<1> QED
  BY <1>1, <1>2, <1>3, PTL DEF Spec
=============================================================================
