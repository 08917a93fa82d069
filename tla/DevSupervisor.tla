---------------------------- MODULE DevSupervisor ----------------------------
(***************************************************************************)
(* bin/dev: one foreground script starts the web server, the worker and    *)
(* Vite, waits for the first of them to end, and stops the others.         *)
(*                                                                         *)
(* The main program is interrupted by its INT and TERM handlers between    *)
(* any two of its steps, a process's spawn and the assignment of its pid   *)
(* included.  A handler is one step: Ruby runs no other one inside it.     *)
(* SIGTERM reaches the script alone; Ctrl-C reaches its process group, the *)
(* children included.  pids are not reused.                                *)
(***************************************************************************)
EXTENDS Naturals

CONSTANTS N,            \* the processes, in the order of the array
          MayBeMissing  \* the processes whose command may not be found

ASSUME DevAssumption ==
  /\ N \in Nat \ {0}
  /\ MayBeMissing \subseteq 1 .. N

VARIABLES
  at,            \* where the main program is
  next,          \* the process its loop has come to
  child,         \* what became of each process
  pid,           \* does the script know each one's pid
  told,          \* has each one been sent a signal
  shuttingDown,  \* shutting_down
  missing,       \* was a command not found
  early          \* history: did a signal arrive while processes were being started

vars == <<at, next, child, pid, told, shuttingDown, missing, early>>

Process == 1 .. N

Started  == {c \in Process : child[c] # "none"}
Starting == at \in {"spawn", "assign"}

TypeOK ==
  /\ at \in {"ports", "spawn", "assign", "wait", "stopAll", "kill", "reap", "exited"}
  /\ next \in Process
  /\ child \in [Process -> {"none", "running", "ended", "reaped"}]
  /\ pid \in [Process -> BOOLEAN]
  /\ told \in [Process -> BOOLEAN]
  /\ shuttingDown \in BOOLEAN
  /\ missing \in BOOLEAN
  /\ early \in BOOLEAN

Init ==
  /\ at = "ports"
  /\ next = 1
  /\ child = [c \in Process |-> "none"]
  /\ pid = [c \in Process |-> FALSE]
  /\ told = [c \in Process |-> FALSE]
  /\ shuttingDown = FALSE
  /\ missing = FALSE
  /\ early = FALSE

\* A loop of the main program goes on to the next process, or leaves after
\* the last one.
Advance(again, after) ==
  /\ next' = IF next < N THEN next + 1 ELSE 1
  /\ at' = IF next < N THEN again ELSE after

-----------------------------------------------------------------------------
(***************************************************************************)
(* Starting.                                                               *)
(***************************************************************************)

\* check_ports! exits when a port is taken.
CheckPorts ==
  /\ at = "ports"
  /\ at' \in {"spawn", "exited"}
  /\ UNCHANGED <<next, child, pid, told, shuttingDown, missing, early>>

Spawn ==
  /\ at = "spawn"
  /\ child' = [child EXCEPT ![next] = "running"]
  /\ at' = "assign"
  /\ UNCHANGED <<next, pid, told, shuttingDown, missing, early>>

AssignPid ==
  /\ at = "assign"
  /\ pid' = [pid EXCEPT ![next] = TRUE]
  /\ Advance("spawn", "wait")
  /\ UNCHANGED <<child, told, shuttingDown, missing, early>>

\* Faulty variant: the script leaves at once.
SpawnFailsAndExits ==
  /\ at = "spawn" /\ next \in MayBeMissing
  /\ missing' = TRUE
  /\ at' = "exited"
  /\ UNCHANGED <<next, child, pid, told, shuttingDown, early>>

\* Errno::ENOENT: stop_all, then exit 1.
SpawnFails ==
  /\ at = "spawn" /\ next \in MayBeMissing
  /\ missing' = TRUE
  /\ at' = "stopAll"
  /\ UNCHANGED <<next, child, pid, told, shuttingDown, early>>

-----------------------------------------------------------------------------
(***************************************************************************)
(* Supervising.                                                            *)
(***************************************************************************)

\* Process.wait2 returns with whichever child has ended.
Wait(c) ==
  /\ at = "wait" /\ child[c] = "ended"
  /\ child' = [child EXCEPT ![c] = "reaped"]
  /\ at' = "stopAll"
  /\ UNCHANGED <<next, pid, told, shuttingDown, missing, early>>

AfterStopAll == IF missing THEN "exited" ELSE "reap"

\* stop_all returns at once when it has been called before.
StopAll ==
  /\ at = "stopAll"
  /\ shuttingDown' = TRUE
  /\ next' = 1
  /\ at' = IF shuttingDown THEN AfterStopAll ELSE "kill"
  /\ UNCHANGED <<child, pid, told, missing, early>>

\* Faulty variant: the last process is forgotten.
KillNextButLast ==
  /\ at = "kill"
  /\ told' = [told EXCEPT ![next] = @ \/ (pid[next] /\ next < N)]
  /\ Advance("kill", AfterStopAll)
  /\ UNCHANGED <<child, pid, shuttingDown, missing, early>>

KillNext ==
  /\ at = "kill"
  /\ told' = [told EXCEPT ![next] = @ \/ pid[next]]
  /\ Advance("kill", AfterStopAll)
  /\ UNCHANGED <<child, pid, shuttingDown, missing, early>>

\* Faulty variant: a child that still runs is not waited for.
ReapNextIfEnded ==
  /\ at = "reap"
  /\ child' = [child EXCEPT ![next] = IF @ = "ended" THEN "reaped" ELSE @]
  /\ Advance("reap", "exited")
  /\ UNCHANGED <<pid, told, shuttingDown, missing, early>>

\* Process.wait blocks while the child runs; a reaped one is Errno::ECHILD.
ReapNext ==
  /\ at = "reap" /\ child[next] # "running"
  /\ child' = [child EXCEPT ![next] = "reaped"]
  /\ Advance("reap", "exited")
  /\ UNCHANGED <<pid, told, shuttingDown, missing, early>>

-----------------------------------------------------------------------------
(***************************************************************************)
(* The children and the signals.                                           *)
(***************************************************************************)

ChildEnds(c) ==
  /\ child[c] = "running"
  /\ child' = [child EXCEPT ![c] = "ended"]
  /\ UNCHANGED <<at, next, pid, told, shuttingDown, missing, early>>

\* A process that was told to stop does so.
ChildObeys(c) == told[c] /\ ChildEnds(c)

\* Faulty variant: stop_all has remembered the call and does nothing else.
SignalledOnce(group) ==
  /\ at # "exited"
  /\ early' = (early \/ Starting)
  /\ at' = IF at = "ports" THEN "exited" ELSE at
  /\ shuttingDown' = (shuttingDown \/ at # "ports")
  /\ told' = [c \in Process |-> told[c] \/ c \in group]
  /\ UNCHANGED <<next, child, pid, missing>>

\* The handler calls stop_all, which reaches the pids assigned so far; before
\* the trap is set the signal ends the script.  `group` are the children the
\* terminal itself interrupts.
Signalled(group) ==
  /\ at # "exited"
  /\ early' = (early \/ Starting)
  /\ at' = IF at = "ports" THEN "exited" ELSE at
  /\ shuttingDown' = (shuttingDown \/ at # "ports")
  /\ told' = [c \in Process |->
                told[c] \/ c \in group \/ (~shuttingDown /\ pid[c])]
  /\ UNCHANGED <<next, child, pid, missing>>

Terminate == Signalled({})
Interrupt == Signalled({c \in Process : child[c] = "running"})

-----------------------------------------------------------------------------
Main ==
  \/ CheckPorts \/ Spawn \/ AssignPid \/ SpawnFails
  \/ \E c \in Process : Wait(c)
  \/ StopAll \/ KillNext \/ ReapNext

Next ==
  \/ Main
  \/ \E c \in Process : ChildEnds(c)
  \/ Terminate \/ Interrupt

Spec == Init /\ [][Next]_vars

\* The operating system runs the script, and a process that was told to stop
\* does; nothing makes one end that was not.
FairSpec ==
  Spec /\ WF_vars(Main) /\ \A c \in Process : WF_vars(ChildObeys(c))

-----------------------------------------------------------------------------
(***************************************************************************)
(* Properties.                                                             *)
(***************************************************************************)

\* When the script has come to its end the ordinary way, there is no process
\* of its making left, not even an unreaped one, whatever the signals did.
NormalExitLeavesNobody ==
  at = "exited" /\ ~missing => \A c \in Started : child[c] = "reaped"

\* A script that has gone, also because a command was not found, has told
\* every process it started to stop, unless a signal had come before all of
\* them were started.
NothingLeftRunning ==
  at = "exited" /\ ~early => \A c \in Process : child[c] = "running" => told[c]

\* The header (bin/dev:9-14): when one exits, the rest are stopped, and so is
\* the script, unless a signal had come before all of them were started.
SomeoneEnded == \E c \in Process : child[c] \in {"ended", "reaped"}
AllStopped   == at = "exited" /\ \A c \in Process : child[c] # "running"

OneEndsAllEnd == []~early => (SomeoneEnded ~> AllStopped)

\* A signal once the processes run stops them and the script.
SignalStopsAll == []~early => (shuttingDown ~> AllStopped)

\* README.md:40-42, without the reservation: "If any of them dies, it says
\* which and stops the others".
IfAnyDies == SomeoneEnded ~> \A c \in Process : child[c] # "running"
=============================================================================
