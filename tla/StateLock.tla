------------------------------ MODULE StateLock ------------------------------
(***************************************************************************)
(* with_lock and write_json of tools/opanel-loop/scripts/_lib.sh: how a    *)
(* command of tasks.sh or review-state.sh updates its JSON document.       *)
(*                                                                         *)
(* A process is one invocation of a script, so it takes the lock once and  *)
(* its identity is its pid.  Where flock exists the kernel releases the    *)
(* lock when the process dies.  Elsewhere the lock is a directory that     *)
(* holds a pid file, released by the EXIT trap, and a waiter that reads    *)
(* the pid of a dead process removes it.  The document is the set of the   *)
(* updates it contains; jq reads it into a temporary file and mv replaces  *)
(* it, so the read and the replacement are two steps.                      *)
(***************************************************************************)
EXTENDS Naturals

CONSTANTS Proc,       \* the script invocations
          None,       \* no process
          MaxWait,    \* tries before giving up (100 in the script)
          MayCrash,   \* the processes that may be killed outright
          MayTerm     \* the processes that may receive SIGTERM

ASSUME LockAssumption ==
  /\ None \notin Proc
  /\ MaxWait \in Nat \ {0}
  /\ MayCrash \subseteq Proc
  /\ MayTerm \subseteq Proc

VARIABLES
  hasFlock,   \* does `command -v flock` find one
  pc,         \* where each process is
  holder,     \* the process that holds the flock, or None
  dir,        \* does the lock directory exist
  pidfile,    \* the pid in it, None when the pid file is missing or empty
  seen,       \* the pid each waiter read
  waited,     \* the tries each waiter has used
  file,       \* the document
  tmp,        \* the temporary file each process filled
  applied,    \* history: the processes whose mv happened
  broke,      \* history: has any waiter removed a lock it thought stale
  termed      \* history: the processes SIGTERM was delivered to in time

lockVars == <<holder, dir, pidfile>>
docVars  == <<file, tmp, applied>>
vars == <<hasFlock, pc, holder, dir, pidfile, seen, waited, file, tmp,
          applied, broke, termed>>

Waiting  == {"enter", "observe", "probe", "breakPid", "breakDir"}
Critical == {"read", "rename"}
Leaving  == {"exitPid", "exitDir"}
Ended    == {"exited", "failed", "gaveup", "killed"}

TypeOK ==
  /\ hasFlock \in BOOLEAN
  /\ pc \in [Proc -> Waiting \cup {"stamp"} \cup Critical
                       \cup {"unlock"} \cup Leaving \cup Ended]
  /\ holder \in Proc \cup {None}
  /\ dir \in BOOLEAN
  /\ pidfile \in Proc \cup {None}
  /\ seen \in [Proc -> Proc \cup {None}]
  /\ waited \in [Proc -> 0 .. MaxWait]
  /\ file \subseteq Proc
  /\ tmp \in [Proc -> SUBSET Proc]
  /\ applied \subseteq Proc
  /\ broke \in BOOLEAN
  /\ termed \subseteq Proc

Init ==
  /\ hasFlock \in BOOLEAN
  /\ pc = [p \in Proc |-> "enter"]
  /\ holder = None
  /\ dir = FALSE
  /\ pidfile = None
  /\ seen = [p \in Proc |-> None]
  /\ waited = [p \in Proc |-> 0]
  /\ file = {}
  /\ tmp = [p \in Proc |-> {}]
  /\ applied = {}
  /\ broke = FALSE
  /\ termed = {}

Goto(p, place) == pc' = [pc EXCEPT ![p] = place]

\* kill -0: a process answers until it has ended.
Dead(p) == pc[p] \in Ended

-----------------------------------------------------------------------------
(***************************************************************************)
(* Taking the lock.                                                        *)
(***************************************************************************)

\* Faulty variant: the flock is not waited for.
FlockIgnored(p) == TRUE

\* flock 9 returns once nobody holds the lock.
FlockFree(p) == holder = None
TakeFlock(p) ==
  /\ pc[p] = "enter" /\ hasFlock
  /\ FlockFree(p)
  /\ holder' = p
  /\ Goto(p, "read")
  /\ UNCHANGED <<hasFlock, dir, pidfile, seen, waited, docVars, broke, termed>>

\* Faulty variant: mkdir -p, which also succeeds on an existing directory.
MkdirParents(p) ==
  /\ pc[p] = "enter" /\ ~hasFlock
  /\ dir' = TRUE
  /\ Goto(p, "stamp")
  /\ UNCHANGED <<hasFlock, holder, pidfile, seen, waited, docVars, broke, termed>>

\* mkdir is atomic: it creates the directory or finds it there.
Mkdir(p) ==
  /\ pc[p] = "enter" /\ ~hasFlock
  /\ dir' = TRUE
  /\ Goto(p, IF dir THEN "observe" ELSE "stamp")
  /\ UNCHANGED <<hasFlock, holder, pidfile, seen, waited, docVars, broke, termed>>

\* A missing, unreadable or still empty pid file reads as no pid.
Observe(p) ==
  /\ pc[p] = "observe"
  /\ seen' = [seen EXCEPT ![p] = pidfile]
  /\ Goto(p, "probe")
  /\ UNCHANGED <<hasFlock, lockVars, waited, docVars, broke, termed>>

\* The liveness check on the pid that was read, which may be an old one by now.
Stale(p) == seen[p] # None /\ Dead(seen[p])

ProbeStale(p) ==
  /\ pc[p] = "probe" /\ Stale(p)
  /\ Goto(p, "breakPid")
  /\ UNCHANGED <<hasFlock, lockVars, seen, waited, docVars, broke, termed>>

\* Faulty variants: one try too many, and tries that are not counted.
ProbeWaitLonger(p) ==
  /\ pc[p] = "probe" /\ ~Stale(p)
  /\ waited' = [waited EXCEPT ![p] = @ + 1]
  /\ Goto(p, IF waited[p] + 1 <= MaxWait THEN "enter" ELSE "gaveup")
  /\ UNCHANGED <<hasFlock, lockVars, seen, docVars, broke, termed>>

ProbeWaitForever(p) ==
  /\ pc[p] = "probe" /\ ~Stale(p)
  /\ Goto(p, "enter")
  /\ UNCHANGED <<hasFlock, lockVars, seen, waited, docVars, broke, termed>>

ProbeWait(p) ==
  /\ pc[p] = "probe" /\ ~Stale(p)
  /\ waited' = [waited EXCEPT ![p] = @ + 1]
  /\ Goto(p, IF waited[p] + 1 < MaxWait THEN "enter" ELSE "gaveup")
  /\ UNCHANGED <<hasFlock, lockVars, seen, docVars, broke, termed>>

\* rm -f "$dir/pid", whoever's pid it holds now.
BreakPid(p) ==
  /\ pc[p] = "breakPid"
  /\ pidfile' = None
  /\ broke' = TRUE
  /\ Goto(p, "breakDir")
  /\ UNCHANGED <<hasFlock, holder, dir, seen, waited, docVars, termed>>

\* rmdir removes the directory only when it is empty.
RemoveDir == dir' = (dir /\ pidfile # None)

BreakDir(p) ==
  /\ pc[p] = "breakDir"
  /\ RemoveDir
  /\ Goto(p, "enter")
  /\ UNCHANGED <<hasFlock, holder, pidfile, seen, waited, docVars, broke, termed>>

\* The new owner writes its pid and sets the trap; the redirection fails, and
\* set -e ends the script, when somebody removed the directory meanwhile.
Stamp(p) ==
  /\ pc[p] = "stamp"
  /\ pidfile' = IF dir THEN p ELSE pidfile
  /\ Goto(p, IF dir THEN "read" ELSE "failed")
  /\ UNCHANGED <<hasFlock, holder, dir, seen, waited, docVars, broke, termed>>

-----------------------------------------------------------------------------
(***************************************************************************)
(* Updating the document and letting go.                                   *)
(***************************************************************************)

\* Where a process goes after write_json: flock is closed, the directory is
\* left to the EXIT trap.
AfterWrite(p) == IF hasFlock THEN "unlock" ELSE "exitPid"

\* jq reads the document and writes the updated one to the temporary file.
JqRead(p) ==
  /\ pc[p] = "read"
  /\ tmp' = [tmp EXCEPT ![p] = file \cup {p}]
  /\ Goto(p, "rename")
  /\ UNCHANGED <<hasFlock, lockVars, seen, waited, file, applied, broke, termed>>

\* jq fails or produces nothing: the temporary file goes and the script dies.
JqFails(p) ==
  /\ pc[p] = "read"
  /\ Goto(p, AfterWrite(p))
  /\ UNCHANGED <<hasFlock, lockVars, seen, waited, docVars, broke, termed>>

\* mv replaces the document with the temporary file.
Rename(p) ==
  /\ pc[p] = "rename"
  /\ file' = tmp[p]
  /\ applied' = applied \cup {p}
  /\ Goto(p, AfterWrite(p))
  /\ UNCHANGED <<hasFlock, lockVars, seen, waited, tmp, broke, termed>>

Unlock(p) ==
  /\ pc[p] = "unlock"
  /\ holder' = None
  /\ Goto(p, "exited")
  /\ UNCHANGED <<hasFlock, dir, pidfile, seen, waited, docVars, broke, termed>>

\* The EXIT trap removes the pid file and the directory, whoever's they are.
ExitPid(p) ==
  /\ pc[p] = "exitPid"
  /\ pidfile' = None
  /\ Goto(p, "exitDir")
  /\ UNCHANGED <<hasFlock, holder, dir, seen, waited, docVars, broke, termed>>

ExitDir(p) ==
  /\ pc[p] = "exitDir"
  /\ RemoveDir
  /\ Goto(p, "exited")
  /\ UNCHANGED <<hasFlock, holder, pidfile, seen, waited, docVars, broke, termed>>

-----------------------------------------------------------------------------
(***************************************************************************)
(* What the environment does to a process.                                 *)
(***************************************************************************)

\* SIGKILL or a lost machine: no trap runs, the kernel drops the flock.
Kill(p) ==
  /\ p \in MayCrash /\ ~Dead(p)
  /\ Goto(p, "killed")
  /\ holder' = IF holder = p THEN None ELSE holder
  /\ UNCHANGED <<hasFlock, dir, pidfile, seen, waited, docVars, broke, termed>>

\* SIGTERM once the trap is set: bash runs the handler, which releases the
\* lock, and then goes on with the script, since the handler does not exit.
Term(p) ==
  /\ p \in MayTerm \ termed
  /\ ~hasFlock /\ pc[p] \in Critical
  /\ termed' = termed \cup {p}
  /\ pidfile' = None
  /\ dir' = FALSE
  /\ UNCHANGED <<hasFlock, pc, holder, seen, waited, docVars, broke>>

-----------------------------------------------------------------------------
Step(p) ==
  \/ TakeFlock(p) \/ Mkdir(p) \/ Observe(p) \/ ProbeStale(p) \/ ProbeWait(p)
  \/ BreakPid(p) \/ BreakDir(p) \/ Stamp(p) \/ JqRead(p) \/ JqFails(p)
  \/ Rename(p) \/ Unlock(p) \/ ExitPid(p) \/ ExitDir(p)

Next == \E p \in Proc : Step(p) \/ Kill(p) \/ Term(p)

Spec == Init /\ [][Next]_vars

\* The operating system keeps running every script it has started.
FairSpec == Spec /\ \A p \in Proc : WF_vars(Step(p))

-----------------------------------------------------------------------------
(***************************************************************************)
(* Properties.                                                             *)
(***************************************************************************)

\* _lib.sh says every write goes through with_lock: no two processes are
\* between reading the document and replacing it.
MutualExclusion ==
  \A p, q \in Proc : pc[p] \in Critical /\ pc[q] \in Critical => p = q

\* A command that reported success is still in the document.
NoLostUpdate == applied \subseteq file

\* With flock, the lock excludes and no update is lost, however many
\* processes are killed and whenever.
FlockProtects == hasFlock => MutualExclusion /\ NoLostUpdate

\* The mkdir fallback protects the document as long as no waiter has
\* removed a lock it took for stale and no owner has been signalled.
FallbackProtectsUntilBroken ==
  ~broke /\ termed = {} => MutualExclusion /\ NoLostUpdate

\* Every command ends: it takes the lock, gives up after MaxWait tries, or dies.
EveryCommandEnds == \A p \in Proc : <>(pc[p] \in Ended)

\* With flock, a script's update is an indivisible update of the document.
\* (On a system without flock the mapped state is the constant initial one:
\* nothing is claimed about the fallback here.)
Outcome(p) ==
  IF p \in applied THEN "applied" ELSE IF Dead(p) THEN "failed" ELSE "pending"

Store == INSTANCE AtomicStore WITH
  store   <- IF hasFlock THEN file ELSE {},
  outcome <- [p \in Proc |-> IF hasFlock THEN Outcome(p) ELSE "pending"]

FlockImplementsAtomicStore == Store!Spec
=============================================================================
