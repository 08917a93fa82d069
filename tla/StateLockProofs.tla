--------------------------- MODULE StateLockProofs ---------------------------
(***************************************************************************)
(* What holds of StateLock for any set of processes, any number of tries   *)
(* and any of them killed or signalled: type correctness, the exclusion    *)
(* and the absence of lost updates with flock and, until a waiter breaks a *)
(* lock or an owner is signalled, without it, the refinement of            *)
(* AtomicStore, and how many steps a command can take.                     *)
(***************************************************************************)
EXTENDS StateLock, FiniteSetTheorems, TLAPS

USE DEF Waiting, Critical, Leaving, Ended

\* A process that still waits has tries left.
TriesLeft == \A p \in Proc : pc[p] \in Waiting => waited[p] < MaxWait

TypeInv == TypeOK /\ TriesLeft

LEMMA TypeInit == ASSUME Init PROVE TypeInv
<1> USE LockAssumption DEF LockAssumption, Init
<1>1. hasFlock \in BOOLEAN /\ holder \in Proc \cup {None} /\ dir \in BOOLEAN
      /\ pidfile \in Proc \cup {None}
  OBVIOUS
<1>2. pc \in [Proc -> Waiting \cup {"stamp"} \cup Critical
                       \cup {"unlock"} \cup Leaving \cup Ended]
  OBVIOUS
<1>3. seen \in [Proc -> Proc \cup {None}] /\ tmp \in [Proc -> SUBSET Proc]
  OBVIOUS
<1>4. waited \in [Proc -> 0 .. MaxWait] /\ TriesLeft
  BY DEF TriesLeft
<1>5. file \subseteq Proc /\ applied \subseteq Proc /\ broke \in BOOLEAN
      /\ termed \subseteq Proc
  OBVIOUS
<1> QED
  BY <1>1, <1>2, <1>3, <1>4, <1>5 DEF TypeInv, TypeOK

LEMMA TypeStep == ASSUME TypeInv, [Next]_vars PROVE TypeInv'
<1> USE LockAssumption DEF TypeInv, TypeOK, TriesLeft, lockVars, docVars, Goto, LockAssumption
<1>1. CASE UNCHANGED vars
  BY <1>1 DEF vars
<1>2. ASSUME NEW p \in Proc, Step(p) PROVE TypeInv'
  <2>1. CASE TakeFlock(p)   BY <2>1 DEF TakeFlock
  <2>2. CASE Mkdir(p)       BY <2>2 DEF Mkdir
  <2>3. CASE Observe(p)     BY <2>3 DEF Observe
  <2>4. CASE ProbeStale(p)  BY <2>4 DEF ProbeStale
  <2>5. CASE ProbeWait(p)   BY <2>5 DEF ProbeWait
  <2>6. CASE BreakPid(p)    BY <2>6 DEF BreakPid
  <2>7. CASE BreakDir(p)    BY <2>7 DEF BreakDir, RemoveDir
  <2>8. CASE Stamp(p)       BY <2>8 DEF Stamp
  <2>9. CASE JqRead(p)      BY <2>9 DEF JqRead
  <2>10. CASE JqFails(p)    BY <2>10 DEF JqFails, AfterWrite
  <2>11. CASE Rename(p)     BY <2>11 DEF Rename, AfterWrite
  <2>12. CASE Unlock(p)     BY <2>12 DEF Unlock
  <2>13. CASE ExitPid(p)    BY <2>13 DEF ExitPid
  <2>14. CASE ExitDir(p)    BY <2>14 DEF ExitDir, RemoveDir
  <2> QED
    BY <1>2, <2>1, <2>2, <2>3, <2>4, <2>5, <2>6, <2>7, <2>8, <2>9, <2>10,
       <2>11, <2>12, <2>13, <2>14 DEF Step
<1>3. ASSUME NEW p \in Proc, Kill(p) PROVE TypeInv'
  BY <1>3 DEF Kill
<1>4. ASSUME NEW p \in Proc, Term(p) PROVE TypeInv'
  BY <1>4 DEF Term
<1> QED
  BY <1>1, <1>2, <1>3, <1>4 DEF Next

\* No step takes a variable out of its type, the number of tries included: a
\* waiter stops at MaxWait because one that still waits has tries left.
THEOREM TypeCorrect == Spec => []TypeOK
<1>1. Init => TypeInv
  BY TypeInit
<1>2. TypeInv /\ [Next]_vars => TypeInv'
  BY TypeStep
<1>3. TypeInv => TypeOK
  BY DEF TypeInv
<1> QED
  BY <1>1, <1>2, <1>3, PTL DEF Spec

-----------------------------------------------------------------------------
(***************************************************************************)
(* Where flock exists.                                                     *)
(***************************************************************************)

\* Whoever is past flock holds it, works from the document as it is now, and
\* has not replaced it before.
FlockInv ==
  hasFlock =>
    /\ \A p \in Proc :
         /\ pc[p] \in {"enter", "unlock"} \cup Critical \cup Ended
         /\ pc[p] \in Critical \cup {"unlock"} => holder = p
         /\ pc[p] = "rename" => tmp[p] = file \cup {p}
         /\ pc[p] \in {"enter"} \cup Critical => p \notin applied
    /\ NoLostUpdate

LEMMA FlockInit == ASSUME Init PROVE FlockInv
BY DEF Init, FlockInv, NoLostUpdate

LEMMA FlockStep ==
  ASSUME TypeInv, FlockInv, [Next]_vars PROVE FlockInv'
<1> USE LockAssumption DEF LockAssumption, TypeInv, TypeOK, FlockInv,
      NoLostUpdate, lockVars, docVars, Goto
<1>1. CASE UNCHANGED vars
  BY <1>1 DEF vars
<1>2. ASSUME NEW p \in Proc, Step(p) PROVE FlockInv'
  <2>1. CASE TakeFlock(p)   BY <2>1 DEF TakeFlock, FlockFree
  <2>2. CASE Mkdir(p)       BY <2>2 DEF Mkdir
  <2>3. CASE Observe(p)     BY <2>3 DEF Observe
  <2>4. CASE ProbeStale(p)  BY <2>4 DEF ProbeStale
  <2>5. CASE ProbeWait(p)   BY <2>5 DEF ProbeWait
  <2>6. CASE BreakPid(p)    BY <2>6 DEF BreakPid
  <2>7. CASE BreakDir(p)    BY <2>7 DEF BreakDir, RemoveDir
  <2>8. CASE Stamp(p)       BY <2>8 DEF Stamp
  <2>9. CASE JqRead(p)      BY <2>9 DEF JqRead
  <2>10. CASE JqFails(p)    BY <2>10 DEF JqFails, AfterWrite
  <2>11. CASE Rename(p)     BY <2>11 DEF Rename, AfterWrite
  <2>12. CASE Unlock(p)     BY <2>12 DEF Unlock
  <2>13. CASE ExitPid(p)    BY <2>13 DEF ExitPid
  <2>14. CASE ExitDir(p)    BY <2>14 DEF ExitDir, RemoveDir
  <2> QED
    BY <1>2, <2>1, <2>2, <2>3, <2>4, <2>5, <2>6, <2>7, <2>8, <2>9, <2>10,
       <2>11, <2>12, <2>13, <2>14 DEF Step
<1>3. ASSUME NEW p \in Proc, Kill(p) PROVE FlockInv'
  BY <1>3 DEF Kill, Dead
<1>4. ASSUME NEW p \in Proc, Term(p) PROVE FlockInv'
  BY <1>4 DEF Term
<1> QED
  BY <1>1, <1>2, <1>3, <1>4 DEF Next

\* With flock at most one process is between its read and its rename, and no
\* update that was reported is lost, whoever is killed and whenever.
THEOREM FlockProtectsAlways == Spec => []FlockProtects
<1>1. Init => TypeInv /\ FlockInv
  BY TypeInit, FlockInit
<1>2. TypeInv /\ FlockInv /\ [Next]_vars => TypeInv' /\ FlockInv'
  BY TypeStep, FlockStep
<1>3. FlockInv => FlockProtects
  BY DEF FlockInv, FlockProtects, MutualExclusion
<1> QED
  BY <1>1, <1>2, <1>3, PTL DEF Spec

-----------------------------------------------------------------------------
(***************************************************************************)
(* Where the lock is a directory.                                          *)
(***************************************************************************)

\* A process that made the directory and has not yet removed it.
Owning == {"stamp", "read", "rename", "exitPid", "exitDir"}

Unbroken == ~hasFlock /\ ~broke /\ termed = {}

\* The directory stands as long as somebody owns it, so that mkdir lets nobody
\* else in.  A killed owner leaves it behind, which only excludes more.
FallbackInv ==
  Unbroken =>
    /\ \A p \in Proc :
         /\ pc[p] \notin {"breakDir", "unlock"}
         /\ pc[p] \in Owning => dir
         /\ pc[p] = "rename" => tmp[p] = file \cup {p}
    /\ \A p, q \in Proc : pc[p] \in Owning /\ pc[q] \in Owning => p = q
    /\ NoLostUpdate

LEMMA FallbackInit == ASSUME Init PROVE FallbackInv
BY DEF Init, FallbackInv, Owning, NoLostUpdate

LEMMA FallbackStep ==
  ASSUME TypeInv, FallbackInv, [Next]_vars PROVE FallbackInv'
<1> USE DEF TypeInv, TypeOK, FallbackInv, Unbroken, Owning, NoLostUpdate,
      lockVars, docVars, Goto
<1>1. CASE UNCHANGED vars
  BY <1>1 DEF vars
<1>2. ASSUME NEW p \in Proc, Step(p) PROVE FallbackInv'
  <2>1. CASE TakeFlock(p)   BY <2>1 DEF TakeFlock
  <2>2. CASE Mkdir(p)       BY <2>2 DEF Mkdir
  <2>3. CASE Observe(p)     BY <2>3 DEF Observe
  <2>4. CASE ProbeStale(p)  BY <2>4 DEF ProbeStale
  <2>5. CASE ProbeWait(p)   BY <2>5 DEF ProbeWait
  <2>6. CASE BreakPid(p)    BY <2>6 DEF BreakPid
  <2>7. CASE BreakDir(p)    BY <2>7 DEF BreakDir, RemoveDir
  <2>8. CASE Stamp(p)       BY <2>8 DEF Stamp
  <2>9. CASE JqRead(p)      BY <2>9 DEF JqRead
  <2>10. CASE JqFails(p)    BY <2>10 DEF JqFails, AfterWrite
  <2>11. CASE Rename(p)     BY <2>11 DEF Rename, AfterWrite
  <2>12. CASE Unlock(p)     BY <2>12 DEF Unlock
  <2>13. CASE ExitPid(p)    BY <2>13 DEF ExitPid
  <2>14. CASE ExitDir(p)    BY <2>14 DEF ExitDir, RemoveDir
  <2> QED
    BY <1>2, <2>1, <2>2, <2>3, <2>4, <2>5, <2>6, <2>7, <2>8, <2>9, <2>10,
       <2>11, <2>12, <2>13, <2>14 DEF Step
<1>3. ASSUME NEW p \in Proc, Kill(p) PROVE FallbackInv'
  BY <1>3 DEF Kill
<1>4. ASSUME NEW p \in Proc, Term(p) PROVE FallbackInv'
  BY <1>4 DEF Term
<1> QED
  BY <1>1, <1>2, <1>3, <1>4 DEF Next

\* The directory protects the document until a waiter removes a lock it takes
\* for stale, or the owner is signalled, whoever is killed before that.
THEOREM FallbackProtectsAlways == Spec => []FallbackProtectsUntilBroken
<1>1. Init => TypeInv /\ FlockInv /\ FallbackInv
  BY TypeInit, FlockInit, FallbackInit
<1>2. TypeInv /\ FlockInv /\ FallbackInv /\ [Next]_vars
        => TypeInv' /\ FlockInv' /\ FallbackInv'
  BY TypeStep, FlockStep, FallbackStep
<1>3. FlockInv /\ FallbackInv => FallbackProtectsUntilBroken
  BY DEF FlockInv, FallbackInv, Unbroken, Owning, MutualExclusion,
     FallbackProtectsUntilBroken
<1> QED
  BY <1>1, <1>2, <1>3, PTL DEF Spec

-----------------------------------------------------------------------------
(***************************************************************************)
(* The scripts' lock implements the atomic store.                          *)
(***************************************************************************)

LEMMA RefinementInit == ASSUME Init PROVE Store!Init
BY DEF Init, Store!Init, Outcome, Dead

LEMMA RefinementStep ==
  ASSUME TypeInv, FlockInv, [Next]_vars PROVE [Store!Next]_(Store!vars)
<1> USE DEF TypeInv, TypeOK, FlockInv, lockVars, docVars, Goto
<1>1. CASE ~hasFlock
  <2>1. ~hasFlock'
    BY <1>1 DEF Next, Step, vars, TakeFlock, Mkdir, Observe, ProbeStale, ProbeWait,
       BreakPid, BreakDir, Stamp, JqRead, JqFails, Rename, Unlock, ExitPid,
       ExitDir, Kill, Term
  <2> QED
    BY <1>1, <2>1 DEF Store!vars
<1>2. CASE hasFlock /\ UNCHANGED vars
  BY <1>2 DEF vars, Store!vars, Outcome, Dead
<1>3. ASSUME hasFlock, NEW p \in Proc, Step(p) \/ Kill(p) \/ Term(p)
      PROVE  [Store!Next]_(Store!vars)
  <2> USE <1>3 DEF Outcome, Dead
  <2>1. CASE TakeFlock(p)  BY <2>1 DEF TakeFlock, Store!vars
  <2>2. CASE JqRead(p)     BY <2>2 DEF JqRead, Store!vars
  <2>3. CASE JqFails(p)    BY <2>3 DEF JqFails, AfterWrite, Store!vars
  <2>4. CASE Rename(p)     BY <2>4 DEF Rename, AfterWrite, Store!Next, Store!Apply
  <2>5. CASE Unlock(p) \/ Kill(p)
    <3>1. hasFlock' = hasFlock /\ file' = file /\ applied' = applied
      BY <2>5 DEF Unlock, Kill
    <3>2. ~Dead(p) /\ Dead(p)' /\ \A q \in Proc \ {p} : pc'[q] = pc[q]
      BY <2>5 DEF Unlock, Kill
    <3>3. \A q \in Proc \ {p} : Outcome(q)' = Outcome(q)
      BY <3>1, <3>2
    <3>4. CASE p \in applied
      <4>1. Outcome(p)' = Outcome(p)
        BY <3>1, <3>4
      <4> QED
        BY <3>1, <3>3, <4>1 DEF Store!vars
    <3>5. CASE p \notin applied
      <4>1. Outcome(p) = "pending" /\ Outcome(p)' = "failed"
        BY <3>1, <3>2, <3>5
      <4>2. Store!Fail(p)
        BY <3>1, <3>3, <4>1 DEF Store!Fail
      <4> QED
        BY <4>2 DEF Store!Next
    <3> QED
      BY <3>4, <3>5
  <2> QED
    BY <1>3, <2>1, <2>2, <2>3, <2>4, <2>5
       DEF Step, Mkdir, Observe, ProbeStale, ProbeWait, BreakPid, BreakDir, Stamp,
           ExitPid, ExitDir, Term
<1> QED
  BY <1>1, <1>2, <1>3 DEF Next

\* With flock a command is an indivisible update of the document or fails and
\* leaves it alone: the whole of with_lock and write_json, for any processes.
THEOREM Refinement == Spec => FlockImplementsAtomicStore
<1>1. Init => TypeInv /\ FlockInv /\ Store!Init
  BY TypeInit, FlockInit, RefinementInit
<1>2. TypeInv /\ FlockInv /\ [Next]_vars
        => TypeInv' /\ FlockInv' /\ [Store!Next]_(Store!vars)
  BY TypeStep, FlockStep, RefinementStep
<1> QED
  BY <1>1, <1>2, PTL DEF Spec, FlockImplementsAtomicStore, Store!Spec

-----------------------------------------------------------------------------
(***************************************************************************)
(* A command takes a bounded number of steps.  Breaking a stale lock does  *)
(* not count as a try, so the tries alone do not bound a waiter: it breaks *)
(* only a lock whose owner wrote its pid, every command writes its pid     *)
(* once, and each pid that is broken is one that nobody breaks again.      *)
(***************************************************************************)

Unstamped == Waiting \cup {"stamp"}
Fresh     == {p \in Proc : pc[p] \in Unstamped}

\* The pids there are still to break: those not yet written, and the one there.
Credit == Cardinality(Fresh) + (IF pidfile = None THEN 0 ELSE 1)

\* A waiter that read the pid which is still there is about to break it.
Promised(p) ==
  IF pc[p] \in {"probe", "breakPid"} /\ seen[p] # None /\ pidfile = seen[p]
    THEN 1 ELSE 0

PlaceRank(p) ==
  IF pc[p] = "enter" THEN 8 ELSE IF pc[p] = "observe" THEN 7 ELSE
  IF pc[p] = "probe" THEN (IF seen[p] = None THEN 6 ELSE 11) ELSE
  IF pc[p] = "breakPid" THEN 10 ELSE IF pc[p] = "breakDir" THEN 9 ELSE
  IF pc[p] = "stamp" THEN 5 ELSE IF pc[p] = "read" THEN 4 ELSE
  IF pc[p] = "rename" THEN 3 ELSE IF pc[p] = "exitPid" THEN 2 ELSE
  IF pc[p] \in {"exitDir", "unlock"} THEN 1 ELSE 0

Rank(p) == 5 * (Credit - Promised(p) + (MaxWait - waited[p])) + PlaceRank(p)

MostSteps == 5 * (Cardinality(Proc) + MaxWait) + 8

\* Every step of a process brings it nearer to its end, and no step of another
\* one, nor a kill or a signal, takes it farther away.
StepsAreBounded ==
  /\ [](\A p \in Proc : Rank(p) \in 0 .. MostSteps)
  /\ [][\A p \in Proc : Rank(p)' <= Rank(p) /\ (Step(p) => Rank(p)' < Rank(p))]_vars

\* A pid that was written is that of a process which does not write it again.
WrittenOnce ==
  /\ pidfile # None => pidfile \notin Fresh
  /\ \A p \in Proc : seen[p] # None => seen[p] \notin Fresh

LEMMA WrittenOnceStep ==
  ASSUME TypeInv, WrittenOnce, [Next]_vars PROVE WrittenOnce'
<1> USE LockAssumption DEF LockAssumption, TypeInv, TypeOK, WrittenOnce, Fresh,
        Unstamped, lockVars, Goto
<1>1. CASE UNCHANGED vars
  BY <1>1 DEF vars
<1>2. ASSUME NEW p \in Proc, Step(p) PROVE WrittenOnce'
  <2>1. CASE TakeFlock(p) \/ Mkdir(p)
    BY <2>1 DEF TakeFlock, Mkdir
  <2>2. CASE Observe(p) \/ ProbeStale(p) \/ ProbeWait(p)
    BY <2>2 DEF Observe, ProbeStale, ProbeWait
  <2>3. CASE BreakPid(p) \/ BreakDir(p) \/ Stamp(p)
    BY <2>3 DEF BreakPid, BreakDir, Stamp
  <2>4. CASE JqRead(p) \/ JqFails(p) \/ Rename(p)
    BY <2>4 DEF JqRead, JqFails, Rename, AfterWrite
  <2>5. CASE Unlock(p) \/ ExitPid(p) \/ ExitDir(p)
    BY <2>5 DEF Unlock, ExitPid, ExitDir
  <2> QED
    BY <1>2, <2>1, <2>2, <2>3, <2>4, <2>5 DEF Step
<1>3. ASSUME NEW p \in Proc, Kill(p) \/ Term(p) PROVE WrittenOnce'
  BY <1>3 DEF Kill, Term
<1> QED
  BY <1>1, <1>2, <1>3 DEF Next

\* The unstamped processes lose whoever moves on from there.
LEMMA FreshMoves ==
  ASSUME IsFiniteSet(Proc), TypeOK, NEW p \in Proc, NEW place, Goto(p, place)
  PROVE  /\ Cardinality(Fresh) \in Nat
         /\ (pc[p] \in Unstamped <=> place \in Unstamped) =>
              Cardinality(Fresh)' = Cardinality(Fresh)
         /\ pc[p] \in Unstamped /\ place \notin Unstamped =>
              Cardinality(Fresh)' = Cardinality(Fresh) - 1
<1>1. IsFiniteSet(Fresh)
  BY FS_Subset DEF Fresh
<1>2. Cardinality(Fresh) \in Nat
  BY <1>1, FS_CardinalityType
<1>3. (pc[p] \in Unstamped <=> place \in Unstamped) => Fresh' = Fresh
  BY DEF Goto, TypeOK, Fresh
<1>4. pc[p] \in Unstamped /\ place \notin Unstamped => p \in Fresh /\ Fresh' = Fresh \ {p}
  BY DEF Goto, TypeOK, Fresh
<1>5. p \in Fresh => Cardinality(Fresh \ {p}) = Cardinality(Fresh) - 1
  BY <1>1, FS_RemoveElement
<1> QED
  BY <1>2, <1>3, <1>4, <1>5

LEMMA RankIsNat ==
  ASSUME IsFiniteSet(Proc), TypeOK, NEW p \in Proc
  PROVE  /\ Rank(p) \in Nat /\ Cardinality(Fresh) \in Nat /\ Credit \in Nat
         /\ Credit - Promised(p) \in Nat /\ Promised(p) \in {0, 1}
         /\ MaxWait - waited[p] \in Nat /\ PlaceRank(p) \in 0 .. 11
<1>1. Cardinality(Fresh) \in Nat
  BY FS_Subset, FS_CardinalityType DEF Fresh
<1>2. /\ Credit \in Nat /\ Credit - Promised(p) \in Nat
      /\ Promised(p) \in {0, 1}
  BY <1>1 DEF Credit, Promised
<1>3. MaxWait - waited[p] \in Nat
  BY LockAssumption DEF TypeOK, LockAssumption
<1>4. PlaceRank(p) \in 0 .. 11
  BY DEF PlaceRank
<1> QED
  BY <1>1, <1>2, <1>3, <1>4 DEF Rank

\* What a process does to the pids does not raise the rank of another.
LEMMA OthersKeepRank ==
  ASSUME IsFiniteSet(Proc), TypeOK, TypeOK', NEW p \in Proc,
         UNCHANGED <<pc[p], seen[p], waited[p]>>,
         \/ pidfile' \in {pidfile, None} /\ Cardinality(Fresh)' <= Cardinality(Fresh)
         \/ pidfile' # seen[p] /\ Cardinality(Fresh)' = Cardinality(Fresh) - 1
  PROVE  Rank(p)' <= Rank(p)
<1>1. /\ Cardinality(Fresh) \in Nat /\ Cardinality(Fresh)' \in Nat
      /\ MaxWait - waited[p] \in Nat /\ PlaceRank(p) \in 0 .. 11
      /\ Promised(p) \in {0, 1}
      /\ Credit - Promised(p) \in Nat
  BY RankIsNat, FS_Subset, FS_CardinalityType DEF Fresh
<1>2. PlaceRank(p)' = PlaceRank(p)
  BY DEF PlaceRank
<1>3. /\ Promised(p)' \in {0, 1} /\ Credit' \in Nat
      /\ Credit' - Promised(p)' <= Credit - Promised(p)
  BY <1>1 DEF Credit, Promised
<1>4. Credit \in Nat
  BY <1>1 DEF Credit
<1> QED
  BY <1>1, <1>2, <1>3, <1>4 DEF Rank

LEMMA OwnStepLowersRank ==
  ASSUME IsFiniteSet(Proc), TypeInv, TypeInv', NEW p \in Proc, Step(p)
  PROVE  Rank(p)' < Rank(p)
<1> DEFINE n == Cardinality(Fresh)
           w == MaxWait - waited[p]
           tok == IF pidfile = None THEN 0 ELSE 1
<1> USE DEF TypeInv
<1>1. n \in Nat /\ n' \in Nat /\ w \in Nat /\ w' \in Nat
  BY FS_Subset, FS_CardinalityType, LockAssumption DEF Fresh, TypeOK, LockAssumption
<1>2. ASSUME NEW place, Goto(p, place)
      PROVE  /\ pc'[p] = place
             /\ (pc[p] \in Unstamped <=> place \in Unstamped) => n' = n
             /\ pc[p] \in Unstamped /\ place \notin Unstamped => n' = n - 1
  <2>1. pc'[p] = place
    BY <1>2 DEF Goto, TypeOK
  <2> QED
    BY <1>2, <2>1, FreshMoves
<1> USE DEF Unstamped, lockVars, docVars
<1>3. CASE TakeFlock(p)
  <2>1. /\ pc[p] = "enter" /\ pc'[p] = "read" /\ n' = n - 1
        /\ UNCHANGED <<pidfile, seen, waited>>
    BY <1>2, <1>3 DEF TakeFlock
  <2>2. /\ Promised(p) = 0 /\ Promised(p)' = 0
        /\ PlaceRank(p) = 8 /\ PlaceRank(p)' = 4
        /\ Credit = n + tok /\ Credit' = n - 1 + tok
    BY <2>1 DEF Promised, PlaceRank, Credit
  <2> QED
    BY <1>1, <2>1, <2>2 DEF Rank
<1>4. CASE Mkdir(p)
  <2>1. /\ pc[p] = "enter" /\ pc'[p] \in {"observe", "stamp"} /\ n' = n
        /\ UNCHANGED <<pidfile, seen, waited>>
    BY <1>2, <1>4 DEF Mkdir
  <2>2. /\ Promised(p) = 0 /\ Promised(p)' = 0
        /\ PlaceRank(p) = 8 /\ PlaceRank(p)' \in {7, 5}
        /\ Credit = n + tok /\ Credit' = n + tok
    BY <2>1 DEF Promised, PlaceRank, Credit
  <2> QED
    BY <1>1, <2>1, <2>2 DEF Rank
<1>5. CASE Observe(p)
  <2>1. /\ pc[p] = "observe" /\ pc'[p] = "probe" /\ n' = n
        /\ UNCHANGED <<pidfile, waited>> /\ seen'[p] = pidfile
    BY <1>2, <1>5 DEF Observe, TypeOK
  <2>2. /\ Promised(p) = 0 /\ Promised(p)' = tok
        /\ PlaceRank(p) = 7 /\ PlaceRank(p)' = 6 + 5 * tok
        /\ Credit = n + tok /\ Credit' = n + tok
    BY <2>1 DEF Promised, PlaceRank, Credit
  <2> QED
    BY <1>1, <2>1, <2>2 DEF Rank
<1>6. CASE ProbeStale(p)
  <2>1. /\ pc[p] = "probe" /\ pc'[p] = "breakPid" /\ n' = n /\ seen[p] # None
        /\ UNCHANGED <<pidfile, waited, seen>>
    BY <1>2, <1>6 DEF ProbeStale, Stale
  <2>2. /\ Promised(p) \in {0, 1} /\ Promised(p)' = Promised(p)
        /\ PlaceRank(p) = 11 /\ PlaceRank(p)' = 10
        /\ Credit = n + tok /\ Credit' = n + tok
    BY <2>1 DEF Promised, PlaceRank, Credit
  <2> QED
    BY <1>1, <2>1, <2>2 DEF Rank
<1>7. CASE ProbeWait(p)
  <2>1. /\ pc[p] = "probe" /\ pc'[p] \in {"enter", "gaveup"} /\ n' <= n
        /\ UNCHANGED <<pidfile, seen>> /\ w' = w - 1
    BY <1>1, <1>2, <1>7, LockAssumption DEF ProbeWait, TypeOK, LockAssumption
  <2>2. /\ Promised(p) \in {0, 1} /\ Promised(p)' = 0
        /\ Promised(p) = 0 => PlaceRank(p) \in {6, 11}
        /\ Promised(p) = 1 => PlaceRank(p) = 11
        /\ PlaceRank(p)' \in {8, 0}
        /\ Credit = n + tok /\ Credit' = n' + tok
    BY <2>1 DEF Promised, PlaceRank, Credit
  <2>3. 5 * (Credit - Promised(p) + w) + PlaceRank(p) >= 5 * (n + tok + w) + 6
    BY <1>1, <2>2
  <2>4. 5 * (Credit' - Promised(p)' + w') + PlaceRank(p)' <= 5 * (n + tok + w - 1) + 8
    BY <1>1, <2>1, <2>2
  <2> HIDE DEF n, tok, w
  <2> QED
    BY <1>1, <2>2, <2>3, <2>4 DEF Rank, tok, w
<1>8. CASE BreakPid(p)
  <2>1. /\ pc[p] = "breakPid" /\ pc'[p] = "breakDir" /\ n' = n
        /\ UNCHANGED <<waited, seen>> /\ pidfile' = None
    BY <1>2, <1>8 DEF BreakPid
  <2>2. /\ Promised(p) \in {0, 1} /\ Promised(p) <= tok /\ Promised(p)' = 0
        /\ PlaceRank(p) = 10 /\ PlaceRank(p)' = 9
    BY <2>1 DEF Promised, PlaceRank
  <2>3. Credit = n + tok /\ Credit' = n
    BY <1>1, <2>1 DEF Credit
  <2> QED
    BY <1>1, <2>1, <2>2, <2>3 DEF Rank
<1>9. CASE BreakDir(p)
  <2>1. /\ pc[p] = "breakDir" /\ pc'[p] = "enter" /\ n' = n
        /\ UNCHANGED <<pidfile, waited, seen>>
    BY <1>2, <1>9 DEF BreakDir
  <2>2. /\ Promised(p) = 0 /\ Promised(p)' = 0
        /\ PlaceRank(p) = 9 /\ PlaceRank(p)' = 8
        /\ Credit = n + tok /\ Credit' = n + tok
    BY <2>1 DEF Promised, PlaceRank, Credit
  <2> QED
    BY <1>1, <2>1, <2>2 DEF Rank
<1>10. CASE Stamp(p)
  <2>1. /\ pc[p] = "stamp" /\ pc'[p] \in {"read", "failed"} /\ n' = n - 1
        /\ UNCHANGED <<waited, seen>> /\ pidfile' \in {p, pidfile}
    BY <1>2, <1>10 DEF Stamp
  <2>2. /\ Promised(p) = 0 /\ Promised(p)' = 0
        /\ PlaceRank(p) = 5 /\ PlaceRank(p)' \in {4, 0}
        /\ Credit = n + tok /\ Credit' <= n /\ Credit' \in Nat
    BY <1>1, <2>1 DEF Promised, PlaceRank, Credit
  <2>3. Credit' <= Credit
    BY <1>1, <2>2
  <2> QED
    BY <1>1, <2>1, <2>2, <2>3 DEF Rank
<1>11. CASE JqRead(p) \/ JqFails(p) \/ Rename(p) \/ Unlock(p) \/ ExitPid(p) \/ ExitDir(p)
  <2>1. /\ n' = n /\ UNCHANGED <<waited, seen>> /\ pidfile' \in {pidfile, None}
        /\ \/ pc[p] = "read" /\ pc'[p] = "rename"
           \/ pc[p] \in {"read", "rename"} /\ pc'[p] \in {"unlock", "exitPid"}
           \/ pc[p] = "exitPid" /\ pc'[p] = "exitDir"
           \/ pc[p] \in {"unlock", "exitDir"} /\ pc'[p] = "exited"
    BY <1>2, <1>11 DEF JqRead, JqFails, Rename, AfterWrite, Unlock, ExitPid, ExitDir
  <2>2. /\ Promised(p) = 0 /\ Promised(p)' = 0
        /\ PlaceRank(p) \in Nat /\ PlaceRank(p)' \in Nat /\ PlaceRank(p)' < PlaceRank(p)
        /\ Credit = n + tok /\ Credit' <= n + tok /\ Credit' \in Nat
    BY <1>1, <2>1 DEF Promised, PlaceRank, Credit
  <2> QED
    BY <1>1, <2>1, <2>2 DEF Rank
<1> QED
  BY <1>3, <1>4, <1>5, <1>6, <1>7, <1>8, <1>9, <1>10, <1>11 DEF Step

LEMMA NobodyRaisesRank ==
  ASSUME IsFiniteSet(Proc), TypeInv, TypeInv', WrittenOnce, WrittenOnce', [Next]_vars,
         NEW p \in Proc
  PROVE  Rank(p)' <= Rank(p)
<1> USE DEF TypeInv
<1>1. CASE UNCHANGED vars
  <2>1. Fresh' = Fresh
    BY <1>1 DEF vars, Fresh
  <2>2. Cardinality(Fresh)' = Cardinality(Fresh) /\ Cardinality(Fresh) \in Nat
    BY <2>1, RankIsNat
  <2> QED
    BY <1>1, <2>2, OthersKeepRank DEF vars, lockVars
<1>2. CASE Step(p)
  <2>1. Cardinality(Fresh)' \in Nat
    BY FS_Subset, FS_CardinalityType DEF Fresh
  <2>2. Credit' \in Nat /\ Promised(p)' \in {0, 1} /\ PlaceRank(p)' \in 0 .. 11
    BY <2>1 DEF Credit, Promised, PlaceRank
  <2>3. Rank(p)' \in Int /\ Rank(p) \in Int
    BY <2>2, RankIsNat, LockAssumption DEF Rank, TypeOK, LockAssumption
  <2>4. Rank(p)' < Rank(p)
    BY <1>2, OwnStepLowersRank
  <2> QED
    BY <2>3, <2>4
<1>3. ASSUME NEW q \in Proc, q # p, Step(q) PROVE Rank(p)' <= Rank(p)
  <2>1. PICK place : Goto(q, place) /\ (pc[q] \notin Unstamped => place \notin Unstamped)
    <3>1. CASE TakeFlock(q) \/ Mkdir(q) \/ Observe(q) \/ ProbeStale(q) \/ ProbeWait(q)
      BY <3>1 DEF TakeFlock, Mkdir, Observe, ProbeStale, ProbeWait, Unstamped
    <3>2. CASE BreakPid(q) \/ BreakDir(q) \/ Stamp(q)
      BY <3>2 DEF BreakPid, BreakDir, Stamp, Unstamped
    <3>3. CASE JqRead(q) \/ JqFails(q) \/ Rename(q) \/ Unlock(q) \/ ExitPid(q) \/ ExitDir(q)
      BY <3>3 DEF JqRead, JqFails, Rename, AfterWrite, Unlock, ExitPid, ExitDir, Unstamped
    <3> QED
      BY <1>3, <3>1, <3>2, <3>3 DEF Step
  <2>2. /\ Cardinality(Fresh) \in Nat /\ Cardinality(Fresh)' <= Cardinality(Fresh)
        /\ pc[q] \in Unstamped /\ place \notin Unstamped =>
             Cardinality(Fresh)' = Cardinality(Fresh) - 1
    BY <2>1, FreshMoves
  <2>3. pc'[p] = pc[p]
    BY <1>3, <2>1 DEF Goto, TypeOK
  <2>4. seen'[p] = seen[p] /\ waited'[p] = waited[p]
    BY <1>3 DEF Step, TakeFlock, Mkdir, Observe, ProbeStale, ProbeWait, BreakPid,
         BreakDir, Stamp, JqRead, JqFails, Rename, Unlock, ExitPid, ExitDir, TypeOK
  <2>5. CASE Stamp(q)
    <3>1. pidfile' \in {pidfile, q}
      BY <2>5 DEF Stamp
    <3>2. seen[p] # q
      BY <2>5, LockAssumption DEF Stamp, WrittenOnce, Fresh, Unstamped, LockAssumption
    <3>3. Cardinality(Fresh)' = Cardinality(Fresh) - 1
      BY <2>1, <2>2, <2>5 DEF Stamp, Goto, Unstamped, TypeOK
    <3> QED
      BY <2>2, <2>3, <2>4, <3>1, <3>2, <3>3, OthersKeepRank
  <2>6. CASE ~Stamp(q)
    <3>1. pidfile' \in {pidfile, None}
      BY <1>3, <2>6 DEF Step, TakeFlock, Mkdir, Observe, ProbeStale, ProbeWait,
           BreakPid, BreakDir, JqRead, JqFails, Rename, Unlock, ExitPid, ExitDir, lockVars
    <3> QED
      BY <2>2, <2>3, <2>4, <3>1, OthersKeepRank
  <2> QED
    BY <2>5, <2>6
<1>4. ASSUME NEW q \in Proc, Kill(q) PROVE Rank(p)' <= Rank(p)
  <2>1. /\ Cardinality(Fresh) \in Nat /\ Cardinality(Fresh)' \in Nat
        /\ Cardinality(Fresh)' <= Cardinality(Fresh)
    <3>1. Goto(q, "killed") /\ "killed" \notin Unstamped
      BY <1>4 DEF Kill, Unstamped
    <3>2. Cardinality(Fresh)' \in {Cardinality(Fresh), Cardinality(Fresh) - 1}
      BY <3>1, FreshMoves
    <3>3. Cardinality(Fresh) \in Nat /\ Cardinality(Fresh)' \in Nat
      BY FS_Subset, FS_CardinalityType DEF Fresh
    <3> QED
      BY <3>2, <3>3
  <2>2. UNCHANGED <<pidfile, seen, waited>>
    BY <1>4 DEF Kill
  <2>3. CASE q # p
    BY <1>4, <2>1, <2>2, <2>3, OthersKeepRank DEF Kill, Goto, TypeOK
  <2>4. CASE q = p
    <3>1. pc'[p] = "killed"
      BY <1>4, <2>4 DEF Kill, Goto, TypeOK
    <3>2. PlaceRank(p)' = 0 /\ Promised(p)' = 0
      BY <3>1 DEF PlaceRank, Promised
    <3>3. Cardinality(Fresh)' = Cardinality(Fresh) - 1 \/ Promised(p) = 0
      BY <1>4, <2>4, FreshMoves DEF Kill, Unstamped, Promised
    <3>4. Credit' <= Credit - Promised(p) /\ Credit' \in Nat
      BY <2>1, <2>2, <3>3, RankIsNat DEF Credit
    <3> QED
      BY <2>2, <3>2, <3>4, RankIsNat DEF Rank
  <2> QED
    BY <2>3, <2>4
<1>5. ASSUME NEW q \in Proc, Term(q) PROVE Rank(p)' <= Rank(p)
  <2>1. UNCHANGED <<pc, seen, waited>> /\ pidfile' = None
    BY <1>5 DEF Term
  <2>2. Fresh' = Fresh
    BY <2>1 DEF Fresh
  <2>3. Cardinality(Fresh)' = Cardinality(Fresh) /\ Cardinality(Fresh) \in Nat
    BY <2>2, RankIsNat
  <2> QED
    BY <2>1, <2>3, OthersKeepRank
<1> QED
  BY <1>1, <1>2, <1>3, <1>4, <1>5 DEF Next

\* However many processes run, are killed or are signalled, a command takes at
\* most MostSteps steps of its own before it ends: no waiters keep each other
\* breaking locks.
THEOREM CommandsAreBounded ==
  ASSUME IsFiniteSet(Proc) PROVE Spec => StepsAreBounded
<1> DEFINE Bounded == \A p \in Proc : Rank(p) \in 0 .. MostSteps
           Inv     == TypeInv /\ WrittenOnce /\ Bounded
<1>1. Cardinality(Proc) \in Nat /\ MostSteps \in Nat
  BY FS_CardinalityType, LockAssumption DEF MostSteps, LockAssumption
<1>2. Init => Inv
  <2> SUFFICES ASSUME Init PROVE Inv
    OBVIOUS
  <2>1. TypeInv /\ WrittenOnce
    BY TypeInit DEF Init, WrittenOnce
  <2>2. Fresh = Proc
    BY DEF Init, Fresh, Unstamped
  <2>3. ASSUME NEW p \in Proc PROVE Rank(p) = MostSteps
    BY <1>1, <2>2, LockAssumption
       DEF Init, Rank, Credit, Promised, PlaceRank, MostSteps, LockAssumption
  <2> QED
    BY <1>1, <2>1, <2>3
<1>3. ASSUME Inv, [Next]_vars
      PROVE  /\ Inv'
             /\ \A p \in Proc : Rank(p)' <= Rank(p) /\ (Step(p) => Rank(p)' < Rank(p))
  <2>1. TypeInv' /\ WrittenOnce'
    BY <1>3, TypeStep, WrittenOnceStep
  <2>2. ASSUME NEW p \in Proc PROVE Rank(p)' <= Rank(p) /\ (Step(p) => Rank(p)' < Rank(p))
    BY <1>3, <2>1, NobodyRaisesRank, OwnStepLowersRank
  <2>3. ASSUME NEW p \in Proc PROVE Rank(p)' \in Nat
    <3>1. Cardinality(Fresh)' \in Nat
      BY FS_Subset, FS_CardinalityType DEF Fresh
    <3>2. /\ Credit' \in Nat /\ Promised(p)' \in {0, 1} /\ PlaceRank(p)' \in 0 .. 11
          /\ Credit' - Promised(p)' \in Nat
      BY <3>1 DEF Credit, Promised, PlaceRank
    <3> QED
      BY <2>1, <3>2, LockAssumption DEF Rank, TypeInv, TypeOK, LockAssumption
  <2>4. ASSUME NEW p \in Proc PROVE Rank(p)' \in 0 .. MostSteps
    BY <1>1, <1>3, <2>2, <2>3
  <2>5. MostSteps' = MostSteps
    BY DEF MostSteps
  <2> QED
    BY <2>1, <2>2, <2>4, <2>5
<1>4. Inv /\ [Next]_vars =>
        [\A p \in Proc : Rank(p)' <= Rank(p) /\ (Step(p) => Rank(p)' < Rank(p))]_vars
  BY <1>3
<1>5. Inv /\ [Next]_vars => Inv'
  BY <1>3
<1> QED
  BY <1>2, <1>4, <1>5, PTL DEF Spec, StepsAreBounded

\* The owner of the flock is inside the critical section, or about to leave it.
HolderLives == holder # None => hasFlock /\ pc[holder] \in Critical \cup {"unlock"}

\* What a waiter waits for under flock is a process on its way out: one that
\* has ended, killed ones included, holds no lock (_lib.sh:26-32).
THEOREM HolderLivesAlways == Spec => []HolderLives
<1>1. Init => TypeInv /\ HolderLives
  BY TypeInit DEF Init, HolderLives
<1>2. ASSUME TypeInv, HolderLives, [Next]_vars PROVE HolderLives'
  <2> USE LockAssumption DEF LockAssumption, TypeInv, TypeOK, HolderLives, Goto, lockVars
  <2>1. CASE UNCHANGED vars
    BY <1>2, <2>1 DEF vars
  <2>2. ASSUME NEW p \in Proc, Step(p) PROVE HolderLives'
    <3>1. CASE TakeFlock(p) \/ Mkdir(p) \/ Observe(p) \/ ProbeStale(p) \/ ProbeWait(p)
      BY <1>2, <3>1 DEF TakeFlock, FlockFree, Mkdir, Observe, ProbeStale, ProbeWait
    <3>2. CASE BreakPid(p) \/ BreakDir(p) \/ Stamp(p)
      BY <1>2, <3>2 DEF BreakPid, BreakDir, Stamp
    <3>3. CASE JqRead(p) \/ JqFails(p) \/ Rename(p)
      BY <1>2, <3>3 DEF JqRead, JqFails, Rename, AfterWrite
    <3>4. CASE Unlock(p) \/ ExitPid(p) \/ ExitDir(p)
      BY <1>2, <3>4 DEF Unlock, ExitPid, ExitDir
    <3> QED
      BY <2>2, <3>1, <3>2, <3>3, <3>4 DEF Step
  <2>3. ASSUME NEW p \in Proc, Kill(p) \/ Term(p) PROVE HolderLives'
    BY <1>2, <2>3 DEF Kill, Term, Dead
  <2> QED
    BY <1>2, <2>1, <2>2, <2>3 DEF Next
<1>3. TypeInv /\ HolderLives /\ [Next]_vars => TypeInv' /\ HolderLives'
  BY <1>2, TypeStep
<1> QED
  BY <1>1, <1>3, PTL DEF Spec
=============================================================================
