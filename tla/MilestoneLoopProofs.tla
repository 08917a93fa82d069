-------------------------- MODULE MilestoneLoopProofs --------------------------
(***************************************************************************)
(* What holds of MilestoneLoop for any Stories, dependencies and budgets,  *)
(* any number of sessions, failures and edits, lost wherever they are, and *)
(* from every state that FoundAssumption allows a run to find: the safety  *)
(* of the two documents, the refinement of Milestone, and the turns.       *)
(***************************************************************************)
EXTENDS MilestoneLoop, FiniteSetTheorems, TLAPS

-----------------------------------------------------------------------------
(***************************************************************************)
(* The documents.                                                          *)
(***************************************************************************)

\* The commands of tasks.sh keep the shape of the document.
LEMMA TasksUpdates ==
  ASSUME NEW t \in TaskDocuments, NEW s \in Story
  PROVE  /\ \A state \in States : StoryMoved(t, s, state) \in TaskDocuments
         /\ StoryBlocked(t, s) \in TaskDocuments
         /\ StoryAttempted(t, s) \in TaskDocuments
         /\ \A c \in {"clean", "blocking"} : StoryReviewed(t, s, c) \in TaskDocuments
         /\ StoryCommitted(t, s) \in TaskDocuments
<1>1. t.stories[s] \in Entries
  BY DEF TaskDocuments
<1>2. ASSUME NEW state \in States PROVE StoryMoved(t, s, state) \in TaskDocuments
  <2>1. [t.stories[s] EXCEPT !.status = state] \in Entries
    BY <1>1 DEF Entries
  <2> QED
    BY <2>1 DEF StoryMoved, TaskDocuments
<1>3. StoryBlocked(t, s) \in TaskDocuments
  <2>1. [t.stories[s] EXCEPT !.status = "blocked", !.reason = "reason"] \in Entries
    BY <1>1 DEF Entries, States
  <2> QED
    BY <2>1 DEF StoryBlocked, TaskDocuments
<1>4. StoryAttempted(t, s) \in TaskDocuments
  <2>1. [t.stories[s] EXCEPT !.attempts = @ + 1] \in Entries
    BY <1>1 DEF Entries
  <2> QED
    BY <2>1 DEF StoryAttempted, TaskDocuments
<1>5. ASSUME NEW c \in {"clean", "blocking"}
      PROVE  StoryReviewed(t, s, c) \in TaskDocuments
  <2>1. [t.stories[s] EXCEPT !.review = c] \in Entries
    BY <1>1 DEF Entries
  <2> QED
    BY <2>1 DEF StoryReviewed, TaskDocuments
<1>6. StoryCommitted(t, s) \in TaskDocuments
  <2>1. [t.stories[s] EXCEPT !.commit = TRUE] \in Entries
    BY <1>1 DEF Entries
  <2> QED
    BY <2>1 DEF StoryCommitted, TaskDocuments
<1> QED
  BY <1>2, <1>3, <1>4, <1>5, <1>6

LEMMA TurnUpdates ==
  ASSUME NEW t \in TaskDocuments
  PROVE  RunStarted(t) \in TaskDocuments /\ TurnCounted(t) \in TaskDocuments
BY DEF RunStarted, TurnCounted, TaskDocuments

\* The commands of review-state.sh do so too.
LEMMA ReviewUpdates ==
  ASSUME NEW d \in Documents
  PROVE  /\ StatusSet(d, "ready_for_review") \in Documents
         /\ ReviewOpened(d) \in Documents
         /\ FixOpened(d) \in Documents
         /\ \A v \in Verdicts : Judged(d, v, FindingsOf(v)) \in Documents
         /\ FixClosed(d) \in Documents
         /\ \A r \in Reasons : Blocked(d, r) \in Documents
         /\ Errored(d) \in Documents
<1> USE DEF Documents, Statuses, Verdicts, Reasons
<1>1. StatusSet(d, "ready_for_review") \in Documents
  BY DEF StatusSet
<1> DEFINE n == d.reviewAttempt + 1
           x == d.fixAttempt + 1
           y == d.executionFailures + 1
<1>0. n \in Nat /\ x \in Nat /\ y \in Nat
  OBVIOUS
<1>a. /\ ReviewOpened(d) =
            [d EXCEPT !.status = "reviewing", !.reviewAttempt = n,
               !.verdict = Null, !.findings = Null, !.blockedReason = Null]
      /\ FixOpened(d) = [d EXCEPT !.status = "fixing", !.fixAttempt = x]
      /\ Errored(d) = [d EXCEPT !.executionFailures = y]
  BY DEF ReviewOpened, FixOpened, Errored
<1> HIDE DEF n, x, y
<1>2. ReviewOpened(d) \in Documents /\ FixOpened(d) \in Documents /\ Errored(d) \in Documents
  BY <1>0, <1>a
<1>3. ASSUME NEW v \in Verdicts PROVE Judged(d, v, FindingsOf(v)) \in Documents
  <2>1. (d.acceptedAt \/ v = "ACCEPTED") \in BOOLEAN
    OBVIOUS
  <2>2. StatusAfter(v) \in Statuses /\ FindingsOf(v) \in {"clean", "blocking"}
    BY DEF StatusAfter, FindingsOf
  <2> QED
    BY <2>1, <2>2 DEF Judged
<1>4. FixClosed(d) \in Documents /\ \A r \in Reasons : Blocked(d, r) \in Documents
  BY DEF FixClosed, Blocked
<1> QED
  BY <1>1, <1>2, <1>3, <1>4

LEMMA NewDocumentIsDocument == NewDocument \in Documents
BY DEF NewDocument, Documents, Statuses, Verdicts, Reasons

-----------------------------------------------------------------------------
(***************************************************************************)
(* Types.                                                                  *)
(***************************************************************************)

LEMMA TypeStep == ASSUME TypeOK, [Next]_vars PROVE TypeOK'
<1> USE LoopAssumption DEF LoopAssumption, TypeOK, LeadPlaces, HookPlaces
<1>1. CASE UNCHANGED vars
  BY <1>1 DEF vars
<1>2. CASE StartRun \/ Resume
  <2>1. sessions + 1 \in 0 .. MaxSessions
    BY <1>2 DEF StartRun, Resume
  <2> QED
    BY <1>2, <2>1 DEF StartRun, Resume
<1>7. CASE InitState \/ RunStart
  BY <1>7, NewDocumentIsDocument, TurnUpdates DEF InitState, RunStart
<1>8. CASE Unmark \/ Lose \/ EndTurn
  BY <1>8 DEF Unmark, Lose, EndTurn
<1>3. ASSUME NEW s \in Story, StoryStep(s) PROVE TypeOK'
  <2>1. ASSUME NEW place, NEW new \in TaskDocuments, NEW next \in {"turn", s},
               TasksCommand(place, new, next)
        PROVE  TypeOK'
    BY <2>1 DEF TasksCommand
  <2>2. {"in_progress", "review", "done", "fix_required"} \subseteq States
    BY DEF States, Open
  <2>3. CASE OpenStory(s) \/ Attempt(s) \/ SendToReview(s) \/ Close(s)
    BY <2>1, <2>2, <2>3, TasksUpdates DEF OpenStory, Attempt, SendToReview, Close
  <2>4. ASSUME NEW c \in {"clean", "blocking"}, RecordCounts(s, c) PROVE TypeOK'
    BY <2>1, <2>4, TasksUpdates DEF RecordCounts
  <2>6. ASSUME NEW c \in {"clean", "blocking"}, RecordCountsOutOfTurn(s, c) PROVE TypeOK'
    BY <2>6, TasksUpdates DEF RecordCountsOutOfTurn
  <2>5. CASE Commit(s) \/ LoopBack(s) \/ GiveUp(s) \/ BlockDependent(s)
    BY <2>1, <2>2, <2>5, TasksUpdates DEF Commit, LoopBack, GiveUp, BlockDependent
  <2> QED
    BY <1>3, <2>3, <2>4, <2>5, <2>6 DEF StoryStep
<1>4. CASE TidyPack
  <2>1. ASSUME NEW e \in Entries PROVE Tidied(e) \in Entries
    BY DEF Tidied, Entries
  <2>2. \A s \in Story : Tidied(tasks.stories[s]) \in Entries
    BY <2>1 DEF TaskDocuments
  <2>3. tasks' \in TaskDocuments
    BY <1>4, <2>2 DEF TidyPack, TaskDocuments
  <2> QED
    BY <1>4, <2>3 DEF TidyPack
<1>5. CASE ReviewStep
  <2>1. ASSUME NEW places, NEW status, NEW new \in Documents,
               NEW next \in {"turn", "rejudge"},
               ReviewCommand(places, status, new, next)
        PROVE  TypeOK'
    BY <2>1 DEF ReviewCommand
  <2>2. rs \in Documents
    BY <1>5 DEF ReviewStep, StartReview, IncoherentReview, IncoherentAgain,
                RecordVerdict, StartFix, FinishFix, FailFix, ReviewCommand
  <2>3. CASE StartReview \/ StartFix
    BY <2>1, <2>2, <2>3, ReviewUpdates DEF StartReview, StartFix, Reasons
  <2>4. CASE IncoherentReview \/ IncoherentAgain
    BY <2>1, <2>2, <2>4, ReviewUpdates DEF IncoherentReview, IncoherentAgain, Reasons
  <2>5. ASSUME NEW v \in Verdicts, RecordVerdict(v) PROVE TypeOK'
    BY <2>1, <2>2, <2>5, ReviewUpdates DEF RecordVerdict
  <2>6. CASE FinishFix \/ FailFix
    BY <2>1, <2>2, <2>6, ReviewUpdates DEF FinishFix, FailFix, Reasons
  <2> QED
    BY <1>5, <2>3, <2>4, <2>5, <2>6 DEF ReviewStep
<1>6. CASE HookStep
  <2>1. \A r \in Reasons : Recorded(Blocked(rs, r)) => rs' \in Documents \cup {Absent}
    BY ReviewUpdates DEF Recorded
  <2>2. Recorded(StatusSet(rs, "ready_for_review")) => rs' \in Documents \cup {Absent}
    BY ReviewUpdates DEF Recorded
  <2>3. CASE Increment \/ IncrementFails
    BY <2>3, TurnUpdates DEF Increment, IncrementFails
  <2>4. CASE OverLimit \/ DecideBlocked
    BY <2>1, <2>4 DEF OverLimit, DecideBlocked, DecideTo, Reasons
  <2>5. CASE DecideStop \/ DecideGoOn \/ DecideClose \/ Stop
    BY <2>5 DEF DecideStop, DecideGoOn, DecideClose, DecideTo, Stop
  <2>6. CASE Gate
    BY <2>2, <2>6 DEF Gate
  <2> QED
    BY <1>6, <2>3, <2>4, <2>5, <2>6 DEF HookStep
<1> QED
  BY <1>1, <1>2, <1>3, <1>4, <1>5, <1>6, <1>7, <1>8 DEF Next

\* Whatever is lost or edited, the two documents stay ones the scripts read.
THEOREM TypeCorrect == Spec => []TypeOK
<1>1. ASSUME Init PROVE TypeOK
  <2>1. PICK f \in Found : tasks = f[1] /\ rs = f[2] /\ perRun = f[3]
    BY <1>1 DEF Init
  <2>2. f \in TaskDocuments \X (Documents \cup {Absent}) \X Nat
    BY LoopAssumption DEF LoopAssumption
  <2>3. tasks \in TaskDocuments /\ rs \in Documents \cup {Absent} /\ perRun \in Nat
    BY <2>1, <2>2
  <2>4. 0 \in 0 .. MaxSessions /\ 0 \in 0 .. MaxFailures /\ 0 \in 0 .. MaxEdits
    BY LoopAssumption DEF LoopAssumption
  <2> QED
    BY <1>1, <2>3, <2>4 DEF Init, TypeOK
<1> QED
  BY <1>1, TypeStep, PTL DEF Spec

-----------------------------------------------------------------------------
(***************************************************************************)
(* The Stories.                                                            *)
(***************************************************************************)

\* What one step may do to the Stories: done and its commit are kept, done is
\* reached from work under way, which begins after the dependencies, and a Story
\* is open or may start only if it was so before.
Progress(t, u) ==
  \A s \in Story :
    /\ With(t, s, "done") =>
         With(u, s, "done") /\ (t.stories[s].commit => u.stories[s].commit)
    /\ With(u, s, "done") /\ ~With(t, s, "done") => s \in ActiveStories(t)
    /\ s \in ActiveStories(u) \ ActiveStories(t) => DependenciesMet(t, s)
    /\ s \in Remaining(u) => s \in Remaining(t)

LEMMA ProgressIsSound ==
  ASSUME NEW t, NEW u, StoriesSound(t), Progress(t, u)
  PROVE  StoriesSound(u) /\ (Complete(t) => Complete(u))
<1> USE TasksAssumption DEF TasksAssumption, StoriesSound, Progress
<1>1. ASSUME NEW s \in ActiveStories(u) \cup DoneStories(u)
      PROVE  DependenciesMet(u, s)
  <2>1. s \in Story
    BY DEF ActiveStories, DoneStories
  <2>2. DependenciesMet(t, s)
    BY <1>1, <2>1 DEF DoneStories
  <2> QED
    BY <2>1, <2>2 DEF DependenciesMet
<1>2. ASSUME Complete(t) PROVE Complete(u)
  <2>1. Remaining(u) = {}
    BY <1>2 DEF Complete, Remaining
  <2> QED
    BY <1>2, <2>1 DEF Complete
<1> QED
  BY <1>1, <1>2

\* u is t but for the status, the review and the commit of one Story.
Touches(t, u, s, status, review, commit) ==
  /\ \A r \in Story \ {s} : u.stories[r] = t.stories[r]
  /\ u.stories[s].status = status
  /\ u.stories[s].review = review
  /\ u.stories[s].commit = commit

LEMMA TouchIsProgress ==
  ASSUME NEW t, NEW u, NEW s \in Story, NEW status, NEW review, NEW commit,
         Touches(t, u, s, status, review, commit),
         With(t, s, "done") => status = "done" /\ (t.stories[s].commit => commit),
         status = "done" /\ ~With(t, s, "done") => s \in ActiveStories(t),
         status \in Open /\ s \notin ActiveStories(t) => DependenciesMet(t, s),
         status \notin {"done", "blocked"} => s \in Remaining(t)
  PROVE  Progress(t, u)
<1>1. \A r \in Story \ {s} : With(u, r, "done") <=> With(t, r, "done")
  BY DEF With, Touches
<1>2. With(u, s, "done") <=> status = "done"
  BY DEF With, Touches
<1>3. \A r \in Story \ {s} : r \in ActiveStories(u) <=> r \in ActiveStories(t)
  BY DEF ActiveStories, Touches
<1>4. s \in ActiveStories(u) <=> status \in Open
  BY DEF ActiveStories, Touches
<1>5. \A r \in Story \ {s} : r \in Remaining(u) <=> r \in Remaining(t)
  BY DEF Remaining, Touches
<1>6. s \in Remaining(u) <=> status \notin {"done", "blocked"}
  BY DEF Remaining, Touches
<1> QED
  BY <1>1, <1>2, <1>3, <1>4, <1>5, <1>6 DEF Progress, Touches

\* The lead gives its commands from its own places, never from the hook's.
LEMMA StoryPlaces ==
  ASSUME NEW s \in Story, StoryStep(s)
  PROVE  at \notin HookPlaces /\ at' \notin HookPlaces
<1> USE LoopAssumption DEF LoopAssumption, HookPlaces
<1>1. ASSUME NEW place \in {"turn", s}, NEW next \in {"turn", s}, NEW new,
             TasksCommand(place, new, next)
      PROVE  at \notin HookPlaces /\ at' \notin HookPlaces
  BY <1>1 DEF TasksCommand
<1>2. CASE OpenStory(s) \/ Attempt(s) \/ SendToReview(s) \/ Close(s) \/ Commit(s)
  BY <1>1, <1>2 DEF OpenStory, Attempt, SendToReview, Close, Commit
<1>3. ASSUME NEW c \in {"clean", "blocking"},
             RecordCounts(s, c) \/ RecordCountsOutOfTurn(s, c)
      PROVE  at \notin HookPlaces /\ at' \notin HookPlaces
  BY <1>1, <1>3 DEF RecordCounts, RecordCountsOutOfTurn
<1>4. CASE LoopBack(s) \/ GiveUp(s) \/ BlockDependent(s)
  BY <1>1, <1>4 DEF LoopBack, GiveUp, BlockDependent
<1> QED
  BY <1>2, <1>3, <1>4 DEF StoryStep

\* What the commands do to the Story they name, and to no other.
LEMMA StoryEffects ==
  ASSUME NEW t \in TaskDocuments, NEW s \in Story
  PROVE  LET e == t.stories[s] IN
         /\ \A state : Touches(t, StoryMoved(t, s, state), s, state, e.review, e.commit)
         /\ Touches(t, StoryBlocked(t, s), s, "blocked", e.review, e.commit)
         /\ Touches(t, StoryAttempted(t, s), s, e.status, e.review, e.commit)
         /\ \A c : Touches(t, StoryReviewed(t, s, c), s, e.status, c, e.commit)
         /\ Touches(t, StoryCommitted(t, s), s, e.status, e.review, TRUE)
BY DEF TaskDocuments, Entries, StoryMoved, StoryBlocked, StoryAttempted,
       StoryReviewed, StoryCommitted, Touches

LEMMA StoriesProgress ==
  ASSUME TypeOK, NEW s \in Story, StoryStep(s)
  PROVE  Progress(tasks, tasks')
<1> USE StoryEffects, TouchIsProgress
    DEF TypeOK, With, ActiveStories, Open, Remaining
<1>1. CASE OpenStory(s)
  BY <1>1 DEF OpenStory, TasksCommand, IsNext, Eligible
<1>2. CASE Attempt(s)
  BY <1>2 DEF Attempt, TasksCommand
<1>3. CASE SendToReview(s)
  BY <1>3 DEF SendToReview, TasksCommand
<1>4. ASSUME NEW c \in {"clean", "blocking"},
             RecordCounts(s, c) \/ RecordCountsOutOfTurn(s, c)
      PROVE  Progress(tasks, tasks')
  <2>1. tasks' = StoryReviewed(tasks, s, c)
    BY <1>4 DEF RecordCounts, RecordCountsOutOfTurn, TasksCommand
  <2>2. Touches(tasks, tasks', s, tasks.stories[s].status, c, tasks.stories[s].commit)
    BY <2>1
  <2> QED
    BY <2>2
<1>5. CASE Close(s)
  BY <1>5 DEF Close, TasksCommand
<1>6. CASE Commit(s)
  BY <1>6 DEF Commit, TasksCommand
<1>7. CASE LoopBack(s)
  BY <1>7 DEF LoopBack, TasksCommand
<1>8. CASE GiveUp(s)
  BY <1>8 DEF GiveUp, TasksCommand
<1>9. CASE BlockDependent(s)
  BY <1>9 DEF BlockDependent, TasksCommand
<1> QED
  BY <1>1, <1>2, <1>3, <1>4, <1>5, <1>6, <1>7, <1>8, <1>9 DEF StoryStep

-----------------------------------------------------------------------------
(***************************************************************************)
(* The review, and the hook's decisions.                                   *)
(***************************************************************************)

\* The gate is asked while the Milestone is implemented and nothing remains, and
\* the hook is about to stop only for a reason that the documents show.
HookInv ==
  /\ at = "gate" => /\ rs = Absent \/ rs.status = "implementing"
                    /\ Remaining(tasks) = {}
  /\ at = "overLimit" => TurnsUsedUp
  /\ at = "stop" =>
       \/ Status \in {"human_acceptance", "blocked"}
       \/ Checkpoint /\ ActiveStories(tasks) = {}
       \/ rs = Absent /\ (TurnsUsedUp \/ BlockedRequired(tasks) # {})

LoopInv == TypeOK /\ Sound(tasks, rs) /\ HookInv

\* What the commands of the review make of a sound document.
LEMMA ReviewsAreSound ==
  ASSUME NEW d \in Documents, ReviewSound(d)
  PROVE  /\ d.status = "implementing" => ReviewSound(StatusSet(d, "ready_for_review"))
         /\ d.status = "ready_for_review" /\ ~ReviewExhausted(d) =>
              ReviewSound(ReviewOpened(d))
         /\ d.status = "reviewing" =>
              \A v \in Verdicts : ReviewSound(Judged(d, v, FindingsOf(v)))
         /\ d.status = "fix_required" /\ ~FixExhausted(d) => ReviewSound(FixOpened(d))
         /\ ReviewSound(FixClosed(d))
         /\ \A r \in Reasons : ReviewSound(Blocked(d, r))
         /\ ReviewSound(Errored(d))
<1> USE LoopAssumption DEF LoopAssumption, ReviewSound, Documents
<1>1. d.status = "implementing" => ReviewSound(StatusSet(d, "ready_for_review"))
  BY DEF StatusSet
<1>2. d.status = "ready_for_review" /\ ~ReviewExhausted(d) => ReviewSound(ReviewOpened(d))
  BY DEF ReviewOpened, ReviewExhausted
<1>3. d.status = "reviewing" =>
        \A v \in Verdicts : ReviewSound(Judged(d, v, FindingsOf(v)))
  BY DEF Judged, StatusAfter
<1>4. d.status = "fix_required" /\ ~FixExhausted(d) => ReviewSound(FixOpened(d))
  BY DEF FixOpened, FixExhausted
<1>5. ReviewSound(FixClosed(d)) /\ ReviewSound(Errored(d))
  BY DEF FixClosed, Errored
<1>6. \A r \in Reasons : ReviewSound(Blocked(d, r))
  BY DEF Blocked
<1> QED
  BY <1>1, <1>2, <1>3, <1>4, <1>5, <1>6

LEMMA NewIsSound == ReviewSound(NewDocument) /\ NewDocument.status = "implementing"
BY LoopAssumption DEF LoopAssumption, ReviewSound, NewDocument

\* A step changes the Stories, soundly, or the review, soundly, or neither.
LEMMA SoundStep == ASSUME LoopInv, [Next]_vars PROVE Sound(tasks, rs)'
<1> USE DEF LoopInv, Sound
<1>1. ASSUME Progress(tasks, tasks'), rs' = rs PROVE Sound(tasks, rs)'
  BY <1>1, ProgressIsSound
<1>2. ASSUME tasks' = tasks,
             rs' = Absent \/ ReviewSound(rs'),
             rs' # Absent /\ rs'.status \in Delivered => Complete(tasks)
      PROVE  Sound(tasks, rs)'
  BY <1>2
<1>3. CASE UNCHANGED <<tasks, rs>>
  BY <1>2, <1>3
<1>4. ASSUME UNCHANGED rs,
             \A s \in Story :
               /\ tasks'.stories[s].status = tasks.stories[s].status
               /\ tasks'.stories[s].commit = tasks.stories[s].commit
      PROVE  Sound(tasks, rs)'
  BY <1>1, <1>4 DEF Progress, With, ActiveStories, Remaining
<1>5. ASSUME NEW s \in Story, StoryStep(s) PROVE Sound(tasks, rs)'
  <2>1. rs' = rs
    BY <1>5 DEF StoryStep, OpenStory, Attempt, SendToReview, Close, Commit,
                RecordCounts, RecordCountsOutOfTurn, LoopBack, GiveUp,
                BlockDependent, TasksCommand
  <2> QED
    BY <1>1, <1>5, <2>1, StoriesProgress
<1>6. CASE TidyPack
  BY <1>4, <1>6 DEF TidyPack, Tidied, TypeOK, TaskDocuments, Entries
<1>7. CASE RunStart \/ Increment
  BY <1>4, <1>7 DEF RunStart, Increment, RunStarted, TurnCounted, TypeOK, TaskDocuments
<1>8. CASE InitState
  BY <1>2, <1>8, NewIsSound DEF InitState, Delivered
<1>9. ASSUME rs \in Documents, tasks' = tasks, NEW r \in Reasons, rs' = Blocked(rs, r)
      PROVE  Sound(tasks, rs)'
  <2>1. rs' \in Documents /\ rs'.status = "blocked"
    BY <1>9, ReviewUpdates DEF Blocked, Documents
  <2>2. ReviewSound(rs')
    BY <1>9, ReviewsAreSound, LoopAssumption DEF LoopAssumption
  <2> QED
    BY <1>2, <1>9, <2>1, <2>2 DEF Delivered
<1>10. CASE ReviewStep
  <2>1. rs \in Documents /\ rs # Absent /\ tasks' = tasks
    BY <1>10 DEF ReviewStep, StartReview, IncoherentReview, IncoherentAgain,
                 RecordVerdict, StartFix, FinishFix, FailFix, ReviewCommand, TypeOK
  <2>2. rs.status \in Delivered
    BY <1>10 DEF ReviewStep, StartReview, IncoherentReview, IncoherentAgain,
                 RecordVerdict, StartFix, FinishFix, FailFix, ReviewCommand, Delivered
  <2>3. ReviewSound(rs')
    <3>1. CASE StartReview
      BY <2>1, <3>1, ReviewsAreSound DEF StartReview, ReviewCommand, Reasons
    <3>2. CASE IncoherentReview \/ IncoherentAgain
      BY <2>1, <3>2, ReviewsAreSound DEF IncoherentReview, IncoherentAgain, ReviewCommand, Reasons
    <3>3. ASSUME NEW v \in Verdicts, RecordVerdict(v) PROVE ReviewSound(rs')
      BY <2>1, <3>3, ReviewsAreSound DEF RecordVerdict, ReviewCommand
    <3>4. CASE StartFix
      BY <2>1, <3>4, ReviewsAreSound DEF StartFix, ReviewCommand, Reasons
    <3>5. CASE FinishFix \/ FailFix
      BY <2>1, <3>5, ReviewsAreSound DEF FinishFix, FailFix, ReviewCommand, Reasons
    <3> QED
      BY <1>10, <3>1, <3>2, <3>3, <3>4, <3>5 DEF ReviewStep
  <2> QED
    BY <1>2, <2>1, <2>2, <2>3
<1>11. CASE OverLimit \/ DecideBlocked
  BY <1>3, <1>9, <1>11 DEF OverLimit, DecideBlocked, DecideTo, Recorded, Reasons, TypeOK
<1>12. CASE Gate
  <2>1. CASE rs' = rs
    BY <1>3, <1>12, <2>1 DEF Gate
  <2>2. CASE rs # Absent /\ rs' = StatusSet(rs, "ready_for_review") /\ PackValid(tasks)
               /\ Required \subseteq DoneStories(tasks)
    <3>1. Complete(tasks)
      BY <1>12, <2>2, TasksAssumption
         DEF TasksAssumption, Complete, PackValid, DoneStories, With, Gate, HookInv
    <3>2. rs \in Documents /\ rs.status = "implementing"
      BY <1>12, <2>2 DEF Gate, HookInv, TypeOK
    <3>3. ReviewSound(rs')
      BY <2>2, <3>2, ReviewsAreSound
    <3> QED
      BY <1>2, <1>12, <3>1, <3>3 DEF Gate
  <2> QED
    BY <1>12, <2>1, <2>2 DEF Gate, GateOk, Recorded
<1> QED
  BY <1>3, <1>5, <1>6, <1>7, <1>8, <1>10, <1>11, <1>12
     DEF Next, HookStep, vars, StartRun, Resume, Unmark, Lose, EndTurn,
         IncrementFails, DecideStop, DecideGoOn, DecideClose, DecideTo, Stop

LEMMA HookStepInv == ASSUME LoopInv, [Next]_vars PROVE HookInv'
<1> USE DEF LoopInv, HookInv
<1>1. CASE UNCHANGED vars
  BY <1>1 DEF vars, Status, Checkpoint, TurnsUsedUp, Limit
<1>2. ASSUME at' \notin {"gate", "overLimit", "stop"} PROVE HookInv'
  BY <1>2
<1>3. CASE OverLimit \/ DecideBlocked
  <2>1. CASE rs = Absent
    BY <1>3, <2>1 DEF OverLimit, DecideBlocked, DecideTo, Recorded, TurnsUsedUp, Limit
  <2>2. CASE rs \in Documents
    <3>1. rs' = Blocked(rs, "other")
      BY <1>3, <2>2, LoopAssumption
         DEF OverLimit, DecideBlocked, DecideTo, Recorded, LoopAssumption
    <3>3. rs' \in Documents /\ rs'.status = "blocked"
      BY <2>2, <3>1, ReviewUpdates DEF Blocked, Documents, Reasons
    <3>2. at' = "stop"
      BY <1>3 DEF OverLimit, DecideBlocked, DecideTo
    <3> QED
      BY <3>2, <3>3, LoopAssumption DEF LoopAssumption, Status
  <2> QED
    BY <2>1, <2>2 DEF TypeOK
<1>4. CASE DecideStop
  BY <1>4 DEF DecideStop, DecideTo, Ended, StoryWaits, Status, Checkpoint
<1>5. CASE DecideClose
  <2>1. rs = Absent \/ rs.status = "implementing"
    BY <1>5 DEF DecideClose, NothingWaits, Ended, InReview, Status, Sound,
                ReviewSound, TypeOK, Documents, Statuses
  <2> QED
    BY <1>5, <2>1 DEF DecideClose, DecideTo
<1>6. CASE Unmark
  BY <1>6 DEF Unmark, Status, Checkpoint, TurnsUsedUp, Limit
<1>9. CASE Increment
  <2>1. tasks' = TurnCounted(tasks) /\ tasks'.turns # Null
    BY <1>9, TasksAssumption DEF Increment, TurnCounted, TypeOK, TaskDocuments, TasksAssumption
  <2> QED
    BY <1>9, <2>1 DEF Increment, TurnsUsedUp, Limit
<1>7. ASSUME NEW s \in Story, StoryStep(s) PROVE HookInv'
  BY <1>2, <1>7, StoryPlaces DEF HookPlaces
<1>8. CASE ReviewStep
  BY <1>2, <1>8 DEF ReviewStep, StartReview, IncoherentReview, IncoherentAgain,
       RecordVerdict, StartFix, FinishFix, FailFix, ReviewCommand
<1> QED
  BY <1>1, <1>2, <1>3, <1>4, <1>5, <1>6, <1>7, <1>8, <1>9
     DEF Next, HookStep, StartRun, InitState, RunStart, Resume, Lose, TidyPack,
         EndTurn, IncrementFails, DecideGoOn, DecideTo, Gate, Stop

LEMMA LoopInvariant == Spec => []LoopInv
<1>1. Init => Sound(tasks, rs) /\ HookInv
  BY FoundAssumption DEF FoundAssumption, Init, HookInv
<1>2. LoopInv /\ [Next]_vars => LoopInv'
  BY TypeStep, SoundStep, HookStepInv DEF LoopInv
<1>3. Spec => []TypeOK
  BY TypeCorrect
<1>4. Init /\ TypeOK => LoopInv
  BY <1>1 DEF LoopInv
<1> QED
  BY <1>2, <1>3, <1>4, PTL DEF Spec

-----------------------------------------------------------------------------
(***************************************************************************)
(* The properties of the loop.                                             *)
(***************************************************************************)

\* No Story is worked on, or done, before everything it depends on is done.
THEOREM DependenciesFirstAlways == Spec => []DependenciesFirst
<1>1. LoopInv => DependenciesFirst
  BY DEF LoopInv, Sound, StoriesSound, DependenciesFirst
<1> QED
  BY <1>1, LoopInvariant, PTL

\* From the hand-off to the verdict every required Story is done and committed.
THEOREM ReviewedIsCompleteAlways == Spec => []ReviewedIsComplete
<1>1. LoopInv => ReviewedIsComplete
  BY DEF LoopInv, Sound, ReviewedIsComplete, Complete, Status, Delivered
<1> QED
  BY <1>1, LoopInvariant, PTL

\* Nor is any Story open, or left to start, while the Milestone is reviewed,
\* however many a lost session left open.
THEOREM NothingIsLeftOverAlways == Spec => []NothingIsLeftOver
<1>1. LoopInv => NothingIsLeftOver
  BY DEF LoopInv, Sound, NothingIsLeftOver, Complete, Status, Delivered
<1> QED
  BY <1>1, LoopInvariant, PTL

\* Nobody who is asked to review finds the verdict that was answered.
THEOREM NoStaleVerdictAlways == Spec => []NoStaleVerdict
<1>1. LoopInv => NoStaleVerdict
  BY DEF LoopInv, Sound, ReviewSound, NoStaleVerdict, Status
<1> QED
  BY <1>1, LoopInvariant, PTL

\* A fix answers a review of its own, and neither exceeds its budget.
THEOREM FixesAnswerReviewsAlways == Spec => []FixesAnswerReviews
<1>1. LoopInv => FixesAnswerReviews
  BY DEF LoopInv, Sound, ReviewSound, FixesAnswerReviews
<1> QED
  BY <1>1, LoopInvariant, PTL

\* The hook ends a run only for a reason that one of the documents shows, and
\* without a review-state.json tasks.json alone shows it.
THEOREM StopShowsWhyAlways == Spec => StopShowsWhy
<1>1. LoopInv =>
        [at = "stop" /\ at' = "away" /\ ~active' =>
           \/ Status \in {"human_acceptance", "blocked"}
           \/ Checkpoint /\ ActiveStories(tasks) = {}
           \/ rs = Absent /\ (TurnsUsedUp \/ BlockedRequired(tasks) # {})]_vars
  BY DEF LoopInv, HookInv
<1> QED
  BY <1>1, LoopInvariant, PTL DEF StopShowsWhy

-----------------------------------------------------------------------------
(***************************************************************************)
(* The loop implements Milestone.                                          *)
(***************************************************************************)

\* A sound pair of documents is a Milestone in a consistent state.
LEMMA SoundIsConsistent ==
  ASSUME TypeOK, Sound(tasks, rs) PROVE Life!Consistent
<1> USE TasksAssumption, LoopAssumption DEF TasksAssumption, LoopAssumption
<1>1. /\ {DoneStories(tasks), ActiveStories(tasks), GivenUp(tasks), Committed(tasks)}
           \subseteq SUBSET Story
      /\ DoneStories(tasks) \cap ActiveStories(tasks) = {}
      /\ DoneStories(tasks) \cap GivenUp(tasks) = {}
      /\ ActiveStories(tasks) \cap GivenUp(tasks) = {}
  BY DEF DoneStories, ActiveStories, GivenUp, Committed, With, Open
<1>3. ASSUME NEW s \in ActiveStories(tasks) \cup DoneStories(tasks)
      PROVE  DependsOn[s] \subseteq DoneStories(tasks)
  <2>1. s \in Story
    BY DEF ActiveStories, DoneStories
  <2> QED
    BY <2>1 DEF Sound, StoriesSound, DependenciesMet, DoneStories
<1>4. Status \in Life!InReview => Life!Handed
  <2>1. Status \in Life!InReview => rs # Absent /\ rs.status \in Delivered
    BY DEF Status, Life!InReview, Life!Phases, Delivered
  <2> QED
    BY <2>1 DEF Sound, Complete, Life!Handed, DoneStories, GivenUp, Committed, Remaining, With
<1>5. /\ Status \in Life!Phases
      /\ Reviews \in 0 .. MaxReview /\ Fixes \in 0 .. MaxFix
      /\ Fixes <= Reviews
      /\ Status \in {"reviewing", "fix_required"} => Fixes < Reviews
  <2>1. CASE rs = Absent
    BY <2>1 DEF Status, Reviews, Fixes, Life!Phases
  <2>2. CASE rs # Absent
    <3>1. rs \in Documents /\ ReviewSound(rs)
      BY <2>2 DEF TypeOK, Sound
    <3> QED
      BY <2>2, <3>1 DEF Status, Reviews, Fixes, Life!Phases, Documents, Statuses, ReviewSound
  <2> QED
    BY <2>1, <2>2
<1> QED
  BY <1>1, <1>3, <1>4, <1>5 DEF Life!Consistent

\* The Story that a command names is the only one that moves.
LEMMA TouchedStories ==
  ASSUME NEW s \in Story, NEW status, NEW review, NEW commit,
         Touches(tasks, tasks', s, status, review, commit)
  PROVE  /\ DoneStories(tasks)' = IF status = "done" THEN DoneStories(tasks) \cup {s}
                                                     ELSE DoneStories(tasks) \ {s}
         /\ ActiveStories(tasks)' = IF status \in Open THEN ActiveStories(tasks) \cup {s}
                                                       ELSE ActiveStories(tasks) \ {s}
         /\ GivenUp(tasks)' = IF status = "blocked" THEN GivenUp(tasks) \cup {s}
                                                    ELSE GivenUp(tasks) \ {s}
         /\ Committed(tasks)' = IF commit THEN Committed(tasks) \cup {s}
                                          ELSE Committed(tasks) \ {s}
BY DEF Touches, DoneStories, ActiveStories, GivenUp, Committed, With

LEMMA ReviewKept ==
  ASSUME rs' = rs PROVE UNCHANGED <<Status, Reviews, Fixes>>
BY DEF Status, Reviews, Fixes

LEMMA StoriesKept ==
  ASSUME \A s \in Story :
           /\ tasks'.stories[s].status = tasks.stories[s].status
           /\ tasks'.stories[s].commit = tasks.stories[s].commit
  PROVE  UNCHANGED <<DoneStories(tasks), ActiveStories(tasks), GivenUp(tasks), Committed(tasks)>>
BY DEF DoneStories, ActiveStories, GivenUp, Committed, With

\* A command on a Story begins, finishes, commits or drops it, or the Milestone
\* does not see it.
LEMMA StoryLives ==
  ASSUME LoopInv, NEW s \in Story, StoryStep(s) PROVE [Life!Next]_Life!vars
<1> DEFINE e == tasks.stories[s]
           Touched(status, review, commit) ==
             Touches(tasks, tasks', s, status, review, commit)
<1>1. tasks \in TaskDocuments /\ e \in Entries /\ e.commit \in BOOLEAN
  BY DEF LoopInv, TypeOK, TaskDocuments, Entries
<1>2. rs' = rs
  BY DEF StoryStep, OpenStory, Attempt, SendToReview, Close, Commit, RecordCounts,
         RecordCountsOutOfTurn, LoopBack, GiveUp, BlockDependent, TasksCommand
<1>3. UNCHANGED <<Status, Reviews, Fixes>>
  BY <1>2, ReviewKept
<1>4. /\ s \in DoneStories(tasks) <=> e.status = "done"
      /\ s \in ActiveStories(tasks) <=> e.status \in Open
      /\ s \in GivenUp(tasks) <=> e.status = "blocked"
      /\ s \in Committed(tasks) <=> e.commit
  BY DEF DoneStories, ActiveStories, GivenUp, Committed, With
<1>6. ASSUME NEW review, NEW status, Touched(status, review, e.commit),
             status = e.status \/ (status \in Open /\ e.status \in Open)
      PROVE  UNCHANGED Life!vars
  <2>1. /\ status = "done" <=> s \in DoneStories(tasks)
        /\ status \in Open <=> s \in ActiveStories(tasks)
        /\ status = "blocked" <=> s \in GivenUp(tasks)
    BY <1>4, <1>6 DEF Open
  <2>2. UNCHANGED <<DoneStories(tasks), ActiveStories(tasks), GivenUp(tasks), Committed(tasks)>>
    BY <1>4, <1>6, <2>1, TouchedStories
  <2> QED
    BY <1>3, <2>2 DEF Life!vars
<1> USE DEF TasksCommand, With
<1>7. CASE OpenStory(s)
  <2>1. Touched("in_progress", e.review, e.commit)
    BY <1>1, <1>7, StoryEffects DEF OpenStory
  <2>2. e.status \in {"ready", "pending"} /\ DependsOn[s] \subseteq DoneStories(tasks)
    BY <1>7, TasksAssumption
       DEF TasksAssumption, OpenStory, IsNext, Eligible, DependenciesMet, DoneStories
  <2>3. Status = "implementing"
    BY <1>7 DEF OpenStory
  <2>6. /\ s \notin DoneStories(tasks) \cup GivenUp(tasks) \cup ActiveStories(tasks)
        /\ "in_progress" \in Open
    BY <1>4, <2>2 DEF Open
  <2>4. /\ DoneStories(tasks)' = DoneStories(tasks)
        /\ ActiveStories(tasks)' = ActiveStories(tasks) \cup {s}
        /\ GivenUp(tasks)' = GivenUp(tasks)
        /\ Committed(tasks)' = Committed(tasks)
    <3>1. /\ DoneStories(tasks)' = DoneStories(tasks) \ {s}
          /\ ActiveStories(tasks)' = ActiveStories(tasks) \cup {s}
          /\ GivenUp(tasks)' = GivenUp(tasks) \ {s}
          /\ Committed(tasks)' = IF e.commit THEN Committed(tasks) \cup {s}
                                             ELSE Committed(tasks) \ {s}
      BY <2>1, <2>6, TouchedStories
    <3> QED
      BY <1>4, <2>6, <3>1
  <2>5. Life!Begin(s)
    BY <1>3, <2>2, <2>3, <2>4, <2>6 DEF Life!Begin, Life!review
  <2> QED
    BY <2>5 DEF Life!Next
<1>8. CASE Attempt(s) \/ SendToReview(s) \/ LoopBack(s)
  <2>1. PICK status : /\ Touched(status, e.review, e.commit)
                      /\ status = e.status \/ (status \in Open /\ e.status \in Open)
    BY <1>1, <1>8, StoryEffects DEF Attempt, SendToReview, LoopBack, Open
  <2> QED
    BY <1>6, <2>1
<1>9. ASSUME NEW c \in {"clean", "blocking"},
             RecordCounts(s, c) \/ RecordCountsOutOfTurn(s, c)
      PROVE  [Life!Next]_Life!vars
  <2>1. Touched(e.status, c, e.commit)
    BY <1>1, <1>9, StoryEffects DEF RecordCounts, RecordCountsOutOfTurn
  <2> QED
    BY <1>6, <2>1
<1>10. CASE Close(s)
  <2>1. Touched("done", e.review, e.commit)
    BY <1>1, <1>10, StoryEffects DEF Close
  <2>2. s \in ActiveStories(tasks)
    BY <1>4, <1>10 DEF Close
  <2>5. s \notin GivenUp(tasks) /\ "done" \notin Open
    BY <1>4, <2>2 DEF Open
  <2>3. /\ DoneStories(tasks)' = DoneStories(tasks) \cup {s}
        /\ ActiveStories(tasks)' = ActiveStories(tasks) \ {s}
        /\ GivenUp(tasks)' = GivenUp(tasks)
        /\ Committed(tasks)' = Committed(tasks)
    <3>1. /\ DoneStories(tasks)' = DoneStories(tasks) \cup {s}
          /\ ActiveStories(tasks)' = ActiveStories(tasks) \ {s}
          /\ GivenUp(tasks)' = GivenUp(tasks) \ {s}
          /\ Committed(tasks)' = IF e.commit THEN Committed(tasks) \cup {s}
                                             ELSE Committed(tasks) \ {s}
      BY <2>1, <2>5, TouchedStories
    <3> QED
      BY <1>4, <2>5, <3>1
  <2>4. Life!Finish(s)
    BY <1>3, <2>2, <2>3 DEF Life!Finish, Life!review
  <2> QED
    BY <2>4 DEF Life!Next
<1>11. CASE Commit(s)
  <2>1. Touched("done", e.review, TRUE)
    BY <1>1, <1>11, StoryEffects DEF Commit
  <2>2. s \in DoneStories(tasks)
    BY <1>4, <1>11 DEF Commit
  <2>5. s \notin ActiveStories(tasks) \cup GivenUp(tasks) /\ "done" \notin Open
    BY <1>4, <2>2 DEF Open
  <2>3. /\ DoneStories(tasks)' = DoneStories(tasks)
        /\ ActiveStories(tasks)' = ActiveStories(tasks)
        /\ GivenUp(tasks)' = GivenUp(tasks)
        /\ Committed(tasks)' = Committed(tasks) \cup {s}
    <3>1. /\ DoneStories(tasks)' = DoneStories(tasks) \cup {s}
          /\ ActiveStories(tasks)' = ActiveStories(tasks) \ {s}
          /\ GivenUp(tasks)' = GivenUp(tasks) \ {s}
          /\ Committed(tasks)' = Committed(tasks) \cup {s}
      BY <2>1, <2>5, TouchedStories
    <3> QED
      BY <2>2, <2>5, <3>1
  <2>4. Life!Commit(s)
    BY <1>3, <2>2, <2>3 DEF Life!Commit, Life!review
  <2> QED
    BY <2>4 DEF Life!Next
<1>12. CASE GiveUp(s) \/ BlockDependent(s)
  <2>1. Touched("blocked", e.review, e.commit)
    BY <1>1, <1>12, StoryEffects DEF GiveUp, BlockDependent
  <2>2. s \in ActiveStories(tasks)
          \/ (s \notin DoneStories(tasks) /\ DependsOn[s] \cap GivenUp(tasks) # {})
    <3>1. CASE GiveUp(s)
      BY <1>4, <3>1 DEF GiveUp, Open
    <3>2. CASE BlockDependent(s)
      BY <3>2, TasksAssumption
         DEF TasksAssumption, BlockDependent, Remaining, DoneStories, GivenUp
    <3> QED
      BY <1>12, <3>1, <3>2
  <2>3. s \notin DoneStories(tasks)
    BY <1>4, <2>2 DEF Open
  <2>4. /\ DoneStories(tasks)' = DoneStories(tasks)
        /\ ActiveStories(tasks)' = ActiveStories(tasks) \ {s}
        /\ GivenUp(tasks)' = GivenUp(tasks) \cup {s}
        /\ Committed(tasks)' = Committed(tasks)
    BY <1>4, <2>1, <2>3, TouchedStories DEF Open
  <2>5. Life!Drop(s)
    BY <1>3, <2>2, <2>4 DEF Life!Drop, Life!review
  <2> QED
    BY <2>5 DEF Life!Next
<1> QED
  BY <1>7, <1>8, <1>9, <1>10, <1>11, <1>12 DEF StoryStep

\* A block, if there is a document to record it in.
LEMMA BlockLives ==
  ASSUME TypeOK, tasks' = tasks, NEW r \in Reasons, Recorded(Blocked(rs, r))
  PROVE  [Life!Next]_Life!vars
<1>1. UNCHANGED <<DoneStories(tasks), ActiveStories(tasks), GivenUp(tasks), Committed(tasks)>>
  BY StoriesKept
<1>2. CASE rs = Absent
  BY <1>1, <1>2, ReviewKept DEF Recorded, Life!vars
<1>3. CASE rs # Absent
  <2>1. rs \in Documents /\ rs' = Blocked(rs, r)
    BY <1>3 DEF TypeOK, Recorded
  <2>2. /\ rs' # Absent /\ rs'.status = "blocked"
        /\ rs'.reviewAttempt = rs.reviewAttempt /\ rs'.fixAttempt = rs.fixAttempt
    BY <2>1, ReviewUpdates, LoopAssumption DEF Blocked, Documents, LoopAssumption
  <2>3. Life!Block
    BY <1>1, <1>3, <2>2 DEF Life!Block, Life!stories, Status, Reviews, Fixes
  <2> QED
    BY <2>3 DEF Life!Next
<1> QED
  BY <1>2, <1>3

\* A command of the review opens, judges, fixes or blocks; an incoherent review
\* is counted where the Milestone does not see it.
LEMMA ReviewLives ==
  ASSUME LoopInv, ReviewStep PROVE [Life!Next]_Life!vars
<1>1. rs \in Documents /\ rs # Absent /\ tasks' = tasks
  BY DEF LoopInv, TypeOK, ReviewStep, StartReview, IncoherentReview,
         IncoherentAgain, RecordVerdict, StartFix, FinishFix, FailFix, ReviewCommand
<1>2. UNCHANGED Life!stories
  BY <1>1, StoriesKept DEF Life!stories
<1>3. ASSUME NEW new \in Documents, rs' = new
      PROVE  /\ Status = rs.status /\ Status' = new.status
             /\ Reviews = rs.reviewAttempt /\ Reviews' = new.reviewAttempt
             /\ Fixes = rs.fixAttempt /\ Fixes' = new.fixAttempt
  BY <1>1, <1>3, LoopAssumption DEF LoopAssumption, Status, Reviews, Fixes
<1>4. ASSUME NEW r \in Reasons, rs' = Blocked(rs, r) PROVE [Life!Next]_Life!vars
  BY <1>1, <1>4, BlockLives DEF LoopInv, Recorded
<1> USE ReviewUpdates DEF ReviewCommand, Life!Moves
<1>5. CASE StartReview
  <2>1. CASE ReviewExhausted(rs)
    BY <1>4, <1>5, <2>1 DEF StartReview, Reasons
  <2>2. CASE ~ReviewExhausted(rs)
    <3>1. rs' = ReviewOpened(rs) /\ rs.status = "ready_for_review"
      BY <1>5, <2>2 DEF StartReview
    <3>2. /\ rs'.status = "reviewing" /\ rs'.reviewAttempt = rs.reviewAttempt + 1
          /\ rs'.fixAttempt = rs.fixAttempt
      BY <1>1, <3>1 DEF Documents, ReviewOpened
    <3>4. rs.reviewAttempt < MaxReview
      BY <1>1, <2>2, LoopAssumption DEF LoopAssumption, Documents, ReviewExhausted
    <3>3. Life!OpenReview
      BY <1>1, <1>2, <1>3, <3>1, <3>2, <3>4 DEF Life!OpenReview
    <3> QED
      BY <3>3 DEF Life!Next
  <2> QED
    BY <2>1, <2>2
<1>6. CASE IncoherentReview
  <2>1. rs' = Errored(rs)
    BY <1>6 DEF IncoherentReview
  <2>2. /\ rs'.status = rs.status /\ rs'.reviewAttempt = rs.reviewAttempt
        /\ rs'.fixAttempt = rs.fixAttempt
    BY <1>1, <2>1 DEF Documents, Errored
  <2>3. UNCHANGED <<Status, Reviews, Fixes>>
    BY <1>1, <1>3, <2>1, <2>2
  <2> QED
    BY <1>2, <2>3 DEF Life!vars, Life!stories
<1>7. CASE IncoherentAgain \/ FailFix
  BY <1>4, <1>7 DEF IncoherentAgain, FailFix, Reasons
<1>8. ASSUME NEW v \in Verdicts, RecordVerdict(v) PROVE [Life!Next]_Life!vars
  <2>1. rs' = Judged(rs, v, FindingsOf(v)) /\ rs.status = "reviewing"
    BY <1>8 DEF RecordVerdict
  <2>2. /\ rs'.status \in {"human_acceptance", "fix_required"}
        /\ rs'.reviewAttempt = rs.reviewAttempt
        /\ rs'.fixAttempt = rs.fixAttempt
    BY <1>1, <2>1 DEF Documents, Judged, StatusAfter
  <2>3. Life!Judge
    BY <1>1, <1>2, <1>3, <2>1, <2>2 DEF Life!Judge
  <2> QED
    BY <2>3 DEF Life!Next
<1>9. CASE StartFix
  <2>1. CASE FixExhausted(rs)
    BY <1>4, <1>9, <2>1 DEF StartFix, Reasons
  <2>2. CASE ~FixExhausted(rs)
    <3>1. rs' = FixOpened(rs) /\ rs.status = "fix_required"
      BY <1>9, <2>2 DEF StartFix
    <3>2. /\ rs'.status = "fixing" /\ rs'.fixAttempt = rs.fixAttempt + 1
          /\ rs'.reviewAttempt = rs.reviewAttempt
      BY <1>1, <3>1 DEF Documents, FixOpened
    <3>4. rs.fixAttempt < MaxFix
      BY <1>1, <2>2, LoopAssumption DEF LoopAssumption, Documents, FixExhausted
    <3>3. Life!OpenFix
      BY <1>1, <1>2, <1>3, <3>1, <3>2, <3>4 DEF Life!OpenFix
    <3> QED
      BY <3>3 DEF Life!Next
  <2> QED
    BY <2>1, <2>2
<1>10. CASE FinishFix
  <2>1. rs' = FixClosed(rs) /\ rs.status = "fixing"
    BY <1>10 DEF FinishFix
  <2>2. /\ rs'.status = "ready_for_review" /\ rs'.reviewAttempt = rs.reviewAttempt
        /\ rs'.fixAttempt = rs.fixAttempt
    BY <1>1, <2>1 DEF Documents, FixClosed
  <2>3. Life!CloseFix
    BY <1>1, <1>2, <1>3, <2>1, <2>2 DEF Life!CloseFix
  <2> QED
    BY <2>3 DEF Life!Next
<1> QED
  BY <1>5, <1>6, <1>7, <1>8, <1>9, <1>10 DEF ReviewStep

\* The gate hands the Milestone over complete, and the rest of the hook only
\* ever blocks it.
LEMMA HookLives ==
  ASSUME LoopInv, HookStep PROVE [Life!Next]_Life!vars
<1> USE DEF LoopInv
<1>1. ASSUME UNCHANGED rs,
             \A s \in Story :
               /\ tasks'.stories[s].status = tasks.stories[s].status
               /\ tasks'.stories[s].commit = tasks.stories[s].commit
      PROVE  [Life!Next]_Life!vars
  BY <1>1, ReviewKept, StoriesKept DEF Life!vars
<1>2. CASE Increment
  BY <1>1, <1>2 DEF Increment, TurnCounted, TypeOK, TaskDocuments
<1>3. CASE IncrementFails \/ DecideStop \/ DecideGoOn \/ DecideClose \/ Stop
  BY <1>1, <1>3 DEF IncrementFails, DecideStop, DecideGoOn, DecideClose, DecideTo, Stop
<1>4. CASE OverLimit \/ DecideBlocked
  BY <1>4, BlockLives DEF OverLimit, DecideBlocked, DecideTo, Reasons
<1>5. CASE Gate
  <2>1. CASE rs' = rs
    BY <1>1, <1>5, <2>1 DEF Gate
  <2>2. CASE /\ rs # Absent /\ rs' = StatusSet(rs, "ready_for_review")
             /\ PackValid(tasks) /\ Required \subseteq DoneStories(tasks)
    <3>6. Remaining(tasks) = {}
      BY <1>5 DEF Gate, HookInv
    <3>1. Life!Handed
      BY <2>2, <3>6, TasksAssumption
         DEF TasksAssumption, PackValid, Life!Handed, DoneStories, GivenUp, Committed,
             Remaining, With
    <3>2. rs \in Documents /\ rs.status = "implementing"
      BY <1>5, <2>2 DEF Gate, HookInv, TypeOK
    <3>3. /\ rs' # Absent /\ rs'.status = "ready_for_review"
          /\ rs'.reviewAttempt = rs.reviewAttempt /\ rs'.fixAttempt = rs.fixAttempt
      BY <2>2, <3>2, ReviewUpdates, LoopAssumption DEF LoopAssumption, StatusSet, Documents
    <3>4. UNCHANGED Life!stories
      BY <1>5, StoriesKept DEF Gate, Life!stories
    <3>5. Life!HandOver
      BY <2>2, <3>1, <3>2, <3>3, <3>4
         DEF Life!HandOver, Life!Moves, Status, Reviews, Fixes
    <3> QED
      BY <3>5 DEF Life!Next
  <2> QED
    BY <1>5, <2>1, <2>2 DEF Gate, GateOk, Recorded
<1> QED
  BY <1>2, <1>3, <1>4, <1>5 DEF HookStep

LEMMA LifeStep ==
  ASSUME LoopInv, [Next]_vars PROVE [Life!Next]_Life!vars
<1> USE DEF LoopInv
<1>1. ASSUME UNCHANGED <<Status, Reviews, Fixes>>,
             \A s \in Story :
               /\ tasks'.stories[s].status = tasks.stories[s].status
               /\ tasks'.stories[s].commit = tasks.stories[s].commit
      PROVE  [Life!Next]_Life!vars
  BY <1>1, StoriesKept DEF Life!vars
<1>2. CASE UNCHANGED <<tasks, rs>>
  BY <1>1, <1>2, ReviewKept
<1>3. CASE InitState
  <2>1. NewDocument # Absent
    BY NewDocumentIsDocument, LoopAssumption DEF LoopAssumption
  <2>2. UNCHANGED <<Status, Reviews, Fixes>>
    BY <1>3, <2>1, ReviewKept DEF InitState, Status, Reviews, Fixes, NewDocument
  <2> QED
    BY <1>1, <1>3, <2>2 DEF InitState
<1>4. CASE RunStart \/ TidyPack
  <2>1. tasks \in TaskDocuments
    BY DEF TypeOK
  <2>2. UNCHANGED <<Status, Reviews, Fixes>>
    BY <1>4, ReviewKept DEF RunStart, TidyPack
  <2>3. CASE RunStart
    BY <1>1, <2>1, <2>2, <2>3 DEF RunStart, RunStarted, TaskDocuments
  <2>4. CASE TidyPack
    BY <1>1, <2>1, <2>2, <2>4 DEF TidyPack, Tidied, TaskDocuments, Entries
  <2> QED
    BY <1>4, <2>3, <2>4
<1> QED
  BY <1>2, <1>3, <1>4, StoryLives, ReviewLives, HookLives
     DEF Next, vars, StartRun, Resume, Unmark, Lose, EndTurn

\* Every behaviour of the lead, the hook, the person and the lost sessions is a
\* life of the Milestone: what the commands do to the two files is one step of
\* it or none, for any Stories, dependencies and budgets.
THEOREM MilestoneRefinement == Spec => LoopImplementsMilestone
<1>1. Init /\ TypeOK => Life!Init
  BY FoundAssumption, SoundIsConsistent DEF FoundAssumption, Init, Life!Init
<1>2. LoopInv /\ [Next]_vars => [Life!Next]_Life!vars
  BY LifeStep
<1>3. Spec => []TypeOK
  BY TypeCorrect
<1> QED
  BY <1>1, <1>2, <1>3, LoopInvariant, PTL DEF Spec, LoopImplementsMilestone, Life!Spec

\* A Milestone in its abstract life stays consistent, so what the loop refines
\* is itself never handed over unfinished or with a Story left over, nor reviewed
\* beyond its budget.
THEOREM LifeStaysConsistent == Life!Spec => []Life!Consistent
<1>1. ASSUME Life!Consistent, [Life!Next]_Life!vars PROVE Life!Consistent'
  <2> USE LoopAssumption, TasksAssumption
      DEF LoopAssumption, TasksAssumption, Life!Consistent, Life!review, Life!stories
  <2>1. CASE UNCHANGED Life!vars
    BY <1>1, <2>1 DEF Life!vars, Life!Handed
  <2>2. ASSUME NEW s \in Story, Life!Begin(s)
        PROVE  Life!Consistent'
    BY <1>1, <2>2 DEF Life!Begin, Life!InReview
  <2>6. ASSUME NEW s \in Story, Life!Finish(s)
        PROVE  Life!Consistent'
    BY <1>1, <2>6 DEF Life!Finish, Life!Handed
  <2>3. ASSUME NEW s \in Story, Life!Commit(s) \/ Life!Drop(s)
        PROVE  Life!Consistent'
    BY <1>1, <2>3 DEF Life!Commit, Life!Drop, Life!Handed
  <2>4. CASE Life!HandOver \/ Life!Judge \/ Life!CloseFix \/ Life!Block
    BY <1>1, <2>4 DEF Life!HandOver, Life!Judge, Life!CloseFix, Life!Block,
                      Life!Moves, Life!InReview, Life!Phases, Life!Handed
  <2>5. CASE Life!OpenReview \/ Life!OpenFix
    BY <1>1, <2>5 DEF Life!OpenReview, Life!OpenFix, Life!Moves, Life!InReview, Life!Phases,
                      Life!Handed
  <2> QED
    BY <1>1, <2>1, <2>2, <2>3, <2>4, <2>5, <2>6 DEF Life!Next
<1> QED
  BY <1>1, PTL DEF Life!Spec, Life!Init

\* However often a session is lost, no command of the lead, the hook or the next
\* session undoes, uncommits or takes up again what is done or given up, gives
\* an attempt back, or reopens what was handed over (tasks.sh:111-146,
\* review-state.sh:74-164).
THEOREM NothingIsUndone == Spec => Life!NothingUndone
<1> DEFINE WorkKept ==
             /\ DoneStories(tasks) \subseteq DoneStories(tasks)'
             /\ GivenUp(tasks) \subseteq GivenUp(tasks)'
             /\ Committed(tasks) \subseteq Committed(tasks)'
           PhaseKept ==
             /\ Reviews <= Reviews' /\ Fixes <= Fixes'
             /\ Status # "implementing" => Status' # "implementing"
             /\ Status \in {"human_acceptance", "blocked"} => Status' \in {Status, "blocked"}
<1>1. ASSUME Life!Consistent, [Life!Next]_Life!vars
      PROVE  [WorkKept /\ PhaseKept]_Life!vars
  <2> USE LoopAssumption DEF LoopAssumption, Life!Consistent, Life!stories, Life!review
  <2>1. ASSUME NEW s \in Story, Life!Begin(s) \/ Life!Finish(s) \/ Life!Commit(s) \/ Life!Drop(s)
        PROVE  WorkKept /\ UNCHANGED <<Status, Reviews, Fixes>>
    BY <1>1, <2>1 DEF Life!Begin, Life!Finish, Life!Commit, Life!Drop
  <2>2. ASSUME \/ Life!HandOver \/ Life!OpenReview \/ Life!Judge
               \/ Life!OpenFix \/ Life!CloseFix \/ Life!Block
        PROVE  UNCHANGED Life!stories /\ PhaseKept
    BY <1>1, <2>2 DEF Life!HandOver, Life!OpenReview, Life!Judge, Life!OpenFix,
                      Life!CloseFix, Life!Block, Life!Moves
  <2>3. Reviews <= Reviews /\ Fixes <= Fixes
    BY <1>1
  <2> QED
    BY <1>1, <2>1, <2>2, <2>3 DEF Life!Next
<1>2. Life!Consistent /\ [Life!Next]_Life!vars => [WorkKept /\ PhaseKept]_Life!vars
  BY <1>1
<1> QED
  BY <1>2, MilestoneRefinement, LifeStaysConsistent, PTL
     DEF LoopImplementsMilestone, Life!Spec, Life!NothingUndone

\* Reviews and fixes come to an end: the Milestone changes its phase at most
\* 4 * MaxReview + 5 times, in however many sessions and runs.
THEOREM PhasesComeToAnEnd ==
  Spec => [](Life!PhaseRank \in 0 .. 4 * MaxReview + 5) /\ Life!PhasesEnd
<1> USE LoopAssumption DEF LoopAssumption, Life!Consistent, Life!PhaseRank, Life!Phases
<1> DEFINE Falls == /\ Life!PhaseRank' <= Life!PhaseRank
                    /\ Status' # Status => Life!PhaseRank' < Life!PhaseRank
<1>1. ASSUME Life!Consistent PROVE Life!PhaseRank \in 0 .. 4 * MaxReview + 5
  BY <1>1
<1>2. ASSUME Life!Consistent, [Life!Next]_Life!vars PROVE [Falls]_Life!vars
  <2>1. ASSUME UNCHANGED <<Status, Reviews>> PROVE Falls
    BY <1>1, <1>2, <2>1
  <2>2. ASSUME \/ Life!HandOver \/ Life!OpenReview \/ Life!Judge
               \/ Life!OpenFix \/ Life!CloseFix \/ Life!Block
        PROVE  Falls
    BY <1>2, <2>2 DEF Life!HandOver, Life!OpenReview, Life!Judge, Life!OpenFix,
                      Life!CloseFix, Life!Block, Life!Moves
  <2> QED
    BY <1>2, <2>1, <2>2 DEF Life!Next, Life!Begin, Life!Finish, Life!Commit,
                            Life!Drop, Life!review
<1>3. Life!Consistent /\ [Life!Next]_Life!vars => [Falls]_Life!vars
  BY <1>2
<1> QED
  BY <1>1, <1>3, MilestoneRefinement, LifeStaysConsistent, PTL
     DEF LoopImplementsMilestone, Life!Spec, Life!PhasesEnd

-----------------------------------------------------------------------------
(***************************************************************************)
(* The gate and the turns.                                                 *)
(***************************************************************************)

\* Past its increment the hook has either recorded turns or failed to.
TurnsRecorded == at \in {"decide", "gate"} => failures > 0 \/ tasks.turns # Null

LEMMA TurnsStep ==
  ASSUME TypeOK, TurnsRecorded, [Next]_vars PROVE TurnsRecorded'
<1> USE DEF TypeOK, TurnsRecorded
<1>1. CASE UNCHANGED vars \/ Unmark
  BY <1>1 DEF vars, Unmark
<1>2. ASSUME at' \notin {"decide", "gate"} PROVE TurnsRecorded'
  BY <1>2
<1>3. CASE Increment
  <2>1. tasks' = TurnCounted(tasks) /\ tasks'.turns # Null
    BY <1>3, TasksAssumption DEF Increment, TurnCounted, TaskDocuments, TasksAssumption
  <2> QED
    BY <2>1
<1>4. CASE IncrementFails
  BY <1>4, LoopAssumption DEF IncrementFails, LoopAssumption
<1>5. CASE DecideClose
  BY <1>5 DEF DecideClose, DecideTo
<1>6. ASSUME NEW s \in Story, StoryStep(s) PROVE TurnsRecorded'
  BY <1>2, <1>6, StoryPlaces DEF HookPlaces
<1>7. CASE ReviewStep
  BY <1>2, <1>7 DEF ReviewStep, StartReview, IncoherentReview, IncoherentAgain,
       RecordVerdict, StartFix, FinishFix, FailFix, ReviewCommand
<1> QED
  BY <1>1, <1>2, <1>3, <1>4, <1>5, <1>6, <1>7
     DEF Next, HookStep, StartRun, InitState, RunStart, Resume, Lose, TidyPack,
         EndTurn, OverLimit, DecideStop, DecideGoOn, DecideBlocked, DecideTo, Gate, Stop

\* Whatever the lead does and whatever a run finds, a hook none of whose
\* increments failed never hands the Milestone over.
THEOREM HandOverNeedsFailureAlways == Spec => HandOverNeedsFailure
<1>1. LoopInv /\ TurnsRecorded /\ [Next]_vars =>
        [at = "gate" /\ Status' = "ready_for_review" => failures > 0]_vars
  <2> SUFFICES ASSUME LoopInv, TurnsRecorded, [Next]_vars, at = "gate", failures <= 0,
                      Status' = "ready_for_review"
               PROVE  FALSE
    BY DEF LoopInv, TypeOK
  <2>1. tasks.turns # Null
    BY DEF TurnsRecorded, LoopInv, TypeOK
  <2>2. rs' # rs
    BY DEF LoopInv, HookInv, Status
  <2>3. Gate
    BY <2>2 DEF Next, vars, StartRun, InitState, RunStart, Resume, Unmark, Lose,
         StoryStep, OpenStory, Attempt, SendToReview, Close, Commit, RecordCounts,
         RecordCountsOutOfTurn, LoopBack, GiveUp, BlockDependent, TasksCommand, TidyPack, ReviewStep,
         StartReview, IncoherentReview, IncoherentAgain, RecordVerdict, StartFix,
         FinishFix, FailFix, ReviewCommand, EndTurn, HookStep, Increment,
         IncrementFails, OverLimit, DecideStop, DecideGoOn, DecideBlocked,
         DecideClose, DecideTo, Stop
  <2>4. PackValid(tasks)
    BY <2>2, <2>3 DEF Gate, GateOk
  <2> QED
    BY <2>1, <2>4 DEF PackValid
<1>2. Init => TurnsRecorded
  BY DEF Init, TurnsRecorded
<1>3. LoopInv /\ TurnsRecorded /\ [Next]_vars => TurnsRecorded'
  BY TurnsStep DEF LoopInv
<1> QED
  BY <1>1, <1>2, <1>3, LoopInvariant, PTL DEF Spec, HandOverNeedsFailure

-----------------------------------------------------------------------------
(***************************************************************************)
(* The turns of a session.  SessionEnds needs fairness; what it needs of   *)
(* the hook is proved here: a turn it grants is paid for.                  *)
(***************************************************************************)

TurnsLeft == IF tasks.turns = Null THEN Limit + 1
             ELSE IF tasks.turns > Limit THEN 0 ELSE Limit + 1 - tasks.turns

\* An edit by hand removes the turns and so restores them.
Budget ==
  TurnsLeft + (MaxFailures - failures) + (Limit + 2) * (MaxEdits - edits)

\* Between two starts of a run nothing adds to what is left, and each time the
\* hook gets past its increment some of it is spent.
TurnsAreSpent ==
  [][~RunStart => /\ Budget' <= Budget
                  /\ at = "increment" /\ at' = "decide" => Budget' < Budget]_vars

LEMMA LimitIsNat == Limit \in Nat
<1>1. Cardinality(Story) \in Nat
  BY TasksAssumption, FS_CardinalityType DEF TasksAssumption
<1>2. TurnsPerStory \in Nat /\ SparedTurns \in Nat
  BY LoopAssumption DEF LoopAssumption
<1>3. \A a, b, c \in Nat : a * b + c \in Nat
  OBVIOUS
<1> QED
  BY <1>1, <1>2, <1>3 DEF Limit

\* The lead cannot turn the hook's turns into more turns, in however many
\* sessions, with lost ones resumed: it runs out of them, or starts a run again.
THEOREM TurnsAreSpentAlways == Spec => TurnsAreSpent
<1> USE LimitIsNat, TasksAssumption, LoopAssumption DEF TypeOK, TaskDocuments
<1> DEFINE Spends == /\ Budget' <= Budget
                     /\ at = "increment" /\ at' = "decide" => Budget' < Budget
<1>1. ASSUME TypeOK
      PROVE  /\ TurnsLeft \in 0 .. Limit + 1
             /\ MaxFailures - failures \in Nat /\ MaxEdits - edits \in Nat
             /\ MaxFailures \in Nat /\ MaxEdits \in Nat /\ Limit \in Nat
             /\ (Limit + 2) * (MaxEdits - edits) \in Nat
  BY <1>1 DEF TurnsLeft, LoopAssumption
<1>2. ASSUME TypeOK, UNCHANGED <<failures, edits>>, tasks'.turns = tasks.turns,
             ~(at = "increment" /\ at' = "decide")
      PROVE  Spends
  BY <1>1, <1>2 DEF Budget, TurnsLeft, Limit
<1>3. ASSUME TypeOK, NEW s \in Story, StoryStep(s) PROVE Spends
  <2>1. CASE \E c \in {"clean", "blocking"} : RecordCountsOutOfTurn(s, c)
    <3>1. /\ edits' = edits + 1 /\ failures' = failures /\ edits < MaxEdits
          /\ tasks'.turns = tasks.turns /\ at = "turn"
      BY <2>1 DEF RecordCountsOutOfTurn, StoryReviewed
    <3>2. TurnsLeft' = TurnsLeft /\ Limit' = Limit
      BY <3>1 DEF TurnsLeft, Limit
    <3>3. (Limit + 2) * (MaxEdits - (edits + 1)) =
            (Limit + 2) * (MaxEdits - edits) - (Limit + 2)
      BY <1>1, <1>3
    <3> QED
      BY <1>1, <1>3, <3>1, <3>2, <3>3 DEF Budget
  <2>2. CASE ~\E c \in {"clean", "blocking"} : RecordCountsOutOfTurn(s, c)
    <3>1. UNCHANGED <<failures, edits>> /\ at # "increment"
      BY <1>3, <2>2 DEF StoryStep, OpenStory, Attempt, SendToReview, Close, Commit,
           RecordCounts, LoopBack, GiveUp, BlockDependent, TasksCommand
    <3>2. tasks'.turns = tasks.turns
      BY <1>3, <2>2 DEF StoryStep, OpenStory, Attempt, SendToReview, Close, Commit,
           RecordCounts, LoopBack, GiveUp, BlockDependent, TasksCommand, StoryMoved,
           StoryBlocked, StoryAttempted, StoryReviewed, StoryCommitted
    <3> QED
      BY <1>2, <1>3, <3>1, <3>2
  <2> QED
    BY <2>1, <2>2
<1>4. ASSUME TypeOK, Increment PROVE Spends
  <2>1. /\ tasks'.turns = IF tasks.turns = Null THEN 1 ELSE tasks.turns + 1
        /\ UNCHANGED <<failures, edits>>
        /\ at' = "decide" => ~(tasks'.turns > Limit)
    BY <1>4 DEF Increment, TurnCounted
  <2>2. Limit' = Limit
    BY DEF Limit
  <2>3. /\ TurnsLeft' <= TurnsLeft /\ TurnsLeft' \in Nat
        /\ at' = "decide" => TurnsLeft' < TurnsLeft
    BY <1>4, <2>1, <2>2 DEF TurnsLeft, TasksAssumption
  <2> QED
    BY <1>1, <1>4, <2>1, <2>2, <2>3 DEF Budget
<1>5. ASSUME TypeOK, IncrementFails PROVE Spends
  <2>1. failures' = failures + 1 /\ UNCHANGED <<tasks, edits>>
    BY <1>5 DEF IncrementFails
  <2>2. TurnsLeft' = TurnsLeft /\ Limit' = Limit
    BY <2>1 DEF TurnsLeft, Limit
  <2> QED
    BY <1>1, <1>5, <2>1, <2>2 DEF Budget
<1>6. ASSUME TypeOK, TidyPack PROVE Spends
  <2>1. /\ tasks'.turns = Null /\ edits' = edits + 1 /\ failures' = failures
        /\ at = "turn" /\ edits < MaxEdits
    BY <1>6 DEF TidyPack
  <2>2. TurnsLeft' = Limit + 1 /\ Limit' = Limit
    BY <2>1 DEF TurnsLeft, Limit
  <2>3. (Limit + 2) * (MaxEdits - (edits + 1)) =
          (Limit + 2) * (MaxEdits - edits) - (Limit + 2)
    BY <1>1, <1>6
  <2> QED
    BY <1>1, <1>6, <2>1, <2>2, <2>3 DEF Budget
<1>7. ASSUME TypeOK, [Next]_vars, ~RunStart PROVE Spends
  <2>1. CASE UNCHANGED vars
    BY <1>2, <1>7, <2>1 DEF vars
  <2>2. CASE StartRun \/ InitState \/ Resume \/ Unmark \/ Lose \/ EndTurn
    BY <1>2, <1>7, <2>2 DEF StartRun, InitState, Resume, Unmark, Lose, EndTurn, Running,
         LeadPlaces
  <2>3. CASE ReviewStep
    BY <1>2, <1>7, <2>3 DEF ReviewStep, StartReview, IncoherentReview, IncoherentAgain,
         RecordVerdict, StartFix, FinishFix, FailFix, ReviewCommand
  <2>4. CASE OverLimit \/ DecideStop \/ DecideGoOn \/ DecideBlocked \/ DecideClose
               \/ Gate \/ Stop
    BY <1>2, <1>7, <2>4 DEF OverLimit, DecideStop, DecideGoOn, DecideBlocked,
         DecideClose, DecideTo, Gate, Stop
  <2> QED
    BY <1>3, <1>4, <1>5, <1>6, <1>7, <2>1, <2>2, <2>3, <2>4 DEF Next, HookStep
<1>8. TypeOK /\ [Next]_vars => [~RunStart => Spends]_vars
  BY <1>7
<1> QED
  BY <1>8, TypeCorrect, PTL DEF Spec, TurnsAreSpent
=============================================================================
