---------------------------- MODULE MilestoneLoop ----------------------------
(***************************************************************************)
(* The autonomous Milestone loop: the lead of a run, who calls tasks.sh    *)
(* and review-state.sh as the skills tell it to, and the Stop hook that    *)
(* runs whenever the lead ends its turn and decides from the recorded      *)
(* state whether the run goes on.                                          *)
(*                                                                         *)
(* One session is at work at a time, so a command of a script is one step  *)
(* (StateLock and ReviewState model what they do when several run).  The   *)
(* lead is an agent: it may end its turn after any command, and a session  *)
(* may be lost between any two, the hook's included.  What it does next is *)
(* therefore read from the recorded state, as the skills demand.           *)
(***************************************************************************)
EXTENDS TasksDoc

CONSTANTS Absent,         \* there is no review-state.json
          MaxReview, MaxFix,
          MaxAttempts,    \* attempts before the lead gives a Story up
          TurnsPerStory,  \* 6 in the hook
          SparedTurns,    \* 30 in the hook
          OtherChecks,    \* what the gate's other checks may answer
          Found,          \* the documents, and the limit of Stories, a run may find
          MayInterrupt,   \* may a run be cut off
          MaxSessions,    \* bound on sessions
          MaxFailures,    \* bound on failed increments and incoherent reviews
          MaxEdits        \* bound on the lead's edits of tasks.json by hand
                          \* and on the counts it records out of turn

INSTANCE ReviewDoc

ASSUME LoopAssumption ==
  /\ {MaxReview, MaxFix} \subseteq Nat \ {0}
  /\ {MaxAttempts, TurnsPerStory, SparedTurns, MaxSessions,
      MaxFailures, MaxEdits} \subseteq Nat
  /\ OtherChecks \subseteq BOOLEAN
  /\ Found \subseteq TaskDocuments \X (Documents \cup {Absent}) \X Nat
  /\ Absent \notin Documents
  /\ MayInterrupt \in BOOLEAN
  /\ Story \cap {"turn", "marked", "inited", "rejudge", "increment", "overLimit",
                 "decide", "gate", "stop", "away"} = {}

VARIABLES
  active,     \* does .backlog-active exist
  tasks,      \* tasks.json
  rs,         \* review-state.json
  perRun,     \* OPANEL_MAX_STORIES_PER_RUN, 0 for none
  at,         \* what the session is in the middle of
  sessions,   \* sessions so far
  failures,   \* increments that failed so far
  edits       \* edits by hand and counts out of turn so far

vars == <<active, tasks, rs, perRun, at, sessions, failures, edits>>

\* The lead's places: free to choose, between the three commands of a start,
\* after one incoherent review, or, named by the Story, between the command
\* that opens it or sends it back to the builder and its attempt.
LeadPlaces == {"turn", "marked", "inited", "rejudge"} \cup Story

\* The hook's: before the increment, past the limit, before the case over the
\* status, before the gate, before the removal of .backlog-active.
HookPlaces == {"increment", "overLimit", "decide", "gate", "stop"}

Running == at # "away"

TypeOK ==
  /\ active \in BOOLEAN
  /\ tasks \in TaskDocuments
  /\ rs \in Documents \cup {Absent}
  /\ perRun \in Nat
  /\ at \in LeadPlaces \cup HookPlaces \cup {"away"}
  /\ sessions \in 0 .. MaxSessions
  /\ failures \in 0 .. MaxFailures
  /\ edits \in 0 .. MaxEdits

\* What earlier runs, or the author of the pack, may have left: what the
\* Stories, the review, and the two together are known to satisfy.
StoriesSound(t) ==
  \A s \in ActiveStories(t) \cup DoneStories(t) : DependenciesMet(t, s)

ReviewSound(d) ==
  /\ d.status # "accepted"
  /\ d.status \in {"implementing", "ready_for_review"} =>
       d.verdict = Null /\ d.findings = Null
  /\ d.status \in {"reviewing", "fix_required"} => d.fixAttempt < d.reviewAttempt
  /\ d.fixAttempt <= d.reviewAttempt
  /\ d.reviewAttempt <= MaxReview /\ d.fixAttempt <= MaxFix

Delivered == {"ready_for_review", "reviewing", "fix_required", "fixing",
              "human_acceptance"}

\* Nothing is open or may start, and what is required is done and committed.
Complete(t) ==
  /\ Remaining(t) = {}
  /\ \A s \in Required : With(t, s, "done") /\ t.stories[s].commit

Sound(t, d) ==
  /\ StoriesSound(t)
  /\ d # Absent => ReviewSound(d) /\ (d.status \in Delivered => Complete(t))

ASSUME FoundAssumption == \A f \in Found : Sound(f[1], f[2])

Init ==
  /\ active = FALSE
  /\ \E f \in Found : tasks = f[1] /\ rs = f[2] /\ perRun = f[3]
  /\ at = "away"
  /\ sessions = 0
  /\ failures = 0
  /\ edits = 0

\* review-state.sh status, and what the hook makes of its failure
Status == IF rs = Absent THEN "implementing" ELSE rs.status

\* A command on a review-state.json that does not exist changes nothing.
Recorded(new) == rs' = IF rs = Absent THEN rs ELSE new

-----------------------------------------------------------------------------
(***************************************************************************)
(* Sessions.                                                               *)
(***************************************************************************)

\* A person starts the run with /backlog ...
StartRun ==
  /\ ~Running /\ sessions < MaxSessions
  /\ active' = TRUE
  /\ at' = "marked"
  /\ sessions' = sessions + 1
  /\ UNCHANGED <<tasks, rs, failures, edits, perRun>>

InitState ==
  /\ at = "marked"
  /\ rs' = IF rs = Absent THEN NewDocument ELSE rs
  /\ at' = "inited"
  /\ UNCHANGED <<active, tasks, sessions, failures, edits, perRun>>

RunStart ==
  /\ at = "inited"
  /\ tasks' = RunStarted(tasks)
  /\ at' = "turn"
  /\ UNCHANGED <<active, rs, sessions, failures, edits, perRun>>

\* ... or reopens the conversation of a run that was cut off.
Resume ==
  /\ ~Running /\ active /\ sessions < MaxSessions
  /\ at' = "turn"
  /\ sessions' = sessions + 1
  /\ UNCHANGED <<active, tasks, rs, failures, edits, perRun>>

\* The escape hatch: a person deletes .backlog-active.
Unmark ==
  /\ MayInterrupt /\ active
  /\ active' = FALSE
  /\ UNCHANGED <<tasks, rs, at, sessions, failures, edits, perRun>>

\* The session dies, or the hook runs into its timeout.
Lose ==
  /\ MayInterrupt /\ Running
  /\ at' = "away"
  /\ UNCHANGED <<active, tasks, rs, sessions, failures, edits, perRun>>

-----------------------------------------------------------------------------
(***************************************************************************)
(* The lead and its Stories.                                               *)
(***************************************************************************)

\* A command on tasks.json, after which the lead is at a given place.
TasksCommand(place, new, next) ==
  /\ at = place
  /\ tasks' = new
  /\ at' = next
  /\ UNCHANGED <<active, rs, sessions, failures, edits, perRun>>

\* `next` does not look at what is open, and the skill opens what `next` says:
\* a turn that finds a Story left open by an earlier one may open a second.
OpenStory(s) ==
  /\ Status = "implementing"
  /\ IsNext(tasks, s)
  /\ TasksCommand("turn", StoryMoved(tasks, s, "in_progress"), s)

\* Of the Story just opened, or just sent back.
Attempt(s) == TasksCommand(s, StoryAttempted(tasks, s), "turn")

\* The builder is done and the Story goes to the reviewer.
SendToReview(s) ==
  /\ tasks.stories[s].status \in {"in_progress", "fix_required"}
  /\ TasksCommand("turn", StoryMoved(tasks, s, "review"), "turn")

RecordCounts(s, c) ==
  /\ With(tasks, s, "review")
  /\ TasksCommand("turn", StoryReviewed(tasks, s, c), "turn")

\* `review` asks for no status: counts can be recorded for any Story, one that
\* was never reviewed or one that is done.
RecordCountsOutOfTurn(s, c) ==
  /\ at = "turn" /\ edits < MaxEdits
  /\ tasks' = StoryReviewed(tasks, s, c)
  /\ edits' = edits + 1
  /\ UNCHANGED <<active, rs, at, sessions, failures, perRun>>

\* The lead may try this at any time; the script refuses without clean counts.
Close(s) ==
  /\ tasks.stories[s].status \in Open
  /\ ReviewCountsOk(tasks, s)
  /\ TasksCommand("turn", StoryMoved(tasks, s, "done"), "turn")

\* At once after closing, or later when the gate names the missing commit.
Commit(s) ==
  /\ With(tasks, s, "done") /\ ~tasks.stories[s].commit
  /\ TasksCommand("turn", StoryCommitted(tasks, s), "turn")

LoopBack(s) ==
  /\ With(tasks, s, "review") /\ tasks.stories[s].review = "blocking"
  /\ tasks.stories[s].attempts < MaxAttempts
  /\ TasksCommand("turn", StoryMoved(tasks, s, "fix_required"), s)

\* Faulty variant: any Story can be given up, a finished one included.
GiveUpAny(s) ==
  /\ ~With(tasks, s, "blocked")
  /\ TasksCommand("turn", StoryBlocked(tasks, s), "turn")

\* A conflict with the documentation, or no progress after the attempts.
GiveUp(s) ==
  /\ \/ With(tasks, s, "in_progress")
     \/ With(tasks, s, "review") /\ tasks.stories[s].review = "blocking"
  /\ TasksCommand("turn", StoryBlocked(tasks, s), "turn")

\* The hook asks for this when nothing is ready and Stories remain.
BlockDependent(s) ==
  /\ s \in Remaining(tasks) \ ActiveStories(tasks)
  /\ \E d \in DependsOn[s] : With(tasks, d, "blocked")
  /\ TasksCommand("turn", StoryBlocked(tasks, s), "turn")

\* The gate's refusal names pack-consistent: the lead removes by hand the keys
\* the schema does not know and writes the reason of a block as it wants it.
Tidied(e) ==
  [e EXCEPT !.review = Null,
            !.reason = IF e.status = "blocked" THEN "blockedReason" ELSE Null]

TidyPack ==
  /\ at = "turn" /\ edits < MaxEdits
  /\ tasks' = [stories |-> [s \in Story |-> Tidied(tasks.stories[s])],
               turns |-> Null]
  /\ edits' = edits + 1
  /\ UNCHANGED <<active, rs, at, sessions, failures, perRun>>

-----------------------------------------------------------------------------
(***************************************************************************)
(* The lead and the review of the Milestone.                               *)
(***************************************************************************)

\* A command on review-state.json that the skills ask for in one status.
ReviewCommand(places, status, new, next) ==
  /\ at \in places /\ rs # Absent /\ rs.status = status
  /\ rs' = new
  /\ at' = next
  /\ UNCHANGED <<active, tasks, sessions, failures, edits, perRun>>

StartReview ==
  ReviewCommand({"turn"}, "ready_for_review",
    IF ReviewExhausted(rs) THEN Blocked(rs, "REVIEW_ATTEMPTS_EXHAUSTED")
                           ELSE ReviewOpened(rs), "turn")

RecordVerdict(v) ==
  ReviewCommand({"turn", "rejudge"}, "reviewing", Judged(rs, v, FindingsOf(v)), "turn")

IncoherentReview ==
  /\ rs # Absent /\ rs.executionFailures < MaxFailures
  /\ ReviewCommand({"turn"}, "reviewing", Errored(rs), "rejudge")

IncoherentAgain ==
  ReviewCommand({"rejudge"}, "reviewing", Blocked(rs, "other"), "turn")

\* Faulty variant: a fix that was cut off is opened once more.
StartFixAgain ==
  /\ at = "turn" /\ rs # Absent /\ rs.status \in {"fix_required", "fixing"}
  /\ rs' = IF FixExhausted(rs) THEN Blocked(rs, "FIX_ATTEMPTS_EXHAUSTED")
                               ELSE FixOpened(rs)
  /\ UNCHANGED <<active, tasks, at, sessions, failures, edits, perRun>>

StartFix ==
  ReviewCommand({"turn"}, "fix_required",
    IF FixExhausted(rs) THEN Blocked(rs, "FIX_ATTEMPTS_EXHAUSTED")
                        ELSE FixOpened(rs), "turn")

FinishFix == ReviewCommand({"turn"}, "fixing", FixClosed(rs), "turn")
FailFix   == ReviewCommand({"turn"}, "fixing", Blocked(rs, "other"), "turn")

-----------------------------------------------------------------------------
(***************************************************************************)
(* The Stop hook.                                                          *)
(***************************************************************************)

\* Without .backlog-active the hook exits at once and the session is over.
EndTurn ==
  /\ at \in LeadPlaces
  /\ at' = IF active THEN "increment" ELSE "away"
  /\ UNCHANGED <<active, tasks, rs, sessions, failures, edits, perRun>>

Limit == TurnsPerStory * Cardinality(Story) + SparedTurns

TurnsUsedUp == tasks.turns # Null /\ tasks.turns > Limit

Increment ==
  /\ at = "increment"
  /\ tasks' = TurnCounted(tasks)
  /\ at' = IF tasks'.turns > Limit THEN "overLimit" ELSE "decide"
  /\ UNCHANGED <<active, rs, sessions, failures, edits, perRun>>

\* The turns read as 0, which is within any limit.
IncrementFails ==
  /\ at = "increment" /\ failures < MaxFailures
  /\ failures' = failures + 1
  /\ at' = "decide"
  /\ UNCHANGED <<active, tasks, rs, sessions, edits, perRun>>

\* Faulty variant: the run stops without saying why.
OverLimitSilently ==
  /\ at = "overLimit"
  /\ at' = "stop"
  /\ UNCHANGED <<active, tasks, rs, sessions, failures, edits, perRun>>

OverLimit ==
  /\ at = "overLimit"
  /\ Recorded(Blocked(rs, "other"))
  /\ at' = "stop"
  /\ UNCHANGED <<active, tasks, sessions, failures, edits, perRun>>

\* Every Story that is done counts, those of earlier runs included.
Checkpoint == perRun > 0 /\ Cardinality(DoneStories(tasks)) >= perRun

\* The case over the status and the tests after it, in the order of the script.
Ended == Status \in {"human_acceptance", "blocked"}

InReview == Status \in {"ready_for_review", "reviewing", "fix_required", "fixing"}

\* A Story to close, or one to start before the next checkpoint.
StoryWaits ==
  \/ ActiveStories(tasks) # {}
  \/ ~Checkpoint /\ \E s \in Story : Eligible(tasks, s)

DecideTo(place) ==
  /\ at = "decide"
  /\ at' = place
  /\ UNCHANGED <<active, tasks, sessions, failures, edits, perRun>>

DecideStop ==
  /\ Ended \/ (~InReview /\ ~StoryWaits /\ Checkpoint)
  /\ DecideTo("stop")
  /\ UNCHANGED rs

DecideGoOn ==
  /\ ~Ended
  /\ \/ InReview \/ StoryWaits
     \/ ~Checkpoint /\ BlockedRequired(tasks) = {} /\ Remaining(tasks) # {}
  /\ DecideTo("turn")
  /\ UNCHANGED rs

\* Nothing to do and no reason to stop for, but this one or the gate.
NothingWaits == ~Ended /\ ~InReview /\ ~StoryWaits /\ ~Checkpoint

DecideBlocked ==
  /\ NothingWaits /\ BlockedRequired(tasks) # {}
  /\ DecideTo("stop")
  /\ Recorded(Blocked(rs, "other"))

\* Faulty variant: the hook does not count what remains.
DecideCloseEarly ==
  /\ NothingWaits /\ BlockedRequired(tasks) = {}
  /\ DecideTo("gate")
  /\ UNCHANGED rs

DecideClose ==
  /\ NothingWaits /\ BlockedRequired(tasks) = {} /\ Remaining(tasks) = {}
  /\ DecideTo("gate")
  /\ UNCHANGED rs

\* bin/stop-gate: the pack is valid, every required Story is done, and the
\* other checks agree.
GateOk(others) ==
  others /\ PackValid(tasks) /\ Required \subseteq DoneStories(tasks)

Gate ==
  /\ at = "gate"
  /\ \E others \in OtherChecks :
       IF GateOk(others) THEN Recorded(StatusSet(rs, "ready_for_review"))
                         ELSE UNCHANGED rs
  /\ at' = "turn"
  /\ UNCHANGED <<active, tasks, sessions, failures, edits, perRun>>

Stop ==
  /\ at = "stop"
  /\ active' = FALSE
  /\ at' = "away"
  /\ UNCHANGED <<tasks, rs, sessions, failures, edits, perRun>>

-----------------------------------------------------------------------------
StoryStep(s) ==
  \/ OpenStory(s) \/ Attempt(s) \/ SendToReview(s) \/ Close(s) \/ Commit(s)
  \/ \E c \in {"clean", "blocking"} : RecordCounts(s, c) \/ RecordCountsOutOfTurn(s, c)
  \/ LoopBack(s) \/ GiveUp(s) \/ BlockDependent(s)

ReviewStep ==
  \/ StartReview \/ IncoherentReview \/ IncoherentAgain
  \/ \E v \in Verdicts : RecordVerdict(v)
  \/ StartFix \/ FinishFix \/ FailFix

HookStep ==
  \/ Increment \/ IncrementFails \/ OverLimit
  \/ DecideStop \/ DecideGoOn \/ DecideBlocked \/ DecideClose
  \/ Gate \/ Stop

Next ==
  \/ StartRun \/ InitState \/ RunStart \/ Resume \/ Unmark \/ Lose
  \/ \E s \in Story : StoryStep(s)
  \/ TidyPack \/ ReviewStep
  \/ EndTurn \/ HookStep

Spec == Init /\ [][Next]_vars

\* A turn ends, since a conversation is finite, and the hook runs to its end.
\* Nothing is assumed of what the lead does within a turn.
FairSpec == Spec /\ WF_vars(EndTurn) /\ WF_vars(HookStep)

-----------------------------------------------------------------------------
(***************************************************************************)
(* Properties.                                                             *)
(***************************************************************************)

\* A Story is worked on, or was finished, only after everything it depends on:
\* dependencies stay done, whatever is blocked, cut off or resumed meanwhile.
DependenciesFirst ==
  \A s \in ActiveStories(tasks) \cup DoneStories(tasks) : DependenciesMet(tasks, s)

\* From the hand-off to the verdict no required Story is unfinished or without
\* its commit: the gate's answer stays true through the reviews and the fixes,
\* also when a session was lost between `set done` and `commit`.
ReviewedIsComplete ==
  Status \in Delivered =>
    \A s \in Required : With(tasks, s, "done") /\ tasks.stories[s].commit

\* Nor is a Story left over then, an optional one included: of several that lost
\* sessions left open, `active` names the hook one at a time, and those that
\* wait for one given up must be given up too (stop-gate.sh:76-107).
NothingIsLeftOver == Status \in Delivered => Remaining(tasks) = {}

\* The comment over fix-done (review-state.sh:142-144): nobody who is asked to
\* review the Milestone finds the answered verdict or its counts there.
NoStaleVerdict ==
  Status = "ready_for_review" => rs.verdict = Null /\ rs.findings = Null

\* Every fix answers a review of its own, and neither exceeds its budget.
FixesAnswerReviews ==
  rs # Absent => /\ rs.fixAttempt <= rs.reviewAttempt
                 /\ rs.reviewAttempt <= MaxReview
                 /\ rs.fixAttempt <= MaxFix

\* Why the hook ended a run can be read in the two documents: the review waits
\* for a person, or the Stories are between two checkpoints.  Where there is no
\* review-state.json the block fails and the hook stops all the same
\* (stop-gate.sh:51-52, 101-102): then only tasks.json shows the reason, a
\* blocked required Story, or turns that the next run-start sets back to 0.
StopShowsWhy ==
  [][at = "stop" /\ at' = "away" /\ ~active' =>
       \/ Status \in {"human_acceptance", "blocked"}
       \/ Checkpoint /\ ActiveStories(tasks) = {}
       \/ rs = Absent /\ (TurnsUsedUp \/ BlockedRequired(tasks) # {})]_vars

\* The turn budget is the backstop (stop-gate.sh:43-46): a session comes to an
\* end whatever the lead does with its turns.
SessionEnds == Running ~> ~Running

\* What the backlog skill says of a Milestone whose Stories are done and whose
\* checks pass: "The Stop hook moves the state to `ready_for_review`".
Finished ==
  /\ Running /\ Status = "implementing"
  /\ \A s \in Story : With(tasks, s, "done") /\ tasks.stories[s].commit

FinishedIsHandedOver == Finished ~> Status = "ready_for_review"

\* Only a hook whose increment failed finds a pack its own gate accepts: the
\* turns that the increment writes are a key the schema does not know, so with
\* every increment written the hook hands no Milestone over.
HandOverNeedsFailure ==
  [][at = "gate" /\ Status' = "ready_for_review" => failures > 0]_vars

\* The life of the Milestone that the commands, the hook and the lost sessions
\* add up to.
GivenUp(t)   == {s \in Story : With(t, s, "blocked")}
Committed(t) == {s \in Story : t.stories[s].commit}
Reviews      == IF rs = Absent THEN 0 ELSE rs.reviewAttempt
Fixes        == IF rs = Absent THEN 0 ELSE rs.fixAttempt

Life == INSTANCE Milestone WITH
  done      <- DoneStories(tasks),
  working   <- ActiveStories(tasks),
  dropped   <- GivenUp(tasks),
  committed <- Committed(tasks),
  phase     <- Status,
  reviews   <- Reviews,
  fixes     <- Fixes

\* Whatever a command, the hook or the end of a session does is one step of the
\* Milestone's life, or none.
LoopImplementsMilestone == Life!Spec
=============================================================================
