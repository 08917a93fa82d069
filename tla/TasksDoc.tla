------------------------------- MODULE TasksDoc -------------------------------
(***************************************************************************)
(* The document tasks.json, what each command of                           *)
(* tools/opanel-loop/scripts/tasks.sh makes of it, and what bin/pack       *)
(* validate demands of it.  A Story's four counts are abstracted to none   *)
(* recorded, no Critical or High, some of them.                            *)
(***************************************************************************)
EXTENDS Naturals, FiniteSets

CONSTANTS Null,          \* an absent key or the JSON null
          Story,         \* the Stories of the Milestone
          Position,      \* where each Story is declared
          DependsOn,     \* the Stories each one depends on
          Required       \* the Stories the Milestone cannot close without

ASSUME TasksAssumption ==
  /\ IsFiniteSet(Story) /\ Story # {}
  /\ Position \in [Story -> Nat]
  /\ \A s, r \in Story : Position[s] = Position[r] => s = r
  /\ DependsOn \in [Story -> SUBSET Story]
  /\ Required \subseteq Story
  /\ Null \notin Nat \cup {"clean", "blocking", "reason", "blockedReason"}

Open   == {"in_progress", "review", "fix_required"}
States == Open \cup {"pending", "ready", "done", "blocked"}

Entries ==
  [status : States, attempts : Nat, review : {Null, "clean", "blocking"},
   commit : BOOLEAN,    \* is there a commit hash
   \* the `reason` that `set` leaves, or the blockedReason of the schema
   reason : {Null, "reason", "blockedReason"}]

\* The turns of the run are Null before the first run-start or increment.
TaskDocuments == [stories : [Story -> Entries], turns : Nat \cup {Null}]

With(t, s, state) == t.stories[s].status = state

\* A dependency counts from the moment its Story is done.
DependenciesMet(t, s) == \A d \in DependsOn[s] : With(t, d, "done")

\* Faulty variant: next forgets the dependencies.
EligibleAnyway(t, s) == t.stories[s].status \in {"ready", "pending"}

\* next: what may start, the required Stories first, then declaration order.
Eligible(t, s) ==
  t.stories[s].status \in {"ready", "pending"} /\ DependenciesMet(t, s)

Before(s, r) ==
  \/ s \in Required /\ r \notin Required
  \/ (s \in Required <=> r \in Required) /\ Position[s] < Position[r]

IsNext(t, s) ==
  /\ Eligible(t, s)
  /\ \A r \in Story \ {s} : Eligible(t, r) => Before(s, r)

\* active, remaining, and the required Stories the hook finds blocked
ActiveStories(t)   == {s \in Story : t.stories[s].status \in Open}
Remaining(t)       == {s \in Story : t.stories[s].status \notin {"done", "blocked"}}
BlockedRequired(t) == {s \in Required : With(t, s, "blocked")}
DoneStories(t)     == {s \in Story : With(t, s, "done")}

\* set <id> done is refused unless the review file exists (it does when its
\* counts were recorded) and counts neither Critical nor High.
ReviewCountsOk(t, s) == t.stories[s].review = "clean"

\* set <id> <status> [reason]
StoryMoved(t, s, state) == [t EXCEPT !.stories[s].status = state]
StoryBlocked(t, s) ==
  [t EXCEPT !.stories[s].status = "blocked", !.stories[s].reason = "reason"]

\* attempt, review, commit
StoryAttempted(t, s)   == [t EXCEPT !.stories[s].attempts = @ + 1]
StoryReviewed(t, s, c) == [t EXCEPT !.stories[s].review = c]
StoryCommitted(t, s)   == [t EXCEPT !.stories[s].commit = TRUE]

\* Faulty variant: the increment leaves the turns where they were.
TurnCountedNot(t) == [t EXCEPT !.turns = IF @ = Null THEN 0 ELSE @]

\* run-start and turns increment, which starts from 0 when there is no run
RunStarted(t)  == [t EXCEPT !.turns = 0]
TurnCounted(t) == [t EXCEPT !.turns = IF @ = Null THEN 1 ELSE @ + 1]

\* Faulty variant: the schema knows the `run` of a pack.
PackValidWithRun(t) ==
  \A s \in Story : LET e == t.stories[s] IN
    /\ e.review = Null /\ e.reason # "reason"
    /\ e.status = "done" => e.commit
    /\ e.status = "blocked" => e.reason = "blockedReason"

\* bin/pack validate: the schema knows neither `run`, nor a Story's `review`
\* and `reason`; done needs a commit, and blocked a blockedReason object, which
\* no command of tasks.sh writes.
PackValid(t) ==
  /\ t.turns = Null
  /\ \A s \in Story : LET e == t.stories[s] IN
       /\ e.review = Null /\ e.reason # "reason"
       /\ e.status = "done" => e.commit
       /\ e.status = "blocked" => e.reason = "blockedReason"
=============================================================================
