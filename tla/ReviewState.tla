----------------------------- MODULE ReviewState -----------------------------
(***************************************************************************)
(* review-state.sh run by several callers at once: the lead of a Milestone *)
(* run, its subagents, the Stop hook, a person at a terminal.              *)
(*                                                                         *)
(* A caller runs one command after another.  Every write is one step,      *)
(* which is what StateLock shows of with_lock and write_json where flock   *)
(* exists.  What a command reads before it takes the lock is a step of its *)
(* own: review-start and fix-start test the attempts first, and init tests *)
(* for the file and then fills it without the lock.                        *)
(***************************************************************************)
EXTENDS ReviewDoc, FiniteSets

CONSTANTS Caller,        \* whoever runs the script
          Initialiser,   \* the callers that may run init
          SetTargets,    \* the statuses the callers pass to `set`
          Absent,        \* there is no review-state.json
          Torn,          \* the file exists and init has not filled it
          MaxFailures    \* bound on executionFailures

ASSUME CallerAssumption ==
  /\ IsFiniteSet(Caller) /\ Caller # {}
  /\ Initialiser \subseteq Caller
  /\ SetTargets \subseteq Statuses
  /\ Absent \notin Documents /\ Torn \notin Documents /\ Absent # Torn
  /\ MaxFailures \in Nat

VARIABLES doc,    \* review-state.json
          pc      \* what each caller is in the middle of

vars == <<doc, pc>>

Places == {"idle", "init", "fill", "openReview", "refuseReview", "openFix",
           "refuseFix"}

TypeOK ==
  /\ doc \in Documents \cup {Absent, Torn}
  /\ pc \in [Caller -> Places]

Init ==
  /\ doc = Absent
  /\ pc = [c \in Caller |-> "idle"]

\* jq succeeds on the file; otherwise every command dies and changes nothing.
Readable == doc \notin {Absent, Torn}

\* A command without a read of its own: one update of the current document.
Update(c, new) ==
  /\ pc[c] = "idle" /\ Readable
  /\ doc' = new
  /\ UNCHANGED pc

\* A command that reads first: the read decides what it will write.
Decide(c, place) ==
  /\ pc[c] = "idle" /\ doc # Absent
  /\ pc' = [pc EXCEPT ![c] = place]
  /\ UNCHANGED doc

\* The write a command decided on, applied to the document as it is now.
Write(c, place, new) ==
  /\ pc[c] = place /\ Readable
  /\ doc' = new
  /\ pc' = [pc EXCEPT ![c] = "idle"]

-----------------------------------------------------------------------------
\* init does nothing when the file exists, and writes it in place otherwise.
InitTest(c) ==
  /\ c \in Initialiser /\ pc[c] = "idle" /\ doc = Absent
  /\ pc' = [pc EXCEPT ![c] = "init"]
  /\ UNCHANGED doc

InitCreate(c) ==
  /\ pc[c] = "init"
  /\ doc' = Torn
  /\ pc' = [pc EXCEPT ![c] = "fill"]

InitFill(c) ==
  /\ pc[c] = "fill"
  /\ doc' = NewDocument
  /\ pc' = [pc EXCEPT ![c] = "idle"]

Set(c, s) == Update(c, StatusSet(doc, s))

\* On a torn file the attempts read as nothing and the test lets it pass.
ReviewStart(c) ==
  Decide(c, IF Readable /\ ReviewExhausted(doc) THEN "refuseReview" ELSE "openReview")

ReviewOpen(c)   == Write(c, "openReview", ReviewOpened(doc))
ReviewRefuse(c) == Write(c, "refuseReview", Blocked(doc, "REVIEW_ATTEMPTS_EXHAUSTED"))

\* The counts come from the caller; incoherent ones are refused.
Verdict(c, v, f) ==
  /\ Coherent(v, f)
  /\ Update(c, Judged(doc, v, f))

FixStart(c) ==
  Decide(c, IF Readable /\ FixExhausted(doc) THEN "refuseFix" ELSE "openFix")

FixOpen(c)   == Write(c, "openFix", FixOpened(doc))
FixRefuse(c) == Write(c, "refuseFix", Blocked(doc, "FIX_ATTEMPTS_EXHAUSTED"))

FixDone(c) == Update(c, FixClosed(doc))
Block(c)   == Update(c, Blocked(doc, "other"))

Error(c) ==
  /\ Readable /\ doc.executionFailures < MaxFailures
  /\ Update(c, Errored(doc))

\* The caller dies, or its command does, between its read and its write.
Die(c) ==
  /\ pc[c] # "idle"
  /\ pc' = [pc EXCEPT ![c] = "idle"]
  /\ UNCHANGED doc

Next ==
  \E c \in Caller :
    \/ InitTest(c) \/ InitCreate(c) \/ InitFill(c)
    \/ \E s \in SetTargets : Set(c, s)
    \/ ReviewStart(c) \/ ReviewOpen(c) \/ ReviewRefuse(c)
    \/ \E v \in Verdicts, f \in {"clean", "blocking"} : Verdict(c, v, f)
    \/ FixStart(c) \/ FixOpen(c) \/ FixRefuse(c)
    \/ FixDone(c) \/ Block(c) \/ Error(c)
    \/ Die(c)

Spec == Init /\ [][Next]_vars

-----------------------------------------------------------------------------
(***************************************************************************)
(* Properties.                                                             *)
(***************************************************************************)

At(place) == {c \in Caller : pc[c] = place}

\* The header of the script (review-state.sh:5-9) in the form the code keeps:
\* while nobody sets the status by hand beyond ready_for_review, a Milestone
\* that awaits its human or a fix has exactly the verdict that leads there,
\* with counts that agree, and one under review has none left from before.
VerdictMatchesStatus ==
  Readable =>
    /\ doc.status = "human_acceptance" =>
         doc.verdict = "ACCEPTED" /\ doc.findings = "clean" /\ doc.acceptedAt
    /\ doc.status = "fix_required" =>
         doc.verdict = "NOT_ACCEPTED" /\ doc.findings = "blocking"
    /\ doc.status = "reviewing" => doc.verdict = Null /\ doc.findings = Null

\* The attempts are tested before the lock is taken, so callers that race can
\* exceed the maximum; by no more than the other callers, counting the reviews
\* (and fixes) that have passed the test and are about to open.
AttemptsBounded ==
  Readable =>
    /\ doc.reviewAttempt + Cardinality(At("openReview"))
         <= MaxReview + Cardinality(Caller) - 1
    /\ doc.fixAttempt + Cardinality(At("openFix"))
         <= MaxFix + Cardinality(Caller) - 1

\* review-state.sh exists to stop a review/fix loop (its lines 166-168): once
\* the reviews are used up, no init is under way and no review is about to
\* open, no command ever makes room for another one.
Spent == Readable /\ ReviewExhausted(doc)
                  /\ At("openReview") \cup At("init") \cup At("fill") = {}

SpentStaysSpent == [][Spent => Spent']_vars

\* What the header says of every path in the script: "No path in this script
\* reaches human_acceptance without a verdict" (review-state.sh:9).
AcceptanceNeedsVerdict ==
  Readable /\ doc.status = "human_acceptance" => doc.verdict = "ACCEPTED"
=============================================================================
