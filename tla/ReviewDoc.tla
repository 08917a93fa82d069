------------------------------ MODULE ReviewDoc ------------------------------
(***************************************************************************)
(* The document review-state.json and what each command of                 *)
(* tools/opanel-loop/scripts/review-state.sh makes of it.  These are the   *)
(* jq filters; who runs them, and in which order, is left to the modules   *)
(* that use this one.  The four finding counts are abstracted to what the  *)
(* script tells apart: none recorded, no Critical or High, some of them.   *)
(***************************************************************************)
EXTENDS Naturals

CONSTANTS Null,          \* the JSON null
          MaxReview,     \* maxReviewAttempts
          MaxFix         \* maxFixAttempts

ASSUME ReviewAssumption ==
  /\ MaxReview \in Nat \ {0}
  /\ MaxFix \in Nat \ {0}
  /\ Null \notin {"ACCEPTED", "NOT_ACCEPTED", "clean", "blocking"}
  /\ Null \notin {"REVIEW_ATTEMPTS_EXHAUSTED", "FIX_ATTEMPTS_EXHAUSTED", "other"}

Statuses == {"implementing", "ready_for_review", "reviewing", "fix_required",
             "fixing", "accepted", "blocked", "human_acceptance"}

Verdicts == {"ACCEPTED", "NOT_ACCEPTED"}

\* Why a Milestone is blocked; "other" stands for a caller's own reason.
Reasons == {"REVIEW_ATTEMPTS_EXHAUSTED", "FIX_ATTEMPTS_EXHAUSTED", "other"}

Documents ==
  [status : Statuses, reviewAttempt : Nat, fixAttempt : Nat,
   executionFailures : Nat, verdict : Verdicts \cup {Null},
   findings : {Null, "clean", "blocking"}, blockedReason : Reasons \cup {Null},
   acceptedAt : BOOLEAN]

\* init
NewDocument ==
  [status |-> "implementing", reviewAttempt |-> 0, fixAttempt |-> 0,
   executionFailures |-> 0, verdict |-> Null, findings |-> Null,
   blockedReason |-> Null, acceptedAt |-> FALSE]

\* set <status>
StatusSet(d, s) == [d EXCEPT !.status = s]

\* Faulty variant: the test lets one attempt too many pass.
ReviewExhaustedLate(d) == d.reviewAttempt > MaxReview

\* review-start: the test on the recorded attempts, then one of two updates.
ReviewExhausted(d) == d.reviewAttempt >= MaxReview

ReviewOpened(d) ==
  [d EXCEPT !.status = "reviewing", !.reviewAttempt = @ + 1, !.verdict = Null,
            !.findings = Null, !.blockedReason = Null]

\* fix-start, the same way; the answered verdict stays until fix-done.
FixExhausted(d) == d.fixAttempt >= MaxFix

FixOpened(d) == [d EXCEPT !.status = "fixing", !.fixAttempt = @ + 1]

\* verdict: the counts the script accepts with a verdict, and where it leads.
\* Faulty variants: acceptance ends in a status of its own; the counts are not
\* compared with the verdict.
StatusAfterDone(v) == IF v = "ACCEPTED" THEN "done" ELSE "fix_required"
CoherentUnchecked(v, f) == f \in {"clean", "blocking"}

FindingsOf(v) == IF v = "ACCEPTED" THEN "clean" ELSE "blocking"

StatusAfter(v) == IF v = "ACCEPTED" THEN "human_acceptance" ELSE "fix_required"

Coherent(v, f) == f = FindingsOf(v)

Judged(d, v, f) ==
  [d EXCEPT !.status = StatusAfter(v), !.verdict = v, !.findings = f,
            !.executionFailures = 0,
            !.acceptedAt = @ \/ v = "ACCEPTED"]

\* Faulty variants: handing the Milestone back also restores the reviews, or
\* leaves the answered verdict behind.
FixClosedStale(d) ==
  [d EXCEPT !.status = "ready_for_review", !.blockedReason = Null]
FixClosedAnew(d) ==
  [d EXCEPT !.status = "ready_for_review", !.verdict = Null, !.findings = Null,
            !.reviewAttempt = 0, !.blockedReason = Null]

\* fix-done
FixClosed(d) ==
  [d EXCEPT !.status = "ready_for_review", !.verdict = Null, !.findings = Null,
            !.blockedReason = Null]

\* block <reason>, which is also how an exhausted budget is recorded
Blocked(d, r) == [d EXCEPT !.status = "blocked", !.blockedReason = r]

\* error <code>
Errored(d) == [d EXCEPT !.executionFailures = @ + 1]
=============================================================================
