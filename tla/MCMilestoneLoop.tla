--------------------------- MODULE MCMilestoneLoop ---------------------------
(***************************************************************************)
(* Small instances of MilestoneLoop: a required Story and two optional     *)
(* ones, of which the one declared first waits for the one declared last.  *)
(* A run finds a pack in which only the last is done and whose session was *)
(* lost in the middle of the last attempt at the required one, before the  *)
(* review was initialised; one lost in the middle of the last attempt at   *)
(* the last, with and without a limit of two Stories; or, as M00 is        *)
(* committed, one whose Stories are all done and whose last review asked   *)
(* for a fix.                                                              *)
(***************************************************************************)
EXTENDS MilestoneLoop, TLC

CONSTANTS s1, s2, s3

MCStory     == {s1, s2, s3}
MCPosition  == (s1 :> 2) @@ (s2 :> 1) @@ (s3 :> 3)
MCDependsOn == (s1 :> {}) @@ (s2 :> {s3}) @@ (s3 :> {})
MCRequired  == {s1}

Pack(done) ==
  [stories |-> [s \in MCStory |->
     [status |-> IF s \in done THEN "done" ELSE "pending", attempts |-> 0,
      review |-> Null, commit |-> s \in done, reason |-> Null]],
   turns |-> Null]

FinishedPack == Pack(MCStory)

RecordedReview ==
  [NewDocument EXCEPT !.status = "fix_required", !.verdict = "NOT_ACCEPTED",
                      !.findings = "blocking", !.reviewAttempt = 1]

\* A session was lost while s was under way, after some attempts and turns.
CutOff(s, done, attempts, turns) ==
  [Pack(done) EXCEPT !.stories[s].status = "in_progress",
                     !.stories[s].attempts = attempts, !.turns = turns]

MCFound == {<<CutOff(s1, {s3}, 1, 1), Absent, 0>>,
            <<CutOff(s3, {s1}, 1, 2), NewDocument, 0>>,
            <<CutOff(s3, {s1}, 1, 2), NewDocument, 2>>,
            <<FinishedPack, RecordedReview, 0>>}

FinishedOnly == {<<FinishedPack, NewDocument, 0>>}
AnyAnswer    == BOOLEAN
AlwaysGreen  == {TRUE}
==============================================================================
