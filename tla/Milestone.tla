------------------------------ MODULE Milestone ------------------------------
(***************************************************************************)
(* What a run promises of a Milestone, whoever runs the commands, however  *)
(* often a session is lost and wherever: its Stories are taken up in the   *)
(* order of their dependencies, several at once when one was left open,    *)
(* and finished or given up for good; it is handed to the review complete, *)
(* with no Story left over; and its reviews and fixes alternate within     *)
(* their budgets.  There are no commands, no turns and no sessions here;   *)
(* MilestoneLoop is shown to implement it.                                 *)
(***************************************************************************)
EXTENDS Naturals

CONSTANTS Story, DependsOn, Required, MaxReview, MaxFix

VARIABLES done,       \* the finished Stories
          working,    \* the Stories under way
          dropped,    \* the Stories given up
          committed,  \* the Stories whose work is in a commit
          phase,      \* where the Milestone is
          reviews,    \* reviews opened so far
          fixes       \* fixes opened so far

vars == <<done, working, dropped, committed, phase, reviews, fixes>>
stories == <<done, working, dropped, committed>>
review  == <<phase, reviews, fixes>>

Phases == {"implementing", "ready_for_review", "reviewing", "fix_required",
           "fixing", "human_acceptance", "blocked"}

InReview == Phases \ {"implementing", "blocked"}

\* Every Story is finished or given up, and no required one is unfinished or
\* without its commit.
Handed == done \cup dropped = Story /\ Required \subseteq done \cap committed

\* What a Milestone always satisfies, and so what a run may find.
Consistent ==
  /\ {done, working, dropped, committed} \subseteq SUBSET Story
  /\ phase \in Phases /\ reviews \in 0 .. MaxReview /\ fixes \in 0 .. MaxFix
  /\ done \cap working = {} /\ done \cap dropped = {} /\ working \cap dropped = {}
  /\ \A s \in working \cup done : DependsOn[s] \subseteq done
  /\ phase \in InReview => Handed
  /\ fixes <= reviews
  /\ phase \in {"reviewing", "fix_required"} => fixes < reviews

Init == Consistent

-----------------------------------------------------------------------------
(***************************************************************************)
(* The Stories.                                                            *)
(***************************************************************************)

Begin(s) ==
  /\ phase = "implementing"
  /\ s \notin done \cup dropped \cup working /\ DependsOn[s] \subseteq done
  /\ working' = working \cup {s}
  /\ UNCHANGED <<done, dropped, committed, review>>

Finish(s) ==
  /\ s \in working
  /\ working' = working \ {s} /\ done' = done \cup {s}
  /\ UNCHANGED <<dropped, committed, review>>

\* A finished Story may get its commit at any later time.
Commit(s) ==
  /\ s \in done
  /\ committed' = committed \cup {s}
  /\ UNCHANGED <<done, working, dropped, review>>

\* A Story under way, or one that waits for a Story already given up.
Drop(s) ==
  /\ s \in working \/ (s \notin done /\ DependsOn[s] \cap dropped # {})
  /\ working' = working \ {s} /\ dropped' = dropped \cup {s}
  /\ UNCHANGED <<done, committed, review>>

-----------------------------------------------------------------------------
(***************************************************************************)
(* The review.                                                             *)
(***************************************************************************)

Moves(from, to) == phase = from /\ phase' = to /\ UNCHANGED stories

HandOver ==
  /\ Handed
  /\ Moves("implementing", "ready_for_review")
  /\ UNCHANGED <<reviews, fixes>>

OpenReview ==
  /\ reviews < MaxReview
  /\ Moves("ready_for_review", "reviewing")
  /\ reviews' = reviews + 1 /\ UNCHANGED fixes

Judge ==
  /\ \E to \in {"human_acceptance", "fix_required"} : Moves("reviewing", to)
  /\ UNCHANGED <<reviews, fixes>>

OpenFix ==
  /\ fixes < MaxFix
  /\ Moves("fix_required", "fixing")
  /\ fixes' = fixes + 1 /\ UNCHANGED reviews

CloseFix ==
  /\ Moves("fixing", "ready_for_review")
  /\ UNCHANGED <<reviews, fixes>>

\* A Milestone can be blocked wherever it is, the human's acceptance included:
\* the turn limit of the hook is tested before the status is read.
Block ==
  /\ phase' = "blocked"
  /\ UNCHANGED <<stories, reviews, fixes>>

Next ==
  \/ \E s \in Story : Begin(s) \/ Finish(s) \/ Commit(s) \/ Drop(s)
  \/ HandOver \/ OpenReview \/ Judge \/ OpenFix \/ CloseFix \/ Block

Spec == Init /\ [][Next]_vars

-----------------------------------------------------------------------------
\* No step undoes work, gives an attempt back, reopens the implementation, or
\* takes a Milestone that was accepted or blocked anywhere but to a block.
NothingUndone ==
  [][/\ done \subseteq done' /\ dropped \subseteq dropped' /\ committed \subseteq committed'
     /\ reviews <= reviews' /\ fixes <= fixes'
     /\ phase # "implementing" => phase' # "implementing"
     /\ phase \in {"human_acceptance", "blocked"} => phase' \in {phase, "blocked"}]_vars

\* How many phases may still come.
PhaseRank ==
  4 * (MaxReview - reviews) +
    [blocked          |-> 0, human_acceptance |-> 1, ready_for_review |-> 2,
     fixing           |-> 3, implementing     |-> 3, fix_required     |-> 4,
     reviewing        |-> 5][phase]

\* Reviews and fixes do not follow each other for ever: each phase costs one.
PhasesEnd ==
  [][PhaseRank' <= PhaseRank /\ (phase' # phase => PhaseRank' < PhaseRank)]_vars
=============================================================================
