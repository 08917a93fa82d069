-------------------------- MODULE ReviewStateProofs --------------------------
(***************************************************************************)
(* What holds of ReviewState for any number of callers and any budgets.    *)
(***************************************************************************)
EXTENDS ReviewState, FiniteSetTheorems, TLAPS

\* The updates of the script keep the shape of the document.
LEMMA DocumentUpdates ==
  ASSUME NEW d \in Documents
  PROVE  /\ \A s \in Statuses : StatusSet(d, s) \in Documents
         /\ ReviewOpened(d) \in Documents
         /\ FixOpened(d) \in Documents
         /\ \A v \in Verdicts, f \in {"clean", "blocking"} : Judged(d, v, f) \in Documents
         /\ FixClosed(d) \in Documents
         /\ \A r \in Reasons : Blocked(d, r) \in Documents
         /\ Errored(d) \in Documents
<1> USE DEF Documents, Statuses, Verdicts, Reasons
<1>1. \A s \in Statuses : StatusSet(d, s) \in Documents
  BY DEF StatusSet
<1> DEFINE n == d.reviewAttempt
           x == d.fixAttempt
<1>0. n + 1 \in Nat /\ x + 1 \in Nat
  OBVIOUS
<1> HIDE DEF n, x
<1>2. ReviewOpened(d) \in Documents
  <2>1. ReviewOpened(d) =
          [d EXCEPT !.status = "reviewing", !.reviewAttempt = n + 1,
             !.verdict = Null, !.findings = Null, !.blockedReason = Null]
    BY DEF ReviewOpened, n
  <2> QED
    BY <1>0, <2>1
<1>3. FixOpened(d) \in Documents
  <2>1. FixOpened(d) = [d EXCEPT !.status = "fixing", !.fixAttempt = x + 1]
    BY DEF FixOpened, x
  <2> QED
    BY <1>0, <2>1
<1>4. ASSUME NEW v \in Verdicts, NEW f \in {"clean", "blocking"}
      PROVE  Judged(d, v, f) \in Documents
  <2>1. (d.acceptedAt \/ v = "ACCEPTED") \in BOOLEAN
    OBVIOUS
  <2>2. StatusAfter(v) \in Statuses
    BY DEF StatusAfter
  <2> QED
    BY <2>1, <2>2 DEF Judged
<1>5. FixClosed(d) \in Documents
  BY DEF FixClosed
<1>6. \A r \in Reasons : Blocked(d, r) \in Documents
  BY DEF Blocked
<1>7. Errored(d) \in Documents
  BY DEF Errored
<1> QED
  BY <1>1, <1>2, <1>3, <1>4, <1>5, <1>6, <1>7

LEMMA NewDocumentIsDocument == NewDocument \in Documents
BY DEF NewDocument, Documents, Statuses, Verdicts, Reasons


LEMMA TypeStep == ASSUME TypeOK, [Next]_vars PROVE TypeOK'
<1> USE CallerAssumption DEF CallerAssumption, TypeOK, Places
<1>1. CASE UNCHANGED vars
  BY <1>1 DEF vars
<1>2. ASSUME NEW c \in Caller,
             InitTest(c) \/ InitCreate(c) \/ InitFill(c) \/ ReviewStart(c)
               \/ FixStart(c) \/ Die(c)
      PROVE  TypeOK'
  BY <1>2, NewDocumentIsDocument
     DEF InitTest, InitCreate, InitFill, ReviewStart, FixStart, Decide, Die
<1>3. ASSUME NEW c \in Caller, NEW new \in Documents, NEW place,
             Update(c, new) \/ Write(c, place, new)
      PROVE  TypeOK'
  BY <1>3 DEF Update, Write
<1>4. ASSUME NEW c \in Caller, NEW s \in SetTargets, Set(c, s) PROVE TypeOK'
  <2>1. doc \in Documents /\ s \in Statuses
    BY <1>4 DEF Set, Update, Readable
  <2> QED
    BY <1>3, <1>4, <2>1, DocumentUpdates DEF Set
<1>5. ASSUME NEW c \in Caller, NEW v \in Verdicts, NEW f \in {"clean", "blocking"},
             Verdict(c, v, f)
      PROVE  TypeOK'
  <2>1. doc \in Documents
    BY <1>5 DEF Verdict, Update, Readable
  <2> QED
    BY <1>3, <1>5, <2>1, DocumentUpdates DEF Verdict
<1>6. ASSUME NEW c \in Caller, FixDone(c) \/ Block(c) \/ Error(c) PROVE TypeOK'
  <2>1. doc \in Documents
    BY <1>6 DEF FixDone, Block, Error, Update, Readable
  <2> QED
    BY <1>3, <1>6, <2>1, DocumentUpdates DEF FixDone, Block, Error, Reasons
<1>7. ASSUME NEW c \in Caller,
             ReviewOpen(c) \/ ReviewRefuse(c) \/ FixOpen(c) \/ FixRefuse(c)
      PROVE  TypeOK'
  <2>1. doc \in Documents
    BY <1>7 DEF ReviewOpen, ReviewRefuse, FixOpen, FixRefuse, Write, Readable
  <2> QED
    BY <1>3, <1>7, <2>1, DocumentUpdates
       DEF ReviewOpen, ReviewRefuse, FixOpen, FixRefuse, Reasons
<1> QED
  BY <1>1, <1>2, <1>4, <1>5, <1>6, <1>7 DEF Next

\* No command writes a document that is not one, whatever it read before.
THEOREM TypeCorrect == Spec => []TypeOK
<1>1. Init => TypeOK
  BY DEF Init, TypeOK, Places
<1> QED
  BY <1>1, TypeStep, PTL DEF Spec

-----------------------------------------------------------------------------
(***************************************************************************)
(* The verdict and the status.                                             *)
(***************************************************************************)

\* The statuses that a verdict, or the opening of a review, must lead to.
Earned == {"human_acceptance", "fix_required", "reviewing"}

LEMMA VerdictStep ==
  ASSUME SetTargets \cap Earned = {}, TypeOK, VerdictMatchesStatus, [Next]_vars
  PROVE  VerdictMatchesStatus'
<1> USE DEF TypeOK, VerdictMatchesStatus, Readable, Documents
<1>1. CASE UNCHANGED vars
  BY <1>1 DEF vars
<1>2. ASSUME NEW c \in Caller,
             InitTest(c) \/ InitCreate(c) \/ InitFill(c) \/ ReviewStart(c)
               \/ FixStart(c) \/ Die(c)
      PROVE  VerdictMatchesStatus'
  BY <1>2 DEF InitTest, InitCreate, InitFill, NewDocument, ReviewStart, FixStart,
              Decide, Die
<1>3. ASSUME NEW c \in Caller, NEW s \in SetTargets, Set(c, s)
      PROVE  VerdictMatchesStatus'
  BY <1>3 DEF Set, Update, StatusSet, Earned
<1>4. ASSUME NEW c \in Caller, NEW v \in Verdicts, NEW f \in {"clean", "blocking"},
             Verdict(c, v, f)
      PROVE  VerdictMatchesStatus'
  BY <1>4 DEF Verdict, Verdicts, Coherent, FindingsOf, Update, Judged, StatusAfter
<1>5. ASSUME NEW c \in Caller, FixDone(c) \/ Block(c) \/ Error(c)
      PROVE  VerdictMatchesStatus'
  BY <1>5 DEF FixDone, Block, Error, Update, FixClosed, Blocked, Errored
<1>6. ASSUME NEW c \in Caller,
             ReviewOpen(c) \/ ReviewRefuse(c) \/ FixOpen(c) \/ FixRefuse(c)
      PROVE  VerdictMatchesStatus'
  BY <1>6 DEF ReviewOpen, ReviewRefuse, FixOpen, FixRefuse, Write, ReviewOpened,
              FixOpened, Blocked
<1> QED
  BY <1>1, <1>2, <1>3, <1>4, <1>5, <1>6 DEF Next

\* Unless somebody sets one of these statuses by hand, a Milestone awaits its
\* human only with an ACCEPTED verdict over clean counts, awaits a fix only with
\* a NOT_ACCEPTED one, and is reviewed with none, for any racing callers.
THEOREM VerdictMatchesStatusAlways ==
  ASSUME SetTargets \cap Earned = {} PROVE Spec => []VerdictMatchesStatus
<1>1. Init => TypeOK /\ VerdictMatchesStatus
  BY DEF Init, TypeOK, Places, VerdictMatchesStatus, Readable
<1>2. TypeOK /\ VerdictMatchesStatus /\ [Next]_vars
        => TypeOK' /\ VerdictMatchesStatus'
  BY TypeStep, VerdictStep
<1> QED
  BY <1>1, <1>2, PTL DEF Spec

-----------------------------------------------------------------------------
(***************************************************************************)
(* The budgets.                                                            *)
(***************************************************************************)

\* What the proofs about the budgets need of a step from a readable document.
Kept(d, e) == e.reviewAttempt = d.reviewAttempt /\ e.fixAttempt = d.fixAttempt

LEMMA UpdatesKeep ==
  ASSUME NEW d \in Documents
  PROVE  /\ \A s : Kept(d, StatusSet(d, s))
         /\ \A v, f : Kept(d, Judged(d, v, f))
         /\ Kept(d, FixClosed(d))
         /\ \A r : Kept(d, Blocked(d, r))
         /\ Kept(d, Errored(d))
         /\ ReviewOpened(d).reviewAttempt = d.reviewAttempt + 1
         /\ ReviewOpened(d).fixAttempt = d.fixAttempt
         /\ FixOpened(d).fixAttempt = d.fixAttempt + 1
         /\ FixOpened(d).reviewAttempt = d.reviewAttempt
BY DEF Kept, Documents, StatusSet, Judged, FixClosed, Blocked, Errored,
       ReviewOpened, FixOpened

\* The kinds of step of a caller that goes to a place.
Tests(c, place) ==
  /\ doc' = doc /\ pc[c] = "idle"
  /\ place \in {"openReview", "refuseReview", "openFix", "refuseFix"}
  /\ place = "openReview" => ~ReviewExhausted(doc)
  /\ place = "openFix" => ~FixExhausted(doc)

Keeps(place) == doc' \in Documents /\ Kept(doc, doc') /\ place = "idle"

OpensReview(c, place) ==
  /\ pc[c] = "openReview" /\ place = "idle" /\ doc' \in Documents
  /\ doc'.reviewAttempt = doc.reviewAttempt + 1
  /\ doc'.fixAttempt = doc.fixAttempt

OpensFix(c, place) ==
  /\ pc[c] = "openFix" /\ place = "idle" /\ doc' \in Documents
  /\ doc'.fixAttempt = doc.fixAttempt + 1
  /\ doc'.reviewAttempt = doc.reviewAttempt

Starts(c, place) ==
  \/ pc[c] = "init" /\ doc' = Torn
  \/ pc[c] = "fill" /\ doc' = NewDocument /\ place = "idle"

Kinds(c, place) ==
  /\ pc' = [pc EXCEPT ![c] = place]
  /\ Tests(c, place) \/ Keeps(place) \/ OpensReview(c, place)
       \/ OpensFix(c, place) \/ Starts(c, place)

LEMMA ReadableStep ==
  ASSUME TypeOK, Readable, [Next]_vars
  PROVE  UNCHANGED vars \/ \E c \in Caller, place \in Places : Kinds(c, place)
<1> USE CallerAssumption DEF CallerAssumption, Places, Kinds
<1>1. doc \in Documents /\ pc \in [Caller -> Places]
  BY DEF TypeOK, Readable
<1>2. ASSUME NEW c \in Caller, NEW new, Update(c, new), new \in Documents, Kept(doc, new)
      PROVE  Kinds(c, "idle")
  BY <1>1, <1>2 DEF Update, Keeps
<1>3. ASSUME NEW c \in Caller, NEW place, NEW new, Write(c, place, new),
             new \in Documents, Kept(doc, new)
      PROVE  Kinds(c, "idle")
  BY <1>1, <1>3 DEF Write, Keeps
<1>4. ASSUME NEW c \in Caller, InitTest(c) PROVE FALSE
  BY <1>4 DEF InitTest, Readable
<1>5. ASSUME NEW c \in Caller, InitCreate(c) PROVE Kinds(c, "fill")
  BY <1>1, <1>5 DEF InitCreate, Starts
<1>6. ASSUME NEW c \in Caller, InitFill(c) PROVE Kinds(c, "idle")
  BY <1>1, <1>6 DEF InitFill, Starts
<1>7. ASSUME NEW c \in Caller, Die(c) PROVE Kinds(c, "idle")
  BY <1>1, <1>7 DEF Die, Keeps, Kept
<1>8. ASSUME NEW c \in Caller, ReviewStart(c) \/ FixStart(c)
      PROVE  \E place \in Places : Kinds(c, place)
  BY <1>1, <1>8 DEF ReviewStart, FixStart, Decide, Tests, Readable
<1>9. ASSUME NEW c \in Caller, NEW s \in SetTargets, Set(c, s) PROVE Kinds(c, "idle")
  BY <1>1, <1>2, <1>9, DocumentUpdates, UpdatesKeep DEF Set
<1>10. ASSUME NEW c \in Caller, NEW v \in Verdicts, NEW f \in {"clean", "blocking"},
              Verdict(c, v, f)
       PROVE  Kinds(c, "idle")
  BY <1>1, <1>2, <1>10, DocumentUpdates, UpdatesKeep DEF Verdict
<1>11. ASSUME NEW c \in Caller, FixDone(c) \/ Block(c) \/ Error(c)
       PROVE  Kinds(c, "idle")
  BY <1>1, <1>2, <1>11, DocumentUpdates, UpdatesKeep DEF FixDone, Block, Error, Reasons
<1>12. ASSUME NEW c \in Caller, ReviewRefuse(c) \/ FixRefuse(c) PROVE Kinds(c, "idle")
  BY <1>1, <1>3, <1>12, DocumentUpdates, UpdatesKeep DEF ReviewRefuse, FixRefuse, Reasons
<1>13. ASSUME NEW c \in Caller, ReviewOpen(c) \/ FixOpen(c) PROVE Kinds(c, "idle")
  BY <1>1, <1>13, DocumentUpdates, UpdatesKeep
     DEF ReviewOpen, FixOpen, Write, OpensReview, OpensFix
<1> QED
  BY <1>4, <1>5, <1>6, <1>7, <1>8, <1>9, <1>10, <1>11, <1>12, <1>13 DEF Next

\* A used budget stays used: with nobody on the way to opening a review, no
\* command opens one or gives an attempt back.
THEOREM SpentForGood == Spec => SpentStaysSpent
<1>1. ASSUME TypeOK, [Next]_vars, Spent PROVE Spent'
  <2>1. Readable /\ doc \in Documents /\ pc \in [Caller -> Places]
    BY <1>1 DEF Spent, Readable, TypeOK
  <2>2. CASE UNCHANGED vars
    BY <1>1, <2>2 DEF vars, Spent, Readable, At
  <2>3. ASSUME NEW c \in Caller, NEW place \in Places, Kinds(c, place) PROVE Spent'
    <3>1. pc[c] \notin {"openReview", "init", "fill"}
      BY <1>1, <2>1 DEF Spent, At
    <3>2. /\ place \notin {"openReview", "init", "fill"}
          /\ doc' \in Documents
          /\ doc'.reviewAttempt = doc.reviewAttempt
      BY <1>1, <2>1, <2>3, <3>1
         DEF Kinds, Tests, Keeps, Kept, OpensReview, OpensFix, Starts, Spent
    <3>3. (At("openReview") \cup At("init") \cup At("fill") = {})'
      BY <1>1, <2>1, <2>3, <3>2 DEF Kinds, Spent, At
    <3> QED
      BY <1>1, <3>2, <3>3, CallerAssumption
         DEF Spent, Readable, ReviewExhausted, CallerAssumption
  <2> QED
    BY <1>1, <2>1, <2>2, <2>3, ReadableStep
<1>2. Init => TypeOK
  BY DEF Init, TypeOK, Places
<1>3. TypeOK /\ [Next]_vars => [Spent => Spent']_vars
  BY <1>1
<1> QED
  BY <1>2, <1>3, TypeStep, PTL DEF Spec, SpentStaysSpent

\* How many callers are at a place, after one of them moves.
LEMMA CallersAt ==
  ASSUME NEW S \in SUBSET Caller
  PROVE  /\ IsFiniteSet(S) /\ Cardinality(S) \in Nat
         /\ Cardinality(S) <= Cardinality(Caller) /\ Cardinality(Caller) \in Nat
BY CallerAssumption, FS_CardinalityType, FS_Subset DEF CallerAssumption

LEMMA CallersMove ==
  ASSUME TypeOK, NEW c \in Caller, NEW place, NEW here, pc' = [pc EXCEPT ![c] = place]
  PROVE  /\ pc[c] # here /\ place # here => Cardinality(At(here)') = Cardinality(At(here))
         /\ pc[c] = here /\ place # here => Cardinality(At(here)') = Cardinality(At(here)) - 1
<1>1. IsFiniteSet(At(here)) /\ Cardinality(At(here)) \in Nat
  BY CallersAt DEF At
<1>2. place # here => At(here)' = At(here) \ {c}
  BY DEF At, TypeOK
<1>3. c \in At(here) <=> pc[c] = here
  BY DEF At
<1>4. Cardinality(At(here) \ {c}) =
        IF c \in At(here) THEN Cardinality(At(here)) - 1 ELSE Cardinality(At(here))
  BY <1>1, FS_RemoveElement
<1> QED
  BY <1>1, <1>2, <1>3, <1>4

\* A budget that allows one more, and one that is only added to by those who
\* were let pass.
LEMMA BoundsStep ==
  ASSUME TypeOK, AttemptsBounded, Readable, Readable',
         NEW c \in Caller, NEW place \in Places, Kinds(c, place)
  PROVE  AttemptsBounded'
<1> DEFINE reviews == Cardinality(At("openReview"))
           fixes   == Cardinality(At("openFix"))
           callers == Cardinality(Caller)
<1>1. /\ reviews \in Nat /\ fixes \in Nat /\ callers \in Nat
      /\ reviews' \in Nat /\ fixes' \in Nat
      /\ reviews' <= callers /\ fixes' <= callers
  BY CallersAt DEF At
<1>2. /\ doc \in Documents
      /\ doc.reviewAttempt \in Nat /\ doc.fixAttempt \in Nat
      /\ MaxReview \in Nat \ {0} /\ MaxFix \in Nat \ {0}
  BY ReviewAssumption DEF ReviewAssumption, TypeOK, Readable, Documents
<1>3. /\ doc.reviewAttempt + reviews <= MaxReview + callers - 1
      /\ doc.fixAttempt + fixes <= MaxFix + callers - 1
  BY DEF AttemptsBounded
<1>4. /\ pc[c] # "openReview" /\ place # "openReview" => reviews' = reviews
      /\ pc[c] = "openReview" /\ place # "openReview" => reviews' = reviews - 1
      /\ pc[c] # "openFix" /\ place # "openFix" => fixes' = fixes
      /\ pc[c] = "openFix" /\ place # "openFix" => fixes' = fixes - 1
  BY CallersMove DEF Kinds
<1> SUFFICES /\ doc'.reviewAttempt + reviews' <= MaxReview + callers - 1
             /\ doc'.fixAttempt + fixes' <= MaxFix + callers - 1
  BY DEF AttemptsBounded
<1> HIDE DEF reviews, fixes, callers
<1>5. CASE Tests(c, place)
  <2>1. /\ doc' = doc
        /\ place = "openReview" => doc.reviewAttempt < MaxReview
        /\ place = "openFix" => doc.fixAttempt < MaxFix
        /\ pc[c] # "openReview" /\ pc[c] # "openFix"
    BY <1>2, <1>5 DEF Tests, ReviewExhausted, FixExhausted
  <2>2. doc.reviewAttempt + reviews' <= MaxReview + callers - 1
    BY <1>1, <1>2, <1>3, <1>4, <2>1
  <2>3. doc.fixAttempt + fixes' <= MaxFix + callers - 1
    BY <1>1, <1>2, <1>3, <1>4, <2>1
  <2> QED
    BY <2>1, <2>2, <2>3
<1>6. CASE Keeps(place)
  BY <1>1, <1>2, <1>3, <1>4, <1>6 DEF Keeps, Kept
<1>7. CASE OpensReview(c, place)
  BY <1>1, <1>2, <1>3, <1>4, <1>7 DEF OpensReview
<1>8. CASE OpensFix(c, place)
  BY <1>1, <1>2, <1>3, <1>4, <1>8 DEF OpensFix
<1>9. CASE Starts(c, place)
  <2>1. doc' = NewDocument
    BY <1>9 DEF Starts, Readable
  <2>2. doc'.reviewAttempt = 0 /\ doc'.fixAttempt = 0
    BY <2>1 DEF NewDocument
  <2>3. reviews' <= MaxReview + callers - 1 /\ fixes' <= MaxFix + callers - 1
    BY <1>1, <1>2
  <2> QED
    BY <1>1, <2>2, <2>3
<1> QED
  BY <1>5, <1>6, <1>7, <1>8, <1>9 DEF Kinds

\* Racing callers exceed a maximum by no more than the other callers: each
\* review (or fix) that is about to open passed the test on the same attempts.
THEOREM AttemptsBoundedAlways == Spec => []AttemptsBounded
<1>1. Init => TypeOK /\ AttemptsBounded
  BY DEF Init, TypeOK, Places, AttemptsBounded, Readable
<1>2. ASSUME TypeOK, AttemptsBounded, [Next]_vars PROVE AttemptsBounded'
  <2>1. CASE ~Readable'
    BY <2>1 DEF AttemptsBounded
  <2>2. CASE Readable /\ Readable'
    <3>1. CASE UNCHANGED vars
      BY <1>2, <3>1 DEF vars, AttemptsBounded, Readable, At
    <3> QED
      BY <1>2, <2>2, <3>1, ReadableStep, BoundsStep
  <2>3. CASE ~Readable /\ Readable'
    <3>1. doc' = NewDocument
      BY <1>2, <2>3
         DEF Next, vars, Readable, InitTest, InitCreate, InitFill, Set, Update,
             ReviewStart, FixStart, Decide, ReviewOpen, ReviewRefuse, FixOpen,
             FixRefuse, Write, Verdict, FixDone, Block, Error, Die
    <3>2. /\ Cardinality(At("openReview"))' <= Cardinality(Caller)
          /\ Cardinality(At("openFix"))' <= Cardinality(Caller)
          /\ Cardinality(At("openReview"))' \in Nat
          /\ Cardinality(At("openFix"))' \in Nat /\ Cardinality(Caller) \in Nat
      BY CallersAt DEF At
    <3> QED
      BY <3>1, <3>2, ReviewAssumption DEF NewDocument, AttemptsBounded, ReviewAssumption
  <2> QED
    BY <2>1, <2>2, <2>3
<1>3. TypeOK /\ AttemptsBounded /\ [Next]_vars => TypeOK' /\ AttemptsBounded'
  BY <1>2, TypeStep
<1> QED
  BY <1>1, <1>3, PTL DEF Spec
=============================================================================
