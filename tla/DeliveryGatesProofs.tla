------------------------ MODULE DeliveryGatesProofs ------------------------
(***************************************************************************)
(* The theorems of DeliveryGates.  What is recorded of a tree was found by *)
(* looking at that tree: the gate's invariant says so while it runs, and   *)
(* nothing in the history changes once it is written.                      *)
(***************************************************************************)
EXTENDS DeliveryGates, SequenceTheorems, TLAPS

(* Until something stirs, the checks so far would pass again. *)
GateInv ==
  place \in 1 .. Len(Checks) + 1 /\ ~stirred =>
    /\ work = index
    /\ ~failed => \A c \in Places : c < place => CheckPasses(c)

Vouches(r, t) ==
  ~r.stirred =>
    \A c \in Places :
      /\ Reads[c] = "tree" => t \in Passes[c]
      /\ Reads[c] = "boundary" \/ (Reads[c] = "staged" /\ ~r.rerun) => r.change \notin Refuses[c]

RecordInv == \A t \in Trees : \A r \in record[t] : Vouches(r, t)

(* So would the commands of a run, and the types of the suite it was not to *)
(* leave out, until the working tree moves.                                 *)
RunInv ==
  \A r \in run : r.whole /\ ~r.narrowed /\ ~r.moved /\ ~r.red =>
    \A i \in r.types : i < r.next => work \in Commands[r.of][i]

Shown(x, r) ==
  r.passed /\ r.whole /\ ~r.narrowed /\ ~r.dirty /\ ~r.moved =>
    \A i \in r.types : TreeOf(r.commit) \in Commands[x][i]

ResultInv ==
  \A x \in Runs : \A r \in results[x] : r.commit \in 1 .. Len(commits) /\ Shown(x, r)

(* Nothing is left out of a job. *)
AllOf(x, r) == r.whole /\ ~r.narrowed /\ r.types = DOMAIN Commands[x]
JobsWhole ==
  /\ \A r \in run : r.of \in Jobs => AllOf(r.of, r)
  /\ \A x \in Jobs : \A r \in results[x] : AllOf(x, r)

(* No run selects what is not there. *)
SelectsOnly == \A r \in run : r.types \subseteq DOMAIN Commands[r.of]
-----------------------------------------------------------------------------
(* What is committed stays what it is. *)
LEMMA HistoryGrows ==
  ASSUME TypeOK, Commit
  PROVE  /\ commits' \in Seq([tree : Trees, parent : Nat])
         /\ Len(commits') = Len(commits) + 1
         /\ head' \in 1 .. Len(commits')
         /\ \A n \in 1 .. Len(commits) : commits'[n] = commits[n]
         /\ \A n \in 1 .. Len(commits') : commits'[n].parent \in 1 .. Len(commits')
<1>1. [tree |-> index, parent |-> head] \in [tree : Trees, parent : Nat]
  BY DEF TypeOK
<1> DEFINE new == [tree |-> index, parent |-> head]
<1>2. commits' = Append(commits, new) /\ commits \in Seq([tree : Trees, parent : Nat])
  BY DEF Commit, TypeOK
<1>3. /\ commits' \in Seq([tree : Trees, parent : Nat])
      /\ Len(commits') = Len(commits) + 1
      /\ \A n \in 1 .. Len(commits) : commits'[n] = commits[n]
      /\ commits'[Len(commits) + 1] = new
  <2> HIDE DEF new
  <2> QED
    BY <1>1, <1>2 DEF new
<1>4. head' = Len(commits) + 1 /\ Len(commits) \in Nat
  BY <1>2 DEF Commit
<1>5. \A n \in 1 .. Len(commits') : commits'[n].parent \in 1 .. Len(commits')
  <2> SUFFICES ASSUME NEW n \in 1 .. Len(commits') PROVE commits'[n].parent \in 1 .. Len(commits')
    OBVIOUS
  <2>1. CASE n \in 1 .. Len(commits)
    <3>1. commits'[n] = commits[n] /\ commits[n].parent \in 1 .. Len(commits)
      BY <2>1, <1>3 DEF TypeOK
    <3> QED
      BY <3>1, <1>3, <1>4
  <2>2. CASE n = Len(commits) + 1
    BY <2>2, <1>3, <1>4 DEF TypeOK
  <2> QED
    BY <2>1, <2>2, <1>3, <1>4
<1> QED
  BY <1>3, <1>4, <1>5

LEMMA Spending ==
  ASSUME TypeOK, NEW i \in 1 .. 3, left[i] > 0, left' = [left EXCEPT ![i] = @ - 1]
  PROVE  left' \in Nat \X Nat \X Nat
  BY DEF TypeOK

LEMMA TypeInit == Init => TypeOK
<1> SUFFICES ASSUME Init PROVE TypeOK
  OBVIOUS
<1>1. commits \in Seq([tree : Trees, parent : Nat])
  BY DEF Init
<1>2. left \in Nat \X Nat \X Nat
  BY GatesAssumption DEF Init, GatesAssumption
<1>3. Len(commits) = 1 /\ commits[1].parent = 1
  BY DEF Init
<1>4. Len(Checks) \in Nat
  BY GatesAssumption DEF GatesAssumption
<1>5. /\ \A n \in 1 .. Len(commits) : commits[n].parent \in 1 .. Len(commits)
      /\ head \in 1 .. Len(commits)
  BY <1>3 DEF Init
<1>6. place \in 0 .. Len(Checks) + 2 /\ start \in Nat
  BY <1>4 DEF Init
<1>7. /\ index \in Trees /\ work \in Trees
      /\ hook \in BOOLEAN /\ failed \in BOOLEAN /\ stirred \in BOOLEAN
      /\ record \in [Trees -> SUBSET Record] /\ run \subseteq Run /\ results \in [Runs -> SUBSET Result]
  BY DEF Init
<1> QED
  BY <1>1, <1>2, <1>5, <1>6, <1>7 DEF TypeOK

LEMMA CommitTyped ==
  ASSUME TypeOK, NEW n \in 1 .. Len(commits)
  PROVE  TreeOf(n) \in Trees /\ commits[n].parent \in 1 .. Len(commits)
<1>1. commits[n] \in [tree : Trees, parent : Nat]
  <2>1. commits \in Seq([tree : Trees, parent : Nat])
    BY DEF TypeOK
  <2> QED
    BY <2>1, ElementOfSeq
<1> QED
  BY <1>1 DEF TypeOK, TreeOf

LEMMA MoveTyped == ASSUME TypeOK, Move PROVE run' \subseteq Run
  BY DEF TypeOK, Move, Run

LEMMA EvidenceTyped == ASSUME TypeOK PROVE Evidence \in Record
<1>1. TreeOf(head) \in Trees /\ TreeOf(commits[head].parent) \in Trees
  <2>1. head \in 1 .. Len(commits)
    BY DEF TypeOK
  <2> QED
    BY <2>1, CommitTyped
<1> QED
  BY <1>1 DEF TypeOK, Evidence, Record, Changes, HeadChange, NothingStaged

LEMMA MetadataTyped ==
  ASSUME TypeOK, NEW passed \in BOOLEAN, NEW of,
         of.whole \in BOOLEAN, of.types \subseteq Nat, of.narrowed \in BOOLEAN, of.moved \in BOOLEAN
  PROVE  TestMetadata(passed, of) \in Result
<1>1. Dirty \in BOOLEAN
  BY DEF Dirty, NothingStaged
<1>2. head \in Nat
  BY DEF TypeOK
<1> QED
  BY <1>1, <1>2 DEF TestMetadata, Result

LEMMA Selected ==
  ASSUME NEW x \in Runs
  PROVE  /\ DOMAIN Commands[x] \subseteq Nat
         /\ \A types \in Selections(x) : types \subseteq DOMAIN Commands[x]
<1>1. Commands[x] \in Seq(SUBSET Trees)
  BY GatesAssumption DEF GatesAssumption
<1>2. DOMAIN Commands[x] \subseteq Nat
  BY <1>1
<1>3. ASSUME NEW types \in Selections(x) PROVE types \subseteq DOMAIN Commands[x]
  BY <1>3 DEF Selections, Types
<1> QED
  BY <1>2, <1>3

LEMMA RelatedTyped == ASSUME TypeOK, NEW passed \in BOOLEAN
                      PROVE  TestMetadata(passed, RelatedTests) \in Result
<1>1. Types \subseteq Nat
  BY Selected DEF Types, Runs
<1>2. /\ RelatedTests.whole \in BOOLEAN /\ RelatedTests.types \subseteq Nat
      /\ RelatedTests.narrowed \in BOOLEAN /\ RelatedTests.moved \in BOOLEAN
  BY <1>1 DEF RelatedTests
<1> QED
  BY <1>2, MetadataTyped

LEMMA TypeStep == TypeOK /\ [Next]_vars => TypeOK'
<1> SUFFICES ASSUME TypeOK, [Next]_vars PROVE TypeOK'
  OBVIOUS
<1> DEFINE Repo == /\ commits \in Seq([tree : Trees, parent : Nat])
                   /\ \A n \in 1 .. Len(commits) : commits[n].parent \in 1 .. Len(commits)
                   /\ head \in 1 .. Len(commits) /\ index \in Trees /\ work \in Trees
           Flags == hook \in BOOLEAN /\ failed \in BOOLEAN /\ stirred \in BOOLEAN
           Gate == place \in 0 .. Len(Checks) + 2 /\ start \in Nat /\ Flags
           Files == record \in [Trees -> SUBSET Record] /\ results \in [Runs -> SUBSET Result]
           Running == run \subseteq Run
           Left == left \in Nat \X Nat \X Nat
<1>t. Repo /\ Gate /\ Files /\ Running /\ Left
  BY DEF TypeOK
<1>s. SUFFICES Repo' /\ Gate' /\ Files' /\ Running' /\ Left'
  BY DEF TypeOK
<1>len. Len(Checks) \in Nat
  BY GatesAssumption DEF GatesAssumption
<1>stir. ASSUME Stir PROVE Gate' /\ Files'
  BY <1>stir, <1>t DEF Stir
<1>ends. ASSUME GateEnds PROVE Gate'
  <2>1. place' \in 0 .. Len(Checks) + 2 /\ start' \in Nat
    BY <1>ends, <1>len DEF GateEnds
  <2>2. Flags'
    BY <1>ends DEF GateEnds
  <2> QED
    BY <2>1, <2>2
<1>commit. ASSUME Commit PROVE Repo' /\ Left'
  <2>1. Repo'
    BY <1>commit, HistoryGrows, <1>t DEF Commit
  <2>2. Left'
    BY <1>commit, Spending DEF Commit
  <2> QED
    BY <2>1, <2>2
<1>0. CASE UNCHANGED vars
  BY <1>0, <1>t DEF vars, repoVars, gateVars
<1>1. ASSUME NEW t \in Trees, Edit(t) \/ Stage(t) PROVE Repo' /\ Gate' /\ Files' /\ Running' /\ Left'
  <2>1. Gate' /\ Files'
    BY <1>1, <1>stir DEF Edit, Stage
  <2>2. Repo' /\ Left'
    BY <1>1, <1>t DEF Edit, Stage
  <2>3. Running'
    BY <1>1, <1>t, MoveTyped DEF Edit, Stage
  <2> QED
    BY <2>1, <2>2, <2>3
<1>2. ASSUME CommitNoVerify PROVE Repo' /\ Gate' /\ Files' /\ Running' /\ Left'
  BY <1>2, <1>commit, <1>stir, <1>t DEF CommitNoVerify
<1>3. ASSUME NEW n \in 1 .. Len(commits), Checkout(n) PROVE Repo' /\ Gate' /\ Files' /\ Running' /\ Left'
  <2>1. Gate' /\ Files'
    BY <1>3, <1>stir DEF Checkout
  <2>2. Repo' /\ Left'
    BY <1>3, <1>t, CommitTyped DEF Checkout
  <2>3. Running'
    BY <1>3, <1>t, MoveTyped DEF Checkout
  <2> QED
    BY <2>1, <2>2, <2>3
<1>4. ASSUME NEW byGit \in BOOLEAN, GateBegin(byGit) PROVE Repo' /\ Gate' /\ Files' /\ Running' /\ Left'
  <2>1. Left'
    BY <1>4, Spending DEF GateBegin
  <2>2. Flags'
    BY <1>4 DEF GateBegin
  <2>3. Gate'
    <3>1. place' = 1 /\ start' = head /\ head \in Nat
      BY <1>4, <1>t DEF GateBegin
    <3> QED
      BY <3>1, <2>2, <1>len
  <2> QED
    BY <1>4, <1>t, <2>1, <2>3 DEF GateBegin, repoVars
<1>5. ASSUME GateRun PROVE Repo' /\ Gate' /\ Files' /\ Running' /\ Left'
  <2>1. Flags'
    BY <1>5, <1>t DEF GateRun
  <2>2. Gate'
    <3>1. place' = place + 1 /\ place \in Places /\ start' = start
      BY <1>5 DEF GateRun
    <3> QED
      BY <3>1, <2>1, <1>t, <1>len DEF Places
  <2>3. Files'
    <3>1. CASE UNCHANGED results
      BY <3>1, <1>5, <1>t DEF GateRun
    <3>2. CASE results' # results
      <4>1. PICK passed \in BOOLEAN : results' = [results EXCEPT ![Suite] = {TestMetadata(passed, RelatedTests)}]
        BY <3>2, <1>5 DEF GateRun
      <4>2. TestMetadata(passed, RelatedTests) \in Result
        BY RelatedTyped
      <4> QED
        BY <4>1, <4>2, <1>5, <1>t DEF GateRun
    <3> QED
      BY <3>1, <3>2
  <2> QED
    BY <1>5, <1>t, <2>2, <2>3 DEF GateRun, repoVars
<1>6. ASSUME GateFinish PROVE Repo' /\ Gate' /\ Files' /\ Running' /\ Left'
  <2>1. Gate'
    BY <1>6, <1>t, <1>ends, <1>len DEF GateFinish
  <2>2. Files'
    BY <1>6, <1>t, EvidenceTyped DEF GateFinish, RecordPreCommitEvidence
  <2> QED
    BY <1>6, <1>t, <2>1, <2>2 DEF GateFinish, repoVars
<1>7. ASSUME GateDies PROVE Repo' /\ Gate' /\ Files' /\ Running' /\ Left'
  <2>1. Gate'
    BY <1>7, <1>ends DEF GateDies
  <2>2. Files'
    BY <1>7, <1>t DEF GateDies
  <2> QED
    BY <1>7, <1>t, <2>1, <2>2 DEF GateDies, repoVars
<1>8. ASSUME CommitAfterHook PROVE Repo' /\ Gate' /\ Files' /\ Running' /\ Left'
  <2>1. Gate' /\ Files' /\ Running'
    BY <1>8, <1>t, <1>ends DEF CommitAfterHook
  <2>2. Repo' /\ Left'
    BY <1>8, <1>t, <1>commit DEF CommitAfterHook, repoVars
  <2> QED
    BY <2>1, <2>2
<1>9. ASSUME NEW x \in Runs, NEW narrowed \in BOOLEAN, NEW types \in Selections(x),
             StartRun(x, types, narrowed)
      PROVE  Repo' /\ Gate' /\ Files' /\ Running' /\ Left'
  <2>1. Left'
    BY <1>9, Spending DEF StartRun
  <2>2. types \subseteq Nat
    BY Selected
  <2>3. Running'
    BY <1>9, <2>2 DEF StartRun, Run
  <2> QED
    BY <1>9, <1>t, <2>1, <2>3 DEF StartRun, repoVars, gateVars
<1>10. ASSUME RunCommand PROVE Repo' /\ Gate' /\ Files' /\ Running' /\ Left'
  <2>1. PICK r \in run, ok \in BOOLEAN, skips \in BOOLEAN :
          run' = {[r EXCEPT !.next = @ + 1, !.red = @ \/ ~ok, !.whole = @ /\ ~skips]}
    BY <1>10 DEF RunCommand
  <2>2. Running'
    <3>1. /\ r \in Run /\ r.next + 1 \in Nat
          /\ (r.red \/ ~ok) \in BOOLEAN /\ (r.whole /\ ~skips) \in BOOLEAN
      BY <1>t DEF Run
    <3> QED
      BY <2>1, <3>1 DEF Run
  <2> QED
    BY <1>10, <1>t, <2>2 DEF RunCommand, repoVars, gateVars
<1>11. ASSUME WriteResult PROVE Repo' /\ Gate' /\ Files' /\ Running' /\ Left'
  <2>1. PICK r \in run : /\ run' = {}
                         /\ \/ results' = [results EXCEPT ![r.of] = {TestMetadata(Passed(r), r)}]
                            \/ results' = [results EXCEPT ![r.of] = {}]
                         /\ UNCHANGED <<repoVars, gateVars, record, left>>
    BY <1>11 DEF WriteResult
  <2>2. /\ r.of \in Runs /\ r.types \subseteq Nat
        /\ r.whole \in BOOLEAN /\ r.narrowed \in BOOLEAN /\ r.moved \in BOOLEAN
    BY <1>t DEF Run
  <2>3. Passed(r) \in BOOLEAN
    BY DEF Passed
  <2>4. TestMetadata(Passed(r), r) \in Result
    BY <2>2, <2>3, MetadataTyped
  <2>5. Files'
    BY <1>t, <2>1, <2>2, <2>4
  <2> QED
    BY <1>t, <2>1, <2>5 DEF repoVars, gateVars
<1>12. ASSUME RunDies PROVE Repo' /\ Gate' /\ Files' /\ Running' /\ Left'
  BY <1>12, <1>t DEF RunDies, repoVars, gateVars
<1> QED
  BY <1>0, <1>1, <1>2, <1>3, <1>4, <1>5, <1>6, <1>7, <1>8, <1>9, <1>10, <1>11, <1>12 DEF Next

(* Every reachable state is well typed: HEAD and every parent are commits of *)
(* the history, for any checks, jobs and trees.                              *)
THEOREM TypeCorrect == Spec => []TypeOK
  BY TypeInit, TypeStep, PTL DEF Spec
-----------------------------------------------------------------------------
(***************************************************************************)
(* The record of the Pre-commit Gate.                                      *)
(***************************************************************************)

LEMMA GateInit == Init => GateInv /\ RecordInv
  BY GatesAssumption DEF Init, GateInv, RecordInv

LEMMA SoundEvidence ==
  ASSUME TypeOK, GateInv, place = Len(Checks) + 1, ~failed
  PROVE  Vouches(Evidence, index)
<1> SUFFICES ASSUME ~stirred, NEW c \in Places
             PROVE  /\ Reads[c] = "tree" => index \in Passes[c]
                    /\ Reads[c] = "boundary" \/ (Reads[c] = "staged" /\ ~NothingStaged)
                         => Evidence.change \notin Refuses[c]
  BY DEF Vouches, Evidence
<1>1. work = index /\ CheckPasses(c)
  <2>1. place \in 1 .. Len(Checks) + 1 /\ c < place
    BY GatesAssumption DEF GatesAssumption, Places
  <2> QED
    BY <2>1 DEF GateInv
<1>2. CASE Reads[c] = "tree"
  BY <1>1, <1>2 DEF CheckPasses
<1>3. CASE Reads[c] = "boundary"
  BY <1>1, <1>3 DEF CheckPasses, Evidence
<1>4. CASE Reads[c] = "staged" /\ ~NothingStaged
  BY <1>1, <1>4 DEF CheckPasses, Evidence
<1> QED
  BY <1>2, <1>3, <1>4

LEMMA GateStep ==
  TypeOK /\ GateInv /\ RecordInv /\ [Next]_vars => GateInv' /\ RecordInv'
<1> SUFFICES ASSUME TypeOK, GateInv, RecordInv, [Next]_vars PROVE GateInv' /\ RecordInv'
  OBVIOUS
<1>len. Len(Checks) \in Nat
  BY GatesAssumption DEF GatesAssumption
<1>stir. ASSUME Stir PROVE GateInv' /\ RecordInv'
  <2>1. GateInv'
    <3>1. place' = place /\ stirred' = (place # 0)
      BY <1>stir DEF Stir
    <3>2. CASE place = 0
      BY <3>1, <3>2 DEF GateInv
    <3>3. CASE place # 0
      BY <3>1, <3>3 DEF GateInv
    <3> QED
      BY <3>2, <3>3
  <2>2. RecordInv'
    BY <1>stir DEF Stir, RecordInv, Vouches
  <2> QED
    BY <2>1, <2>2
<1>same. ASSUME UNCHANGED <<repoVars, gateVars, record>> PROVE GateInv' /\ RecordInv'
  BY <1>same DEF repoVars, gateVars, GateInv, RecordInv, Vouches, CheckPasses, NothingStaged,
                 HeadChange, TreeOf
<1>ends. ASSUME GateEnds PROVE GateInv'
  BY <1>ends, <1>len DEF GateEnds, GateInv
<1>1. ASSUME NEW t \in Trees, Edit(t) \/ Stage(t) PROVE GateInv' /\ RecordInv'
  BY <1>1, <1>stir DEF Edit, Stage
<1>2. ASSUME CommitNoVerify PROVE GateInv' /\ RecordInv'
  BY <1>2, <1>stir DEF CommitNoVerify
<1>3. ASSUME NEW n \in 1 .. Len(commits), Checkout(n) PROVE GateInv' /\ RecordInv'
  BY <1>3, <1>stir DEF Checkout
<1>4. ASSUME NEW byGit \in BOOLEAN, GateBegin(byGit) PROVE GateInv' /\ RecordInv'
  <2>1. GateInv'
    <3>1. place' = 1 /\ (~stirred' => work' = index')
      BY <1>4 DEF GateBegin, repoVars
    <3>2. \A c \in Places : ~(c < place')
      BY <3>1, <1>len DEF Places
    <3> QED
      BY <3>1, <3>2 DEF GateInv
  <2>2. RecordInv'
    BY <1>4 DEF GateBegin, RecordInv, Vouches
  <2> QED
    BY <2>1, <2>2
<1>5. ASSUME GateRun PROVE GateInv' /\ RecordInv'
  <2>1. /\ place' = place + 1 /\ place \in Places /\ stirred' = stirred
        /\ (~failed' => ~failed /\ CheckPasses(place))
        /\ work' = work /\ index' = index
    BY <1>5 DEF GateRun, repoVars
  <2>2. \A c \in Places : CheckPasses(c) = CheckPasses(c)'
    BY <1>5 DEF GateRun, repoVars, CheckPasses, NothingStaged, HeadChange, TreeOf
  <2>3. GateInv'
    <3> SUFFICES ASSUME ~stirred'
                 PROVE  /\ work' = index'
                        /\ ~failed' => \A c \in Places : c < place' => CheckPasses(c)'
      BY DEF GateInv
    <3>1. place \in 1 .. Len(Checks) + 1
      BY <2>1, <1>len DEF Places
    <3>2. \A c \in Places : c < place + 1 => c < place \/ c = place
      BY <2>1, <1>len DEF Places
    <3> QED
      BY <2>1, <2>2, <3>1, <3>2 DEF GateInv
  <2>4. RecordInv'
    BY <1>5 DEF GateRun, RecordInv, Vouches
  <2> QED
    BY <2>3, <2>4
<1>6. ASSUME GateFinish PROVE GateInv' /\ RecordInv'
  <2>1. GateInv'
    <3>1. CASE GateEnds
      BY <3>1, <1>ends
    <3>2. CASE place' = Len(Checks) + 2
      BY <3>2, <1>len DEF GateInv
    <3>3. GateEnds \/ place' = Len(Checks) + 2
      BY <1>6, <1>len DEF GateFinish
    <3> QED
      BY <3>1, <3>2, <3>3
  <2>2. RecordInv'
    <3>1. CASE failed
      BY <3>1, <1>6 DEF GateFinish, RecordPreCommitEvidence, RecordInv, Vouches
    <3>2. CASE ~failed
      <4>1. record' = [record EXCEPT ![index] = {Evidence}] /\ Vouches(Evidence, index)
        BY <3>2, <1>6, SoundEvidence DEF GateFinish, RecordPreCommitEvidence
      <4>2. ASSUME NEW t \in Trees, NEW r \in record'[t] PROVE Vouches(r, t)
        BY <4>1, <4>2 DEF RecordInv, TypeOK
      <4> QED
        BY <4>2 DEF RecordInv, Vouches
    <3> QED
      BY <3>1, <3>2
  <2> QED
    BY <2>1, <2>2
<1>7. ASSUME GateDies PROVE GateInv' /\ RecordInv'
  <2>1. \A t \in Trees : record'[t] \subseteq record[t]
    BY <1>7 DEF GateDies, TypeOK
  <2>2. RecordInv'
    BY <2>1 DEF RecordInv, Vouches
  <2> QED
    BY <1>7, <2>2, <1>ends DEF GateDies
<1>8. ASSUME CommitAfterHook PROVE GateInv' /\ RecordInv'
  BY <1>8, <1>ends DEF CommitAfterHook, RecordInv, Vouches
<1>9. ASSUME \/ \E x \in Runs, narrowed \in BOOLEAN :
                  \E types \in Selections(x) : StartRun(x, types, narrowed)
             \/ RunCommand \/ WriteResult \/ RunDies
             \/ UNCHANGED vars
      PROVE  GateInv' /\ RecordInv'
  BY <1>9, <1>same DEF StartRun, RunCommand, WriteResult, RunDies, vars
<1> QED
  BY <1>1, <1>2, <1>3, <1>4, <1>5, <1>6, <1>7, <1>8, <1>9 DEF Next

(* The commit that bin/gate post-commit takes for checked passes the checks  *)
(* that its record stands for (gate:138, post_commit.rb:287), for any checks *)
(* and trees and however often gates ran before.                             *)
THEOREM VouchedForAlwaysChecked == Spec => []VouchedForWasChecked
<1>1. TypeOK /\ RecordInv => VouchedForWasChecked
  <2> SUFFICES ASSUME TypeOK, RecordInv, NEW r \in record[TreeOf(head)], NEW c \in Places, ~r.stirred
               PROVE  /\ Reads[c] = "tree" => TreeOf(head) \in Passes[c]
                      /\ r.change = HeadChange /\ (Reads[c] = "boundary" \/ (Reads[c] = "staged" /\ ~r.rerun))
                           => HeadChange \notin Refuses[c]
    BY DEF VouchedForWasChecked
  <2>1. head \in 1 .. Len(commits)
    BY DEF TypeOK
  <2>2. Vouches(r, TreeOf(head))
    BY <2>1, CommitTyped DEF RecordInv
  <2> QED
    BY <2>2 DEF Vouches
<1> QED
  BY <1>1, GateInit, GateStep, TypeCorrect, PTL DEF Spec
-----------------------------------------------------------------------------
(***************************************************************************)
(* The results of runs.                                                    *)
(***************************************************************************)

RunsInv == RunInv /\ ResultInv /\ JobsWhole /\ SelectsOnly

LEMMA RunsInit == Init => RunsInv
<1>1. Init => run = {} /\ \A x \in Runs : results[x] = {}
  BY DEF Init
<1> QED
  BY <1>1 DEF RunsInv, RunInv, ResultInv, JobsWhole, SelectsOnly, Runs

(* A commit that is added changes none of those the results name. *)
LEMMA NamedStay ==
  ASSUME TypeOK, ResultInv, Commit, UNCHANGED results
  PROVE  ResultInv'
<1> SUFFICES ASSUME NEW x \in Runs, NEW r \in results[x]
             PROVE  r.commit \in 1 .. Len(commits') /\ Shown(x, r)'
  BY DEF ResultInv, Shown
<1>1. r.commit \in 1 .. Len(commits)
  BY DEF ResultInv
<1>2. commits'[r.commit] = commits[r.commit] /\ Len(commits') = Len(commits) + 1
  BY <1>1, HistoryGrows
<1>3. Len(commits) \in Nat
  BY DEF TypeOK
<1>4. Shown(x, r)
  BY DEF ResultInv
<1>5. Shown(x, r)'
  BY <1>2, <1>4 DEF Shown, TreeOf
<1> QED
  BY <1>1, <1>2, <1>3, <1>5

LEMMA RunsStep == TypeOK /\ RunsInv /\ [Next]_vars => RunsInv'
<1> SUFFICES ASSUME TypeOK, RunsInv, [Next]_vars PROVE RunsInv'
  OBVIOUS
<1> USE DEF RunsInv
<1>results. ASSUME UNCHANGED <<commits, results>> PROVE ResultInv'
  BY <1>results DEF ResultInv, Shown, TreeOf
<1>run. ASSUME UNCHANGED <<run, work>> PROVE RunInv'
  BY <1>run DEF RunInv
<1>jobs. ASSUME UNCHANGED <<run, results>> PROVE JobsWhole' /\ SelectsOnly'
  BY <1>jobs DEF JobsWhole, SelectsOnly, AllOf
<1>move. ASSUME Move, UNCHANGED results PROVE RunInv' /\ JobsWhole' /\ SelectsOnly'
  <2>1. \A r \in run' :
          /\ r.moved
          /\ \E q \in run : /\ r.of = q.of /\ r.types = q.types
                             /\ r.narrowed = q.narrowed /\ r.whole = q.whole
    BY <1>move DEF Move, TypeOK, Run
  <2> QED
    BY <2>1, <1>move DEF RunInv, JobsWhole, SelectsOnly, AllOf
<1>same. ASSUME UNCHANGED <<repoVars, run, results>> PROVE RunsInv'
  BY <1>same, <1>results, <1>run, <1>jobs DEF repoVars
<1>0. CASE UNCHANGED vars
  BY <1>0, <1>same DEF vars
<1>1. ASSUME NEW t \in Trees, Edit(t) PROVE RunsInv'
  BY <1>1, <1>move, <1>results DEF Edit, Stir
<1>2. ASSUME NEW t \in Trees, Stage(t) PROVE RunsInv'
  BY <1>2, <1>results, <1>run, <1>jobs DEF Stage, Stir
<1>3. ASSUME CommitNoVerify PROVE RunsInv'
  BY <1>3, NamedStay, <1>run, <1>jobs DEF CommitNoVerify, Commit, Stir
<1>4. ASSUME NEW n \in 1 .. Len(commits), Checkout(n) PROVE RunsInv'
  <2>1. ResultInv'
    BY <1>4, <1>results DEF Checkout, Stir
  <2>2. RunInv' /\ JobsWhole' /\ SelectsOnly'
    <3>1. CASE work' # work
      BY <3>1, <1>4, <1>move DEF Checkout, Stir
    <3>2. CASE work' = work
      BY <3>2, <1>4, <1>run, <1>jobs DEF Checkout, Stir
    <3> QED
      BY <3>1, <3>2
  <2> QED
    BY <2>1, <2>2
<1>5. ASSUME NEW byGit \in BOOLEAN, GateBegin(byGit) PROVE RunsInv'
  BY <1>5, <1>same DEF GateBegin
<1>6. ASSUME GateRun PROVE RunsInv'
  <2>1. CASE UNCHANGED results
    BY <2>1, <1>6, <1>same DEF GateRun
  <2>2. CASE results' # results
    <3>1. PICK passed \in BOOLEAN : results' = [results EXCEPT ![Suite] = {TestMetadata(passed, RelatedTests)}]
      BY <2>2, <1>6 DEF GateRun
    <3>2. UNCHANGED <<commits, head, work, run>>
      BY <1>6 DEF GateRun, repoVars
    <3>3. \A x \in Runs : \A r \in results'[x] :
            r \in results[x] \/ (x = Suite /\ r.narrowed /\ r.commit = head)
      BY <3>1 DEF TypeOK, TestMetadata, RelatedTests
    <3>4. head \in 1 .. Len(commits)
      BY DEF TypeOK
    <3>5. ResultInv'
      BY <3>2, <3>3, <3>4 DEF ResultInv, Shown, TreeOf
    <3>6. JobsWhole' /\ SelectsOnly'
      BY <3>2, <3>3, GatesAssumption DEF JobsWhole, SelectsOnly, AllOf, GatesAssumption, Runs
    <3> QED
      BY <3>2, <3>5, <3>6, <1>run
  <2> QED
    BY <2>1, <2>2
<1>7. ASSUME GateFinish \/ GateDies PROVE RunsInv'
  BY <1>7, <1>same DEF GateFinish, GateDies
<1>8. ASSUME CommitAfterHook PROVE RunsInv'
  <2>1. CASE Commit
    BY <2>1, <1>8, NamedStay, <1>run, <1>jobs DEF CommitAfterHook, Commit
  <2>2. CASE UNCHANGED repoVars
    BY <2>2, <1>8, <1>same DEF CommitAfterHook
  <2> QED
    BY <2>1, <2>2, <1>8 DEF CommitAfterHook
<1>9. ASSUME NEW x \in Runs, NEW narrowed \in BOOLEAN, NEW types \in Selections(x),
             StartRun(x, types, narrowed)
      PROVE  RunsInv'
  <2>1. \A r \in run' : /\ r.next = 1 /\ r.of = x /\ r.whole
                        /\ r.types = types /\ r.narrowed = narrowed
    BY <1>9 DEF StartRun
  <2>2. x \in Jobs => ~narrowed /\ types = DOMAIN Commands[x]
    BY <1>9, GatesAssumption DEF StartRun, Selections, GatesAssumption
  <2>3. types \subseteq DOMAIN Commands[x] /\ \A i \in types : ~(i < 1)
    <3>1. Commands[x] \in Seq(SUBSET Trees)
      BY GatesAssumption DEF GatesAssumption
    <3>2. \A i \in DOMAIN Commands[x] : ~(i < 1)
      BY <3>1
    <3> QED
      BY <3>2, Selected
  <2>4. RunInv'
    BY <2>1, <2>3 DEF RunInv
  <2>5. ResultInv'
    BY <1>9, <1>results DEF StartRun, repoVars
  <2>6. JobsWhole' /\ SelectsOnly'
    BY <1>9, <2>1, <2>2, <2>3 DEF StartRun, JobsWhole, SelectsOnly, AllOf
  <2> QED
    BY <2>4, <2>5, <2>6
<1>10. ASSUME RunCommand PROVE RunsInv'
  <2>1. PICK r \in run, ok \in BOOLEAN, skips \in BOOLEAN :
          /\ skips => r.of = Suite
          /\ ok # (work \in Commands[r.of][r.next])
               => ok /\ (r.narrowed \/ skips \/ r.next \notin r.types)
          /\ run' = {[r EXCEPT !.next = @ + 1, !.red = @ \/ ~ok, !.whole = @ /\ ~skips]}
          /\ UNCHANGED <<repoVars, gateVars, record, results, left>>
    BY <1>10 DEF RunCommand
  <2> DEFINE q == [r EXCEPT !.next = @ + 1, !.red = @ \/ ~ok, !.whole = @ /\ ~skips]
  <2>2. r \in Run
    BY DEF TypeOK
  <2>3. /\ q.of = r.of /\ q.types = r.types /\ q.narrowed = r.narrowed
        /\ q.moved = r.moved /\ q.next = r.next + 1
        /\ (~q.red => ~r.red /\ ok) /\ (q.whole <=> r.whole /\ ~skips)
    BY <2>2 DEF Run
  <2>4. RunInv'
    <3> SUFFICES ASSUME q.whole, ~q.narrowed, ~q.moved, ~q.red, NEW i \in q.types, i < q.next
                 PROVE  work \in Commands[q.of][i]
      BY <2>1 DEF RunInv, repoVars
    <3>1. r.next \in Nat /\ i \in Nat
      BY <2>2, <2>3 DEF Run
    <3>2. i < r.next \/ i = r.next
      BY <2>3, <3>1
    <3>3. CASE i < r.next
      BY <2>3, <3>3 DEF RunInv
    <3>4. CASE i = r.next
      BY <2>1, <2>3, <3>4
    <3> QED
      BY <3>2, <3>3, <3>4
  <2>5. ResultInv'
    BY <2>1, <1>results DEF repoVars
  <2>6. JobsWhole' /\ SelectsOnly'
    <3>1. r.of \in Jobs => ~skips
      BY <2>1, GatesAssumption DEF GatesAssumption
    <3>2. run' = {q} /\ results' = results
      BY <2>1
    <3> HIDE DEF q
    <3>3. JobsWhole'
      BY <2>3, <3>1, <3>2 DEF JobsWhole, AllOf
    <3>4. SelectsOnly'
      BY <2>3, <3>2 DEF SelectsOnly
    <3> QED
      BY <3>3, <3>4
  <2> QED
    BY <2>4, <2>5, <2>6
<1>11. ASSUME WriteResult PROVE RunsInv'
  <2>1. PICK r \in run :
          /\ r.next > r.lines /\ run' = {}
          /\ \/ results' = [results EXCEPT ![r.of] = {TestMetadata(Passed(r), r)}]
             \/ results' = [results EXCEPT ![r.of] = {}]
          /\ UNCHANGED <<repoVars, gateVars, record, left>>
    BY <1>11 DEF WriteResult
  <2>2. r \in Run /\ r.of \in Runs /\ r.next \in Nat
    BY DEF TypeOK, Run
  <2> DEFINE new == TestMetadata(Passed(r), r)
  <2>3. /\ new.passed = Passed(r) /\ new.whole = r.whole /\ new.types = r.types
        /\ new.narrowed = r.narrowed /\ new.moved = r.moved
        /\ new.dirty = Dirty /\ new.commit = head
    BY DEF TestMetadata
  <2>4. Shown(r.of, new)
    <3> SUFFICES ASSUME Passed(r), r.whole, ~r.narrowed, ~Dirty, ~r.moved, NEW i \in r.types
                 PROVE  TreeOf(head) \in Commands[r.of][i]
      BY <2>3 DEF Shown
    <3>1. Commands[r.of] \in Seq(SUBSET Trees) /\ i \in DOMAIN Commands[r.of]
      BY <2>2, GatesAssumption DEF GatesAssumption, SelectsOnly
    <3>2. i < r.next
      BY <2>1, <2>2, <3>1 DEF Passed
    <3>3. work \in Commands[r.of][i]
      BY <3>2 DEF RunInv, Passed
    <3> QED
      BY <3>3 DEF Dirty, NothingStaged
  <2>5. \A x \in Runs : \A s \in results'[x] : s \in results[x] \/ (x = r.of /\ s = new)
    <3> HIDE DEF new
    <3>1. \/ results' = [results EXCEPT ![r.of] = {new}]
          \/ results' = [results EXCEPT ![r.of] = {}]
      BY <2>1 DEF new
    <3> QED
      BY <3>1, <2>2 DEF TypeOK
  <2>6. UNCHANGED commits /\ head \in 1 .. Len(commits)
    BY <2>1 DEF repoVars, TypeOK
  <2>7. ResultInv'
    <3> HIDE DEF new
    <3> SUFFICES ASSUME NEW x \in Runs, NEW s \in results'[x]
                 PROVE  s.commit \in 1 .. Len(commits) /\ Shown(x, s)
      BY <2>6 DEF ResultInv, Shown, TreeOf
    <3>1. CASE s \in results[x]
      BY <3>1 DEF ResultInv
    <3>2. CASE x = r.of /\ s = new
      BY <3>2, <2>3, <2>4, <2>6
    <3> QED
      BY <3>1, <3>2, <2>5
  <2>8. JobsWhole' /\ SelectsOnly'
    <3> HIDE DEF new
    <3> QED
      BY <2>1, <2>3, <2>5 DEF JobsWhole, SelectsOnly, AllOf, Runs
  <2>9. RunInv'
    BY <2>1 DEF RunInv
  <2> QED
    BY <2>7, <2>8, <2>9
<1>12. ASSUME RunDies PROVE RunsInv'
  BY <1>12, <1>results DEF RunDies, RunInv, JobsWhole, SelectsOnly, AllOf, repoVars
<1> QED
  BY <1>0, <1>1, <1>2, <1>3, <1>4, <1>5, <1>6, <1>7, <1>8, <1>9, <1>10, <1>11, <1>12 DEF Next

(* What bin/gate post-commit and bin/merge-gate accept as green says of HEAD *)
(* what was asked, for any jobs, commands, types and Stories, if it names    *)
(* HEAD and a clean tree and nothing was edited meanwhile: a job cut short   *)
(* never counts as whole (ci-job:121), and a run narrowed or with skipped    *)
(* examples shows no type of the suite (post_commit.rb:197, 232).            *)
THEOREM GreenIsAlwaysOfHead == Spec => []GreenIsOfHead
<1>1. TypeOK /\ RunsInv => GreenIsOfHead
  <2> SUFFICES ASSUME TypeOK, RunsInv, NEW required \in SUBSET Types,
                      NEW x \in Runs, NEW r \in results[x],
                      Accepts(x, r, required), r.commit = head, ~r.dirty, ~r.moved,
                      NEW i \in Asked(x, required)
               PROVE  TreeOf(head) \in Commands[x][i]
    BY DEF GreenIsOfHead
  <2>1. Shown(x, r)
    BY DEF RunsInv, ResultInv
  <2>2. r.passed /\ r.whole /\ ~r.narrowed /\ i \in r.types
    <3>1. CASE x = Suite
      <4>1. TestsAccept(r, required) /\ i \in required
        BY <3>1 DEF Accepts, Asked
      <4>2. i \in CoveredSuites(r)
        BY <4>1 DEF TestsAccept
      <4> QED
        BY <4>1, <4>2 DEF TestsAccept, CoveredSuites
    <3>2. CASE x \in Jobs
      BY <3>2, GatesAssumption DEF RunsInv, JobsWhole, AllOf, Accepts, Asked, CiGreen, GatesAssumption
    <3> QED
      BY <3>1, <3>2 DEF Runs
  <2> QED
    BY <2>1, <2>2 DEF Shown
<1> QED
  BY <1>1, RunsInit, RunsStep, TypeCorrect, PTL DEF Spec
=============================================================================
