--------------------------- MODULE DeliveryGates ---------------------------
(***************************************************************************)
(* What the results of the gates are results of.  bin/gate pre-commit      *)
(* leaves a record of the tree it vouches for, bin/test and bin/ci-job one *)
(* of each run; bin/gate post-commit and bin/merge-gate read them later.   *)
(* Meanwhile somebody edits, stages, commits and switches branches.  A     *)
(* file that is not there and one whose writer died halfway are refused    *)
(* alike, so both are the empty set here.                                  *)
(***************************************************************************)
EXTENDS Integers, Sequences

CONSTANTS Trees,        \* what a git tree may hold
          Checks,       \* the checks of the Pre-commit Gate, in order
          Reads,        \* what a check looks at: "tree", "staged" or "boundary"
          Passes,       \* per check: the trees it passes
          Refuses,      \* per check: the changes <<from, to>> it refuses
          Jobs,         \* the jobs required for a merge
          Suite,        \* bin/test, beside them
          Commands,     \* the trees that pass, for each command of a job and each type of the suite
          Budgets       \* bound: how many pre-commit gates, other runs and commits there may be

Runs == Jobs \cup {Suite}
Changes == Trees \X Trees
Places == 1 .. Len(Checks)
Types == DOMAIN Commands[Suite]

ASSUME GatesAssumption ==
  /\ Checks \in Seq(STRING)
  /\ Reads \in [Places -> {"tree", "staged", "boundary"}]
  /\ Passes \in [Places -> SUBSET Trees]
  /\ Refuses \in [Places -> SUBSET Changes]
  /\ \A c \in Places, t \in Trees : <<t, t>> \notin Refuses[c]
  /\ Suite \notin Jobs
  /\ Commands \in [Runs -> Seq(SUBSET Trees)]
  /\ Budgets \subseteq Nat \X Nat \X Nat

VARIABLES
  commits,    \* the history: a tree and the commit before it
  head,       \* HEAD, a place in `commits`
  index,      \* what is staged
  work,       \* the working tree
  place,      \* of the Pre-commit Gate: 0 when none runs, else its next check
  hook,       \* whether git runs it
  failed,     \* GATE_FAILURES is not 0
  start,      \* HEAD when it began
  stirred,    \* history: what it looks at changed meanwhile, or was not all staged
  record,     \* tmp/gate/pre-commit-<tree>.json
  run,        \* what bin/test or bin/ci-job is doing
  results,    \* tmp/test-results/rspec-metadata.json, tmp/ci-results/<job>.json
  left        \* how many more gates, runs and commits there may be

repoVars == <<commits, head, index, work>>
gateVars == <<place, hook, failed, start, stirred>>
vars == <<repoVars, gateVars, record, run, results, left>>

Record == [change : Changes, rerun : BOOLEAN, stirred : BOOLEAN]
Result == [passed : BOOLEAN, whole : BOOLEAN, types : SUBSET Nat, narrowed : BOOLEAN,
           dirty : BOOLEAN, moved : BOOLEAN, commit : Nat]
Run    == [of : Runs, types : SUBSET Nat, narrowed : BOOLEAN, lines : Nat, next : Nat,
           red : BOOLEAN, whole : BOOLEAN, moved : BOOLEAN]

TypeOK ==
  /\ commits \in Seq([tree : Trees, parent : Nat])
  /\ \A n \in 1 .. Len(commits) : commits[n].parent \in 1 .. Len(commits)
  /\ head \in 1 .. Len(commits) /\ index \in Trees /\ work \in Trees
  /\ place \in 0 .. Len(Checks) + 2 /\ hook \in BOOLEAN /\ failed \in BOOLEAN
  /\ start \in Nat /\ stirred \in BOOLEAN
  /\ record \in [Trees -> SUBSET Record]
  /\ run \subseteq Run
  /\ results \in [Runs -> SUBSET Result]
  /\ left \in Nat \X Nat \X Nat
-----------------------------------------------------------------------------
(* git.  Whatever moves the working tree moves it under whoever reads it.    *)
TreeOf(n) == commits[n].tree
HeadChange == <<TreeOf(commits[head].parent), TreeOf(head)>>
NothingStaged == index = TreeOf(head)
Dirty == work # index \/ ~NothingStaged

Stir == stirred' = (place # 0) /\ UNCHANGED <<place, hook, failed, start, record, results>>
Move == run' = {[r EXCEPT !.moved = TRUE] : r \in run}

Edit(t) ==
  /\ t # work /\ work' = t
  /\ Stir /\ Move /\ UNCHANGED <<commits, head, index, left>>

(* git add, all of a change or some of it *)
Stage(t) ==
  /\ t # index /\ index' = t
  /\ Stir /\ UNCHANGED <<commits, head, work, run, left>>

Commit ==
  /\ ~NothingStaged /\ left[3] > 0
  /\ left' = [left EXCEPT ![3] = @ - 1]
  /\ commits' = Append(commits, [tree |-> index, parent |-> head])
  /\ head' = Len(commits) + 1
  /\ UNCHANGED <<index, work>>

CommitNoVerify == Commit /\ Stir /\ UNCHANGED run

Checkout(n) ==
  /\ n # head /\ ~Dirty
  /\ head' = n /\ index' = TreeOf(n) /\ work' = TreeOf(n)
  /\ Stir /\ UNCHANGED <<commits, left>>
  /\ IF work' # work THEN Move ELSE UNCHANGED run
-----------------------------------------------------------------------------
(* bin/gate pre-commit, by hand or as the hook of git commit.  The secret    *)
(* scan and the stray files look at what is staged; the boundary too, or at  *)
(* the last commit when nothing is.  The others read the working tree.       *)
CheckPasses(c) ==
  CASE Reads[c] = "tree"     -> work \in Passes[c]
    [] Reads[c] = "staged"   -> <<TreeOf(head), index>> \notin Refuses[c]
    [] Reads[c] = "boundary" ->
         (IF NothingStaged THEN HeadChange ELSE <<TreeOf(head), index>>) \notin Refuses[c]

GateBegin(byGit) ==
  /\ place = 0 /\ left[1] > 0
  /\ place' = 1 /\ hook' = byGit /\ failed' = FALSE /\ start' = head
  /\ stirred' = (work # index)
  /\ left' = [left EXCEPT ![1] = @ - 1]
  /\ UNCHANGED <<repoVars, record, run, results>>

(* Written by every run of bin/test, however little of the suite it selects; *)
(* `whole` says that examples ran and that none was skipped.                 *)
TestMetadata(passed, of) ==
  [passed |-> passed, whole |-> of.whole, types |-> of.types, narrowed |-> of.narrowed,
   dirty |-> Dirty, moved |-> of.moved, commit |-> head]

(* check_related_tests runs bin/test --changed --fast *)
RelatedTests == [types |-> Types, narrowed |-> TRUE, whole |-> TRUE, moved |-> FALSE]

GateRun ==
  /\ place \in Places
  /\ place' = place + 1
  /\ failed' = (failed \/ ~CheckPasses(place))
  /\ \/ UNCHANGED results
     \/ /\ Checks[place] = "tests"
        /\ \E passed \in BOOLEAN :
             /\ CheckPasses(place) => passed
             /\ results' = [results EXCEPT ![Suite] = {TestMetadata(passed, RelatedTests)}]
  /\ UNCHANGED <<repoVars, hook, start, stirred, record, run, left>>

(* The record goes by what is staged now, and only then does gate_finish     *)
(* count the results that reached its file and decide on the exit status.    *)
Evidence ==
  [change |-> IF NothingStaged THEN HeadChange ELSE <<TreeOf(head), index>>,
   rerun |-> NothingStaged, stirred |-> stirred]
RecordAnyway == [record EXCEPT ![index] = {Evidence}]
RecordPreCommitEvidence == IF failed THEN record ELSE [record EXCEPT ![index] = {Evidence}]

GateEnds ==
  place' = 0 /\ hook' = FALSE /\ failed' = FALSE /\ start' = 1 /\ stirred' = FALSE

GateFinish ==
  /\ place = Len(Checks) + 1
  /\ record' = RecordPreCommitEvidence
  /\ \/ GateEnds
     \/ hook /\ ~failed /\ place' = place + 1 /\ UNCHANGED <<hook, failed, start, stirred>>
  /\ UNCHANGED <<repoVars, run, results, left>>

GateDies ==
  /\ place # 0 /\ GateEnds
  /\ \/ UNCHANGED record
     \/ place = Len(Checks) + 1 /\ ~failed /\ record' = [record EXCEPT ![index] = {}]
  /\ UNCHANGED <<repoVars, run, results, left>>

(* git reads the index again after its hook, and gives up when HEAD is not   *)
(* where it was.                                                             *)
CommitAfterHook ==
  /\ place = Len(Checks) + 2 /\ GateEnds
  /\ IF head = start /\ ~NothingStaged THEN Commit ELSE UNCHANGED <<repoVars, left>>
  /\ UNCHANGED <<record, run, results>>
-----------------------------------------------------------------------------
(* bin/test and bin/ci-job.  A job runs the lines it got of its definition;  *)
(* how many there should be it asks apart.  The suite runs whole, or one     *)
(* type of it, or something narrower: --changed, --fast or some paths.       *)
Selections(x) ==
  IF x = Suite THEN {Types} \cup {{i} : i \in Types} ELSE {DOMAIN Commands[x]}

StartRun(x, types, narrowed) ==
  /\ run = {} /\ left[2] > 0
  /\ types \in Selections(x) /\ (narrowed => x = Suite)
  /\ \E lines \in 0 .. Len(Commands[x]) :
       /\ x = Suite => lines = Len(Commands[x])
       /\ run' = {[of |-> x, types |-> types, narrowed |-> narrowed, lines |-> lines, next |-> 1,
                   red |-> FALSE, whole |-> TRUE, moved |-> FALSE]}
  /\ left' = [left EXCEPT ![2] = @ - 1]
  /\ UNCHANGED <<repoVars, gateVars, record, results>>

(* A run that leaves something out or skips it may pass where the whole      *)
(* would not.  RSpec mixes the types; their order here makes no difference.  *)
RunCommand ==
  \E r \in run, ok, skips \in BOOLEAN :
    LET passes == work \in Commands[r.of][r.next]
    IN  /\ r.next <= r.lines
        /\ r.next \notin r.types => ok /\ ~skips
        /\ skips => r.of = Suite
        /\ ok # passes => ok /\ (r.narrowed \/ skips \/ r.next \notin r.types)
        /\ run' = {[r EXCEPT !.next = @ + 1, !.red = @ \/ ~ok, !.whole = @ /\ ~skips]}
        /\ UNCHANGED <<repoVars, gateVars, record, results, left>>

Passed(r) == ~r.red /\ r.lines = Len(Commands[r.of]) /\ r.lines # 0

(* HEAD and the state of the tree are asked for at the end *)
WriteResult ==
  \E r \in run :
    /\ r.next > r.lines
    /\ run' = {}
    /\ \/ results' = [results EXCEPT ![r.of] = {TestMetadata(Passed(r), r)}]
       \/ results' = [results EXCEPT ![r.of] = {}]
    /\ UNCHANGED <<repoVars, gateVars, record, left>>

(* Killed, or the file could not be written: that of an earlier run stays. *)
RunDies == run # {} /\ run' = {} /\ UNCHANGED <<repoVars, gateVars, record, results, left>>
-----------------------------------------------------------------------------
(* What bin/gate post-commit and bin/merge-gate accept of HEAD *)
PreCommitExecuted == record[TreeOf(head)] # {}
(* covered_suites, and what it was while only the type was read *)
CoveredByType(r) == r.types
CoveredSuites(r) == IF r.narrowed THEN {} ELSE r.types

(* `required`: the types the Story declares, none if no Story is named *)
TestsAccept(r, required) ==
  /\ r.passed /\ r.whole
  /\ r.commit = head
  /\ required \subseteq CoveredSuites(r)
CiGreen(r) == r.passed
Accepts(x, r, required) == IF x = Suite THEN TestsAccept(r, required) ELSE CiGreen(r)

Init ==
  /\ work \in Trees /\ index = work /\ head = 1
  /\ commits = <<[tree |-> work, parent |-> 1]>>
  /\ place = 0 /\ hook = FALSE /\ failed = FALSE /\ start = 1 /\ stirred = FALSE
  /\ record = [t \in Trees |-> {}]
  /\ run = {} /\ results = [x \in Runs |-> {}]
  /\ left \in Budgets

Next ==
  \/ \E t \in Trees : Edit(t) \/ Stage(t)
  \/ CommitNoVerify
  \/ \E n \in 1 .. Len(commits) : Checkout(n)
  \/ \E byGit \in BOOLEAN : GateBegin(byGit)
  \/ GateRun \/ GateFinish \/ GateDies \/ CommitAfterHook
  \/ \E x \in Runs, narrowed \in BOOLEAN :
       \E types \in Selections(x) : StartRun(x, types, narrowed)
  \/ RunCommand \/ WriteResult \/ RunDies

Spec == Init /\ [][Next]_vars
-----------------------------------------------------------------------------
(* A commit the Post-commit Gate takes for checked, by hook or by hand, has  *)
(* a tree that passes every check of a working tree, unless that was not the *)
(* staged one all the time.  Its change passes the checks of a change too,   *)
(* if the gate saw that change: those of what is staged see none once it is  *)
(* committed, and the record says nothing of where a tree came from.         *)
VouchedForWasChecked ==
  \A r \in record[TreeOf(head)], c \in Places :
    PreCommitExecuted /\ ~r.stirred =>
      /\ Reads[c] = "tree" => TreeOf(head) \in Passes[c]
      /\ r.change = HeadChange /\ (Reads[c] = "boundary" \/ (Reads[c] = "staged" /\ ~r.rerun))
           => HeadChange \notin Refuses[c]

(* What a gate accepts as green says of the tree of HEAD what was asked of  *)
(* it: of a job that every command passes on it, cut short or not, and of    *)
(* the suite that every type the Story declares does, however narrow the     *)
(* run, whatever it skipped and whichever gate wrote the file last.  Who     *)
(* names no Story asks nothing of the suite and learns nothing.  All this    *)
(* if it names HEAD, which bin/merge-gate does not ask, and a clean tree,    *)
(* which neither does, and if nothing was edited while it ran, which nobody  *)
(* can tell.                                                                 *)
Asked(x, required) == IF x = Suite THEN required ELSE DOMAIN Commands[x]
GreenIsOfHead ==
  \A required \in SUBSET Types : \A x \in Runs : \A r \in results[x] :
    Accepts(x, r, required) /\ r.commit = head /\ ~r.dirty /\ ~r.moved
      => \A i \in Asked(x, required) : TreeOf(head) \in Commands[x][i]
=============================================================================
