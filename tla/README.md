# Opanel in TLA+

This directory models the parts of Opanel that run concurrently, fail halfway,
or decide from a recorded state what happens next. At this commit the product
itself is a shell: a Rails application with one health page, two example jobs,
and a React frontend of three pages over a component library. The other program
logic of the repository is the machinery that builds it: the autonomous
Milestone loop with its state files and hooks, the legacy orchestrator before
it, the gates, the development supervisor and the Swarm lab. That machinery is
modelled, and of the frontend what keeps state: pages and deploys, sidebars,
layers, the data table and the controls. Paths are relative to the repository.

## 1. The system

| Component | State it keeps | Operations | What is hard | What makes it correct |
|---|---|---|---|---|
| State lock and atomic write, `tools/opanel-loop/scripts/_lib.sh` | a flock, or a lock directory with a pid file; a temporary file; the JSON document | `with_lock`, `write_json` | invocations run concurrently (a hook beside a subagent), are killed or signalled anywhere; the fallback breaks locks it thinks stale | no two updates of a document overlap, none that was reported is lost, every command ends |
| `review-state.sh` | `review-state.json`: status, attempts, verdict, counts | `init`, `set`, `review-start`, `verdict`, `fix-start`, `fix-done`, `block`, `error` | attempts and existence are read before the lock is taken; `init` writes in place | status and verdict agree; the budgets hold; a spent budget stays spent |
| `tasks.sh` | `tasks.json`: a status, attempts, counts and commit per Story; the turns of the run | `next`, `set`, `attempt`, `review`, `commit`, `active`, `remaining`, `run-start`, `turns` | sessions die between any two commands; counts are read before the lock, and recorded in any status | dependencies first, also with several Stories open; none is left over at the hand-over |
| Stop hook and lead, `hooks/scripts/stop-gate.sh`, `skills/*/SKILL.md` | `.backlog-active`, and the two documents | the lead's commands per phase; the hook's decision after each turn | an agent may stop after any command; the hook may time out; failures are swallowed by `\|\| true` | a run ends, and why can be read somewhere; what is reviewed is complete; the run advances |
| Task gate, guards, other hooks | none | answer one tool call | text patterns | - |
| Milestone packs, `lib/gates/pack.rb`, `bin/pack` | none (reads `tasks.json`) | `validate`, `next` | cycles, order | an invalid pack is refused; `next` agrees with `tasks.sh next` |
| Stop gate, `bin/stop-gate`, `lib/gates/stop_gate.rb` | none | ten checks in order | its inputs are changed by its caller | it is green exactly for a finished Milestone |
| Legacy orchestrator, `scripts/legacy/` | `review-state.json`, a lock directory, a pid file | review, fix, block, resume | crashes between phases, a lock taken over | an attempt is spent by a verdict only; a restart finds its place |
| Development supervisor, `bin/dev` | child processes | spawn, stop all, reap | a signal between two spawns; a child missing | one child ends, all end, and so does the supervisor |
| Swarm lab, `bin/swarm-lab`, `lib/gates/swarm_lab.rb` | a Docker swarm and its label | `up`, `down`, `status` | a crash between two Docker commands; services created meanwhile | it never destroys a swarm that is not its own, and always can destroy its own |
| Jobs, `app/jobs/`, `config/initializers/solid_queue.rb` | checkpoints, claimed executions | perform, retry, prune | at-least-once execution, a pruned worker that still runs | a second execution is harmless |
| Delivery gates, `bin/gate`, `bin/ci-job`, `bin/test`, `lib/gates/post_commit.rb`, `bin/merge-gate`, `bin/flaky-rate` | the pre-commit record of a tree, the results of the last runs | run checks, record, accept | results that belong to another commit or an edited tree; a run cut short | what is vouched for is what was checked |
| Frontend: pages, `app/frontend/pages`, `lib/resolve-page.ts` | the page, the bundle of the tab | visits, reloads | a deploy under an open tab; error pages, which escape the version check | a tab whose version is its bundle's gets nothing the bundle lacks |
| Frontend: sidebar, `components/layouts`, `hooks/use-mobile.ts` | `_open`, `openMobile`, the hook, listeners on the window, one cookie | toggle, shortcut, resize, mount | several providers answer one key; effects run after the render; stale closures; fractions of a pixel | no listener is stale or left behind; the cookie shows its last writer |
| Frontend: layers, `components/ui` over Radix | which layer is open | open, the ways of closing | layers that must not close by accident, a sheet on top of them | an alert dialog is answered |
| Frontend: table and controls, `components/ui/table`, `slider`, ... | filter, sorting, page, selection by row number; a value each | operators of the table, new `data`, a renewed default | selection and page survive, or not, when the data changes; state copied from a prop | what is selected was chosen; the page exists; the number is the thumb's |
| Rails shell, components that only draw, scanners, docs, tests, CI | none across calls | - | - | - |

How they interact. A person starts a run with `/backlog`, which writes
`.backlog-active`. The lead, an agent, calls `tasks.sh` and `review-state.sh` as
its skills tell it to; each call is a process of its own that updates one JSON
document through `with_lock` and `write_json`. Whenever the lead ends its turn
the Stop hook runs: it counts the turn in `tasks.json`, reads the status from
`review-state.json`, and either blocks the stop with the next action, runs
`bin/stop-gate` and hands the Milestone over for review, or removes
`.backlog-active`. `bin/stop-gate` calls `bin/pack validate` and `bin/ci-job`.
The two documents are the only shared state; a lost session is resumed from them.

The gates meet over files named in `tmp/`: `bin/gate pre-commit`, which git runs
as its hook, leaves `tmp/gate/pre-commit-<tree>.json`; `bin/test` and
`bin/ci-job` leave a result each; `bin/gate post-commit` and `bin/merge-gate`
read them later, after any number of edits and commits. In the browser, the
server sends a page with the version of its assets; the providers of a page
share the window (`keydown`) and `document.cookie`, and nothing else.

## 2. The modules

| Module | Models | Used by |
|---|---|---|
| `AtomicStore` | abstract: a command is one indivisible update of a document, or fails and changes nothing | `StateLock` (refinement) |
| `StateLock` | `with_lock` and `write_json` | `MCStateLock`, `StateLockProofs` |
| `ReviewDoc` | `review-state.json` and each jq filter of `review-state.sh`, as pure operators | `ReviewState`, `MilestoneLoop` |
| `ReviewState` | `review-state.sh` run by several callers at once | `MCReviewState`, `ReviewStateProofs` |
| `TasksDoc` | `tasks.json`, the commands of `tasks.sh`, and what `bin/pack validate` demands | `MilestoneLoop` |
| `Milestone` | abstract: the life of one Milestone, its Stories, hand-over, reviews and fixes, with no commands, turns or sessions | `MilestoneLoop` (refinement) |
| `MilestoneLoop` | the lead, its sessions and the Stop hook over both documents | `MCMilestoneLoop`, `MilestoneLoopProofs` |
| `DevSupervisor` | `bin/dev`, its children and its signals | `MCDevSupervisor`, `DevSupervisorProofs` |
| `SwarmLab` | `bin/swarm-lab`, the guardrail of `lib/gates/swarm_lab.rb`, the test helpers, and the daemons | `MCSwarmLab`, `SwarmLabProofs` |
| `DeliveryGates` | the Pre-commit Gate and its record, `bin/test` and `bin/ci-job` and their results, what the later gates accept, and git | `MCDeliveryGates`, `DeliveryGatesProofs` |
| `Sidebar` | `SidebarProvider`, `Sidebar`, trigger and rail, `useIsMobile`: the providers of one page | `Frontend`, `SidebarProofs` |
| `Overlays` | the wrappers of Radix layers: what each lets through and what closes it | `Frontend` |
| `Frontend` | visits, deploys, the page's own state and layers, over the sidebars | `Browser` |
| `DataTable`, `Controls` | the table; the controls that keep a value, and the slider | `Browser` |
| `Browser` | the three of them as scenes, one of which runs | `MCFrontend`, `BrowserProofs` |
| `Display` | what `FieldError`, the bell's badge and the profile's initials compute | `MCFrontend` |
| `StateLockProofs`, `ReviewStateProofs`, `MilestoneLoopProofs`, `DevSupervisorProofs`, `SwarmLabProofs`, `DeliveryGatesProofs`, `SidebarProofs`, `BrowserProofs` | theorems | - |

Of the machinery, three levels fit together. `StateLock` looks inside one write: its steps are the
`mkdir`, the read of the pid, `kill -0`, `rm`, `rmdir`, `jq` and `mv`. It shows
that with flock a write is indivisible, so `ReviewState` takes a write as one
step and looks at what a *command* does outside the lock. `MilestoneLoop` takes
a command as one step, since one session acts at a time, and looks at the order
of commands across turns and sessions. The definitions of `ReviewDoc` are the
same in the last two.

**StateLock.** A process is one invocation and its identity is its pid. `pc` is
the place in the script, `holder` the owner of the flock, `dir` and `pidfile`
the lock directory and its content, `seen` the variable `pid` of a waiter,
`waited` the variable of that name, `file` the document as the set of updates it
contains, `tmp` the temporary file. `applied`, `broke` and `termed` are history.
`hasFlock` is chosen once: `command -v flock` answers the same for all. `Stale`
reads a *remembered* pid, as the script does; `BreakPid` and `BreakDir` are the
`rm` and the `rmdir`; the EXIT trap (`ExitPid`, `ExitDir`) removes whatever is
there. `Kill` runs no trap. `Term` runs the handler, which does not exit, so
the script goes on. SIGTERM outside the two places of the update is left out:
before the trap is set it ends the process like `Kill`, during the trap it adds
a second run of the same removals. pids are not reused.

**ReviewState.** `doc` is `review-state.json`, `Absent` before `init` and `Torn`
while `init` has created and not yet filled it. The reads of `review-start` and
`fix-start` (`ReviewStart`, `FixStart`) decide which write follows, and the
write (`ReviewOpen`, `ReviewRefuse`, ...) applies to the document as it is by
then. `Die` abandons a caller between the two. The four counts are reduced to
`clean` (no Critical, no High) and `blocking`. What two lines of a heredoc leave
in the file is not told apart: every command fails on it alike.

**MilestoneLoop.** `at` says what the session is in the middle of: `away` when
there is none, a place of the lead (`turn` and the places between two commands
the skill gives in one block), or a place of the hook. Each action of the lead
is one command, with the guard the skill gives and the refusals the script
makes; what the lead chooses is otherwise free. `EndTurn` is always possible.
Neither `tasks.sh next` (43-54) nor the skill (`backlog/SKILL.md:44-52`) asks
whether a Story is open already, and the hook, which would send the lead back to
it, speaks only at the end of a turn: so `OpenStory` has no such guard, and after
a lost session several Stories may be under way. `tasks.sh review` (127-137)
records counts for a Story in any status; `RecordCounts` is the use the skill
makes of it, `RecordCountsOutOfTurn` every other.
The hook's places are where a cut-off leaves a trace: before the increment,
before the block of an exceeded budget, before the decision, before the gate,
before the removal of `.backlog-active`. The decision is four actions for the
four ways out (stop, go on, stop with a required Story blocked, close), whose
guards follow the order of the script. `GateOk` computes the two checks that
depend on `tasks.json` and leaves the others to `OtherChecks`. `TidyPack` is the
lead doing what the refusal of the gate asks for: taking out of `tasks.json`
what the schema does not know.

**Milestone.** What a run promises whoever runs it: Stories are begun after their
dependencies, beside others if these were left open, and finished or dropped for
good; the hand-over needs all of them finished or dropped and every required one
done and committed (`Handed`); each fix answers a review, within the budgets. `Life` in `MilestoneLoop` reads it off the two documents: `phase` is
the status the hook reads (`implementing` without a document), `working`, `done`
and `dropped` are the Stories of the open, done and blocked states. `Block` is
possible from every phase, the human's acceptance included, because the hook
tests the turn limit (`stop-gate.sh:50-53`) before it reads the status. `Init`
allows whatever a run may find.

**DevSupervisor.** `at` and `next` are the place of the main program and the
process its loop has come to; `child` is what the operating system knows of each
process and `pid` what the script knows. `Spawn` and `AssignPid` are two steps,
since a handler can run between them. `KillNext` and `ReapNext` are one turn of
the loops of `stop_all` and of the end of the script. A handler (`Signalled`) is
one step: it runs `stop_all` unless that was called before, over the pids
assigned so far; with Ctrl-C (`Interrupt`) the terminal has signalled the
children too. `early` is history: a signal came while processes were being
started. SIGKILL of the script, the output streams and the exit status are left
out.

**SwarmLab.** Every docker command is a step, and goes to `To(p)`: the daemon of
the invocation's `DOCKER_HOST` (or `DOCKER_CONTEXT`), or of the docker context
current *then*. A swarm is a daemon and a number, since one may be left and
another initialised between two commands. `Claimable` stands for the parsing,
the allowlist and the loopback resolution of an endpoint. `List` is one of the
four listings of the inventory, `Remove` and `RemoveFails` the two ends of a
removal, and `Die` is the script killed or interrupted as well as any other
docker command failing, which ends it alike. A test example is `assert_lab!`, a
creation and the cleanup, which takes the same steps as a removal of `down`.
`OtherInit`, `OtherLeave` and `UseContext` are other people. `made`, `left`,
`late`, `disturbed` and `cut` are history. `node update` names the node it read,
so it fails on another swarm; `swarm leave` names nothing.

**DeliveryGates.** A git tree is a member of `Trees`; a commit is its tree and
its parent. `work`, `index` and `head` are the three places a check may read,
and `Reads` says which one each check does: the working tree, what is staged, or
for `diff-boundary` what is staged and else the last commit (`gate:53-57`).
`Passes` and `Refuses` say how a check would answer, of a tree or of a change.
`place` walks through the checks of `gate_run`; `RecordPreCommitEvidence` names
the index of *that* moment (`gate:138`), and git makes its commit from the index
as the hook left it (`CommitAfterHook`). `results` holds the last result of each
job and of the suite. A job runs the `lines` it managed to read of its definition;
`Passed` compares their number with the one asked for apart. The suite's
"commands" are its types (`suite_types.rb`). A run of it selects all of them or
one (`types`), and may be `narrowed` besides, by `--changed`, `--fast` or paths; the
tests of the Pre-commit Gate always are, and write the same file. Examples may be
skipped, or none run (`whole`). What a narrowed run leaves out, and what is
skipped, may pass where the whole would not. `CoveredSuites` and `TestsAccept` are
what `post_commit.rb` makes of the file: it asks only for the types the Story
declares (203, 213-222), for none without `--story`, so that then any green run of
HEAD is accepted. A result is empty when there is none or it cannot be read.
`stirred` and `moved` are history: what the gate looked at changed meanwhile
(or was never all staged), the working tree changed under a run. Other people's
steps are `Edit`, `Stage`, `CommitNoVerify` and `Checkout`. One gate and one run
at a time.

**Sidebar.** The providers of the page, each with `inner` (`_open`), the `open` of
its parent, `openMobile` and its own `useIsMobile`; `listeners` are the handlers
on the window with what each closed over, in the order `before`. React runs the
effects of a mount after it is painted, so `phase` goes from "committed" over
"measured" to "ready" by `Flush` and `SettleTree`, and a key may be pressed in
between; the render an event causes is settled before the next event, so a later
one finds `phase` "ready". `Mode` says which of `open` and `onOpenChange` the
consumer passes, and whether it accepts. `setOpen` uses the `open` it closed over
(two calls in one event are one flip), `setOpenMobile` an updater. The cookie is
written by every desktop `setOpen` and read by nobody in the repository.

**Overlays, Frontend.** A layer is whether it keeps the page behind it out of
reach, and the set of ways it closes; each follows from the parts the wrapper
renders and its defaults. `Visit` names a page of the release the server runs; a version other than the
server's makes it a full load (`Deploy` and `inertia_rails.rb`). `version` is what
the tab sends, apart from `client`, the bundle it runs: an error page is rendered
by `exceptions_app` (`config/application.rb:81`, `errors_controller.rb`), outside
the middleware that compares, and hands the tab the new version with its old
bundle (`FailedVisit`). A visit that is not a GET is not compared either; no route
of the repository takes one, so it fails and is a `FailedVisit` too.

**DataTable, Controls, Browser.** The table knows a row by its place in `data`
(no `getRowId`), so `selected` is a set of places and `picked`, history, the
records that were ticked. Any new identity of `data` resets the page. The slider
keeps the number it shows (`internal`) beside the value of the Radix thumb
(`chosen`) and copies the default in an effect. The three scenes of `Browser`
share nothing, so one of them is chosen at the start.

## 3. The runs

| Run | Instance | Asks |
|---|---|---|
| `state_lock` | 3 invocations, 2 tries, two may be killed, one signalled, flock or not | exclusion and no lost update with flock; the same without it until a lock is broken or an owner signalled; termination; refinement of `AtomicStore` |
| `state_lock_fallback` | the same without kills and signals | is the fallback a lock? No: see finding 1 |
| `review_state` | 3 callers, 2 initialisers, budgets of 2, 1 failure | verdict and status agree, budgets, a spent budget |
| `review_state_set` | 1 caller, every status passed to `set` | does human_acceptance need a verdict? No: see finding 2 |
| `milestone_loop` | 3 Stories, budgets of 2, 2 sessions, 1 failure, 1 edit by hand | the properties of the loop, safety and liveness; refinement of `Milestone` |
| `milestone_loop_handoff` | the finished pack of M00, every other check green, never cut off | is it handed over? No: see finding 3 |
| `dev_supervisor` | 3 processes, 2 of which may have no command, any signals | who is left behind; does one end, or one signal, stop everything |
| `dev_supervisor_early` | the same | without a reservation for signals during the start? No: see finding 4 |
| `swarm_lab` | 2 commands at once, a local and a remote daemon, 2 resources of 2 kinds | whose swarms are touched; what is lost; can the tool take down its own |
| `swarm_lab_crash` | the same | also after an `up` that died? No: see finding 5 |
| `delivery_gates` | 3 trees, 3 checks, a job of 2 commands and the suite of 2 types, budgets of gates, runs and commits | of which commit is what the later gates accept |
| `frontend` | 6 pages, 5 providers, 4 widths, 2 releases; 3 records, 2 page sizes; 2 values | listeners, cookie, hook, pages, layers, table, slider |

Bounds, and why they are enough. *Three invocations*: breaking a lock wrongly
takes an owner that left, a successor, and a waiter that remembers the first.
*Two tries*: enough to see a lock held, retry, and give up; the script has 100.
*Three callers*: two that race past the test and one that refuses or judges
between them. *Budgets of 2* instead of 3: one attempt to spend before the last
one. *Three Stories*: the required one is declared
second and an optional one depends on it, so both keys of the ordering, a
dependency and a blocked dependency occur; a third is independent of both, so
that two Stories are eligible at once, and can both be open. `Found` holds what a run finds, and the
limit of Stories it is given (`OPANEL_MAX_STORIES_PER_RUN`, fixed for the run):
a pack of which the independent Story is done; one of which the required one is
and whose session was lost in the middle of the last attempt at the independent
one, with no limit and with a limit of 2; and M00's finished one
(`docs/implementation/M00/`).
*Turn limit*:
`TurnsPerStory * Stories + SparedTurns` with 1 and 1, instead of 6 and 30, so
that the limit is reached within a session. *Two sessions*: one is lost and
resumed, or ended and started again. `MaxFailures` and `MaxEdits` bound the
failed increments and incoherent reviews at one, edits by hand and counts recorded
out of turn at one (`edits` counts both); they are bounds of the model and not of the code, see below. In `review_state` `set`
takes the one status the plugin passes to it (`stop-gate.sh:119`). *Three
processes* are the three of `bin/dev`; the last two may have no command, so that
a failing spawn finds earlier ones running. In `swarm_lab` *two invocations* are
any two of `up`, `down`, `reset` and a test example, started at any time, from
daemons that run nothing, somebody's swarm, or the lab with leftovers in it; *two
kinds* stand for four, one that is listed first and one that is listed last;
`MaxSwarms` lets each daemon be initialised once more, which is enough for a
swarm to be replaced under a running command. In `delivery_gates` one tree
passes everything, one fails the tests, and one may not come about by certain
changes; the *three checks* are one for each thing a check reads; the job has two
commands, so that a run can be cut short in the middle or before the first; each
of the two *types* of the suite fails on a tree the other passes. `Budgets` gives
each behaviour up to two gates, two runs or two commits in five mixtures: two
gates with a commit between them, two commits after one gate, a gate, a run and
a commit, two runs of an edited tree, two commits beside one run. In `frontend` the gallery is the repository's
(an application shell and a sidebar without a trigger on one page); the
providers `controlled`, `own` and `listener`, and the table, stand for consumers,
of which the repository has none yet. The *widths*, in tenths of a pixel, are
767, 767.5, 768 and 769, that is both sides of the breakpoint and the gap
between `innerWidth < 768` and `(max-width: 767px)`; *two releases*, each
without a page of the other; two visits, since one finds a deploy behind it; a table
of *three records* with pages of one or two rows has a last page that is full
and one that is not.

Deadlock is not checked where the system stops by design: a lock run ends when
every invocation has, a loop when its sessions are used up, the supervisor when
the script has ended, and the lab when both commands have.

Fairness. `StateLock`: weak fairness of every process's own step, since the
operating system keeps running what it started; none of kills or signals, and
none that favours a waiter, so termination rests on the tries. `MilestoneLoop`:
weak fairness of `EndTurn` and of the hook's steps: a turn of an agent is a
finite conversation, and a hook is a script that runs to its end or is cut off.
Nothing is assumed of what the lead does within a turn. `SessionEnds` therefore
rests on the turn budget. It holds as long as increments fail, and `tasks.json`
is edited by hand, finitely often (`MaxFailures`, `MaxEdits`): an increment that
fails every time reads as turn 0, and an edit that removes `.run` starts the
count again, so either without bound would keep a session going for ever.

`DevSupervisor`: weak fairness of the main program, which the operating system
runs, and of a child that was told to stop (`ChildObeys`); none of a child's
ending by itself, nor of signals. `Browser`: weak fairness of `Flush` and
`SettleTree`, since React runs the effects and renders it has scheduled; none of
a visit, a press or a resize.

### Properties

`StateLock`: `FlockProtects` (exclusion and `NoLostUpdate` with flock),
`FallbackProtectsUntilBroken`, `EveryCommandEnds`, `FlockImplementsAtomicStore`.
`ReviewState`: `VerdictMatchesStatus`, `AttemptsBounded` (by how much racing
callers can exceed a budget), `SpentStaysSpent` (no command gives an exhausted
budget back).
`MilestoneLoop`: `DependenciesFirst`, `ReviewedIsComplete`, `NothingIsLeftOver` (at
the hand-over no Story is open or waiting, however many lost sessions left open),
`NoStaleVerdict`, `FixesAnswerReviews`, `StopShowsWhy` (when the hook ends a run,
what can be read of the reason, with and without `review-state.json`),
`HandOverNeedsFailure` (the other side of finding 3: the hook hands a Milestone
over only after an increment of its own failed), `LoopImplementsMilestone` and
`SessionEnds`.
`DevSupervisor`: `NormalExitLeavesNobody`, `NothingLeftRunning`, `OneEndsAllEnd`,
`SignalStopsAll`; all but the first hold unless a signal came during the start.
`SwarmLab`: `OnlyTheLab` (the guardrail), `LeaveLosesNothing` and `OwnUnlessCut`.
The first two hold unless the destination of a running command is changed by
`docker context use`, or somebody initialises a swarm there, between a check and
its use (`disturbed`): the endpoint is resolved again by every docker command,
and the swarm that `up` finds active is taken for the lab on an earlier answer.
`DeliveryGates`: `VouchedForWasChecked` and `GreenIsOfHead` (of a job every command,
of the suite the types the Story declares), both with reservations that the code
needs; without any one of them the run fails (see below).
`Browser`: `FreshHandlers` (the window has one listener per mounted provider, and
it closes over what is shown), `CookieOfLastWriter`, `HookFollowsViewport`,
`PhoneLeavesTheCookie`, `PhoneLayoutComes`, `AnswersFitTheBundle` (of a tab whose
version is its bundle's), `AlertNeedsAnswer`, `SelectionFollowsRecords`, `PageInRange`,
`SliderShowsItsThumb`. `Display` is checked against reference definitions in
`MCFrontend` over all short inputs.
Beside most of them stands a faulty variant of the definition
they depend on (`FlockIgnored`, `MkdirParents`, `ReviewExhaustedLate`,
`GiveUpAny`, ...), used by nothing: put in the place of the definition, it makes
the property fail, which shows that the property can.

### What the runs found

1. **The mkdir fallback does not exclude** (`_lib.sh:39-41`). A waiter reads the
   owner's pid; the owner finishes and exits, another invocation takes the lock;
   the waiter finds the pid dead and removes the new lock. No crash is needed.
   With flock, the path Linux takes, the lock holds.
2. **`set` reaches human_acceptance without a verdict** (`review-state.sh:65-72`),
   which the header of the script rules out (line 9). No caller in the plugin
   does so.
3. **A finished Milestone is not handed over** (`stop-gate.sh:47` and `:110`). The
   hook writes `.run.turns` into `tasks.json` before it runs the gate, and the
   pack schema refuses the unknown key, so `pack-consistent` is red by the hook's
   own doing, every time; likewise the `.review` and `.reason` that `tasks.sh`
   writes. Taking the keys out by hand does not help, the next hook adds `.run`
   again. The run ends at the turn limit. (In `milestone_loop` the hand-over is
   reached when an increment fails after such an edit.)
4. **A signal during the start uses `stop_all` up** (`bin/dev:112`). The processes
   started after it are never told to stop, and when one of them ends the script
   waits for the others instead of stopping them.
5. **`down` refuses a lab whose `up` died before the label** (`bin/swarm-lab:86-93`),
   and so does `up`: the swarm has to be left by hand. CI tears the lab down with
   `bin/swarm-lab down || true` and does not notice.

The reservations of the passing properties say where the code falls short of an
unconditional one; each was taken away in turn, and the property then fails.

- *Stops.* When the turns are used up, or a required Story is blocked, and there is
  no `review-state.json`, the hook's `block` fails behind `|| true`
  (`stop-gate.sh:51,101`) and it stops all the same. Only `tasks.json` then shows
  why, and `run-start` sets its turns back (`tasks.sh:167`).
- *Two Stories.* After a lost session a second Story is opened beside the first.
  Nothing is lost by it: dependencies still come first, and the hook finds the one
  left open before it hands over. But "one Story at a time" does not hold.
- *Counts.* `tasks.sh review` accepts counts for a Story that is done. A Critical
  recorded then stays in `tasks.json` and is looked at by nobody: `set done` read
  the counts before, and `bin/pack` demands that they be gone. So no property says
  that what is done counts neither Critical nor High.
- *Versions.* `inertia_rails.rb:2-4` says that a stale visit is answered "with a full
  page reload instead of running new props against old JavaScript". After a deploy
  and an error page the tab has the new version and the old bundle: its next visits
  run new props against old JavaScript, and throw in `resolvePage` for a page the
  bundle lacks, until it is reloaded or another release comes. (`unresolved` becomes
  true in the run; without its premise `AnswersFitTheBundle` fails.)
- *Pre-commit record.* It is "keyed by the tree it checked" (`gate:116`) only
  when the working tree was the staged one throughout: six checks read the
  working tree, the record the index. `bin/gate pre-commit` run again after a
  `--no-verify` commit sees nothing staged, so `secret-scan` and
  `no-stray-files` see no change, and yet leaves the record the post-commit gate
  asks for. A record does not say from which parent the tree came.
- *Results.* `dirty` is recorded (`_gate_lib.sh:143-150`) and read by neither
  `post_commit.rb:166-209` nor `merge-gate:137-160`, and the latter does not read
  the commit either. HEAD is asked for at the end of a run. The count of
  `gate_finish` (`_gate_lib.sh:205`) comes after `gate_write_json`, so a run
  that ends red there may leave "pass" in its file, and a failed write leaves the
  file of an earlier run. A Post-commit Gate without `--story` accepts the file that
  the Pre-commit Gate's own `--changed --fast` left, if it names HEAD.
- *Sidebar.* At widths between 767 and 768 pixels the query and `innerWidth`
  disagree and the hook keeps a stale answer. A key pressed before the effects of
  a page run is answered by the listeners of the page before. The press on a
  collapsed action acts on the desktop state in the phone layout too.
- *Table.* After new data the selection is by place and means other records.
- *Slider.* A renewed default, or a drag before the first effect, leaves a number
  that is not the thumb's.

## 4. The proofs

All safety properties of the passing runs, the two refinements among them, are
proved; so are the bounds on which the liveness properties rest, which no run
states. The eight modules of proofs are checked by TLAPS for all values of the constants
allowed by `LockAssumption`, `ReviewAssumption`, `CallerAssumption`,
`TasksAssumption`, `LoopAssumption`, `FoundAssumption`, `DevAssumption`,
`LabAssumption`, `GatesAssumption`, `SidebarAssumption`, `FrontendAssumption`,
`TableAssumption` and `ControlsAssumption`. `FoundAssumption` says of the documents a run finds what earlier
runs of the loop leave: no dependency overtaken, a review within its
budgets, what was handed over complete. A person who writes something else into them by hand
is outside the theorems. The theorems about the browser are of the specifications
without fairness, `SafeSpec` and `SafePages`, and of each scene's own. (`MaxSwarms` bounds how often a daemon is
initialised and may be any number.)

| Theorem | States | Invariant and argument |
|---|---|---|
| `StateLockProofs!TypeCorrect` | `TypeOK` | `TypeInv`: also, a process that still waits has tries left, without which `waited` could pass `MaxWait` |
| `FlockProtectsAlways` | `FlockProtects` | `FlockInv`: exactly the processes between taking and closing the flock are its holder, and a temporary file that is about to be renamed is the document plus one update; only the holder can change the document, so it still is when it is renamed |
| `FallbackProtectsAlways` | `FallbackProtectsUntilBroken` | `FallbackInv`: as long as nothing was broken or signalled the directory exists while anyone is past `mkdir`, and there is one such process; killed owners leave the directory behind and only a waiter that breaks it goes on |
| `Refinement` | `FlockImplementsAtomicStore` | `JqRead` and the steps of the lock are stutters, `Rename` is `Apply` because of `FlockInv`, and leaving without a rename is `Fail` |
| `CommandsAreBounded` | a command takes at most `5 * (processes + MaxWait) + 8` steps of its own, and no step of another adds to them (no property of a run; the processes are assumed finitely many) | `Rank`: what is left of the script, 5 for each try, and 5 for each stamp of a lock that may still be broken. Breaking a stale lock is not counted as a try by the script (`_lib.sh:39-41` continues without `waited`), so tries alone bound nothing; but each broken lock was stamped by an invocation, each stamps once (`WrittenOnce`), and `Credit` counts those stamps still to come |
| `HolderLivesAlways` | the owner of the flock is a live process inside the update or on its way out (no property of a run) | inductive with `TypeInv`; `Kill` drops the flock |
| `ReviewStateProofs!TypeCorrect` | `TypeOK` | inductive as it stands; `DocumentUpdates` says each jq filter keeps a document a document |
| `VerdictMatchesStatusAlways` | `VerdictMatchesStatus` | inductive, when no status that a verdict or a review earns is passed to `set` (an assumption of the theorem; the counterexample without it is finding 2) |
| `SpentForGood` | `SpentStaysSpent` | every step that leaves the document readable keeps the attempts, adds one, or starts anew (`ReadableStep`); the last two need a caller that already was at `openReview`, `init` or `fill` |
| `AttemptsBoundedAlways` | `AttemptsBounded` | the attempts plus the callers about to open grow only by a caller that passed the test while the attempts were below the maximum, when at most the other callers stood there too (`CallersMove` on the cardinality) |
| `MilestoneLoopProofs!TypeCorrect` | `TypeOK` (proved, and no longer in the run) | inductive as it stands |
| `DependenciesFirstAlways` | `DependenciesFirst` | `StoriesSound`: every command of `tasks.sh`, where the lead may give it, is a `Progress` of the Stories (done stays done, work begins when all dependencies are done), and progress keeps them sound |
| `ReviewedIsCompleteAlways` | `ReviewedIsComplete` | the gate alone leads into review, a valid pack has a commit for what is done, and progress keeps both |
| `NothingIsLeftOverAlways` | `NothingIsLeftOver` | with `ReviewedIsComplete`: the hook comes to the gate only from `DecideClose`, when nothing is open or waits, and from there on no Story is opened again |
| `NoStaleVerdictAlways`, `FixesAnswerReviewsAlways` | the property of that name | `ReviewSound`: also, a Milestone being implemented has no verdict, and one being reviewed, or waiting for a fix, has had one review more than fixes |
| `StopShowsWhyAlways` | `StopShowsWhy` | `HookInv`: the hook comes to the removal of the marker only by a branch that found or recorded the reason, or failed to record it with the reason in `tasks.json` |
| `MilestoneRefinement` | `LoopImplementsMilestone` | `LoopInv`, the strengthening behind the theorems above. Each command of a Story is `Begin`, `Finish`, `Commit`, `Drop` or a stutter (`StoryLives`), since progress is all the lead may make; each command of the review is the step of that name (`ReviewLives`), by the guards the script tests; the hook's steps are `HandOver`, `Block` or stutters (`HookLives`) |
| `LifeStaysConsistent` | what `Milestone` promises, for ever (no property of a run) | inductive: `Consistent` |
| `NothingIsUndone` | no step takes back work, an attempt, a hand-over, an acceptance or a block (no property of a run) | of the abstract life, and of the loop through `MilestoneRefinement` |
| `PhasesComeToAnEnd` | at most `4 * MaxReview + 5` changes of phase (no property of a run) | `PhaseRank`: a review costs four phases, and reviews are never given back; through the refinement as well |
| `HandOverNeedsFailureAlways` | `HandOverNeedsFailure` | `TurnsRecorded`: past its increment the hook has either left turns in `tasks.json`, which the schema refuses, or failed to |
| `TurnsAreSpentAlways` | between two starts of a run nothing adds to what is left of turns, failures and edits, and a hook that gets past its increment spends some (no property of a run) | `Budget`: an edit by hand may restore all turns and so weighs `Limit + 2`; the safety core of `SessionEnds` |
| `DevSupervisorProofs!TypeCorrect` | `TypeOK` (proved, and no longer in the run) | inductive as it stands |
| `NormalExitAlwaysClean` | `NormalExitLeavesNobody` | `ReapInv`: in the last loop every process before `next` has been reaped, and none is spawned any more |
| `NobodyForgotten` | `NothingLeftRunning` | `ToldInv`: without an early signal every started process but the one being assigned has a known pid, and in the loop of `stop_all` those before `next` were told |
| `ScriptTakesBoundedSteps` | the main program takes at most `4 * N + 3` steps (no property of a run) | `ScriptRank`: the places in order, and within a loop what is left of it |
| `NeverWaitsForTheUntold` | unless a signal came during the start, once somebody ended or a signal came the script waits for one that has ended or was told to (no property of a run) | `WaitInv` with `ToldInv`; with the bound, the safety core of `OneEndsAllEnd` and `SignalStopsAll` |
| `SwarmLabProofs!TypeCorrect` | `TypeOK` | inductive as it stands |
| `OnlyTheLabAlways` | `OnlyTheLab` | `LabInv`: past the endpoint check of `up` the destination is claimable, and at every place where a command takes the swarm it finds for the lab (`Trusts`) that swarm is the tool's; needs `CommandInv`, which command stands where |
| `LeaveLosesNothingAlways` | `LeaveLosesNothing` | `LossInv`: while `down` lists, what is there of the kinds it is through with is on its list or late; then all of it, unless a removal failed, and then it does not leave |
| `OwnUnlessCutAlways` | `OwnUnlessCut` | `OwnInv`: a running swarm of the tool's making is labelled, or some `up` is about to label that very swarm; `FreshInv`: somebody else's swarm has a number of its own |
| `DeliveryGatesProofs!TypeCorrect` | `TypeOK` | inductive as it stands |
| `VouchedForAlwaysChecked` | `VouchedForWasChecked` | `GateInv`: until something stirs, the working tree is the index, and the checks so far, none of which failed, would pass again; `RecordInv`: every record vouches for the tree and the change it names, and a record is never touched by what happens to the repository |
| `GreenIsAlwaysOfHead` | `GreenIsOfHead` | `RunInv`: a run that is not red has only commands behind it that the tree passes; nor types it was to run whole; `ResultInv`: so a green result shows (`Shown`) what it covers on the tree of the commit it names, since `Passed` compares the count; `JobsWhole`: a job leaves nothing out; commits stay what they are (`HistoryGrows`) |
| `SidebarProofs!SidebarTypes` | `TypeOK` | inductive as it stands |
| `HandlersAlwaysFresh` | `FreshHandlers` | `HandlersInv`: also, before the effects of a page run, what is on the window belongs to providers that are gone |
| `HookAlwaysFollows` | `HookFollowsViewport` | `ViewportInv`: also, a width between the two breakpoints is remembered in `edge`; `MeasureVersusQuery` is the arithmetic |
| `CookieAlwaysOfLastWriter` | `CookieOfLastWriter` | inductive beside `HandlersInv`: of the handlers that answer one key each flips its own provider once, and the last in `before` writes last |
| `PhoneAlwaysLeavesTheCookie` | `PhoneLeavesTheCookie` | from `HandlersInv`: a handler that took a phone for a desktop would be a stale one |
| `BrowserProofs!PagesTyped`, `TableTyped`, `BrowserTyped` | the type invariants, `BrowserTypeOK` the three together | the mounted providers are those of the page; the others inductive as they stand; `ControlsTypeOK` with `ThumbInv` |
| `PagesRunSidebars` | the pages implement `Sidebar` (no property of a run) | every step of a page is a step of the sidebars or leaves them alone, so what `SidebarProofs` shows holds of the application |
| `AnswersAlwaysFit` | `AnswersFitTheBundle` | a visit goes to a page of the server's bundle; a tab whose version is its bundle's is loaded anew when that is another, and the error page is in every bundle |
| `AlertsAnswered` | `AlertNeedsAnswer` | each step that takes the layer away, one by one: nothing but its own ways or the page's going |
| `SelectionAlwaysFollows` | `SelectionFollowsRecords` | inductive: a row toggled is one shown, and places and records correspond as `data` has no record twice |
| `PageAlwaysInRange` | `PageInRange` | `PageInv`: also, only a loading table is behind its `data`; `LastPageHolds` and `PageHolds` are the arithmetic of the page count |
| `SliderAlwaysShowsItsThumb` | `SliderShowsItsThumb` | `ThumbInv`: an effect that is still to run sets what the thumb already has |
| `FieldErrorsOnce` | what `FieldError` shows of any list of errors (no property of a run; `MCFrontend` checks the same of short lists) | the first of the entries with one message exists, by `LeastNatural`: sets of naturals have least members, since `<` is well-founded. `BadgeMatchesMarks` is the like for the badge |

Model-checked only: the five liveness properties (`EveryCommandEnds`,
`SessionEnds`, `OneEndsAllEnd`, `SignalStopsAll`, `PhoneLayoutComes`), since
liveness under fairness is beyond the installed provers, and the reference
definition of the initials in `Display`. Of the first four the part that does not
speak of fairness is proved: the steps that are fair are bounded in number, and
what is waited for is on its way. What remains to TLC is that a fair step is
enabled until the end (ENABLED is out of the provers' reach too). No module
declares a RECURSIVE operator.

## 5. What is not modelled

Within the modelled components: timestamps, messages, `lastReviewer` and
`lastError`; the commands that only read and print (`get`, `file`); `tasks.sh
milestone`, which nothing in the plugin calls; a hook that finds no `jq` or no
`tasks.json`; builder and reviewer subagents, which appear through the results
the lead records; git, which appears as the existence of a commit; a second
interactive session beside the running one (`ReviewState` has the concurrent
callers of a document, `MilestoneLoop` one session at a time); of the gates
amended and rebased commits, two gates or two runs at once, the scope of a check
(`--changed`, the related specs: a check passes a tree or does not), `gate:local`,
the other checks of the Post-commit and the Merge Gate (a Story's text, findings,
approvals, ancestry) and `bin/flaky-rate`; of the frontend submenus (the gallery
has none), a table with `selectable={false}`, a layer's exit animation, in which
its buttons still work, what a navigation menu or an avatar leaves to Radix, and
`Progress`, which draws a number and keeps none.

Left out for good: the components that only draw (cards, skeletons, icons, items,
typography, breadcrumbs), the Rails shell (no protocol), the static gates,
scanners, redaction and cops (a pass over text), CI workflows (they call the
gates), documentation.

## 6. Plan

In order; each module with the theorems worth proving of it.

1. *Done.* `AtomicStore`, `StateLock`, `ReviewDoc`, `ReviewState`, `TasksDoc`,
   `MilestoneLoop`, `DevSupervisor`, `SwarmLab`, with proofs of their safety.
   `MilestoneLoop` refines `Milestone`.
2. *Done.* `Sidebar`, `Overlays`, `Frontend`, `DataTable`, `Controls`, `Browser`,
   `Display`, with proofs of the safety and of what `FieldError` shows.
3. *Done.* `DeliveryGates`, with proofs.
4. `MilestoneLoop` with a subagent that records beside the hook: the status read
   at `stop-gate.sh:55` and overwritten at `:119`.
5. `CheckpointJob` (`app/jobs`, Solid Queue): claims, kills, pruning, retries.
   Abstract specification: every effect happens once.
6. `PackOrder` (`lib/gates/pack.rb`): `next_story` and the cycle walk against a
   reference definition over all small packs, and against `tasks.sh next`, which
   orders differently.
7. `LegacyOrchestrator` (`scripts/legacy/*`), last: ADR-0004 superseded it, and it
   is kept for reference. Its lock and takeover, phases, crash and resume.

Each gets one run for the questions above, and a further one only for a real
disagreement between the code and what it says of itself.
