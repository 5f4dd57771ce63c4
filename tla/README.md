# A verification development for maxwell-automations

This directory models maxwell-automations: its daemon (`src/packages/daemon`), the
long-running process that triggers coding agents, keeps their runs in SQLite, talks to the
agents through an SDK, chains runs into pipelines, queues pipelines, chats, and serves a
dashboard and a command line; and the commands that update the installation. The models
are written in TLA+, checked on small instances with TLC, and every safety property they
state is proved with TLAPS for every instance, or for every one its theorem names.

Contents: [inventory](#1-inventory), [modules](#2-modules),
[run engine](#3-the-run-engine), [feature queue](#4-the-feature-queue),
[chain runner](#5-the-chain-runner), [waves](#6-pipeline-waves), [chats](#7-chats),
[updates](#8-update-commands), [runs and bounds](#9-runs-bounds-and-fairness),
[proofs](#10-proofs), [findings](#11-what-the-models-found),
[known behaviours](#12-known-behaviours), [not modelled](#13-what-is-not-modelled),
[plan](#14-plan).

Paths below are relative to `src/packages/daemon/src` unless they start with `docs/`,
`tests/`, `shared/` or `cli/`.

## 1. Inventory

The daemon is one Node.js process: single threaded, with awaits. It writes SQLite through
a synchronous driver, so a write is atomic and durable, and everything kept in a `Map`, a
`Set` or a timer is lost in a crash. What is hard about it is therefore always of the same
kind: a handler reads a row or a map, awaits, and acts upon what may no longer hold; a
second handler works for the same run; and a restart has to put together what was in
memory from what is in the rows.

| component | state | operations | interacts with | correct when |
| --- | --- | --- | --- | --- |
| **Run engine** `runs/engine.ts` | `inFlight`, `activeRuns`, `retainedRuns`, `answerWaiters`, `pendingAnswers`, `pendingInterrupts`, timers; the promises themselves | trigger, pump, execute, follow-up, answer, pause, resume, interrupt, cancel, queue a message, stall sweep, boot | store, hub, executor, chain runner (events) | the cap and the FIFO order hold, no slot is forgotten, retries are bounded, the operator's last word stands, nothing is lost over a restart |
| **Run store and state machine** `runs/store.ts`, `runs/state-machine.ts` | tables of runs, events, queued messages | guarded status updates, counts, oldest queued run | everybody | only allowed edges are taken |
| **Input hub** `input/hub.ts`, `input/store.ts` | `waiters`; input request rows | ask and wait, answer, cancel | engine, MCP server | a run in `needs_input` has a question, a waiter has an open row |
| **Executor** `executor/*` | sessions of the SDK | spawn, resume, send, stream, wait, cancel, dispose | engine | external: every promise may succeed, fail, or be late |
| **Feature queue** `runs/feature-queue-*.ts`, `shared/src/feature-queue.ts` | `feature_queue_entries` | enqueue, move, remove, direct kickoff, claim, start, classify, settle, park, recover, requeue | chain runner (settle events), engine (`triggerRun`, event bus), HTTP | one pipeline at a time, dependencies first, no entry forgotten, no verdict too early |
| **Chain runner** `runs/chain-runner.ts` | transitions in flight per workspace, `chain_handled_at` | terminal event to successor, missed transitions and halts at boot | engine, waves, escalation, queue | a successor starts once, and is never forgotten |
| **Escalation** `runs/escalation.ts`, `auto-escalation.ts` | columns of the run | retry, skip, extend, abort of a halted run; automatic retries | engine, chain runner | one action per halt, a budget of automatic ones |
| **Pipeline waves** `runs/pipeline-wave-*.ts`, `git/worktrees.ts` | wave and track rows, worktrees on disk | fan out, settle a track, integrate, finalise, block, abort, resume | git, engine, chain runner | every track once, integration after all tracks, worktrees not leaked |
| **Halt recovery and discovery** `runs/halt-*.ts` | orchestration rows, briefings | detect a halt, ask a worker, present, promote | chain runner, notifier | one discovery per halt |
| **Chats** `chats/*` | chat status, queued messages, active turn | send, queue, interrupt, cancel, answer, delete | executor | one turn at a time, messages in order |
| **Notifications and wake hooks** `notify/*` | coalescing buckets, cursors | deliver, retry with back-off | events | at most the configured rate, a success moves the cursor once |
| **Triggers** `triggers/*` | schedules, watchers | cron, git, file watch, command, webhook | engine | a trigger makes one run |
| **Model catalogue and preflight** `models/*` | cache | probe a model before a run is inserted | engine | see the feature queue: its await is the window of the kickoff |
| **Configuration** `config/*` | file, rows of automations | parse, reconcile, watch, write | store, triggers | rows equal the file after a reconcile |
| **Attachments, artifacts, files, roadmap** | files | store, sweep, scan, resolve | HTTP | mostly I/O and parsing |
| **Update commands** `cli/src/update-apply.ts`, `cli/src/cli.ts` | the checkout, its dependencies and build, `refs/max/*`, the daemon | `--apply`, `--from`, `--stable`, rollback | git, npm, the daemon | all pieces are of one commit; a test build has a way back |
| **Daemon, HTTP, database** `daemon.ts`, `http/server.ts`, `db/*` | wiring | the order of start-up, the operator's requests | all | the order of start-up is part of the models |
| **MCP server, CLI, dashboard** | none of their own | clients | HTTP | views |

How they interact: a trigger, the operator, the queue or the chain runner calls
`engine.triggerRun`; the engine tells by events that a run has ended; the chain runner
adds the next step of the pipeline or recovers the halt, the wave coordinator answers for
the runs of a wave before it, and when all that is decided the settle listeners wake the
feature queue. At a restart the same work is done by sweeps, one stage after another, while
new requests and ends of runs come in.

`PROJECT.json` lists the same components with what is modelled of each, and the hazards of
the code at their lines with the properties that watch them.

## 2. Modules

| module | models | role |
| --- | --- | --- |
| `RunStatus` | `runs/state-machine.ts` | the statuses and the edges `assertTransition` allows |
| `RunEngine` | `runs/engine.ts` with the rows of `runs/store.ts` and the waiters of `input/hub.ts` | the detailed specification of the core |
| `RunScheduler` | what README and settings promise of concurrency | abstract: phases `absent, waiting, holding, done`, a cap and an order |
| `MCRunEngine` | - | `RunScheduler` under the refinement mapping; the instances for TLC |
| `RunEngine_proof` | - | inductive invariant and theorems, for every value of the constants |
| `RunRows_proof` | - | what each step does to the rows: theorems about it, and the refinement of `RunScheduler` |
| `RunTasks_proof` | - | who works on a run and who will pump: two more theorems, with an invariant of their own |
| `FeatureQueue` | `runs/feature-queue-store.ts`, `runs/feature-queue-runner.ts`, `shared/src/feature-queue.ts`, and the part of the chain runner they read | the serial queue of one workspace |
| `FeatureQueue_proof` | - | inductive invariant and theorems, for every number of features, entries, requests and crashes |
| `ChainRunner` | `runs/chain-runner.ts`, `runs/escalation.ts`, `runs/auto-escalation.ts`, `runs/halt-*.ts` | one pipeline outside every wave: transitions, recovery and diagnosis of halts |
| `Lineage` | what claims and escalations promise of a pipeline together | abstract: a line of steps, each decided once |
| `ChainRunner_proof` | - | inductive invariant, theorems, and the refinement of `Lineage` |
| `PipelineWave` | `runs/pipeline-wave-coordinator.ts`, `runs/pipeline-wave-store.ts`, `git/worktrees.ts` | one parallel wave |
| `PipelineWave_proof` | - | inductive invariant and theorems, for every number of tracks |
| `ChatEngine` | `chats/engine.ts`, `chats/store.ts`, `chats/state-machine.ts` | one chat |
| `ChatEngine_proof` | - | inductive invariant and theorems, for every number of requests and crashes |
| `UpdateApply` | `cli/src/update-apply.ts` and the update commands of `cli/src/cli.ts` | a row of update commands on one installation |
| `UpdateApply_proof` | - | inductive invariant and theorems, for every value of the constants |
| `MCFeatureQueue`, `MCChainRunner`, `MCPipelineWave`, `MCChatEngine`, `MCUpdateApply` | - | the instances for TLC |

The modules meet where a run ends. `RunEngine` takes the end of a run to the status events;
`ChainRunner`, `PipelineWave` and `FeatureQueue` begin there. They are not composed: to a
pipeline a run is live or has ended, and to the queue a pipeline is its newest run and
what a verdict reads of the older ones. Each model takes the end of a run as an action of
its own, at any time, which includes whatever order the engine produces, and each has the
resume sweep of `daemon.ts` with the stages that concern it in their order.

Two of the modules keep Node's microtask queue as a sequence `ready` (`FeatureQueue`,
`ChainRunner`), because there the order of continuations decides; in `PipelineWave`,
`ChatEngine` and `RunEngine` the waits are for I/O and return in any order.

A definition whose comment begins with *Mutant* is a plausible bug in the definition after
it. Nothing uses it; the mutation runs put it in the place of that definition and expect
the property to fail, which shows that the property depends on the code.

## 3. The run engine

### State

`db[r]` is the row of run `r` as far as control depends on it: `status`, `agent` (agent id
and SDK run id are stored), `attempts` (its `run.spawn.attempt` events), `ask` (a pending
input request) and `msgs` (pending queued messages). Run numbers are the order of
insertion, which is the order `getOldestQueuedRun` reads.

`mem[r]` is what dies with the process. The engine's maps are keyed by *run*, while the
asynchronous calls are not, and this is where its difficulty lies: a call that is late
finds the entries of the call that replaced it. The model therefore has up to `NumSlots`
tasks per run, each with the await it is at (`pc`), the function it runs (`kind`), the
status a follow-up would restore (`orig`) and the controller whose signal it watches
(`sig`); `inFlight` is the controller that is registered, `aborted` those aborted.

| `kind` | function | awaits (`pc`) |
| --- | --- | --- |
| `fresh`, `reattach`, `needsinput` | `executeRun` | `spawning` or `resuming`, `answerWait`, `sending`, `streaming`, `waiting`, `disposing` |
| `follow`, then `revive` | `resumeWithMessage`, `reviveWithMessage` | `resuming`, `sending`, `streaming`, `waiting`, `reviving`, `disposing` |
| `retained` | `sendRetainedMessage` | `sending`, `streaming`, `waiting`, `fallback`, `disposing` |
| `answer` | `deliverAnswerFollowUp` | `sending`, `streaming`, `waiting`, `disposing` |

### Actions

One action is what the engine does between two awaits, with every call it makes that
changes state: `Cancel` is `cancelRun` with the waiters and the queued messages it
cancels; `WaitReturns` is the code from the return of `wait()` through the finally block,
the release of the maps, `settleOrResumeInterrupt` and the pump of `afterRunSettled`.
`Pump(d, m)` is the loop of `pumpQueue`: it is part of every action that calls it and is
described by its result, the set `S` of runs it starts. `StallSweep`, `RetainedSweep`,
`PumpTimer`, `DeliverTimer` and `InterruptTimer` are the intervals and the zero-delay
timers; a zero-delay timer is an action of its own because other events come between.
`Crash` forgets `mem`; `Boot` is `resumeInterruptedRuns` in the place `daemon.ts` calls
it, before `setPipelineWaveStore`, which is why a track has no context there.
`LoseWorktree` is the world: the directory of a track may go at any time. Every promise of
the SDK returns or rejects as it likes, including after the run has been torn down.

Retention (`canRetainRunSession`), the deletion of old spawn events by `pruneRunEvents`
and the result of an SDK run are nondeterministic within `KeepSession`, `TailPrunes` and
`SdkResults`.

### Properties

| property | claim |
| --- | --- |
| `TypeOK` | types |
| `PumpRespectsCap` | whoever pumps, a run begins only within the cap |
| `FifoStart` | no run begins while an older one is queued, also after retries and reboots |
| `WorkConserving` | a free slot and a queued run only coexist while something that will pump is under way |
| `ImplementsScheduler` | the engine refines `RunScheduler` |
| `StartsInContext` | no run begins in a directory that has gone |
| `RetryBudget` | a queued run has an attempt left, whichever of spawn failure, stall or boot put it back |
| `RunningHasTask` | a run that is `running` or `needs_input` has a live task (or the timer that will start one) |
| `NeedsInputAnswerable`, `WaiterHasQuestion` | questions, rows and waiters agree |
| `AnswerReachesTask` | who waits for an answer is the task the answer is handed to |
| `PauseOutlivesTurn` | neither the late result of the paused turn, nor the watchdog, nor a reboot ends a pause |
| `CancelSticks` | after a cancel only the operator revives a run |
| `MessageStartsTurn` | a queued message is consumed by exactly one turn of a run that has ended |
| `QueuedIsServed`, `RunSettles` | liveness, below |
| `BootReturns` | liveness: after a crash the daemon comes up again (it does not: see the findings) |
| `FreedSlotIsRefilled` | liveness: only a run that is asking or paused holds up the queue (a cancelled one does too: see the findings) |

## 4. The feature queue

### State

`rows` are the entries of `feature_queue_entries` by id: feature, `--after` list, position,
state, root run, why the entry was parked, and whether the queue or a direct kickoff made
it. `pipes` are the pipelines by root run. A pipeline is a lineage of runs; the model keeps
its newest run (`kind`, `status`, `mark`, the class of its stop reason) and of the older
ones only what `classifyFeatureQueueOutcome` reads: the first completed gate (`gate`) and
whether any run that counts has failed (`bad`). `flight` says that the chain runner's
`handleTerminal` is under way for the newest run, `decided` that it has come to the
conclusion that nothing follows.

`ready` is Node's microtask queue as far as the runner is concerned: the continuations of
its async functions in the order they will run. A request, a timer or the end of a run is
a macrotask and is served only when `ready` is empty (`Idle`). The one await that leaves
the microtask queue is the model preflight in `engine.triggerRun`; kickoffs that wait for
it are in `preflight`, and anything may happen meanwhile. `boot` is the place of the resume
sweep of `daemon.ts` (`waves`, `missed`, `halts`, then the queue, then `up`), which runs
concurrently with everything else.

### Actions

| action | code |
| --- | --- |
| `HandleSettle` | `handleSettle`: recovery of a failed entry, blocker test, `classifyRunningEntry` |
| `ResumeQueue` | `resumeQueue`, the last stage of the sweep |
| `TryStartNext`, `TryAnother` | `tryStartNext` from its entry, and one more turn of its loop; the search parks entries with a dead dependency as a side effect |
| `Kickoff`, `RecordStart`, `KickoffFails` | the preflight passes and the root is inserted; `recordStart`; `triggerRun` throws before or after the insert |
| `Enqueue`, `CancelEntry`, `MoveEntry`, `DirectKickoff` | the HTTP requests |
| `CancelRun`, `Escalate` | the operator cancels the live run, or retries or skips a halted one |
| `RunEnds`, `TransitionEnds` | a run ends and `handleTerminal` begins; it ends with a successor, a retry or none, and the settle listeners are told |
| `OtherSettles` | any other run of the workspace settles, which wakes the runner as well |
| `Crash`, `BootTransitions`, `BootReplay`, `BootHalts`, `BootRecover`, `BootQueue` | the restart, stage by stage |

`Faults` says what may go wrong: `reject` (the preflight refuses), `throw` (the pump
throws after the insert), `skip` (a finished step gets no successor). `Extras` says what
automations are configured: automatic retries, and a `then` after the green gate. `Marks`
are the stop reasons a run may leave.

### Properties

| property | claim |
| --- | --- |
| `SlotOfOne` | one entry of the queue runs at a time, whatever interleaves with the preflight |
| `OnePipeline` | until a crash, and without retries of the operator, one pipeline the queue started is live |
| `DependenciesDone` | what has started had every feature it waits for done |
| `QueueWorks` | at rest, no entry that could start still waits |
| `ClassifiedInTime` | at rest, no running entry has a pipeline with a verdict: no settle event is missed |
| `EvaluatesDecided` | until a crash, no entry fails before the chain runner has decided about its pipeline |
| `NeverRevived` | cancelled entries, and those parked behind them, stay so |

### Abstractions

The runs a wave puts side by side in a lineage count as one live run. A step that was
marked complete may still be followed by another step, which the chain runner would not
do in every configuration: an over-approximation. Lazy adoption of roots that are older
than the queue, the digest of a batch, and the abort of an escalation are left out. Of
several candidates of a resume stage the model takes any next, where the code has an
order.

## 5. The chain runner

### State

`runs` is one pipeline, in the order of insertion: its steps and the advisory runs that
diagnose halts. A run keeps its worker, who added it (`chain`, `daemon`, `operator`,
`discovery`), its parent, the transition budget (`depth`, `max`), its status, the class of
its stop reason, `chain_handled_at` (`handled`), the skip reason that was recorded
(`halt`), the pipeline events that guards read later (`notes`, `review`) and the briefing
card of an advisory. `waiting` are escalations that await the check of their role models.
`boot` is the sweep: waves, missed transitions, failed halts, discovery requests,
advisories.

### Actions

| action | code |
| --- | --- |
| `RunEnds`, `Terminal` | the status event, and `handleTerminal`: a step's transition, a feature-end terminal, an advisory's outcome |
| `Transition`, `InsertRun`, `Record` | the target, the claim, `triggerRun`, and the event behind the insert, each separated from the next by a possible crash |
| `RecoverHalt`, `RequestDiscovery`, `SpawnAdvisory`, `Close`, `Reopen`, `Mark` | the ladder and the budget of automatic recovery; request, advisory, briefing |
| `Escalate`, `EscalateWithRoles`, `EscalateResumes` | `escalateRun` with and without the preflight of role models, between whose check and claim anything may happen |
| `Answer`, `Promote`, `FollowUp`, `Extend`, `Stop` | the operator's answer to a card, its promotion, a new turn of an ended run, a larger budget, the stop markers |
| `Crash`, `NextSweep`, `SweepOne` | the restart, candidate by candidate |

`Continue` is one continuation of `ready`; requests and ends of runs need `Idle`.

### Properties

| property | claim |
| --- | --- |
| `ImplementsLineage` | whoever extends a pipeline (transition, replay, recovery, operator, answered card), its steps form one line and nothing follows an aborted step: `ChainRunner` refines `Lineage` |
| `DeclineIsFinal` | what the daemon declined to recover it does not recover later |
| `RecoveryBudget` | the daemon's own steps stay in the budget, one more for each crash that loses the record of one |
| `OneAdvisory` | a halt has one advisory, live and by the sweeps |
| `ReviewedFeatureIsGated` | in execute mode the review of a finished feature leads to the gate, also when a crash lost the event that marks it |
| `HaltIsDisposed`, `CompletedMovesOn`, `DeclineIsDiagnosed` | liveness over a crash: a failed step is disposed of, a completed one gets its successor, a declined halt is diagnosed or the reason is recorded why not |

### Abstractions

How a target automation and its variables resolve is one fault (`target`); chains that are
not pipelines are left out. The runs of a wave are in `PipelineWave`. `Watched` follows the
first four runs, the number the bounds of `halts` can add a step to.

## 6. Pipeline waves

`wave` and `tracks` are the rows; `runs` the coordinator, planners, terminals, integration
and serial runs; `git` the worktrees that exist, those with leftovers, and the tracks that
are merged on main. A task is a handler that waits for git or for a cancellation, with what
it had read before (`seen`); `Hot` marks the two places where there is no wait but a kill
of the process leaves the join half made (claimed without an integration run; inserted
without being assigned).

| action | code |
| --- | --- |
| `FanOut`, `FanOutChecked`, `FanOutTree` | the tool call, the check of the main checkout, worktree after worktree and planner after planner |
| `HandleStep`, `HandleTerminal`, `TrackClean`, `TrackTip`, `Join`, `Enqueue` | the end of a track's terminal to the join of the wave |
| `Finalize`, `FinalizeChecked`, `FinalizeMerged`, `HandleIntegration` | the integration and what lets the chain go on |
| `HandleFailure`, `StopSibling`, `Block`, `Abort`, `AbortRemoved` | a failed track stops its siblings; the agent's or the operator's end of the wave |
| `Retry`, `RetryChecked`, `Pause`, `Resume` | the operator |
| `Crash`, `SweepWave`, `SweepPlanners`, `SweepNext`, `SweepJoin`, `SweepTransitions`, `SweepEnds` | the restart |

`Upsets` lists what may go wrong and `MaxUpsets` bounds how often: requests of the
operator, a second tool call, a crash, and each thing that may fail. A worktree that cannot
be added blocks the wave in a fan-out; the sweep leaves it out and starts the track's planner
all the same (`SweepPlanners`), so the track is held up only when its terminal ends
(`TrackClean`). All that fails in one such pass counts as one upset.

| property | claim |
| --- | --- |
| `OnlyWholeWavesMoveOn` | the main line goes on only from a finalized wave whose tracks are all integrated and merged |
| `AbortIsFinal` | nothing that was under way revives an aborted wave, completes one of its tracks, or starts an integration |
| `NothingOwedAtRest` | when no handler waits, no finished terminal is unnoticed, no complete set of tracks unjoined, no finalized wave stuck: no event is lost over any crash |

## 7. Chats

`chat` is the row, `queue` its queued messages, `starts` which of them began a turn. The
engine keys its maps by chat, but nothing keeps a turn that was stopped from living on
beside the next: turns are numbered, and `flight`, `active`, `token` hold the number of
the turn that set them. A turn is `opening`, `streaming`, `waiting`, `reviving`,
`disposing` or `over`. `timers` are the zero-delay timers in the order they were set.

`SendMessage`, `QueueMessage`, `InterruptChat`, `CancelChat`, `Archive`, `Unarchive` and
`AnswerChat` are the requests; `Opened`, `Throws`, `Revived`, `ReviveFails`, `StreamEnds`,
`Result`, `Disposed` and `Ask` the returns of the executor; `Timer` the delivery of a queued
message or of an interrupt's; `Restart` a crash with `resumeInterruptedChats`.

`odd` is a ghost: it remembers what has gone out of step (`overlap`: a turn began beside
another; `refused`: an archived chat refused the message of a timer; `orphan`: an answer
found no turn). The code allows all three (section 12), and two properties say what holds
without them.

| property | claim |
| --- | --- |
| `QueueOnceInOrder` | a queued message starts at most one turn, in order, and none that was cancelled |
| `QueuedIsDelivered` | an idle chat at rest has delivered what was queued since the daemon started |
| `StatusIsTrue` | a running chat has a turn, a waiting one a question, an archived one neither |
| `StopIsFinal` | a stopped chat runs again only by a new turn, however late its session comes back |

## 8. Update commands

`tree` holds the commits of the checkout, of its dependencies, its build (`dist` for shared
code, daemon and CLI, `dash` for the dashboard) and the installed skills, which an update
moves one after another; `refs` are `update-target`,
`update-backup`, `stable` and `test-build` under `refs/max`; `daemon` is the build that
answers and one still on its way up; `cli` the command and the step it is at. `Forward` and
`Undo` are the order of `executeUpdateApply` and of its rollback, and every step is an
action. `Throws` is a step that throws, `Kill` the end of the command between or inside two
steps, and both may leave the step half done (`Damaged`). The look at the stamps throws when a
part has another version or test id (`Stamped`), and may throw when the dashboard was built
against another shared build (`MayMismatch`: the fingerprints of two commits differ only
if their shared code does, so either outcome is a step of the model). A daemon may outlive its stop (`stays`), not come up (`dead`) or come up late
(`late`). `Up` is `max up` between two commands. A test build has the version of the
release it was cut from, which is what makes the checks of stamps and health subtle.

| property | claim |
| --- | --- |
| `AllOrNothing` | a command that has come to its end leaves all pieces of one commit, the new or the old, and no daemon of another one unless it outlived a stop or a start |
| `WayBack` | while a test build is checked out, at every step and after every failure or kill, `refs/max/stable` is the release it was cut from |

`torn` (a command was cut short and none has come to its end since) and `stray` (a daemon
outlived a stop or a start) are ghosts that say when the first property claims nothing.

## 9. Runs, bounds and fairness

| run | instance | properties |
| --- | --- | --- |
| `queue` | 2 runs, cap 1, 2 attempts, a cancel or a pause, 2 crashes, a stall; fairness | `RetryBudget`, `RunningHasTask`, `WorkConserving`, `PumpRespectsCap`, `FifoStart`, `ImplementsScheduler`, `QueuedIsServed`, `RunSettles` |
| `session` | 1 track run, 3 commands of all seven; a queued message, a crash, a lost worktree; sessions retained or not, event tails pruned or not; results are `failed`, which no guard of a follow-up, a delivery or a release tells from `completed` | `TypeOK`, `CancelSticks`, `MessageStartsTurn`, `StartsInContext` |
| `questions` | 1 run, 4 commands of cancel, answer, pause, resume; both ways to ask; 2 crashes, 2 stalls; sessions retained or not | `NeedsInputAnswerable`, `WaiterHasQuestion`, `AnswerReachesTask`, `PauseOutlivesTurn` |
| `serial` | 3 entries of 2 features, one removal, move, cancel or kickoff, one foreign settle; automatic retries | `OnePipeline`, `QueueWorks`, `EvaluatesDecided` |
| `restart` | 2 entries, 2 removals or escalations, a crash at any point; refused and throwing kickoffs, missing successors | `SlotOfOne`, `ClassifiedInTime`, `DependenciesDone`, `NeverRevived` |
| `chain` | two requests of the operator of all eight kinds, every fault | `DeclineIsFinal`, `ImplementsLineage` |
| `halts` | execute mode, a crash at any point, failing briefings; fairness | `RecoveryBudget`, `OneAdvisory`, `ReviewedFeatureIsGated`, `HaltIsDisposed`, `CompletedMovesOn`, `DeclineIsDiagnosed` |
| `wave` | 2 tracks, any two of twelve upsets | `OnlyWholeWavesMoveOn`, `NothingOwedAtRest`, `AbortIsFinal` |
| `chat` | 5 requests, a crash | `QueueOnceInOrder`, `QueuedIsDelivered`, `StatusIsTrue`, `StopIsFinal` |
| `update` | 2 releases, 3 test builds, 3 commands, any 3 of five upsets | `AllOrNothing`, `WayBack` |
| `bootloop`, `heldslot` | the smallest instance that shows the finding | one property each, which fails |

### Bounds

Each bound is a constant and stands in the guard of what it bounds.

* `RunEngine`: two runs and one slot are the least at which one run waits while the other
  starts, retries, stalls or is re-attached, so that a wrong order, a start beyond the cap
  and a forgotten pump all occur; a pump that fills several slots at once is a matter of
  `Pump`'s definition, which the proofs treat for every cap. `session` and `questions` look
  at one run, since runs share only the slots. Two `NumSlots` suffice for a stalled task
  beside the one that replaced it (a pump that has no slot left for the task it would start
  is not taken, `HaveSlots`); three are needed when the operator starts a turn beside
  both, or for a second stall. `MaxAttempts` is 2, so that a retry is possible and the limit
  is reached. Three commands reach pause, resume and then cancel; the fourth follows an
  answer by another round. A second crash meets the re-attachment of the first.
* `FeatureQueue`: the third entry is one of the same two features, which makes a
  re-enqueued feature and a dependency on it possible. With a crash two entries are what
  the time allows.
* `ChainRunner`: `MaxDepth` 3 in `halts` leads through plan, docs, plan, review to the
  gate; two requests in `chain` race each other and the daemon's recovery.
* `PipelineWave`: two tracks are the least the code accepts as a wave, and enough for
  every order of two settlements; two upsets give a crash after any failure.
* `ChatEngine`: five requests reach send, queue, cancel, send and interrupt, that is a
  third turn while two others settle late.
* `UpdateApply`: three commands are a departure, a second bundle or an apply, and the
  return; three upsets a failure, one in its rollback, and a daemon that misbehaves.

`CHECK_DEADLOCK` is off in all runs: a daemon whose runs have ended and whose operator has
spent the bounded commands has come to a legitimate rest, and an installation whose build
was killed before it came to the command line has none any more.

### Fairness

`RunEngine`: `Boot` is fair, since the operator's supervisor restarts the daemon. A
zero-delay timer that is due fires. `TaskStep` is fair for each task: the promises of the
SDK settle, because `spawn` and `resume` are raced against `spawnTimeoutMs`, and a stream
that has gone quiet is aborted by the watchdog. Nobody has to trigger a run, to answer a
question or to resume a pause; therefore `QueuedIsServed` and `RunSettles` excuse what
waits `ForOperator`: a run that is asking or paused, or a task that was re-attached at a
boot and awaits an answer, also after its run was cancelled. In `queue` nobody asks and only
the pause is an excuse; `heldslot` has a run that asks, and a property without the last
excuse, which fails.

`ChainRunner`: the event loop runs the continuations it has, and the sweep that a restart
has begun goes on. The ends of runs are not fair: the properties begin when a run has
ended. The other modules state no fairness; their properties "at rest" say the same of
lost events without it.

### Mutants

For each property of each passing run `PROJECT.json` names a plausible bug (a forgotten
guard, a missing call, the wrong row) that makes that property fail in that run. They
show that the instance is large enough for the property to bite.

## 10. Proofs

### The run engine

`RunEngine_proof`, `RunRows_proof` and `RunTasks_proof` prove, for every number of runs, cap,
attempt limit, set of commands and bound:

| theorem | states | assumes |
| --- | --- | --- |
| `TypeCorrect` | `Spec => []TypeOK` | - |
| `WaitersHaveQuestions` | `Spec => []WaiterHasQuestion` | - |
| `AnswersReachTheirTask` | `Spec => []AnswerReachesTask` | - |
| `PumpWithinCap` | `Spec => PumpRespectsCap` | - |
| `SpawnsInContext` | `Spec => StartsInContext` | - |
| `ACancelSticks` | `Spec => CancelSticks` | - |
| `AMessageStartsATurn` | `Spec => MessageStartsTurn` | - |
| `TheEngineSchedules` | `Spec => ImplementsScheduler` | - |
| `BudgetKept` | `Spec => []RetryBudget` | no interrupts |
| `AlwaysAnswerable` | `Spec => []NeedsInputAnswerable` | no interrupts |
| `FirstInFirstOut` | `Spec => FifoStart` | no interrupts |
| `APauseOutlivesItsTurn` | `Spec => PauseOutlivesTurn` | no interrupts, no sends |
| `WorkingRunsAreDriven` | a working run that is no track has a task that drives it | no follow-ups |
| `NoZombies` | `Spec => []RunningHasTask` | no follow-ups, no tracks |
| `NoSlotIsForgotten` | `Spec => []WorkConserving` | no follow-ups, no tracks; no questions or no crashes |

The assumptions on the constants are the named `ASSUME`s of `RunEngine`. "No interrupts"
is `"interrupt" \notin OperatorOps`, and it is needed: section 12 says how an interrupt
breaks the first three theorems that assume it. The fourth is about a paused run: the follow-up of an earlier
interrupt makes it go on, and a message to a cancelled run that is then paused and aborted
writes the cancel back, the status that turn had found.

**The invariant.** `IInv` is a condition `Good(db[r], mem[r])` on each run by itself, and
the ranges of the other variables. `Good` has five parts: types; "a waiter has an open
question"; "`answerWaiters` names a task that waits"; for every task `Rests`, what an
aborted follow-up may write back; and, in instances without interrupts, `Quiet`.
`RetryBudget` is not inductive on its own: a follow-up that is aborted writes back the
status it found, and could write back `queued` after the budget had been spent. `Rests`
and `Quiet` rule this out: what any task would restore is a terminal status or a pause, no
interrupt is pending, and a run that is absent or queued has an attempt left. That no
interrupt is pending is what makes the first part true, since an interrupt's follow-up is
the only one that may begin with a queued run. `AnswerReachesTask` is nearly inductive:
what it needs is that a task of a new slot is not the one that waits (`NewSlotFree`), and
for that the pump may start a run only where a slot is free. The models' bound on slots
did not say so; it does now (`HaveSlots`).

**The argument.** Nearly every action ends in one of a few operators (`Write`,
`WriteAndPump`, `Settle`, `Cleanup`, `Throw`). Each has one lemma: from good rows it makes
good rows, and whatever it starts is started within the cap, in a directory that is there,
and before any younger run (`Orderly`). `Orderly` is about a step, and the pump is its
only source: `StartOrderly` shows it from the definition of `Pump`, by
cardinality. Then there is one lemma for each action, and `Inductive` collects them:
`IInv /\ [Next]_vars => IInv' /\ Orderly`. State invariants follow from `IInv`, and the
action properties about starts from `Orderly`.

`RunRows_proof` looks at the rows only. `Becomes(r, e)` says that a step gives run `r` the
row `e` and pumps or not; `Own(d, e)` what a task, a timer or the watchdog makes of a row
`d` by itself: no message is touched, a run that holds no slot keeps its status, and a
pause nobody disturbs stays or fails. Every step of a task, of the pump's timer and of the
watchdog is both (`ByItself`), which is shown by the same descent through `Settle`,
`Cleanup` and `Throw`; the commands, the deliveries and the boot are the cases left. The
three action properties follow. So does the refinement, where the phases of a row are all
that matters: a row that keeps its phase, or leaves its slot, is a stutter or a `Leave`;
a trigger is a `Submit`, the cancel of a queued run a `Withdraw`, a follow-up of an ended
run a `Reopen`, and the boot, which puts back or fails many runs at once, is one `Leave`.
One step is none of these: a spawn that fails late while an interrupt is pending pumps the
queue before it puts its own run back, so a younger run may be started while the older one
still holds its slot. `RunScheduler` has an action of its own for it, `GiveBack`, which
only instances with interrupts may take; in `queue`, where the refinement is checked by
TLC, there is none.

`RunTasks_proof` is about tasks. "No follow-ups" is `OperatorOps \subseteq {"cancel",
"pause", "answer"}`: runs are triggered, fail to spawn, stall, ask, are answered, paused and
cancelled, and the daemon crashes and boots, all in any order, but no command begins another
turn of a run. Its invariant `TInv` says who is responsible. A task *drives* its run
(`Drives`) when it is an attempt that has not come to its end and the controller it watches
is its own and not aborted; a run that is `running` or `needs_input` has one, and it is not
the task of an attempt that stalled, was paused or was cancelled, of which there may be
several. A run is *busy* (`Busy`) when its pump's timer is set, or when it has settled and a
task of it will pump at its end; a free slot beside a queued run implies that some run is
busy (`Conserving`). The two need each other: a cancel frees a slot and does not pump, and
it is the driving task of the cancelled run that will. The lemmas go down the same
operators: what a task may leave behind (`Leaving`), what a write may do to a run that is
counted upon (`Trades`), and that a pump leaves no slot free beside a queued run
(`PumpFills`).

No assumption can be dropped: TLC breaks `RunningHasTask` with any one of `resume`, `send` and
`queue` added, each time because a task of the turn before, coming to its end late, removes
the controller that the follow-up then looks for, and with `interrupt` (section 12); a boot
leaves a track without a task. It breaks `WorkConserving` with `resume` (an illegal restore
throws before the clean-up), with a track whose worktree has gone, and with a question that
is open at a boot, which is the finding `heldslot`.

### The update commands

`UpdateApply_proof` proves, for every set of releases and test builds, every set of upsets
and every number of commands, from the named `ASSUME` of `UpdateApply` alone:

| theorem | states |
| --- | --- |
| `TestBuildsHaveAWayBack` | `Spec => []WayBack` |
| `UpdatesAreAllOrNothing` | `Spec => []AllOrNothing` |

**The invariant.** Both properties are about a checkout that a row of commands leaves, and
neither is inductive. `IInv` adds what holds in the middle of a command. `Course`: the
target ref is the goal, and from the moment the try is entered the backup ref is the commit
the command came from, so a rollback at any step has somewhere to go. `Saved`: a command
that is under way to a test build, or from one, has the release saved that it was cut from.
This is the reason for `WayBack`: only a departure from a release writes the saved ref, and
a test build is installed only over its own release or a sibling of it, for which `WayBack`
held already. `Follows` and `Answers` say, label by label, which of dependencies, build and
skills are of the checkout's commit, and which daemon may answer. Nothing is assumed of
them where a rollback begins, nor where a command begins after one that was killed: each
is put right at its own label, in either direction, which is why what a killed command left
does not matter once a later one has come to its end.

**The argument.** `NextLabel` lists where each label leads, forward and in a rollback. Most
steps leave the checkout and the saved refs alone, and `SameCourse` deals with them at once;
`Save`, `Backup` and `Reset` are the ones with something to show. A throw is two lemmas: the
command gives up (before the try, where nothing has changed yet, or in its rollback, which
leaves it torn), or rolls back. `NextInv` has one case for each disjunct of `Next`.

### The chain runner

`ChainRunner_proof` proves, for every depth, budget, set of faults and of requests, and any
number of crashes, from the named `ASSUME` of `ChainRunner`:

| theorem | states | assumes |
| --- | --- | --- |
| `IInvHolds` | `Spec => []IInv`, with the type of every variable | - |
| `StepsFormOneLine` | `Spec => ImplementsLineage` | - |
| `TheBudgetBounds` | `Spec => []RecoveryBudget` | - |
| `ADeclineIsFinal` | `Spec => []DeclineIsFinal` | - |
| `OnlyOneAdvisory` | `Spec => []OneAdvisory` | - |
| `AReviewedFeatureIsGated` | `Spec => []ReviewedFeatureIsGated` | no fault `target` |

Where the gate itself does not resolve (`target`) the code falls through to the plain
transition of a review and does go back to planning, so the last assumption is needed.

**The invariant.** The heart is `QueueFits`: the queue of continuations holds one at a
time, or one and the end of an answered briefing behind it, and `TaskFits` says what the
continuation at its head holds on to. An insert is for the newest step, which is claimed
and not aborted (`InsertFits`); a record is for a step that is there (`RecordFits`). Since
nothing else is served before it, what it read is still so when it runs, and the claim
before it is what keeps a second source from the same step. `LineFits` (only the newest
step is open, parents differ and are older), `ReviewsFit`, `GatedHere`, `DeclinesFit` and
`OneAdvisory` are about the runs. `BudgetFits` counts: as many runs of the daemon as
recorded retries, crashes, and one more while a record is under way; a crash is what may
lose the record, and it is counted.

**The argument.** A step leaves who the runs are alone (`Holds`, and `Kept` when it records
nothing about what was added either), adds one run (`Adds`), or records something. For each
of the three one lemma carries every conjunct over, so an action has to show which it is
and what becomes of the queue. `Lineage` has a set of steps and a phase of each; the
mapping is `steps <- Steps` and `phase <- Phase`.

### The feature queue

`FeatureQueue_proof` proves, for every number of features, entries, requests, foreign runs
and crashes, from the named `ASSUME` of `FeatureQueue`:

| theorem | states | assumes |
| --- | --- | --- |
| `IInvHolds` | `Spec => []IInv`, with the type of every variable | - |
| `TheSlotIsOne` | `Spec => []SlotOfOne` | - |
| `DependenciesComeFirst` | `Spec => []DependenciesDone` | - |
| `EverySettleIsRead` | `Spec => []ClassifiedInTime` | - |
| `CancelledIsFinal` | `Spec => NeverRevived` | - |
| `JudgedAfterTheDecision` | `Spec => EvaluatesDecided` | - |
| `OnePipelineAtATime` | `Spec => []OnePipeline` | no request `escalate` |
| `TheQueueWorks` | `Spec => []QueueWorks` | no request `move`, no fault `reject` or `throw` |

The hypotheses are those under which the code keeps its word: an operator may retry one
halted pipeline while the queue runs another; the loop counts its attempts before the
preflight, so an entry that comes in during one that fails is not tried; and a move does not
look at the queue (section 12).

**The invariant.** `KickoffsFit` says what a kickoff that awaits its preflight holds on to:
its entry is running, belongs to the queue and has no run yet, and no other kickoff is under
way. With `OneRuns` it is the slot of one; the claim before the await is what makes both
inductive. `WaitingIsNew` (what waits has no run) keeps a requeued entry from coming back
with its former pipeline, `StartedIsMet` contains `DependenciesDone` and includes failed
entries, because a recovery makes them done again. `VerdictsAreRead` is `ClassifiedInTime`
while something is under way: a verdict nobody has read implies that a pipeline is live or
in transition, that the sweep is not over, or that the next continuation of the runner is a
settle or the resume. `RestIsDecided` says that until a crash a pipeline at rest was decided
about. Two parts hold under hypotheses only and are carried beside it: `OneGoes`, one of the
queue's pipelines goes on and none while a kickoff is under way, and `StartsComing`, an
entry that could start while nothing runs is about to be looked at.

**The argument.** `Evolves` says what any step makes of the entries: the edges of their
states, and that an entry keeps its feature, its dependencies and its origin. Each operator
of the model (`Settled`, `Classified`, `Requeued`, `Recovered`, `Searched`, `Attempt`) has
one lemma that says which of these edges it takes, and most steps start nothing
(`NoneStarts`), which one set of lemmas carries through the invariant. `NeverRevived` is
read off the edges. `Onward`, that a pipeline at rest stays at rest, does the same for the
pipelines in `OnePipelineAtATime`, and `Dwindles`, that a step only parks and cancels, for
the entries in `TheQueueWorks`.

### Pipeline waves

`PipelineWave_proof` proves, for every set of tracks (two or more), every choice and number
of upsets:

| theorem | states |
| --- | --- |
| `IInvHolds` | `Spec => []IInv`, with the type of every variable |
| `OnlyWholeWaves` | `Spec => []OnlyWholeWavesMoveOn` |
| `TheBarrierDoesNotStandStill` | `Spec => []NothingOwedAtRest` |
| `TheAbortIsFinal` | `Spec => AbortIsFinal` |

**The invariant.** `HandlersFit` says what a handler that waits for git or for the store
holds on to, and that it is still so when the handler goes on: the run it waits for has
ended as it had, the tracks it saw on main are there. `HotFits` is the claim: one handler
at a time makes the join. `AllNoted` and `JoinComes` are what `NothingOwedAtRest` needs
while something is under way: a terminal or integration run that completed is claimed, or a
handler or a stage of the sweep will come by it (`Noted`); the track of a claimed one does
not wait for it (`Settled`); a running wave whose tracks are complete has its join coming.
At rest the alternatives fall away one by one and the property is left. `WaveFits` ties the
status of the wave to its rows, and contains `OnlyWholeWavesMoveOn`.

**The argument.** Most steps only add: runs are appended, one that ended stays as it ended,
a claim stays, main only gains tracks (`RunsGrow`, `Kept`). The lemmas named `...Kept` carry
each part of the invariant over such a step, and an action proves the part it is about.

### The chats

`ChatEngine_proof` proves, for every number of requests and crashes:

| theorem | states |
| --- | --- |
| `QueueIsServedOnceInOrder` | `Spec => []QueueOnceInOrder` |
| `NothingIsLeftBehind` | `Spec => []QueuedIsDelivered` |
| `TheRowTellsTheTruth` | `Spec => []StatusIsTrue` |
| `AStopIsFinal` | `Spec => StopIsFinal` |

**The invariant.** `InOrder` says that what is pending was queued after all that started a
turn; `Handles` that the maps kept by chat id name turns at work; `OneTurn` that one turn is
alive at a time as long as none was started beside another (`overlap`, the known behaviour
of section 12), which is what makes the row true. `QueuedIsDelivered` and `StatusIsTrue`
are part of the invariant.

**The argument.** What a turn does is one of three kinds of step (`TurnStep`): it works on,
its handle is being disposed, or it is over, and only the last sets the chat idle, with a
timer that delivers. Each action of a turn is shown to be one of the three, and the
invariant to be kept by all three once.

### Only model-checked

* `QueueWorks` where entries are moved, as in `serial`: the theorem excludes moves, since
  enough of them break it (section 12).
* The liveness properties: `QueuedIsServed`, `RunSettles`, `HaltIsDisposed`,
  `CompletedMovesOn`, `DeclineIsDiagnosed`, and the two that fail. Proofs about fairness
  need `ENABLED`, which is beyond the backends.

## 11. What the models found

| run | code | what happens | what is promised |
| --- | --- | --- | --- |
| `bootloop` | `daemon.ts:366` | interrupted runs are resumed before the wave store is set; a queued track run has no context, the pump throws, and start-up ends, at every restart | `README.md:45` |
| `heldslot` | `runs/engine.ts:1122` | cancelling a run that was re-attached at boot with its question open frees a slot that nothing fills: its task awaits an answer that the cancel does not settle, and the cancel does not pump | comment at `runs/engine.ts:907`, `docs/troubleshooting.md:189` |

`PROJECT.json` quotes the lines.

## 12. Known behaviours

What the models showed, or the reading for them, beyond the two findings. They bound what
the properties claim; where a text of the repository says otherwise it is named.

Run engine:

* Follow-ups, answers to a run without a task, and interrupts take a slot without asking
  the pump, so more than `Cap` runs may be active. `PumpRespectsCap` is about the pump.
* A queued track run whose worktree has gone should be failed (comment at
  `runs/engine.ts:921`), but `queued -> failed` is not an edge: each pump throws at it
  and nothing behind it starts. `WorkConserving` is checked without tracks.
* The return of an aborted fallback of a retained session does not pump the queue
  (`runs/engine.ts:2322`); the next settled run or trigger does.
* An illegal restore (`paused` to a terminal status) throws in a catch block
  (`runs/engine.ts:2634`) and the clean-up behind it is skipped.
* A queued message that waits for its zero-delay timer is stranded by a crash
  (`runs/engine.ts:1768`): the boot does not look at the messages of runs that have ended.
* Runs of tracks are not re-attached at boot; they stay `running` without a task until the
  watchdog or the wave coordinator looks at them.
* With interrupts (`runs/engine.ts:1465`, `:1829`): the follow-up may begin beside another
  turn; an interrupt during a failing spawn lets the run be queued and started by its
  timer, which spends the budget (`RetryBudget`), may leave a running run without a task
  until the watchdog comes, and with a question may leave `needs_input` with none
  (`NeedsInputAnswerable`), for good when a re-attached follow-up is interrupted twice. A
  pause does not outlive an interrupt or a message.
* After a stall, a spawn that answers late may share its run with the turn of a message;
  the first to end releases the maps of the other, whose run stays `running` until the
  watchdog comes. With two stalls two turns of one run may be live. The same happens when a
  run is paused and resumed, or cancelled and sent a message, before its first turn has come
  to its end.
* A kept answer (`pendingAnswers`) is lost when the re-attachment it waits for fails.
* After cancel and send, a late `wait()` of the cancelled turn may finish the new one.
* `shutdown()` awaits every task (`runs/engine.ts:1238`), also the one of `heldslot`, so an
  orderly stop then hangs after the port is closed. Shutdown is not modelled.

Feature queue:

* A crash between the claim of an entry and `recordStart` (`runs/feature-queue-runner.ts:375`)
  leaves it running with no run; it is never classified and holds the workspace.
* A successor that is not enqueued after a claim (`skip`) leaves the entry running until
  the operator acts.
* The number of attempts is read before the preflight (`runs/feature-queue-runner.ts:366`),
  so an entry enqueued during it is not tried when the kickoff is refused. `QueueWorks` is
  checked and proved without failed kickoffs.
* A move does not look at the queue (`POST /api/feature-queue/:id/move`). Where a feature was
  enqueued again, a move may change which of its entries is the newest, and so make an entry
  eligible that then waits for the next settle event.
* The first completed gate gives the verdict (`shared/src/feature-queue.ts:32`), so a
  blocked gate that is retried to green stays blocked (`docs/configuration.md:1227`).
* A settle event during the resume sweep judges a failed step before its halt was looked at
  (`daemon.ts:605`, `docs/configuration.md:1221`), and two pipelines may live after a crash.
  `EvaluatesDecided` and `OnePipeline` speak of the time until a crash.

Chain runner:

* The operator's stop after a step is overridden by an automatic retry of that step
  (`docs/configuration.md:1170`).
* A plan phase that completed with a `complete:` marker just before a crash is never
  replayed (`docs/implement-fully-protocol.md:555`): a sweep reads it as a stop.
* Settled advisories and gates get a `run.pipeline-resumed` event at every boot; a failed
  gate is not diagnosed until a restart; a follow-up of a declined run while the sweep has
  not come to the halts leaves it undiagnosed.
* Eligibility is checked before the preflight of role models and not after it. The retry of
  a feature-level review, and the operator's skip of an implement step in execute mode,
  follow the static edge. A gate target that does not resolve falls through to plan-phase.
* A crash between the answer of a card and the escalation loses the answer. An abort does
  not cancel a paused run. An enqueue that fails after the claim (`runs/chain-runner.ts:1175`)
  leaves a handled step without a child.

Waves:

* A wave blocked for leftovers of a track cannot be retried (`docs/troubleshooting.md:449`),
  a failed enqueue in a retry changes the wave (`:455`), and an abort does not stop a
  paused sibling (`:458`).
* A kill between the claim of the join and the insert of the integration run leaves the wave
  integrating for ever; a track or integration failure that a crash kept from being seen
  neither aborts nor blocks; when all planners fail the coordinator stays claimed.
* A fan-out that races the operator's abort starts planners in an aborted wave. Two retries,
  or a retry and a resume, may give two integration runs; the late end of the former one
  blocks the wave. Any run of the wave may call `block`.
* `resumeProvisioningWave` (`runs/pipeline-wave-coordinator.ts:1454`) does not claim the
  coordinator's transition as `fanOut` does (`:458`), so a serial successor may write on
  main beside the tracks (`docs/implement-fully-protocol.md:260`).

Chats:

* After a cancel or an error, a message may start a turn while the old one is disposing: its
  late settlement sets the chat idle and drops the token of the new turn (`overlap`), and a
  revival may then run in an archived chat, against the comment at `chats/engine.ts:400`.
* An interrupt during a spawn is lost (its timer finds a running chat), and one before a
  cancel fires after it. A failed result of an aborted turn still counts.
* A question that is open when its turn ends keeps the chat in `needs_input`; the answer
  makes it run without a turn (`orphan`). One left over after an error blocks the next.
* An archived chat refuses the message of a timer, which is already marked delivered
  (`refused`). After a crash queued messages wait until some later turn ends.

Update commands:

* A failure of the backup step is outside the `try` and leaves the daemon stopped. A run
  started between the check for active runs and the stop is cancelled
  (`docs/configuration.md:99`).
* Two commands are not kept apart: a concurrent dry run moves `update-target` under the
  other. The model has one at a time.
* A release daemon that cannot be stopped passes the health check of the test build cut from
  it, which asks for the version only; a daemon that comes up late may do so during the
  rollback; after a rollback the daemon is not checked.
* A kill after the reset makes a second `--apply` refuse; a kill between clean and the build
  of the CLI leaves no command line; a `git reset --hard` that is killed half way leaves
  changes the operator has to see to, and is taken as one step here. `refs/max/stable` is never deleted, so after a later `--apply` a
  `--stable` is a downgrade.

Parts that were read and are not modelled:

* *Wake hooks* (`notify/wake-hooks.ts`): the coalescing window opens at a success only, so
  a burst during a delivery is posted one by one (`docs/configuration.md:324`); the hourly
  cap is checked before and counted after the send, so overlapping deliveries exceed it
  (`:325`); summary wakes are not checked against the actor (`:329`); a late success of an
  older wake moves the cursor back; the newest actor is searched in the oldest 500 events.
* *Triggers* (`triggers/file-watch.ts:72`): two refreshes overlapping the asynchronous close
  of the watcher both create one, and the first is never closed and goes on firing for the
  old globs. A refresh drops debounce timers, and changes made while it is under way.
  `triggers/command.ts:53`: a refresh forgets the commands in flight and their last exit
  codes, so a command may run twice at once and a persistent failure fires again.
  `triggers/webhook.ts`: the delivery id is recorded before the run is triggered, so the
  retry of a delivery whose trigger failed is refused as a duplicate.
* *Configuration*: two handlers (`http/server.ts:1771`, `:1880`) reconcile without
  refreshing the triggers; a toggle on the dashboard is undone by the next reconcile; the
  watched paths are computed once.
* *Feed*: with `--until`, a page that holds the match returns the cursor of the whole page,
  so a resumed watch skips the events behind the match.

## 13. What is not modelled

Of the modelled components:

* Run engine: `purgeRuns`; the orderly shutdown, whose effect on rows is that of a crash;
  tokens, cost and generated metadata; a throwing pump inside a spawn that failed while an
  interrupt was pending.
* Feature queue: see its abstractions. Batches of more than three entries are out of reach.
* Chain runner: how targets resolve, prompts, chains outside pipelines, the facts and texts
  of a diagnosis, notifications.
* Waves: the validation of candidates, cleanup records, the context given to the
  integration, the abort of a track run by escalation, provisioning errors other than a
  worktree's.
* Chats: `purgeChat`, the orderly shutdown, titles, attachments, promotion from a run, an
  attached run, and the setting that forbids revivals.
* Updates: refusals that change nothing, the refs that only record, two commands at once.

Components without a model: model catalogue, attachments, configuration, roadmap, steering
and feed, notifications and wake hooks, artifacts, dashboard and the rest of the command
line. Most of them parse, render or do I/O and keep no state that two actors share; where
they do, the behaviour found by reading is listed in section 12. They are also most of the
code, which is why the models stand for a tenth of it: the dashboard, the command line, the
doctor and the HTTP routing alone are more than half.

The models are not composed (section 2).

## 14. Plan

In order of what can go wrong:

1. Triggers with the reload of configuration, wake hooks and the notifier, the feed's wait.
2. Pure algorithms against reference definitions: the closure of a roadmap, the
   reconciliation of configuration.

Runs of one component are merged as components are added, so that the set stays one that
is run before every change.
