----------------------------- MODULE RunEngine -----------------------------
(***************************************************************************)
(* The run engine of the daemon (runs/engine.ts) with the rows it keeps in *)
(* SQLite (runs/store.ts) and the questions of its runs (input/hub.ts).    *)
(*                                                                         *)
(* A run is a row of the database; a task is one asynchronous call of the  *)
(* engine on that run (executeRun, resumeWithMessage, sendRetainedMessage, *)
(* deliverAnswerFollowUp).  The engine is single threaded: what it does    *)
(* between two awaits is one action here, and every await is a place where *)
(* the operator, a timer, the agent or another task of the same run may    *)
(* act.  The maps of the engine (inFlight, activeRuns, ...) are keyed by   *)
(* run, not by task, so a task that is late meets the entries of the task  *)
(* that replaced it.                                                       *)
(*                                                                         *)
(* A definition whose comment begins with "Mutant" is a plausible bug in   *)
(* the definition after it.  No action uses it: the mutation runs put it   *)
(* in that definition's place to see a property fail.                      *)
(***************************************************************************)
EXTENDS Naturals, FiniteSets, RunStatus

CONSTANTS
    NumRuns,      \* runs that may be triggered; r < q: r was created first
    Cap,          \* settings.maxConcurrentRuns
    MaxAttempts,  \* settings.maxSpawnAttempts
    NumSlots,     \* bound: tasks of one run that are remembered at once
    TrackRuns,    \* runs with an execution_cwd (the tracks of a wave)
    KeepSession,  \* outcomes of canRetainRunSession once a run has ended
    TailPrunes,   \* may pruneRunEvents delete the spawn attempts?
    SdkResults,   \* statuses an SDK run may report, as run statuses
    OperatorOps,  \* the operator's commands this instance uses
    AskKinds,     \* how agents ask: "mcp" (ask_user), "sentinel" (NEEDS_INPUT)
    MaxOps,       \* bound: operator commands
    MaxCrashes,   \* bound: crashes of the daemon
    MaxStalls,    \* bound: runs torn down by the stall watchdog
    MaxMsgs       \* bound: pending queued messages of a run

ASSUME RunsAssumption     == NumRuns \in Nat
ASSUME CapAssumption      == Cap \in Nat \ {0}
ASSUME AttemptsAssumption == MaxAttempts \in Nat \ {0}
ASSUME SlotsAssumption    == NumSlots \in Nat \ {0}
ASSUME TrackAssumption    == TrackRuns \subseteq 1..NumRuns
ASSUME ChoiceAssumption   ==
    KeepSession \subseteq BOOLEAN /\ TailPrunes \in BOOLEAN
ASSUME ResultAssumption   == SdkResults \subseteq Terminal
ASSUME BoundAssumption    ==
    MaxOps \in Nat /\ MaxCrashes \in Nat /\ MaxStalls \in Nat /\ MaxMsgs \in Nat

Runs == 1..NumRuns
Slots == 1..NumSlots
NoTask == 0
McpWaiter == NumSlots + 1

VARIABLES
    db,    \* SQLite: for every run its row
    mem,   \* the engine's maps, timers and tasks, by run
    up,    \* the daemon is running
    lost,  \* track runs whose worktree has gone from the disk
    used   \* what has been spent of MaxOps, MaxCrashes and MaxStalls

vars == <<db, mem, up, lost, used>>

-----------------------------------------------------------------------------
(* A row: "absent" before it is inserted; agent: agent_id and sdk_run_id   *)
(* are set; attempts: its run.spawn.attempt events; ask: it has a pending  *)
(* input request; msgs: its pending queued messages.                       *)
DbRow == [status : Statuses \cup {"absent"}, agent : BOOLEAN,
          attempts : Nat, ask : BOOLEAN, msgs : 0..MaxMsgs]

NoRow == [status |-> "absent", agent |-> FALSE, attempts |-> 0,
          ask |-> FALSE, msgs |-> 0]

(* Where a task awaits. *)
Pcs == {"idle", "spawning", "resuming", "answerWait", "sending", "streaming",
        "waiting", "reviving", "fallback", "disposing"}

(* fresh, reattach, needsinput: executeRun without and with resume;        *)
(* follow, revive: resumeWithMessage; retained: sendRetainedMessage;       *)
(* answer: deliverAnswerFollowUp.                                          *)
ExecKinds == {"fresh", "reattach", "needsinput"}
Kinds == ExecKinds \cup {"follow", "revive", "retained", "answer", "none"}

(* orig: the status startFollowUp found (or the one a dispose began with); *)
(* sig: the slot of the controller whose abort signal the task watches.    *)
Task == [pc : Pcs, kind : Kinds, orig : Statuses \cup {"none"}, sig : 0..NumSlots]

Idle == [pc |-> "idle", kind |-> "none", orig |-> "none", sig |-> NoTask]

MemRow ==
    [task : [Slots -> Task],
     inFlight : 0..NumSlots,        \* inFlight: the task of the controller
     aborted : SUBSET Slots,        \* controllers that were aborted
     handle : BOOLEAN,              \* activeRuns has the run
     retained : BOOLEAN,            \* retainedRuns has the run
     waiter : 0..(NumSlots + 1),    \* InputHub.waiters: none, a sentinel's task, MCP
     answerWaiter : 0..NumSlots,    \* answerWaiters: the task that waits
     pendingAnswer : BOOLEAN,       \* pendingAnswers has the run
     pendingInterrupt : BOOLEAN,    \* pendingInterrupts has the run
     pumpTimer : BOOLEAN,           \* deferred pumpQueue of recoverRun
     deliverTimer : BOOLEAN,        \* deferred deliverNextQueuedMessage
     interruptTimer : BOOLEAN]      \* deferred interrupt follow-up

NoMem ==
    [task |-> [s \in Slots |-> Idle], inFlight |-> NoTask, aborted |-> {},
     handle |-> FALSE, retained |-> FALSE, waiter |-> NoTask,
     answerWaiter |-> NoTask, pendingAnswer |-> FALSE, pendingInterrupt |-> FALSE,
     pumpTimer |-> FALSE, deliverTimer |-> FALSE, interruptTimer |-> FALSE]

(* The rows and the maps of the engine keep their types. *)
TypeOK ==
    /\ db \in [Runs -> DbRow]
    /\ mem \in [Runs -> MemRow]
    /\ up \in BOOLEAN
    /\ lost \subseteq TrackRuns
    /\ used \in [ops : 0..MaxOps, crashes : 0..MaxCrashes, stalls : 0..MaxStalls]

Init ==
    /\ db = [r \in Runs |-> NoRow]
    /\ mem = [r \in Runs |-> NoMem]
    /\ up = TRUE
    /\ lost = {}
    /\ used = [ops |-> 0, crashes |-> 0, stalls |-> 0]

-----------------------------------------------------------------------------
(* Slots of tasks.  A slot is free when its task has ended and nothing     *)
(* refers to its controller any more.                                      *)
FreeSlots(m) ==
    {s \in Slots : /\ m.task[s].pc = "idle"
                   /\ m.inFlight # s
                   /\ \A y \in Slots : m.task[y].sig # s}

NewSlot(m) == CHOOSE s \in Slots : FreeSlots(m) # {} => s \in FreeSlots(m)

(* Bound: a new task leaves a slot for the one the pump may start. *)
Room(m) == Cardinality(FreeSlots(m)) > 1

(* The task has ended; its controller is forgotten unless it is referred to. *)
Ended(m, s) ==
    [m EXCEPT !.task[s] = Idle,
              !.aborted = IF m.inFlight = s \/ \E y \in Slots \ {s} : m.task[y].sig = s
                          THEN @ ELSE @ \ {s}]

AbortInFlight(m) == [m EXCEPT !.aborted = @ \cup ({m.inFlight} \ {NoTask})]

Release(m) == [m EXCEPT !.handle = FALSE, !.inFlight = NoTask]

NewTask(m, pc, kind, orig) ==
    LET s == NewSlot(m) IN
    [m EXCEPT !.inFlight = s, !.aborted = @ \ {s},
              !.task[s] = [pc |-> pc, kind |-> kind, orig |-> orig, sig |-> s]]

-----------------------------------------------------------------------------
(* The pump. *)
Active(d) == {r \in Runs : d[r].status \in Holding}
Queued(d) == {r \in Runs : d[r].status = "queued"}

(* Mutant of PumpStarts: the cap is compared with <= before the start. *)
PumpStartsPastCap(S, d, ctx) ==
    /\ S \subseteq Queued(d) \cap ctx
    /\ \A r \in S, q \in Queued(d) \ S : r < q
    /\ S = {} \/ Cardinality(S) + Cardinality(Active(d)) <= Cap + 1
    /\ S = Queued(d) \/ Cardinality(S) + Cardinality(Active(d)) > Cap

(* Mutant of PumpStarts: ORDER BY created_at DESC. *)
PumpStartsNewestFirst(S, d, ctx) ==
    /\ S \subseteq Queued(d) \cap ctx
    /\ \A r \in S, q \in Queued(d) \ S : r > q
    /\ S = {} \/ Cardinality(S) + Cardinality(Active(d)) <= Cap
    /\ S = Queued(d) \/ Cardinality(S) + Cardinality(Active(d)) >= Cap

(* Mutant of PumpStarts: the context is not looked at. *)
PumpStartsAnywhere(S, d, ctx) ==
    /\ S \subseteq Queued(d)
    /\ \A r \in S, q \in Queued(d) \ S : r < q
    /\ S = {} \/ Cardinality(S) + Cardinality(Active(d)) <= Cap
    /\ S = Queued(d) \/ Cardinality(S) + Cardinality(Active(d)) >= Cap

(* S is what one pumpQueue starts from the rows d: the oldest queued runs, *)
(* while fewer than Cap runs are active; it stops at a run without context *)
(* (transition(queued, failed) is not an edge: it throws).                 *)
PumpStarts(S, d, ctx) ==
    /\ S \subseteq Queued(d) \cap ctx
    /\ \A r \in S, q \in Queued(d) \ S : r < q
    /\ S = {} \/ Cardinality(S) + Cardinality(Active(d)) <= Cap
    /\ \/ S = Queued(d)
       \/ Cardinality(S) + Cardinality(Active(d)) >= Cap
       \/ \E h \in Queued(d) \ (S \cup ctx) : \A q \in Queued(d) \ S : h <= q

(* The pump met a run without context while a slot was free: it throws. *)
PumpThrows(S, d, ctx) ==
    /\ Cardinality(S) + Cardinality(Active(d)) < Cap
    /\ \E h \in Queued(d) \ (S \cup ctx) : \A q \in Queued(d) \ S : h <= q

(* What executeRun does to a queued run before its first await. *)
BeginRow(d) == [d EXCEPT !.status = "running", !.attempts = @ + 1]
BeginMem(m) == NewTask(m, "spawning", "fresh", "none")

(* Bound: there is a slot for the task of every run that is started. *)
HaveSlots(S, m) == \A r \in S : FreeSlots(m[r]) # {}

Context == Runs \ lost

Pump(d, m) ==
    \E S \in SUBSET Runs :
        /\ PumpStarts(S, d, Context) /\ HaveSlots(S, m)
        /\ db' = [r \in Runs |-> IF r \in S THEN BeginRow(d[r]) ELSE d[r]]
        /\ mem' = [r \in Runs |-> IF r \in S THEN BeginMem(m[r]) ELSE m[r]]

Write(r, d, m) ==
    /\ db' = [db EXCEPT ![r] = d]
    /\ mem' = [mem EXCEPT ![r] = m]

WriteAndPump(r, d, m) == Pump([db EXCEPT ![r] = d], [mem EXCEPT ![r] = m])

-----------------------------------------------------------------------------
(* How a task ends. *)
Fail(d) == IF d.status \in Holding THEN [d EXCEPT !.status = "failed"] ELSE d

(* Mutant of RecoverRow: one attempt too many. *)
RecoverRowOnceMore(d) ==
    [d EXCEPT !.status = IF d.attempts <= MaxAttempts THEN "queued" ELSE "failed"]

(* recoverRun: another attempt while there are some left. *)
RecoverRow(d) ==
    [d EXCEPT !.status = IF d.attempts < MaxAttempts THEN "queued" ELSE "failed"]

(* Put an undelivered follow-up's run back to the status it had.  An edge  *)
(* the state machine forbids throws and leaves the status.                 *)
RestoreThrows(d, orig) ==
    d.status \in Holding /\ d.status # orig /\ ~CanTransition(d.status, orig)

Restore(d, orig) ==
    IF d.status \in Holding /\ CanTransition(d.status, orig)
    THEN [d EXCEPT !.status = orig] ELSE d

(* Mutant of Settle: a settled run does not pump the queue. *)
SettleWithoutPump(r, d, m, terminal) ==
    \/ /\ m.pendingInterrupt
       /\ WriteAndPump(r, d, [m EXCEPT !.pendingInterrupt = FALSE,
                                       !.interruptTimer = TRUE])
    \/ /\ ~m.pendingInterrupt
       /\ Write(r, d, [m EXCEPT !.deliverTimer =
                         @ \/ (terminal /\ d.status \in {"completed", "failed"})])

(* settleOrResumeInterrupt: a pending interrupt goes first; else a settled *)
(* run has its events pruned, its queued messages scheduled, and the queue *)
(* pumped (afterRunSettled).                                               *)
Settle(r, d, m, terminal) ==
    \/ /\ m.pendingInterrupt
       /\ WriteAndPump(r, d, [m EXCEPT !.pendingInterrupt = FALSE,
                                       !.interruptTimer = TRUE])
    \/ /\ ~m.pendingInterrupt
       /\ terminal /\ d.status \in Terminal
       /\ \E n \in {d.attempts} \cup (IF TailPrunes THEN {0} ELSE {}) :
             WriteAndPump(r, [d EXCEPT !.attempts = n],
                          [m EXCEPT !.deliverTimer = @ \/ d.status # "cancelled"])
    \/ /\ ~m.pendingInterrupt
       /\ ~(terminal /\ d.status \in Terminal)
       /\ Write(r, d, m)

(* dispose() of a session that is not retained is awaited. *)
Disposing(m, s, status) ==
    [m EXCEPT !.task[s] = [@ EXCEPT !.pc = "disposing", !.orig = status, !.sig = NoTask]]

(* The finally block of executeRun; active: its activeRun was assigned. *)
ExecFinally(r, s, d, m, active) ==
    LET done == d.status \in Terminal \cup {"paused"}
        m1   == Release(m)
    IN \/ /\ active /\ done /\ TRUE \in KeepSession
          /\ Settle(r, d, Ended([m1 EXCEPT !.retained = TRUE], s), d.status \in Terminal)
       \/ /\ active /\ done /\ FALSE \in KeepSession
          /\ Write(r, d, Disposing(m1, s, d.status))
       \/ /\ ~(active /\ done)
          /\ Settle(r, d, Ended(m1, s), d.status \in Terminal)

(* cleanupRunAfterTask; active: it was given a handle to keep or dispose. *)
Cleanup(r, s, d, m, active, always) ==
    LET done == d.status \in Terminal \cup {"paused"}
        m1   == IF always \/ done THEN Release(m) ELSE m
    IN \/ /\ active /\ done /\ TRUE \in KeepSession /\ d.agent
          /\ Settle(r, d, Ended([m1 EXCEPT !.retained = TRUE], s), d.status \in Terminal)
       \/ /\ active /\ done /\ (FALSE \in KeepSession \/ ~d.agent)
          /\ Write(r, d, Disposing(m, s, d.status))
       \/ /\ ~(active /\ done)
          /\ Settle(r, d, Ended(m1, s), d.status \in Terminal)

(* A task whose body returned. *)
Return(r, s, d, m) ==
    LET t == m.task[s] IN
    \/ t.kind \in ExecKinds /\ ExecFinally(r, s, d, m, t.kind # "needsinput")
    \/ t.kind = "follow" /\ Cleanup(r, s, d, m, TRUE, TRUE)
    \/ t.kind = "revive" /\ Cleanup(r, s, d, m, m.handle, TRUE)
    \/ t.kind \in {"answer", "retained"} /\ Cleanup(r, s, d, m, TRUE, FALSE)

(* The catch blocks: what a task does with an error of the SDK. *)
ExecThrows(r, s, d, m, active) ==
    ExecFinally(r, s, IF s \in m.aborted THEN d ELSE Fail(d), m, active)

FollowThrows(r, s, d, m, active) ==
    LET t == m.task[s] IN
    \/ Cleanup(r, s, Restore(d, t.orig), m, active, TRUE)  \* aborted, auth, stale
    \/ /\ s \notin m.aborted
       /\ Cleanup(r, s, Fail(d), m, active, TRUE)
    \/ /\ s \notin m.aborted                               \* stale: revive
       /\ Write(r, d, [m EXCEPT !.task[s].pc = "reviving"])

ReviveThrows(r, s, d, m) ==
    Cleanup(r, s, IF s \in m.aborted THEN Restore(d, m.task[s].orig) ELSE Fail(d),
            m, m.handle, TRUE)

Fallback(r, s, d, m) ==
    Write(r, d, [m EXCEPT !.task[s].pc = "fallback", !.handle = FALSE])

Throw(r, s, d, m) ==
    LET t == m.task[s] IN
    \/ t.kind \in ExecKinds /\ ExecThrows(r, s, d, m, t.kind # "needsinput")
    \/ t.kind = "follow" /\ FollowThrows(r, s, d, m, TRUE)
    \/ t.kind = "revive" /\ ReviveThrows(r, s, d, m)
    \/ t.kind = "answer" /\ Cleanup(r, s, Fail(d), m, m.handle, TRUE)
    \/ t.kind = "retained" /\ Fallback(r, s, d, m)
    \/ /\ t.kind = "retained" /\ t.pc # "sending"          \* it had spoken
       /\ Cleanup(r, s, Fail(d), m, TRUE, TRUE)

-----------------------------------------------------------------------------
(* The operator and the triggers (HTTP handlers, crons, ...). *)
Spend == used.ops < MaxOps /\ used' = [used EXCEPT !.ops = @ + 1]

Op(name) == up /\ name \in OperatorOps /\ Spend /\ UNCHANGED <<up, lost>>

(* triggerRun: the row is inserted queued and the queue pumped. *)
Trigger(r) ==
    /\ up /\ db[r].status = "absent"
    /\ \A q \in Runs : q < r => db[q].status # "absent"
    /\ WriteAndPump(r, [db[r] EXCEPT !.status = "queued"], mem[r])
    /\ UNCHANGED <<up, lost, used>>

(* InputHub.cancelWaitersForRun *)
NoAsk(d) == [d EXCEPT !.ask = FALSE]

(* Mutant of NoWaiter: only the rows are cancelled. *)
NoWaiterKept(m) == m

NoWaiter(m) == [m EXCEPT !.waiter = NoTask]

(* cancelRun *)
Cancel(r) ==
    LET d == [db[r] EXCEPT !.status = "cancelled", !.msgs = 0] IN
    /\ Op("cancel")
    /\ \/ db[r].status = "queued" /\ Write(r, d, mem[r])
       \/ /\ db[r].status \in {"running", "needs_input"}
          /\ Write(r, NoAsk(d), [AbortInFlight(NoWaiter(mem[r]))
                                    EXCEPT !.pendingInterrupt = FALSE])

(* pauseRun *)
Pause(r) ==
    /\ Op("pause")
    /\ db[r].status = "running"
    /\ Write(r, NoAsk([db[r] EXCEPT !.status = "paused"]),
             [AbortInFlight(NoWaiter(mem[r])) EXCEPT !.pendingInterrupt = FALSE])

(* startFollowUp, for a run with agent ids and a context: the row is made  *)
(* running (unless the turn keeps a pause) and a task resumes the agent,   *)
(* or sends to the session that was retained.                              *)
CanFollowUp(r) == db[r].agent /\ r \in Context /\ Room(mem[r])

FollowUpRow(d, keepPaused) ==
    IF keepPaused THEN d ELSE [d EXCEPT !.status = "running"]

FollowUpMem(m, orig) ==
    [NewTask(m, IF m.retained THEN "sending" ELSE "resuming",
             IF m.retained THEN "retained" ELSE "follow", orig)
       EXCEPT !.retained = FALSE, !.handle = @ \/ m.retained]

FollowUp(r, m, d, keepPaused) ==
    Write(r, FollowUpRow(d, keepPaused), FollowUpMem(m, d.status))

(* resumeRun *)
Resume(r) ==
    /\ Op("resume")
    /\ db[r].status = "paused" /\ CanFollowUp(r)
    /\ FollowUp(r, mem[r], db[r], FALSE)

(* sendMessage; interruptRun of a run that has ended is the same. *)
Send(r) ==
    /\ Op("send")
    /\ db[r].status \in Terminal \cup {"paused"} /\ CanFollowUp(r)
    /\ FollowUp(r, mem[r], db[r], db[r].status = "paused")

(* interruptRun of a running run: the turn is aborted; its task starts the *)
(* follow-up when it ends, or a timer does when there is no task.          *)
Interrupt(r) ==
    LET m == AbortInFlight(NoWaiter(mem[r])) IN
    /\ Op("interrupt")
    /\ db[r].status = "running"
    /\ \/ /\ m.handle \/ m.inFlight # NoTask
          /\ Write(r, NoAsk(db[r]), [m EXCEPT !.pendingInterrupt = TRUE])
       \/ /\ ~m.handle /\ m.inFlight = NoTask
          /\ Write(r, NoAsk(db[r]), [m EXCEPT !.pendingInterrupt = FALSE,
                                              !.interruptTimer = TRUE])

(* queueMessage *)
QueueMessage(r) ==
    /\ Op("queue")
    /\ db[r].status = "running" /\ db[r].msgs < MaxMsgs
    /\ Write(r, [db[r] EXCEPT !.msgs = @ + 1], mem[r])

(* Mutant of ToAnswerWaiter: answerWaiters keeps the run. *)
ToAnswerWaiterKept(m) == [m EXCEPT !.task[m.answerWaiter].pc = "sending"]

ToAnswerWaiter(m) ==
    [m EXCEPT !.task[m.answerWaiter].pc = "sending", !.answerWaiter = NoTask]

(* submitAnswer: the answer goes to the MCP call or sentinel that waits,   *)
(* else to the task that waits for it, else to the agent as a follow-up,   *)
(* else it is kept for the task that re-attaches.                          *)
Answer(r) ==
    LET d == [NoAsk(db[r]) EXCEPT !.status = "running"]
        m == mem[r]
        a == m.answerWaiter
    IN /\ Op("answer")
       /\ db[r].status = "needs_input" /\ db[r].ask
       /\ \/ m.waiter # NoTask /\ Write(r, d, NoWaiter(m))
          \/ /\ m.waiter = NoTask /\ a # NoTask
             /\ Write(r, d, ToAnswerWaiter(m))
          \/ /\ m.waiter = NoTask /\ a = NoTask /\ m.handle
             /\ r \in Context /\ Room(m)
             /\ Write(r, d, [m EXCEPT !.task[NewSlot(m)] =
                    [pc |-> "sending", kind |-> "answer", orig |-> "none", sig |-> NoTask]])
          \/ /\ m.waiter = NoTask /\ a = NoTask /\ m.handle
             /\ r \notin Context /\ Write(r, d, m)
          \/ /\ m.waiter = NoTask /\ a = NoTask /\ ~m.handle
             /\ Write(r, d, [m EXCEPT !.pendingAnswer = TRUE])

-----------------------------------------------------------------------------
(* Timers and the watchdog. *)
PumpTimer(r) ==
    /\ up /\ mem[r].pumpTimer
    /\ WriteAndPump(r, db[r], [mem[r] EXCEPT !.pumpTimer = FALSE])
    /\ UNCHANGED <<up, lost, used>>

(* Mutant of Delivers: only a cancelled run is passed over. *)
DeliversToAny(d, m) ==
    d.status # "cancelled" /\ d.agent /\ d.msgs > 0

(* Mutant of Delivers: a message is taken without looking for one. *)
DeliversNone(d, m) ==
    /\ m.inFlight = NoTask /\ ~m.handle
    /\ d.status \in {"completed", "failed"}
    /\ d.agent

(* deliverNextQueuedMessage *)
Delivers(d, m) ==
    /\ m.inFlight = NoTask /\ ~m.handle
    /\ d.status \in {"completed", "failed"}
    /\ d.agent /\ d.msgs > 0

DeliverTimer(r) ==
    LET m == [mem[r] EXCEPT !.deliverTimer = FALSE]
        d == db[r]
        deliver == Delivers(d, m) /\ r \in Context
    IN /\ up /\ mem[r].deliverTimer
       /\ \/ deliver /\ Room(m) /\ FollowUp(r, m, [d EXCEPT !.msgs = @ - 1], FALSE)
          \/ ~deliver /\ Write(r, d, m)
       /\ UNCHANGED <<up, lost, used>>

(* Mutant of InterruptStarts: the status is not read again. *)
InterruptStartsAlways(d) == d.status # "absent" /\ d.agent

(* the deferred half of maybeStartPendingInterrupt *)
InterruptStarts(d) == d.status \notin {"absent", "cancelled"} /\ d.agent

InterruptTimer(r) ==
    LET m == [mem[r] EXCEPT !.interruptTimer = FALSE]
        start == InterruptStarts(db[r]) /\ r \in Context
    IN /\ up /\ mem[r].interruptTimer
       /\ \/ start /\ Room(m) /\ FollowUp(r, m, db[r], FALSE)
          \/ ~start /\ Write(r, db[r], m)
       /\ UNCHANGED <<up, lost, used>>

(* runStallSweep on one idle run: teardownStalledRun, then recoverRun.  A  *)
(* run idle for the threshold has no timer of delay 0 left.                *)
StallSweep(r) ==
    /\ up /\ db[r].status = "running" /\ FreeSlots(mem[r]) # {}
    /\ used.stalls < MaxStalls
    /\ ~mem[r].deliverTimer /\ ~mem[r].interruptTimer
    /\ Write(r, RecoverRow(db[r]),
             [Release(AbortInFlight(mem[r])) EXCEPT !.pumpTimer = TRUE])
    /\ used' = [used EXCEPT !.stalls = @ + 1]
    /\ UNCHANGED <<up, lost>>

(* retainedSessionSweep *)
RetainedSweep(r) ==
    /\ up /\ mem[r].retained
    /\ Write(r, db[r], [mem[r] EXCEPT !.retained = FALSE])
    /\ UNCHANGED <<up, lost, used>>

-----------------------------------------------------------------------------
(* The tasks, await by await. *)
At(r, s, pc) == up /\ mem[r].task[s].pc = pc /\ UNCHANGED <<up, lost, used>>

To(m, s, pc) == [m EXCEPT !.task[s].pc = pc]

(* An ActiveRun was returned: activeRuns.set and setAgentIds. *)
WithAgent(d) == [d EXCEPT !.agent = TRUE]
WithHandle(m) == [m EXCEPT !.handle = TRUE]

(* A spawned or re-attached run streams, or is sent a kept answer first. *)
Started(r, s, m) ==
    Write(r, WithAgent(db[r]),
          IF m.pendingAnswer THEN [To(m, s, "sending") EXCEPT !.pendingAnswer = FALSE]
                             ELSE To(m, s, "streaming"))

SpawnReturns(r, s) == At(r, s, "spawning") /\ Started(r, s, WithHandle(mem[r]))

(* The spawn failed or timed out: unless it was aborted, the finally block *)
(* is followed by recoverRun.                                              *)
SpawnRejects(r, s) ==
    LET d == db[r]
        m == mem[r]
        recover == s \notin m.aborted /\ d.status \in {"running", "needs_input"}
        m1 == Ended(Release(m), s)
    IN /\ At(r, s, "spawning")
       /\ \/ ~recover /\ ExecFinally(r, s, d, m, FALSE)
          \/ /\ recover
             /\ \E S \in IF m.pendingInterrupt THEN SUBSET Runs ELSE {{}} :
                  /\ m.pendingInterrupt => PumpStarts(S, db, Context)
                  /\ HaveSlots(S, mem)
                  /\ db' = [q \in Runs |-> IF q = r THEN RecoverRow(d)
                                          ELSE IF q \in S THEN BeginRow(db[q]) ELSE db[q]]
                  /\ mem' = [q \in Runs |->
                        IF q = r THEN [m1 EXCEPT !.pumpTimer = TRUE,
                                                 !.interruptTimer = @ \/ m.pendingInterrupt,
                                                 !.pendingInterrupt = FALSE]
                        ELSE IF q \in S THEN BeginMem(mem[q]) ELSE mem[q]]

(* resumeWithRetry returned; it never does once the signal is aborted. *)
ResumeReturns(r, s) ==
    LET m == WithHandle(mem[r])
        kind == m.task[s].kind
    IN /\ At(r, s, "resuming") /\ s \notin m.aborted
       /\ \/ kind = "reattach" /\ Started(r, s, m)
          \/ kind = "follow" /\ Write(r, WithAgent(db[r]), To(m, s, "sending"))
          \/ /\ kind = "needsinput" /\ ~db[r].ask
             /\ Write(r, WithAgent(db[r]), To(m, s, "streaming"))
          \/ /\ kind = "needsinput" /\ db[r].ask /\ m.pendingAnswer
             /\ Write(r, WithAgent(db[r]),
                      [To(m, s, "sending") EXCEPT !.pendingAnswer = FALSE])
          \/ /\ kind = "needsinput" /\ db[r].ask /\ ~m.pendingAnswer
             /\ Write(r, WithAgent(db[r]),
                      [To(m, s, "answerWait") EXCEPT !.answerWaiter = s])

ResumeRejects(r, s) ==
    LET m == mem[r] IN
    /\ At(r, s, "resuming")
    /\ \/ m.task[s].kind \in ExecKinds /\ ExecThrows(r, s, db[r], m, FALSE)
       \/ m.task[s].kind = "follow" /\ FollowThrows(r, s, db[r], m, m.handle)

(* sendFollowUp returned.  A follow-up and an answer then watch whatever   *)
(* controller is registered, and end unfinalised when there is none.       *)
SendReturns(r, s) ==
    LET d == WithAgent(db[r])
        m == WithHandle(mem[r])
        watchesOwn == m.task[s].kind \in ExecKinds \cup {"retained"}
        sig == IF watchesOwn THEN s ELSE m.inFlight
    IN /\ At(r, s, "sending")
       /\ \/ sig # NoTask /\ Write(r, d, [To(m, s, "streaming") EXCEPT !.task[s].sig = sig])
          \/ sig = NoTask /\ Return(r, s, d, m)

SendRejects(r, s) == At(r, s, "sending") /\ Throw(r, s, db[r], mem[r])

Signalled(r, s) == mem[r].task[s].sig \in mem[r].aborted

(* The stream ended, or was left at a message after an abort. A stream that *)
(* ended is followed by the sentinel questions it asked, then by wait().    *)
StreamEnds(r, s) ==
    /\ At(r, s, "streaming")
    /\ \/ Signalled(r, s) /\ Return(r, s, db[r], mem[r])
       \/ /\ ~Signalled(r, s) /\ mem[r].waiter # s
          /\ Write(r, db[r], To(mem[r], s, "waiting"))

StreamRejects(r, s) == At(r, s, "streaming") /\ Throw(r, s, db[r], mem[r])

(* Mutant of TakesResult: every run that holds a slot takes the result. *)
TakesResultPaused(d) == d.status \in Holding

TakesResult(d) == d.status \in {"running", "needs_input"}

(* wait() returned: the status is read again, whatever became of the       *)
(* signal; a run that is neither settled nor paused takes the result.      *)
WaitReturns(r, s) ==
    LET d == db[r] IN
       /\ At(r, s, "waiting")
       /\ \/ TakesResult(d) /\ \E res \in SdkResults :
                Return(r, s, [d EXCEPT !.status = res], mem[r])
          \/ ~TakesResult(d) /\ Return(r, s, d, mem[r])
          \/ /\ mem[r].task[s].kind = "retained"           \* error, no output
             /\ d.status \in Holding /\ "failed" \in SdkResults
             /\ Fallback(r, s, d, mem[r])

WaitRejects(r, s) == At(r, s, "waiting") /\ Throw(r, s, db[r], mem[r])

(* sendRetainedMessage after the unusable session was disposed. *)
FallbackDone(r, s) ==
    LET d == db[r]
        m == mem[r]
        orig == m.task[s].orig
    IN /\ At(r, s, "fallback")
       /\ \/ /\ s \in m.aborted /\ ~RestoreThrows(d, orig)
             /\ Write(r, Restore(d, orig), Ended([m EXCEPT !.inFlight = NoTask], s))
          \/ /\ s \in m.aborted /\ RestoreThrows(d, orig)
             /\ Write(r, d, Ended(m, s))
          \/ /\ s \notin m.aborted
             /\ Write(r, d, [m EXCEPT !.task[s] =
                   [pc |-> "resuming", kind |-> "follow", orig |-> orig, sig |-> s]])

(* reviveWithMessage *)
ReviveReturns(r, s) ==
    LET m == mem[r] IN
    /\ At(r, s, "reviving")
    /\ \/ /\ s \in m.aborted
          /\ Cleanup(r, s, Restore(db[r], m.task[s].orig), m, m.handle, TRUE)
       \/ /\ s \notin m.aborted
          /\ Write(r, WithAgent(db[r]),
                   [WithHandle(m) EXCEPT !.task[s] = [@ EXCEPT !.pc = "streaming",
                                                     !.kind = "revive", !.sig = s]])

ReviveRejects(r, s) ==
    /\ At(r, s, "reviving")
    /\ Cleanup(r, s, Restore(db[r], mem[r].task[s].orig), mem[r], mem[r].handle, TRUE)

(* dispose() returned: executeRun reads the status again, cleanup does not. *)
Disposed(r, s) ==
    LET t == mem[r].task[s] IN
    /\ At(r, s, "disposing")
    /\ \/ /\ t.kind \in ExecKinds
          /\ Settle(r, db[r], Ended(mem[r], s), TRUE)
       \/ /\ t.kind \notin ExecKinds
          /\ Settle(r, db[r], Ended(Release(mem[r]), s), t.orig \in Terminal)

(* Mutant of Asked: the run is flipped before its question is inserted. *)
AskedFlipOnly(r, waiter) ==
    /\ db[r].status = "running" /\ ~db[r].ask
    /\ Write(r, [db[r] EXCEPT !.status = "needs_input"], mem[r])

(* The agent asks: askAndWait, by ask_user or by a sentinel of the stream. *)
Asked(r, waiter) ==
    /\ db[r].status = "running" /\ ~db[r].ask
    /\ Write(r, [db[r] EXCEPT !.ask = TRUE, !.status = "needs_input"],
             [mem[r] EXCEPT !.waiter = waiter])

McpAsk(r) ==
    /\ up /\ "mcp" \in AskKinds
    /\ \E s \in Slots : mem[r].task[s].pc \in {"streaming", "waiting"}
    /\ Asked(r, McpWaiter)
    /\ UNCHANGED <<up, lost, used>>

SentinelAsk(r, s) ==
    /\ At(r, s, "streaming") /\ "sentinel" \in AskKinds
    /\ ~Signalled(r, s)
    /\ Asked(r, s)

-----------------------------------------------------------------------------
(* Crashes and the boot. *)
Crash ==
    /\ up /\ used.crashes < MaxCrashes
    /\ up' = FALSE
    /\ mem' = [r \in Runs |-> NoMem]
    /\ used' = [used EXCEPT !.crashes = @ + 1]
    /\ UNCHANGED <<db, lost>>

Interrupted(r) == db[r].status \in {"running", "needs_input"}

(* Mutant of Boot: reconcileOrphanedRuns is not called. *)
BootWithoutReconcile ==
    LET m == [r \in Runs |->
                IF Interrupted(r) /\ db[r].agent
                THEN NewTask(NoMem, "resuming",
                             IF db[r].status = "needs_input" THEN "needsinput"
                                                             ELSE "reattach", "none")
                ELSE NoMem]
    IN /\ ~up /\ up' = TRUE
       /\ Pump(db, m)
       /\ UNCHANGED <<lost, used>>

(* resumeInterruptedRuns.  The wave store is not set yet (daemon.ts calls  *)
(* setPipelineWaveStore after it), so a track run has no context here; the *)
(* exception of a pump that meets one ends the process.                    *)
Boot ==
    LET ctx == Runs \ TrackRuns
        d == [r \in Runs |-> IF Interrupted(r) /\ ~db[r].agent
                             THEN RecoverRow(db[r]) ELSE db[r]]
        m == [r \in Runs |->
                IF Interrupted(r) /\ db[r].agent /\ r \in ctx
                THEN NewTask(NoMem, "resuming",
                             IF db[r].status = "needs_input" THEN "needsinput"
                                                             ELSE "reattach", "none")
                ELSE [NoMem EXCEPT !.pumpTimer = Interrupted(r) /\ ~db[r].agent]]
    IN /\ ~up
       /\ \E S \in SUBSET Runs :
            /\ PumpStarts(S, d, ctx)
            /\ db' = [r \in Runs |-> IF r \in S THEN BeginRow(d[r]) ELSE d[r]]
            /\ \/ /\ ~PumpThrows(S, d, ctx)
                  /\ up' = TRUE
                  /\ mem' = [r \in Runs |-> IF r \in S THEN BeginMem(m[r]) ELSE m[r]]
               \/ /\ PumpThrows(S, d, ctx)
                  /\ up' = FALSE
                  /\ mem' = [r \in Runs |-> NoMem]
       /\ UNCHANGED <<lost, used>>

(* The worktree of a track is removed (git, the operator, a clean-up). *)
LoseWorktree(r) ==
    /\ up /\ r \in TrackRuns \ lost
    /\ lost' = lost \cup {r}
    /\ UNCHANGED <<db, mem, up, used>>

-----------------------------------------------------------------------------
Operator(r) ==
    \/ Cancel(r) \/ Pause(r) \/ Resume(r) \/ Send(r)
    \/ Interrupt(r) \/ QueueMessage(r) \/ Answer(r)

Timer(r) == PumpTimer(r) \/ DeliverTimer(r) \/ InterruptTimer(r)

Watchdog(r) == StallSweep(r) \/ RetainedSweep(r)

TaskStep(r, s) ==
    \/ SpawnReturns(r, s) \/ SpawnRejects(r, s)
    \/ ResumeReturns(r, s) \/ ResumeRejects(r, s)
    \/ SendReturns(r, s) \/ SendRejects(r, s)
    \/ StreamEnds(r, s) \/ StreamRejects(r, s)
    \/ WaitReturns(r, s) \/ WaitRejects(r, s)
    \/ FallbackDone(r, s) \/ ReviveReturns(r, s) \/ ReviveRejects(r, s)
    \/ Disposed(r, s)

Ask(r) == McpAsk(r) \/ \E s \in Slots : SentinelAsk(r, s)

Next ==
    \/ \E r \in Runs : \/ Trigger(r) \/ Operator(r) \/ Timer(r) \/ Watchdog(r)
                      \/ Ask(r) \/ LoseWorktree(r)
                      \/ \E s \in Slots : TaskStep(r, s)
    \/ Crash
    \/ Boot

Spec == Init /\ [][Next]_vars

(* Fairness: the daemon is restarted, a due timer fires, and every promise *)
(* of the SDK settles (spawn and re-attach under spawnTimeoutMs, a stream  *)
(* that has gone quiet through the watchdog's abort).  Nobody is obliged   *)
(* to trigger, to ask or to answer.                                        *)
Fairness ==
    /\ WF_vars(Boot)
    /\ \A r \in Runs : WF_vars(Timer(r))
    /\ \A r \in Runs, s \in Slots : WF_vars(TaskStep(r, s))

FairSpec == Spec /\ Fairness

-----------------------------------------------------------------------------
(* Properties. *)

Status(r) == db[r].status

(* Tasks that have not ended. *)
Tasks(r) == {s \in Slots : mem[r].task[s].pc # "idle"}

(* Tasks that go on without the operator. *)
Moving(r) == \E s \in Tasks(r) : mem[r].task[s].pc # "answerWait"

(* A run waits for another attempt only while its budget has one left: the *)
(* retry policy of recoverRun, over spawn failures, stalls and reboots.    *)
RetryBudget == \A r \in Runs : Status(r) = "queued" => db[r].attempts < MaxAttempts

(* Whoever waits in the InputHub waits for a question that is still open   *)
(* in the database, whatever cancelled, answered or outlived it.           *)
WaiterHasQuestion == \A r \in Runs : mem[r].waiter # NoTask => db[r].ask

(* A run in needs_input has an open question, so submitAnswer can free it. *)
NeedsInputAnswerable == \A r \in Runs : Status(r) = "needs_input" => db[r].ask

(* answerWaiters names a task that is waiting for an answer, so an answer  *)
(* is never handed to a task that has gone on.                             *)
AnswerReachesTask ==
    \A r \in Runs : LET a == mem[r].answerWaiter
                     IN  a # NoTask => mem[r].task[a].pc = "answerWait"

(* A running run has a task, or a follow-up is due: no zombie is left for  *)
(* the stall watchdog by a crash, a stall or a failed spawn.               *)
RunningHasTask ==
    \A r \in Runs : up /\ Status(r) \in {"running", "needs_input"} =>
        Tasks(r) # {} \/ mem[r].interruptTimer

(* A slot is free and a run is queued only while something that will pump  *)
(* the queue is under way: no terminal transition forgets pumpQueue.       *)
WorkConserving ==
    up /\ Cardinality(Active(db)) < Cap /\ Queued(db) # {} =>
        \E r \in Runs : Moving(r) \/ mem[r].pumpTimer \/ mem[r].interruptTimer

(* The step begins an attempt of r: the pump started it. *)
Begins(r) == db'[r].attempts > db[r].attempts

(* The pump never starts a run beyond the cap, whatever else holds slots. *)
PumpRespectsCap ==
    [][\A r \in Runs : Begins(r) =>
          Cardinality({q \in Runs : db'[q].status \in
                         {"running", "needs_input", "paused"}}) <= Cap]_vars

(* Runs begin in the order they were created: none overtakes one that is   *)
(* still queued, after a retry or a reboot either.                         *)
FifoStart ==
    [][\A r, q \in Runs : Begins(r) /\ q < r => db'[q].status # "queued"]_vars

(* A run whose worktree has gone is never spawned. *)
StartsInContext == [][\A r \in Runs : Begins(r) => r \notin lost]_vars

(* A cancelled run only moves again when the operator sends it a message:  *)
(* no late result, interrupt, answer or retry revives it.                  *)
CancelSticks ==
    [][\A r \in Runs : Status(r) = "cancelled" /\ db'[r].status # "cancelled"
          => used'.ops > used.ops]_vars

(* A queued message is taken off the queue only by the follow-up turn that *)
(* delivers it, to a run that was not working, or by cancelRun.            *)
MessageStartsTurn ==
    [][\A r \in Runs : db'[r].msgs < db[r].msgs =>
          \/ db'[r].status = "cancelled"
          \/ /\ Status(r) \in {"completed", "failed"} /\ db'[r].status = "running"
             /\ db'[r].msgs + 1 = db[r].msgs]_vars

(* The turn a pause cut short does not end the paused run with its result, *)
(* and neither the watchdog nor a reboot takes the run from its operator;  *)
(* only an SDK call that is rejected may still fail it.                    *)
PauseOutlivesTurn ==
    [][\A r \in Runs : Status(r) = "paused" =>
          db'[r].status \in {"paused", "failed"} \/ used'.ops > used.ops]_vars

(* Under fairness the daemon, once down, comes up again. *)
BootReturns == ~up ~> up

(* Some run waits for the operator: by its status, or because its task,    *)
(* re-attached at a boot, waits for an answer.                             *)
ForOperator ==
    \E q \in Runs : \/ Status(q) \in {"needs_input", "paused"}
                   \/ \E s \in Slots : mem[q].task[s].pc = "answerWait"

(* Under fairness a queued run is started or cancelled, unless some run    *)
(* waits for the operator.                                                 *)
QueuedIsServed ==
    \A r \in Runs : Status(r) = "queued" ~> Status(r) # "queued" \/ ForOperator

(* Under fairness a queued run leaves the queue unless a run that is asking *)
(* or paused holds the slot: cancelling that run frees the slot for it.     *)
FreedSlotIsRefilled ==
    \A r \in Runs :
        Status(r) = "queued" ~> \/ Status(r) # "queued"
                               \/ \E q \in Runs : Status(q) \in {"needs_input", "paused"}

(* Under fairness a run that holds a slot ends, or turns to the operator.  *)
RunSettles ==
    \A r \in Runs :
        Status(r) \in {"queued", "running"} ~> Status(r) \in Terminal \/ ForOperator
=============================================================================
