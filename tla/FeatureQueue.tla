---------------------------- MODULE FeatureQueue ----------------------------
(***************************************************************************)
(* The serial queue of implement-fully features of one workspace: the      *)
(* entries (runs/feature-queue-store.ts), the runner that classifies and   *)
(* starts them (runs/feature-queue-runner.ts, shared/feature-queue.ts) and *)
(* the pipelines they start, seen through what the runner reads of them.   *)
(*                                                                         *)
(* The daemon is single threaded.  The continuations of the runner's async *)
(* functions are kept in `ready`, which is Node's microtask queue: first   *)
(* in, first out, and empty before a request, a timer or the end of a run  *)
(* is served (the guard Idle).  The one await that leaves the microtask    *)
(* queue is the model preflight inside engine.triggerRun.                  *)
(*                                                                         *)
(* A pipeline is the lineage of one root run.  Of its runs the model keeps *)
(* the newest one and what classifyFeatureQueueOutcome reads of the older  *)
(* ones; runs of a wave that go in parallel count as one live run.         *)
(***************************************************************************)
EXTENDS Naturals, FiniteSets, Sequences, Functions

CONSTANTS
    Features,    \* feature ids
    AfterLists,  \* the --after lists an operator may give
    Ops,         \* the operator's requests this instance uses besides enqueue
    Faults,      \* "reject": preflight refuses a kickoff; "throw": the pump
                 \* throws after the insert; "skip": a step gets no successor
    Extras,      \* "auto": the chain runner retries failed steps;
                 \* "then": a green gate is followed by another automation
    Marks,       \* the stop reasons a run may leave, see Ended
    MaxRows,     \* bound: entries, checked by what adds one
    MaxOps,      \* bound: operator requests besides enqueue
    MaxOther,    \* bound: runs outside every pipeline that settle
    MaxCrashes   \* bound: crashes of the daemon

ASSUME AfterAssumption == AfterLists \subseteq Seq(Features)
ASSUME OpsAssumption   ==
    Ops \subseteq {"remove", "move", "kickoff", "cancel", "escalate"}
ASSUME ShapeAssumption ==
    /\ Faults \subseteq {"reject", "throw", "skip"}
    /\ Extras \subseteq {"auto", "then"}
    /\ Marks \subseteq {"none", "complete", "halt"}
ASSUME BoundAssumption ==
    MaxRows \in Nat /\ MaxOps \in Nat /\ MaxOther \in Nat /\ MaxCrashes \in Nat

VARIABLES
    rows,       \* feature_queue_entries, by id (in the order of insertion)
    pipes,      \* the lineages, by root (in the order of insertion)
    ready,      \* the runner's continuations, in the order they will run
    preflight,  \* kickoffs of the runner that await the model preflight
    boot,       \* the resume sweep of daemon.ts after a restart
    used        \* what has been spent of MaxOps, MaxOther and MaxCrashes

vars == <<rows, pipes, ready, preflight, boot, used>>

NoRun == 0
NoCause == [kind |-> "none", on |-> "none"]
Entries == DOMAIN rows
Roots   == DOMAIN pipes

---------------------------------------------------------------------------
(* Lineages *)

(* Mutant: the runner looks at rows only, not at transitions in flight. *)
ActiveRunOnly(p) == p.status = "live"

(* A live run of a pipeline, or a handleTerminal of the chain runner that  *)
(* has not come to its end.                                                *)
Active(p) == p.status = "live" \/ p.flight

Blocked(ps) == \E r \in DOMAIN ps : Active(ps[r])

(* classifyFeatureQueueOutcome *)
Verdict(p) ==
    CASE p.status = "live"     -> "running"
      [] p.status # "live" /\ p.gate # "none" ->
             IF p.gate = "complete" /\ ~p.bad THEN "done" ELSE "failed"
      [] p.status # "live" /\ p.gate = "none" ->
             IF p.bad \/ p.mark = "halt" THEN "failed" ELSE "running"

NewPipe ==
    [kind |-> "root", status |-> "live", flight |-> FALSE, decided |-> FALSE,
     bad |-> FALSE, gate |-> "none", mark |-> "none"]

Spawned(p, kind) ==
    [p EXCEPT !.kind = kind, !.status = "live", !.decided = FALSE, !.mark = "none"]

(* The newest run ends; a mark is the stop reason it left: "complete" for  *)
(* `complete:`, "halt" for any other.  Of the gates the first one that     *)
(* completed counts, and of the failures those after it; the stop reason   *)
(* of the newest completed run counts only where no run has failed.        *)
Ended(p, status, mark) ==
    LET first == p.gate = "none" /\ p.kind = "gate" /\ status = "completed"
        gate  == IF mark = "complete" THEN "complete" ELSE "blocked"
    IN [p EXCEPT !.status = status,
                 !.mark   = mark,
                 !.gate   = IF first THEN gate ELSE @,
                 !.bad    = ~first /\ (@ \/ status # "completed")]

(* The kinds of run the chain runner may add to a lineage whose newest run *)
(* has ended: the next worker or the gate, what `then` names after a green *)
(* gate, or another attempt at a failed step.                              *)
Successors(p) ==
    CASE p.status = "completed" /\ p.kind \in {"root", "step"} ->
             IF p.mark = "halt" THEN {} ELSE {"step", "gate"}
      [] p.status = "completed" /\ p.kind = "gate" ->
             IF p.mark = "complete" /\ "then" \in Extras THEN {"tail"} ELSE {}
      [] p.status = "failed" /\ p.kind # "root" ->
             IF "auto" \in Extras THEN {p.kind} ELSE {}
      [] OTHER -> {}

(* Whether the chain runner may also decide that there is no successor. *)
MayRest(p) ==
    \/ p.kind \notin {"root", "step"}
    \/ p.status # "completed"
    \/ p.mark = "halt"
    \/ "skip" \in Faults

---------------------------------------------------------------------------
(* Entries *)

NewRow(f, after, state, run, origin, pos) ==
    [feature |-> f, after |-> after, pos |-> pos, state |-> state, run |-> run,
     cause |-> NoCause, origin |-> origin]

Before(rs, i, j) == rs[i].pos < rs[j].pos

(* The entry of a set that stands first *)
First(rs, S) == CHOOSE i \in S : \A j \in S : rs[i].pos <= rs[j].pos

In(rs, states) == {i \in DOMAIN rs : rs[i].state \in states}

(* MAX(position) + 1 *)
NextPos == Len(rows) + 1

HasActiveRow(rs, f) ==
    \E i \in In(rs, {"queued", "running", "blocked"}) : rs[i].feature = f

(* getNewestEntryByFeatureId: the row with the highest position, if any *)
Newest(rs, f) ==
    {i \in DOMAIN rs :
        /\ rs[i].feature = f
        /\ \A j \in DOMAIN rs : rs[j].feature = f => rs[j].pos <= rs[i].pos}

IsDone(rs, d) == \E j \in Newest(rs, d) : rs[j].state = "done"

(* Mutant: a dependency that is no longer waiting will do. *)
EligibleOnceStarted(rs, i) ==
    \A d \in Range(rs[i].after) :
        \E j \in Newest(rs, d) : rs[j].state \notin {"queued", "blocked"}

(* isEntryEligible *)
Eligible(rs, i) == \A d \in Range(rs[i].after) : IsDone(rs, d)

(* Why isEntryEligible blocks an entry it finds not eligible: its first    *)
(* dependency that is not done can no longer become done, or was parked    *)
(* earlier in the same search.                                             *)
Causes(rs, parked, i) ==
    LET after == rs[i].after
    IN {c \in [kind : {"failed", "blocked", "cancelled"}, on : Range(after)] :
           \E k \in DOMAIN after : \E j \in Newest(rs, after[k]) :
               /\ \A l \in 1..(k - 1) : IsDone(rs, after[l])
               /\ c.on = after[k]
               /\ c.kind = IF j \in parked /\ Before(rs, j, i) THEN "blocked"
                          ELSE rs[j].state}

(* Mutant: the state of the row is not looked at, only its cause. *)
ParkedOnce(rs) == {i \in DOMAIN rs : rs[i].cause.kind \in {"failed", "blocked"}}

(* The rows parked by a failure or by a parked row *)
Parked(rs) == {i \in In(rs, {"blocked"}) : rs[i].cause.kind \in {"failed", "blocked"}}

Park(row, c) == [row EXCEPT !.state = "blocked", !.cause = c]

(* What a search leaves of the rows it passes over: it takes them in order *)
(* of position, and blocks those that have a cause by then.                *)
Searched(rs, passed) ==
    {[i \in DOMAIN rs |-> IF i \in B
                          THEN Park(rs[i], CHOOSE c \in Causes(rs, B, i) : TRUE)
                          ELSE rs[i]] :
        B \in {B \in SUBSET passed : B = {i \in passed : Causes(rs, B, i) # {}}}}

(* settleEntry for the entries of `outcome`, and parkDependents after each *)
(* failure: one hop, queued rows only, the first failure is the cause.     *)
Settled(rs, outcome) ==
    LET blamed(i) == {j \in DOMAIN outcome : /\ outcome[j] = "failed"
                                             /\ rs[j].feature \in Range(rs[i].after)}
    IN [i \in DOMAIN rs |->
           CASE i \in DOMAIN outcome -> [rs[i] EXCEPT !.state = outcome[i]]
             [] i \notin DOMAIN outcome /\ rs[i].state = "queued" /\ blamed(i) # {} ->
                    Park(rs[i], [kind |-> "failed",
                                 on |-> rs[First(rs, blamed(i))].feature])
             [] OTHER -> rs[i]]

(* classifyRunningEntry: a running row without a run is passed over *)
Classified(rs, ps) ==
    LET settles == {i \in In(rs, {"running"}) :
                        rs[i].run # NoRun /\ Verdict(ps[rs[i].run]) # "running"}
    IN Settled(rs, [i \in settles |-> Verdict(ps[rs[i].run])])

(* What requeueBlockedDependents reaches from a feature: the causes that   *)
(* lead back to it through the rows of Parked.                             *)
Reached(rs, f) ==
    LET closed(S) == /\ f \in S
                     /\ \A i \in Parked(rs) : rs[i].cause.on \in S => rs[i].feature \in S
    IN CHOOSE S \in SUBSET Features :
           closed(S) /\ \A T \in SUBSET Features : closed(T) => S \subseteq T

Requeued(rs, f) ==
    LET reached == Reached(rs, f)
    IN [i \in DOMAIN rs |->
           IF i \in Parked(rs) /\ rs[i].cause.on \in reached
           THEN [rs[i] EXCEPT !.state = "queued", !.cause = NoCause]
           ELSE rs[i]]

(* recoverFailedEntry: the failed entries of a root that has turned green *)
Recoverable(rs, ps, root) ==
    {i \in In(rs, {"failed"}) : rs[i].run = root /\ Verdict(ps[root]) = "done"}

Recovered(rs, i) == Requeued([rs EXCEPT ![i].state = "done"], rs[i].feature)

---------------------------------------------------------------------------
Init ==
    /\ rows = <<>>
    /\ pipes = <<>>
    /\ ready = <<>>
    /\ preflight = {}
    /\ boot = [stage |-> "up", owed |-> {}, at |-> NoRun]
    /\ used = [ops |-> 0, other |-> 0, crashes |-> 0]

(* The microtask queue is empty: another macrotask may be served. *)
Idle == ready = <<>>

Settle(root, completed) ==
    [pc |-> "settle", root |-> root, completed |-> completed, entry |-> 0, left |-> 0]
Task(pc, root, entry, left) ==
    [pc |-> pc, root |-> root, completed |-> FALSE, entry |-> entry, left |-> left]

Spend(what) ==
    /\ used[what] < CASE what = "ops" -> MaxOps
                      [] what = "other" -> MaxOther
                      [] what = "crashes" -> MaxCrashes
    /\ used' = [used EXCEPT ![what] = @ + 1]

Request(op) == op \in Ops /\ Idle /\ Spend("ops")

---------------------------------------------------------------------------
(* The runner: each action is the head of `ready` up to its next await *)

Pop(pc) == ready # <<>> /\ Head(ready).pc = pc

Then(tasks) == ready' = Tail(ready) \o tasks

(* handleSettle up to the await of classifyRunningEntry, whose own body    *)
(* has no await.                                                           *)
HandleSettle ==
    /\ Pop("settle")
    /\ LET t         == Head(ready)
           found     == IF t.completed /\ t.root # NoRun
                        THEN Recoverable(rows, pipes, t.root) ELSE {}
           recovered == IF found = {} THEN rows
                        ELSE Recovered(rows, CHOOSE i \in found : TRUE)
           goesOn    == /\ found # {} \/ In(rows, {"queued", "running", "blocked"}) # {}
                        /\ ~Blocked(pipes)
       IN /\ rows' = IF goesOn THEN Classified(recovered, pipes) ELSE recovered
          /\ Then(IF goesOn THEN <<Task("start", NoRun, 0, 0)>> ELSE <<>>)
    /\ UNCHANGED <<pipes, preflight, boot, used>>

(* Mutant: the restart only looks for an entry to start. *)
ResumeQueueStartOnly ==
    /\ Pop("resume")
    /\ Then(<<Task("start", NoRun, 0, 0)>>)
    /\ UNCHANGED <<rows, pipes, preflight, boot, used>>

(* resumeQueue: the classification, whatever it finds, is followed by      *)
(* tryStartNext.                                                           *)
ResumeQueue ==
    /\ Pop("resume")
    /\ rows' = IF Blocked(pipes) THEN rows ELSE Classified(rows, pipes)
    /\ Then(<<Task("start", NoRun, 0, 0)>>)
    /\ UNCHANGED <<pipes, preflight, boot, used>>

(* One turn of tryStartNext's loop, up to the preflight of triggerRun: the *)
(* search goes over the queued entries up to the first eligible one, which *)
(* is claimed.                                                             *)
Attempt(left) ==
    LET able   == {i \in In(rows, {"queued"}) : Eligible(rows, i)}
        passed == {i \in In(rows, {"queued"}) : \A j \in able : Before(rows, i, j)}
    IN \/ left = 0 /\ UNCHANGED <<rows, preflight>>
       \/ /\ left # 0 /\ able = {}
          /\ rows' \in Searched(rows, passed)
          /\ UNCHANGED preflight
       \/ /\ left # 0
          /\ \E rs \in Searched(rows, passed), i \in able :
                 /\ \A j \in able : rows[i].pos <= rows[j].pos
                 /\ rows' = [rs EXCEPT ![i].state = "running"]
                 /\ preflight' = preflight \cup {Task("trigger", NoRun, i, left - 1)}

(* Mutant: the claim of a kickoff that awaits its preflight is not seen. *)
MayStartUnclaimed == ~Blocked(pipes)

(* tryStartNext from its beginning *)
MayStart == ~Blocked(pipes) /\ In(rows, {"running"}) = {}

TryStartNext ==
    /\ Pop("start")
    /\ IF MayStart
       THEN Attempt(Cardinality(In(rows, {"queued"})))
       ELSE UNCHANGED <<rows, preflight>>
    /\ Then(<<>>)
    /\ UNCHANGED <<pipes, boot, used>>

(* the loop goes on after a kickoff that failed *)
TryAnother ==
    /\ Pop("again")
    /\ Attempt(Head(ready).left)
    /\ Then(<<>>)
    /\ UNCHANGED <<pipes, boot, used>>

(* triggerRun returns: recordStart *)
RecordStart ==
    /\ Pop("record")
    /\ LET t == Head(ready)
       IN rows' = IF rows[t.entry].state = "running"
                  THEN [rows EXCEPT ![t.entry].run = t.root] ELSE rows
    /\ Then(<<>>)
    /\ UNCHANGED <<pipes, preflight, boot, used>>

(* The preflight passes: the root run is inserted. *)
Kickoff(t) ==
    /\ Idle
    /\ t \in preflight
    /\ preflight' = preflight \ {t}
    /\ pipes' = Append(pipes, NewPipe)
    /\ ready' = <<Task("record", Len(pipes) + 1, t.entry, 0)>>
    /\ UNCHANGED <<rows, boot, used>>

(* triggerRun throws: the entry fails, its dependents are parked and the   *)
(* loop goes on.  The preflight refuses before the insert; the pump throws *)
(* after it.                                                               *)
KickoffFails(t) ==
    /\ Idle
    /\ t \in preflight
    /\ preflight' = preflight \ {t}
    /\ \/ "reject" \in Faults /\ UNCHANGED pipes
       \/ /\ "throw" \in Faults
          /\ pipes' = Append(pipes, NewPipe)
    /\ rows' = Settled(rows, [i \in {t.entry} |-> "failed"])
    /\ ready' = <<Task("again", NoRun, 0, t.left)>>
    /\ UNCHANGED <<boot, used>>

---------------------------------------------------------------------------
(* Requests *)

(* Mutant: the entry waits for the next settle event. *)
EnqueueOnly(f, after) ==
    /\ Idle
    /\ Len(rows) < MaxRows
    /\ ~HasActiveRow(rows, f)
    /\ \A d \in Range(after) : \E i \in Entries : rows[i].feature = d
    /\ rows' = Append(rows, NewRow(f, after, "queued", NoRun, "queue", NextPos))
    /\ UNCHANGED <<pipes, ready, preflight, boot, used>>

(* POST /api/feature-queue *)
Enqueue(f, after) ==
    /\ Idle
    /\ Len(rows) < MaxRows
    /\ ~HasActiveRow(rows, f)
    /\ \A d \in Range(after) : \E i \in Entries : rows[i].feature = d
    /\ rows' = Append(rows, NewRow(f, after, "queued", NoRun, "queue", NextPos))
    /\ ready' = <<Task("start", NoRun, 0, 0)>>
    /\ UNCHANGED <<pipes, preflight, boot, used>>

(* DELETE /api/feature-queue/:id *)
CancelEntry(i) ==
    /\ Request("remove")
    /\ rows[i].state \in {"queued", "blocked"}
    /\ rows' = [rows EXCEPT ![i].state = "cancelled"]
    /\ UNCHANGED <<pipes, ready, preflight, boot>>

(* POST /api/feature-queue/:id/move: the entry takes another place among   *)
(* those that may move, which keep their order; the positions they hold    *)
(* stay the same.                                                          *)
MoveEntry(i) ==
    LET movable == In(rows, {"queued", "blocked"})
    IN /\ Request("move")
       /\ i \in movable
       /\ \E pos \in [movable -> {rows[j].pos : j \in movable}] :
              /\ \A j, l \in movable : pos[j] = pos[l] => j = l
              /\ \A j, l \in movable \ {i} : pos[j] < pos[l] <=> Before(rows, j, l)
              /\ pos[i] # rows[i].pos
              /\ \A d \in Range(rows[i].after) : \A j \in Newest(rows, d) :
                     rows[j].state = "done" \/ rows[j].pos < pos[i]
              /\ rows' = [j \in Entries |-> IF j \in movable
                                            THEN [rows[j] EXCEPT !.pos = pos[j]]
                                            ELSE rows[j]]
       /\ UNCHANGED <<pipes, ready, preflight, boot>>

(* POST /api/runs with an implement-fully context: recordDirectKickoff *)
DirectKickoff(f) ==
    /\ Request("kickoff")
    /\ Len(rows) < MaxRows
    /\ pipes' = Append(pipes, NewPipe)
    /\ rows' = IF HasActiveRow(rows, f) THEN rows
               ELSE Append(rows, NewRow(f, <<>>, "running", Len(pipes) + 1, "direct", NextPos))
    /\ UNCHANGED <<ready, preflight, boot>>

(* The operator cancels the live run of a pipeline.  The chain runner does *)
(* not handle a cancelled run; the queue hears of it from the event bus.   *)
CancelRun(r) ==
    /\ Request("cancel")
    /\ pipes[r].status = "live"
    /\ pipes' = [pipes EXCEPT ![r] = [Ended(@, "cancelled", "none") EXCEPT !.decided = TRUE]]
    /\ ready' = <<Settle(r, FALSE)>>
    /\ UNCHANGED <<rows, preflight, boot>>

(* POST /api/runs/:id/escalate on the newest run of a lineage that has     *)
(* halted: a retry of any run but the root, or a skip to its successor.    *)
Escalate(r) ==
    /\ Request("escalate")
    /\ pipes[r].status # "live"
    /\ \E kind \in {"root", "step", "gate", "tail"} :
           /\ \/ kind = pipes[r].kind /\ kind # "root"
              \/ pipes[r].kind \in {"root", "step"} /\ kind \in {"step", "gate"}
           /\ pipes' = [pipes EXCEPT ![r] = Spawned(@, kind)]
    /\ UNCHANGED <<rows, ready, preflight, boot>>

---------------------------------------------------------------------------
(* Pipelines *)

(* A run ends and the chain runner's handleTerminal begins. *)
RunEnds(r) ==
    /\ Idle
    /\ pipes[r].status = "live" /\ ~pipes[r].flight
    /\ \E status \in {"completed", "failed"}, mark \in Marks \cup {"none"} :
           /\ IF status = "failed" \/ pipes[r].kind = "tail"
              THEN mark = "none" ELSE mark \in Marks
           /\ pipes' = [pipes EXCEPT ![r] = [Ended(@, status, mark) EXCEPT !.flight = TRUE]]
    /\ UNCHANGED <<rows, ready, preflight, boot, used>>

(* handleTerminal ends: it has spawned a successor or a retry, or decided  *)
(* that there is none, unless an escalation claimed the run before it; the *)
(* settle listeners are told.                                              *)
TransitionEnds(r) ==
    /\ Idle
    /\ pipes[r].flight
    /\ \E next \in {[pipes[r] EXCEPT !.flight = FALSE]} :
           \/ /\ pipes[r].status = "live"
              /\ pipes' = [pipes EXCEPT ![r] = next]
           \/ /\ pipes[r].status # "live"
              /\ \E kind \in Successors(pipes[r]) :
                     pipes' = [pipes EXCEPT ![r] = Spawned(next, kind)]
           \/ /\ pipes[r].status # "live"
              /\ MayRest(pipes[r])
              /\ pipes' = [pipes EXCEPT ![r] = [next EXCEPT !.decided = TRUE]]
    /\ ready' = <<Settle(r, pipes[r].status = "completed")>>
    /\ boot' = [boot EXCEPT !.at = IF @ = r THEN NoRun ELSE @]
    /\ UNCHANGED <<rows, preflight, used>>

(* A run of the workspace that belongs to no pipeline settles. *)
OtherSettles ==
    /\ Idle
    /\ Spend("other")
    /\ ready' = <<Settle(NoRun, TRUE)>>
    /\ UNCHANGED <<rows, pipes, preflight, boot>>

---------------------------------------------------------------------------
(* Crash and restart: runs in SQLite survive, promises do not *)

Crash ==
    /\ Spend("crashes")
    /\ pipes' = [r \in Roots |-> [pipes[r] EXCEPT !.flight = FALSE]]
    /\ ready' = <<>>
    /\ preflight' = {}
    /\ boot' = [stage |-> "waves", owed |-> {}, at |-> NoRun]
    /\ UNCHANGED rows

(* resumeWaves has ended; listPipelineResumeCandidates *)
BootTransitions ==
    /\ Idle /\ boot.stage = "waves"
    /\ boot' = [boot EXCEPT !.stage = "missed",
                            !.owed  = {r \in Roots : /\ pipes[r].status = "completed"
                                                     /\ pipes[r].mark = "none"}]
    /\ UNCHANGED <<rows, pipes, ready, preflight, used>>

(* resumeMissedTransitions replays handleTerminal for one candidate; one   *)
(* that an escalation has claimed since is skipped, but still announced.   *)
BootReplay(r) ==
    /\ Idle /\ boot.stage = "missed" /\ boot.at = NoRun
    /\ r \in boot.owed
    /\ ~pipes[r].flight
    /\ IF pipes[r].status = "completed" /\ pipes[r].mark = "none"
       THEN /\ pipes' = [pipes EXCEPT ![r].flight = TRUE, ![r].decided = FALSE]
            /\ boot' = [boot EXCEPT !.owed = @ \ {r}, !.at = r]
            /\ UNCHANGED ready
       ELSE /\ boot' = [boot EXCEPT !.owed = @ \ {r}]
            /\ ready' = <<Settle(r, TRUE)>>
            /\ UNCHANGED pipes
    /\ UNCHANGED <<rows, preflight, used>>

(* listPipelineHaltRecoveryCandidates *)
BootHalts ==
    /\ Idle /\ boot.stage = "missed" /\ boot.at = NoRun /\ boot.owed = {}
    /\ boot' = [boot EXCEPT !.stage = "halts",
                            !.owed  = {r \in Roots : /\ pipes[r].status = "failed"
                                                     /\ ~pipes[r].decided}]
    /\ UNCHANGED <<rows, pipes, ready, preflight, used>>

(* resumeFailedHaltRecovery: tryRecoverPipelineHalt for one candidate,     *)
(* unless it has been dealt with, or is being dealt with, since.           *)
BootRecover(r) ==
    /\ Idle /\ boot.stage = "halts"
    /\ r \in boot.owed
    /\ LET open == pipes[r].status = "failed" /\ ~pipes[r].decided /\ ~pipes[r].flight
       IN \/ /\ open /\ "auto" \in Extras /\ pipes[r].kind # "root"
             /\ pipes' = [pipes EXCEPT ![r] = Spawned(@, @.kind)]
          \/ pipes' = IF open THEN [pipes EXCEPT ![r].decided = TRUE] ELSE pipes
    /\ boot' = [boot EXCEPT !.owed = @ \ {r}]
    /\ UNCHANGED <<rows, ready, preflight, used>>

(* The sweep ends with resumeQueue. *)
BootQueue ==
    /\ Idle /\ boot.stage = "halts" /\ boot.owed = {}
    /\ boot' = [boot EXCEPT !.stage = "up"]
    /\ ready' = IF In(rows, {"running", "queued"}) = {} THEN <<>>
                ELSE <<Task("resume", NoRun, 0, 0)>>
    /\ UNCHANGED <<rows, pipes, preflight, used>>

---------------------------------------------------------------------------
Runner ==
    \/ HandleSettle \/ ResumeQueue \/ TryStartNext \/ TryAnother \/ RecordStart
    \/ \E t \in preflight : Kickoff(t) \/ KickoffFails(t)

Operator ==
    \/ \E f \in Features, after \in AfterLists : Enqueue(f, after)
    \/ \E i \in Entries : CancelEntry(i)
    \/ \E i \in Entries : MoveEntry(i)
    \/ \E f \in Features : DirectKickoff(f)
    \/ \E r \in Roots : CancelRun(r)
    \/ \E r \in Roots : Escalate(r)

Pipelines ==
    \/ \E r \in Roots : RunEnds(r) \/ TransitionEnds(r)
    \/ OtherSettles

Boot ==
    \/ BootTransitions \/ BootHalts \/ BootQueue
    \/ \E r \in Roots : BootReplay(r) \/ BootRecover(r)

Next == Runner \/ Operator \/ Pipelines \/ Boot \/ Crash

Spec == Init /\ [][Next]_vars

---------------------------------------------------------------------------
(* Properties *)

(* Nothing is in progress in the workspace: the runner, the resume sweep   *)
(* and every pipeline have come to rest.                                   *)
Quiet == Idle /\ preflight = {} /\ boot.stage = "up" /\ ~Blocked(pipes)

(* The queue is a slot of one: however many settle events, requests and    *)
(* refused kickoffs interleave around the preflight, at most one entry of  *)
(* the queue is running.                                                   *)
SlotOfOne ==
    Cardinality({i \in In(rows, {"running"}) : rows[i].origin = "queue"}) <= 1

(* Until a crash, and without retries of the operator, at most one         *)
(* pipeline that the queue started is live in the workspace, whatever the  *)
(* runner's tasks read before their await and act upon after it: also not  *)
(* one whose entry was judged too early and whose place went to the next.  *)
OnePipeline ==
    used.crashes = 0 =>
        Cardinality({i \in Entries : /\ rows[i].origin = "queue" /\ rows[i].run # NoRun
                                     /\ pipes[rows[i].run].status = "live"}) <= 1

(* No entry runs or has run before each feature it waits for was done once. *)
DependenciesDone ==
    \A i \in In(rows, {"running", "done"}) : \A d \in Range(rows[i].after) :
        \E j \in In(rows, {"done"}) : rows[j].feature = d

(* When everything has come to rest and no entry is running, no entry that *)
(* could start is still waiting: every path that frees the slot or fulfils *)
(* a dependency has looked at the queue again.                             *)
QueueWorks ==
    Quiet /\ In(rows, {"running"}) = {} => \A i \in In(rows, {"queued"}) : ~Eligible(rows, i)

(* When everything has come to rest, no running entry has a pipeline that  *)
(* has succeeded or failed: no settle event was missed or came too early.  *)
ClassifiedInTime ==
    Quiet => \A i \in In(rows, {"running"}) :
                 rows[i].run # NoRun => Verdict(pipes[rows[i].run]) = "running"

(* Until a crash, an entry fails for its pipeline only after the chain     *)
(* runner has decided that the pipeline gets neither a successor nor a     *)
(* retry.                                                                  *)
EvaluatesDecided ==
    [][\A i \in Entries :
           /\ used.crashes = 0
           /\ rows[i].state = "running" /\ rows'[i].state = "failed"
           /\ rows[i].run # NoRun
           => pipes[rows[i].run].decided /\ ~pipes[rows[i].run].flight]_vars

(* Cancelled entries, and entries blocked by a cancelled dependency, are   *)
(* never revived.                                                          *)
NeverRevived ==
    [][\A i \in Entries :
           /\ rows[i].state = "cancelled" => rows'[i].state = "cancelled"
           /\ rows[i].state = "blocked" /\ rows[i].cause.kind = "cancelled"
              => rows'[i].state \in {"blocked", "cancelled"}]_vars

=============================================================================
