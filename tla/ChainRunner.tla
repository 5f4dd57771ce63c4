---------------------------- MODULE ChainRunner ----------------------------
(***************************************************************************)
(* How a pipeline goes on when one of its runs ends: the chain runner      *)
(* (runs/chain-runner.ts), escalation by the operator and by the daemon    *)
(* (runs/escalation.ts, runs/auto-escalation.ts,                           *)
(* runs/halt-recovery-runtime.ts) and the diagnosis of a halt              *)
(* (runs/halt-discovery-*.ts), for one lineage outside every wave.         *)
(*                                                                         *)
(* `ready` is Node's microtask queue: what an await that does no I/O puts  *)
(* off goes to its end, the rest of a step whose writes a crash may        *)
(* separate goes to its front.  A request, a timer or the end of a run is  *)
(* served only when it is empty (the guard Idle).                          *)
(***************************************************************************)
EXTENDS Naturals, FiniteSets, Sequences

CONSTANTS
    Starts,      \* workers the lineage may have reached at the beginning
    Execute,     \* loopMode of the kickoff is "execute"
    Then,        \* the kickoff names a `then` automation
    MaxDepth,    \* the chain's transition budget at the kickoff
    AutoBudget,  \* pipelineAutoEscalateMaxPerPipeline; 0 is the kill switch
    Discovery,   \* pipelineHaltDiscovery
    OperatorOps, \* the operator's requests this instance uses
    StopKinds,   \* the stop markers a live run may get, see Stop
    Faults,      \* "target": a successor does not resolve; "enqueue":
                 \* triggerRun throws; "spawn", "briefing": a diagnosis fails
    MaxOps,      \* bound: requests of the operator
    MaxCrashes   \* bound: crashes of the daemon

ASSUME ChainAssumption ==
    /\ Starts \subseteq {"plan", "implement", "review", "docs", "gate"}
    /\ Execute \in BOOLEAN /\ Then \in BOOLEAN /\ Discovery \in BOOLEAN
    /\ OperatorOps \subseteq {"retry", "skip", "abort", "roles", "followUp",
                              "extend", "answer", "promote"}
    /\ StopKinds \subseteq {"complete", "halt", "operator"}
    /\ Faults \subseteq {"target", "enqueue", "spawn", "briefing"}
    /\ \A n \in {MaxDepth, AutoBudget, MaxOps, MaxCrashes} : n \in Nat

VARIABLES
    runs,     \* the runs of the lineage, in the order of insertion
    ready,    \* continuations, in the order they will run
    waiting,  \* escalations whose role models are being checked
    boot,     \* the resume sweep of daemon.ts
    spent     \* what has been spent of MaxOps and MaxCrashes

vars == <<runs, ready, waiting, boot, spent>>

Ids == 1..Len(runs)

---------------------------------------------------------------------------
(* Runs *)

Ended(r) == r.status \in {"completed", "failed", "cancelled"}

(* The edge in the automation of a worker; a gate and what `then` names    *)
(* have none.                                                              *)
Edge ==
    [start |-> "plan", plan |-> "implement", implement |-> "review",
     review |-> "plan", docs |-> "plan",
     gate |-> "none", tail |-> "none", advisor |-> "none"]

(* resolveExecuteModeNext: what a transition makes of it; a skip does not. *)
Onward(worker) ==
    IF worker = "implement" /\ Execute THEN "docs" ELSE Edge[worker]

(* What the daemon may do about a halt of the worker, by rung. *)
Ladder(worker) ==
    CASE worker \in {"plan", "implement", "review"} -> <<"retry">>
      [] worker = "docs" -> <<"skip">>
      [] OTHER -> <<>>

NewRun(act, parent) ==
    [worker |-> act.worker, origin |-> act.by, parent |-> parent,
     depth |-> act.depth, max |-> act.max, extended |-> FALSE,
     status |-> "active", safe |-> FALSE, stop |-> "none", handled |-> FALSE,
     halt |-> "none", notes |-> {}, review |-> 0, card |-> "none"]

Steps == {i \in Ids : runs[i].origin # "discovery"}

(* Mutant: an advisory that has ended is looked for in vain. *)
AdvisoriesAtWork(i) ==
    {a \in Ids : /\ runs[a].origin = "discovery" /\ runs[a].parent = i
                 /\ runs[a].status \in {"active", "needs_input"}}

(* findHaltDiscoveryAdvisoryChild takes the oldest of them. *)
Advisories(i) ==
    {a \in Ids : runs[a].origin = "discovery" /\ runs[a].parent = i}

Authoritative(a) ==
    runs[a].origin = "discovery" /\ \A b \in Advisories(runs[a].parent) : a <= b

(* Mutant: only the parent's event is looked at. *)
FeatureReviewByEvent(i) ==
    runs[i].parent # 0 /\ runs[runs[i].parent].review = i

(* A review that follows a plan-phase which found nothing left to do: by   *)
(* the parent's event, and where a crash lost that, by its stop marker.    *)
FeatureReview(i) ==
    LET p == runs[i].parent
    IN p # 0 /\ ( \/ runs[p].review = i
                  \/ /\ runs[p].review = 0 /\ Execute
                     /\ runs[p].worker = "plan" /\ runs[p].stop = "complete" )

---------------------------------------------------------------------------
(* Continuations *)

Task(op, i) == [op |-> op, run |-> i]

Idle == ready = <<>> /\ boot.phase \in {"start", "waves", "done"}

Front(ts) == ready' = ts \o Tail(ready)
Back(ts)  == ready' = Tail(ready) \o ts
Drop      == ready' = Tail(ready)

Set(i, field, value) == [runs EXCEPT ![i][field] = value]
Note(rs, i, what) == [rs EXCEPT ![i].notes = @ \cup {what}]

(* A run somebody decides to add: the chain, the daemon (a recovery), the  *)
(* operator or the discovery of a halt.                                    *)
Act(by, worker, depth, max) ==
    [by |-> by, worker |-> worker, depth |-> depth, max |-> max]

Insert(i, act) == [op |-> "insert", run |-> i, act |-> act]

RetryOf(row, by) == Act(by, row.worker, row.depth, row.max)
SkipOf(row, by)  == Act(by, Edge[row.worker], row.depth + 1, row.max)

(* Mutant: the claim is taken whether or not it was taken before. *)
ClaimAnyway(i) == TRUE

(* claimChainHandled: UPDATE ... WHERE chain_handled_at IS NULL. *)
Claimable(i) == ~runs[i].handled

Claimed(i) == Set(i, "handled", TRUE)

---------------------------------------------------------------------------
(* recoverPipelineHalt: what the daemon does about a halt.                 *)

(* Runs of the lineage on which a daemon escalation has been recorded. *)
AutoRetried == {i \in Ids : "auto" \in runs[i].notes}

(* classifyPipelineHaltRecovery, the ladder and the eligibility it asks    *)
(* for: the action for a halt of the safe class, or "none".                *)
Remedy(rs, i) ==
    LET r    == rs[i]
        rung == 1 + Cardinality({j \in AutoRetried : rs[j].depth = r.depth})
        safe == /\ Cardinality(AutoRetried) < AutoBudget
                /\ r.depth > 0 /\ r.status = "failed" /\ r.safe
                /\ r.halt = "status-mismatch"
                /\ rung <= Len(Ladder(r.worker))
        act  == Ladder(r.worker)[rung]
    IN CASE safe /\ act = "retry"                      -> "retry"
         [] safe /\ act = "skip" /\ r.depth < r.max    -> "skip"
         [] OTHER                                      -> "none"

(* Mutant: a second look does not see the first one. *)
OpenAgain(r) == ~r.handled

(* The first decision on a run is the daemon's last: a run it has retried  *)
(* or has declined to retry is left alone.                                 *)
Open(r) == ~r.handled /\ r.notes \cap {"auto", "unrecovered"} = {}

(* rs: the runs with the evidence of the halt. *)
Recover(rs, i) ==
    LET remedy == Remedy(rs, i)
        act    == IF remedy = "retry" THEN RetryOf(rs[i], "daemon")
                                      ELSE SkipOf(rs[i], "daemon")
    IN CASE ~Open(rs[i]) -> runs' = rs /\ Drop
         [] Open(rs[i]) /\ remedy # "none" ->
                /\ runs' = [rs EXCEPT ![i].handled = TRUE]
                /\ Front(<<Insert(i, act)>>)
         [] Open(rs[i]) /\ remedy = "none" ->
                /\ runs' = Note(rs, i, "unrecovered")
                /\ Back(<<Task("request", i)>>)

---------------------------------------------------------------------------
(* requestPipelineHaltDiscovery and the advisory run it leads to.          *)

Diagnosed(r) == r.notes \cap {"requested", "skipped", "failed"} # {}

(* orchestrateHaltDiscoveryAdvisory, once its facts are assembled. *)
Advise(i) == Insert(i, Act("discovery", "advisor", runs[i].depth, runs[i].max))

MayAdvise(i) == Advisories(i) = {} /\ "failed" \notin runs[i].notes

(* sweep: at boot the request is recorded and the advisory left to the     *)
(* next pass.                                                              *)
Request(i, sweep) ==
    LET r == runs[i]
        ok == Discovery /\ ~r.handled /\ r.stop = "none" /\ r.status = "failed"
    IN CASE Diagnosed(r) -> runs' = runs /\ Drop
         [] ~Diagnosed(r) /\ ~ok -> runs' = Note(runs, i, "skipped") /\ Drop
         [] ~Diagnosed(r) /\ ok ->
                /\ runs' = Note(runs, i, "requested")
                /\ IF sweep THEN Drop ELSE Front(<<Task("advise", i)>>)

Spawn(i) ==
    \/ MayAdvise(i) /\ Front(<<Advise(i)>>) /\ UNCHANGED runs
    \/ ~MayAdvise(i) /\ Drop /\ UNCHANGED runs
    \/ /\ MayAdvise(i) /\ "spawn" \in Faults
       /\ runs' = Note(runs, i, "failed") /\ Drop

(* reconcileHaltDiscoveryAdvisoryTerminal *)
Reconcile(a) ==
    /\ runs' = IF runs[a].status \in {"failed", "cancelled"}
                  THEN Note(runs, runs[a].parent, "failed") ELSE runs
    /\ Drop

(* presentCompletedHaltDiscoveryAdvisory: the card, then the run that      *)
(* hosts it.                                                               *)
Present(a) ==
    CASE runs[a].status # "completed" \/ runs[a].card = "settled" ->
             UNCHANGED runs /\ Drop
      [] runs[a].status = "completed" /\ runs[a].card = "pending" ->
             UNCHANGED runs /\ Front(<<Task("reopen", a)>>)
      [] runs[a].status = "completed" /\ runs[a].card = "none" ->
             \/ /\ runs' = Set(a, "card", "pending")
                /\ Front(<<Task("reopen", a)>>)
             \/ /\ "briefing" \in Faults
                /\ runs' = Note(runs, runs[a].parent, "failed") /\ Drop

AdvisoryTerminal(a, status) ==
    CASE ~Authoritative(a) -> UNCHANGED runs /\ Drop
      [] Authoritative(a) /\ status = "completed" -> Present(a)
      [] Authoritative(a) /\ status # "completed" -> Reconcile(a)

---------------------------------------------------------------------------
(* handleTerminal.  The row it works on is read before the wave hook, but  *)
(* outside a wave that await only yields to other continuations, none of   *)
(* which writes what is read: the claim is read where it is written.       *)

Skip(i, reason) == runs' = Set(i, "halt", reason) /\ Drop

(* claimChainHandled and, in the same turn, engine.triggerRun. *)
ClaimFor(i, worker, max, lost) ==
    IF Claimable(i)
    THEN /\ runs' = Claimed(i)
         /\ Front(<<Insert(i, Act("chain", worker, runs[i].depth + 1, max))>>)
    ELSE /\ runs' = IF lost = "none" THEN runs ELSE Set(i, "halt", lost)
         /\ Drop

Larger(a, b) == IF a > b THEN a ELSE b

(* tryEnqueueFeatureEndTerminal, tryEnqueueFinalGateFromFeatureReview: the *)
(* worker that ends the feature, outside the transition budget.            *)
FeatureEnd(i) ==
    LET r == runs[i]
    IN CASE r.worker = "plan" /\ r.stop = "complete" ->
                IF Execute THEN "review" ELSE "gate"
         [] r.worker = "review" /\ r.stop = "none" /\ FeatureReview(i) -> "gate"
         [] OTHER -> "none"

(* A green gate that names `then` (tryBuildThenSuccessorChain). *)
ThenNext(r) == Then /\ r.worker = "gate" /\ r.stop = "complete"

(* What is left of the transition once no terminal worker was enqueued. *)
Follow(i) ==
    LET r    == runs[i]
        next == IF ThenNext(r) THEN "tail" ELSE Onward(r.worker)
        max  == IF ThenNext(r) THEN r.depth + 1 + MaxDepth ELSE r.max
    IN CASE next = "none" -> UNCHANGED runs /\ Drop
         [] next # "none" /\ r.stop # "none" /\ ~ThenNext(r) -> Skip(i, "stopped")
         [] next # "none" /\ (r.stop = "none" \/ ThenNext(r)) /\ r.depth >= max ->
                Skip(i, "max-depth")
         [] OTHER -> \/ ClaimFor(i, next, max, "already-chained")
                     \/ "target" \in Faults /\ Skip(i, "unresolved")

Transition(i) ==
    \/ FeatureEnd(i) # "none"
       /\ ClaimFor(i, FeatureEnd(i), Larger(runs[i].max, runs[i].depth + 1), "none")
    \/ (FeatureEnd(i) = "none" \/ "target" \in Faults) /\ Follow(i)

(* An edge with when = "completed", which is every edge of the pipeline. *)
StepTerminal(i, status) ==
    LET evidence == Set(i, "halt", "status-mismatch")
    IN CASE status = "completed" -> Transition(i)
         [] status = "failed" /\ Edge[runs[i].worker] # "none" -> Recover(evidence, i)
         [] OTHER -> UNCHANGED runs /\ Drop

---------------------------------------------------------------------------
(* The continuations, one step each *)

At(op) == ready # <<>> /\ Head(ready).op = op

Quiet == UNCHANGED <<waiting, boot, spent>>

Terminal ==
    /\ At("terminal") /\ Quiet
    /\ LET t == Head(ready)
       IN IF runs[t.run].origin = "discovery"
          THEN AdvisoryTerminal(t.run, t.status) ELSE StepTerminal(t.run, t.status)

RecoverHalt == At("recover") /\ Recover(runs, Head(ready).run) /\ Quiet

(* Mutant: an escalation does not say that the daemon made it. *)
RecordedReview(i, act) ==
    act.by = "chain" /\ runs[i].worker = "plan" /\ act.worker = "review"

(* triggerRun for a child: it inserts the row before its first await.  What *)
(* is recorded about the child is recorded by the continuation of the call. *)
Recorded(i, act) ==
    \/ act.by = "daemon"
    \/ act.by = "chain" /\ runs[i].worker = "plan" /\ act.worker = "review"

InsertRun ==
    /\ At("insert") /\ Quiet
    /\ LET i == Head(ready).run  act == Head(ready).act
       IN \/ /\ runs' = Append(runs, NewRun(act, i))
             /\ IF Recorded(i, act)
                THEN Back(<<[op |-> "record", run |-> i, child |-> Len(runs) + 1]>>)
                ELSE Drop
          \/ /\ "enqueue" \in Faults
             /\ runs' = CASE act.by = "chain" -> Set(i, "halt", "enqueue-failed")
                          [] act.by = "discovery" -> Note(runs, i, "failed")
                          [] OTHER -> runs
             /\ Drop

Record ==
    /\ At("record") /\ Quiet /\ Drop
    /\ LET i == Head(ready).run  child == Head(ready).child
       IN runs' = IF runs[child].origin = "daemon"
                     THEN Note(runs, i, "auto") ELSE Set(i, "review", child)

RequestDiscovery ==
    At("request") /\ Request(Head(ready).run, boot.phase = "discovery") /\ Quiet

SpawnAdvisory == At("advise") /\ Spawn(Head(ready).run) /\ Quiet

(* resumeHaltDiscoveryAdvisories, one candidate. *)
Revisit ==
    /\ At("revisit") /\ Quiet
    /\ LET i == Head(ready).run
       IN IF Advisories(i) = {} THEN Spawn(i)
          ELSE Reconcile(CHOOSE a \in Advisories(i) : Authoritative(a))

Reopen ==
    /\ At("reopen") /\ Quiet /\ Drop
    /\ runs' = Set(Head(ready).run, "status", "needs_input")

(* The rest of an abort: the marker, which an earlier one survives, and the *)
(* cancellation, which may fail and passes over a paused run.               *)
Mark ==
    /\ At("mark") /\ Quiet
    /\ LET i == Head(ready).run
       IN /\ runs' = IF runs[i].stop = "none" THEN Set(i, "stop", "abort") ELSE runs
          /\ IF runs[i].status \in {"active", "needs_input"}
             THEN Front(<<Task("cancel", i)>>) ELSE Drop

Cancel ==
    /\ At("cancel") /\ Quiet /\ Drop
    /\ \/ runs' = Set(Head(ready).run, "status", "cancelled")
       \/ UNCHANGED runs

(* The end of submitHaltDiscoveryBriefingAnswer. *)
Close ==
    /\ At("close") /\ Quiet
    /\ LET a == Head(ready).run
       IN IF runs[a].status = "needs_input"
          THEN /\ runs' = Set(a, "status", "completed")
               /\ Back(<<[op |-> "terminal", run |-> a, status |-> "completed"]>>)
          ELSE UNCHANGED runs /\ Drop

Continue ==
    \/ Terminal \/ RecoverHalt \/ InsertRun \/ Record \/ RequestDiscovery
    \/ SpawnAdvisory \/ Revisit \/ Reopen \/ Mark \/ Cancel \/ Close

---------------------------------------------------------------------------
(* Runs that end or go on *)

Live(r) == r.status \in {"active", "needs_input"}

(* The chain runner subscribes to the events of runs only after the engine *)
(* has taken its runs up again; of the cancelled runs it looks at          *)
(* advisories only.                                                        *)
Heard(i, status) ==
    boot.phase # "start" /\ (status # "cancelled" \/ Authoritative(i))

RunEnds(i, status) ==
    /\ Idle /\ runs[i].status = "active"
    /\ \E safe \in IF status = "failed" THEN BOOLEAN ELSE {runs[i].safe} :
           runs' = [runs EXCEPT ![i].status = status, ![i].safe = safe]
    /\ ready' = IF Heard(i, status)
                THEN <<[op |-> "terminal", run |-> i, status |-> status]>> ELSE <<>>
    /\ Quiet

(* A stop marker: "complete: ..." or another reason given by the agent of  *)
(* the run, or the stop-after-this-step of the operator.                   *)
Stop(i, kind) ==
    /\ Idle /\ i \in Steps /\ Live(runs[i]) /\ runs[i].stop = "none"
    /\ runs' = Set(i, "stop", kind)
    /\ UNCHANGED <<ready, waiting, boot, spent>>

---------------------------------------------------------------------------
(* Requests of the operator *)

Asked(op) ==
    /\ Idle /\ op \in OperatorOps /\ spent.ops < MaxOps
    /\ spent' = [spent EXCEPT !.ops = @ + 1]
    /\ UNCHANGED boot

(* sendMessage to a run that has ended. *)
FollowUp(i) ==
    /\ Asked("followUp") /\ Ended(runs[i])
    /\ runs' = Set(i, "status", "active")
    /\ UNCHANGED <<ready, waiting>>

(* applyChainControl, extendBudget: once per run. *)
Extend(i) ==
    /\ Asked("extend") /\ i \in Steps /\ Live(runs[i]) /\ ~runs[i].extended
    /\ runs' = [runs EXCEPT ![i].max = @ + 1, ![i].extended = TRUE]
    /\ UNCHANGED <<ready, waiting>>

(* getEscalationEligibility; only steps are escalated here. *)
Eligible(i, action) ==
    LET r == runs[i]
    IN /\ i \in Steps /\ ~r.handled
       /\ action # "abort" => Ended(r)
       /\ action = "retry" => r.depth # 0
       /\ action = "skip" => r.depth < r.max /\ Edge[r.worker] # "none"

Decided(i, action) ==
    IF action = "retry" THEN RetryOf(runs[i], "operator")
                        ELSE SkipOf(runs[i], "operator")

(* escalateRun without role models: one turn up to the insertion; then is  *)
(* what its caller does.                                                   *)
EscalateRun(i, action, then) ==
    IF Eligible(i, action)
    THEN /\ runs' = Claimed(i)
         /\ ready' = (IF action = "abort" THEN <<Task("mark", i)>>
                      ELSE <<Insert(i, Decided(i, action))>>) \o then
    ELSE UNCHANGED runs /\ ready' = then

Escalate(i, action) ==
    /\ Asked(action) /\ Eligible(i, action)
    /\ EscalateRun(i, action, <<>>)
    /\ UNCHANGED waiting

(* With role models their preflight is awaited: the models are asked for   *)
(* over the network, and the row read before it is what is acted on.       *)
EscalateWithRoles(i, action) ==
    /\ Asked("roles") /\ action \in OperatorOps /\ Eligible(i, action)
    /\ waiting' = waiting \cup {Insert(i, Decided(i, action))}
    /\ UNCHANGED <<runs, ready>>

EscalateResumes(w) ==
    /\ Idle
    /\ waiting' = waiting \ {w}
    /\ IF Claimable(w.run) THEN runs' = Claimed(w.run) /\ ready' = <<w>>
                           ELSE UNCHANGED <<runs, ready>>
    /\ UNCHANGED <<boot, spent>>

(* submitHaltDiscoveryBriefingAnswer: the card is settled first. *)
Answer(a, action) ==
    /\ Asked("answer")
    /\ runs[a].card = "pending" /\ runs[a].status = "needs_input" /\ Authoritative(a)
    /\ LET i == runs[a].parent
           settled == [runs EXCEPT ![a].card = "settled"]
       IN IF Eligible(i, action)
          THEN /\ runs' = [settled EXCEPT ![i].handled = TRUE]
               /\ ready' = IF action = "abort" THEN <<Task("mark", i), Task("close", a)>>
                           ELSE <<Insert(i, Decided(i, action)), Task("close", a)>>
          ELSE runs' = settled /\ ready' = <<Task("close", a)>>
    /\ UNCHANGED waiting

(* promoteHaltDiscoveryAdvisory: one transaction. *)
Promote(a) ==
    /\ Asked("promote")
    /\ runs[a].card = "pending" /\ runs[a].status = "needs_input" /\ Authoritative(a)
    /\ runs' = [runs EXCEPT ![a].card = "settled", ![a].status = "completed"]
    /\ UNCHANGED <<ready, waiting>>

Operator ==
    \/ \E i \in Ids : FollowUp(i) \/ Extend(i) \/ Promote(i)
    \/ \E i \in Ids, action \in {"retry", "skip", "abort"} :
           Escalate(i, action) \/ Answer(i, action)
    \/ \E i \in Ids, action \in {"retry", "skip"} : EscalateWithRoles(i, action)

---------------------------------------------------------------------------
(* A crash, and the sweeps of the next start                               *)

Crash ==
    /\ spent.crashes < MaxCrashes
    /\ spent' = [spent EXCEPT !.crashes = @ + 1]
    /\ ready' = <<>> /\ waiting' = {}
    /\ boot' = [phase |-> "start", left |-> {}]
    /\ UNCHANGED runs

Unclaimed(r) == ~r.handled /\ r.stop = "none"

(* The list each sweep reads when it begins. *)
Candidates ==
    [transitions |-> {i \in Ids : runs[i].status = "completed" /\ Unclaimed(runs[i])},
     halts |-> {i \in Steps : /\ runs[i].status = "failed" /\ Unclaimed(runs[i])
                              /\ "unrecovered" \notin runs[i].notes},
     discovery |-> {i \in Steps : /\ runs[i].status = "failed" /\ Unclaimed(runs[i])
                                  /\ "unrecovered" \in runs[i].notes
                                  /\ ~Diagnosed(runs[i])},
     advisories |-> {i \in Steps :
                        /\ runs[i].status = "failed" /\ "requested" \in runs[i].notes
                        /\ "failed" \notin runs[i].notes
                        /\ \A a \in Advisories(i) : Authoritative(a) =>
                               runs[a].status \in {"failed", "cancelled"}}]

Sweep ==
    [transitions |-> "terminal", halts |-> "recover",
     discovery |-> "request", advisories |-> "revisit"]

(* Mutants: a sweep is left out. *)
StagesWithoutTransitions ==
    <<"start", "waves", "halts", "discovery", "advisories", "done">>
StagesWithoutHalts ==
    <<"start", "waves", "transitions", "discovery", "advisories", "done">>
StagesWithoutDiscovery ==
    <<"start", "waves", "transitions", "halts", "advisories", "done">>

Stages ==
    <<"start", "waves", "transitions", "halts", "discovery", "advisories", "done">>

After(stage) ==
    Stages[1 + (CHOOSE n \in DOMAIN Stages : Stages[n] = stage)]

NextSweep ==
    /\ ready = <<>> /\ boot.phase # "done" /\ boot.left = {}
    /\ LET next == After(boot.phase)
       IN boot' = [phase |-> next,
                   left |-> IF next \in DOMAIN Candidates THEN Candidates[next] ELSE {}]
    /\ UNCHANGED <<runs, ready, waiting, spent>>

SweepOne ==
    /\ ready = <<>>
    /\ \E i \in boot.left :
           /\ boot' = [boot EXCEPT !.left = @ \ {i}]
           /\ ready' = <<[op |-> Sweep[boot.phase], run |-> i, status |-> "completed"]>>
    /\ UNCHANGED <<runs, waiting, spent>>

---------------------------------------------------------------------------
(* A pipeline whose first transition has been made. *)
Init ==
    /\ \E worker \in Starts :
           LET root == NewRun(Act("chain", "start", 0, MaxDepth), 0)
           IN runs = <<[root EXCEPT !.status = "completed", !.handled = TRUE],
                       NewRun(Act("chain", worker, 1, MaxDepth), 1)>>
    /\ ready = <<>> /\ waiting = {}
    /\ boot = [phase |-> "done", left |-> {}]
    /\ spent = [ops |-> 0, crashes |-> 0]

Runs ==
    \/ \E i \in Ids, status \in {"completed", "failed", "cancelled"} : RunEnds(i, status)
    \/ \E i \in Ids, kind \in StopKinds : Stop(i, kind)

Boot == NextSweep \/ SweepOne

Next ==
    \/ Continue \/ Runs \/ Operator \/ Boot \/ Crash
    \/ \E w \in waiting : EscalateResumes(w)

Spec == Init /\ [][Next]_vars

(* The event loop runs what it has; when runs end is not up to the daemon. *)
LiveSpec == Spec /\ WF_vars(Continue) /\ WF_vars(Boot)

---------------------------------------------------------------------------
(* Properties *)

(* The steps of a pipeline form one line, whoever extends it: the live     *)
(* transition, its replay at boot, the daemon's recovery, the operator, an *)
(* answered briefing; and nothing follows an aborted step.                 *)
Newest == CHOOSE i \in Steps : \A j \in Steps : j <= i

Phase ==
    LET r == runs[Newest]
    IN CASE ~r.handled -> "open"
         [] r.handled /\ r.stop = "abort" -> "aborted"
         [] OTHER -> "decided"

OneLine == INSTANCE Lineage WITH steps <- Steps, phase <- Phase

ImplementsLineage == OneLine!Spec

(* The daemon's own retries and skips stay within the budget of the        *)
(* pipeline, and a crash that loses the record of one costs one more       *)
(* (interpretLineage counts run.pipeline-escalated events).                *)
RecoveryBudget ==
    Cardinality({i \in Ids : runs[i].origin = "daemon"}) <= AutoBudget + spent.crashes

(* What the daemon has declined to recover it never recovers later: after  *)
(* run.pipeline-halt-unrecovered only the operator, or the run itself in a *)
(* later turn, takes the pipeline on.                                      *)
DeclineIsFinal ==
    \A i \in Ids :
        runs[i].origin = "daemon" => "unrecovered" \notin runs[runs[i].parent].notes

(* A halt gets one advisory, whether the live path or a sweep after a      *)
(* crash asks for it.                                                      *)
OneAdvisory ==
    \A a, b \in Ids : /\ runs[a].origin = "discovery" /\ runs[b].origin = "discovery"
                      /\ runs[a].parent = runs[b].parent
                      => a = b

(* In execute mode the review of a finished feature leads to the final     *)
(* gate and never back to planning, also when a crash lost the event that  *)
(* marks it as the feature's review (isFeatureLevelReviewRun).             *)
ReviewedFeatureIsGated ==
    \A i \in Ids :
        LET review == runs[i].parent
            plan == IF review = 0 THEN 0 ELSE runs[review].parent
        IN /\ Execute /\ plan # 0 /\ runs[i].origin = "chain"
           /\ runs[review].worker = "review" /\ runs[review].origin = "chain"
           /\ runs[plan].worker = "plan" /\ runs[plan].stop = "complete"
           => runs[i].worker = "gate"

(* The runs whose fate the liveness properties follow. *)
Watched == 1..4

(* A step that fails is disposed of: it is retried, skipped, or left to    *)
(* the operator with a reason, through any crash.                          *)
Halted(i) ==
    /\ i \in Steps /\ Edge[runs[i].worker] # "none"
    /\ runs[i].status = "failed" /\ Unclaimed(runs[i])

HaltIsDisposed ==
    \A i \in Watched :
        (i \in Ids /\ Halted(i)) ~> (i \in Ids /\ (~Halted(i) \/ ~Open(runs[i])))

(* A completed step with an edge and budget left gets its successor, and   *)
(* a daemon restart makes up for a transition it missed.                   *)
Onwards(i) ==
    /\ i \in Steps /\ Edge[runs[i].worker] # "none" /\ runs[i].depth < runs[i].max
    /\ runs[i].status = "completed" /\ Unclaimed(runs[i])

CompletedMovesOn ==
    \A i \in Watched : (i \in Ids /\ Onwards(i)) ~> (i \in Ids /\ ~Onwards(i))

(* A declined halt is diagnosed: in the end there is an advisory, or the   *)
(* record of why there is none.                                            *)
Declined(i) == Halted(i) /\ "unrecovered" \in runs[i].notes

DeclineIsDiagnosed ==
    \A i \in Watched :
        (i \in Ids /\ Declined(i)) ~>
            (i \in Ids /\ ( \/ ~Declined(i) \/ Advisories(i) # {}
                            \/ runs[i].notes \cap {"skipped", "failed"} # {} ))
=============================================================================
