---------------------------- MODULE PipelineWave ----------------------------
(***************************************************************************)
(* One parallel wave of an implement-fully pipeline:                       *)
(* runs/pipeline-wave-coordinator.ts over runs/pipeline-wave-store.ts and  *)
(* git/worktrees.ts.  A coordinator run on the main checkout fans out to   *)
(* tracks, each a worktree with a planner and a terminal run; when every   *)
(* track is complete the join is claimed and an integration run merges the *)
(* tracks; only a finalized wave lets the chain go on.                     *)
(*                                                                         *)
(* A task is a handler that waits for git or for the engine, with what it  *)
(* read before; everything between two waits is one step.  The two places  *)
(* where a kill of the daemon inside such a step leaves the join half made *)
(* are steps of their own ("join", "enqueue"), which only a crash can come *)
(* before.                                                                 *)
(***************************************************************************)
EXTENDS Naturals, Sequences, FiniteSets

CONSTANTS
    NTracks,     \* tracks of the wave, the candidates fan-out accepts
    MaxUpsets,   \* bound: how many upsets come, in any combination
    Upsets       \* a further fan-out call of the coordinator, requests of
                 \* the operator, a crash, and what may fail: the
                 \* main checkout, a worktree, a planner's start, the enqueue
                 \* of the integration, a track's tip, the cleanliness of a
                 \* finished track, a run

ASSUME WaveAssumption ==
    /\ NTracks \in Nat \ {0, 1}
    /\ MaxUpsets \in Nat
    /\ Upsets \subseteq {"call", "abort", "retry", "pause", "crash", "checkout", "tree", "planner",
                         "enqueue", "tip", "dirty", "fail"}

Track == 1..NTracks

VARIABLES
    wave,    \* the row of pipeline_waves
    tracks,  \* the rows of pipeline_tracks
    runs,    \* the runs of the pipeline from the coordinator on, oldest first
    git,     \* worktrees that exist, those with leftovers, tracks merged on main
    tasks,   \* the handlers that wait
    boot,    \* the resume sweep
    spent    \* whether fan-out was called, and upsets so far

vars == <<wave, tracks, runs, git, tasks, boot, spent>>

NewRun(kind, track, parent) ==
    [kind |-> kind, track |-> track, parent |-> parent,
     status |-> "active", claimed |-> FALSE]

Task(op, at, seen, by) == [op |-> op, at |-> at, seen |-> seen, by |-> by, n |-> 0]

Up == [stage |-> "up", owed |-> {}, fresh |-> FALSE]

Init ==
    /\ wave = [status |-> "none", joined |-> FALSE, integration |-> 0, finalized |-> FALSE]
    /\ tracks = [t \in Track |-> [status |-> "none", planner |-> 0]]
    /\ runs = <<NewRun("coordinator", 0, 0)>>
    /\ git = [trees |-> {}, dirty |-> {}, main |-> {}]
    /\ tasks = {}
    /\ boot = Up
    /\ spent = [called |-> FALSE, upsets |-> 0]

---------------------------------------------------------------------------
(* Helpers *)

Finished(ts) == \A t \in Track : ts[t].status \in {"completed", "integrated"}

Blocked(w) ==
    IF w.status \in {"provisioning", "running", "integrating"}
    THEN [w EXCEPT !.status = "blocked"] ELSE w

AbortedWave(w) ==
    IF w.status \in {"aborted", "completed"} THEN w ELSE [w EXCEPT !.status = "aborted"]

AbortedTracks(w, ts) ==
    IF w.status \in {"aborted", "completed"} THEN ts
    ELSE [t \in Track |-> IF ts[t].status \in {"completed", "integrated"} THEN ts[t]
                          ELSE [ts[t] EXCEPT !.status = "aborted"]]

Claim(rs, r) == [rs EXCEPT ![r].claimed = TRUE]

OfWave == {r \in DOMAIN runs : runs[r].kind \in {"planner", "terminal", "integration"}}

(* listRunsForPipelineWave as stopWaveSiblings reads it: a paused run is   *)
(* neither queued nor active, and is not stopped.                          *)
Siblings(except) == {r \in OfWave \ {except} : runs[r].status = "active"}

(* The worktrees that removeWorktreeSafe takes: those without leftovers.   *)
Removable == git.trees \ git.dirty

Goes(k, new) == tasks' = (tasks \ {k}) \cup new
Drops(k)     == Goes(k, {})
Then(k, op, seen) == Goes(k, {[k EXCEPT !.op = op, !.seen = seen]})

(* Between claimJoin, the insert of the integration run and the return of  *)
(* its handler there is no wait: nothing but a crash comes between.        *)
Hot == \E k \in tasks : k.op \in {"join", "enqueue"}

Upset(kind) ==
    /\ kind \in Upsets
    /\ spent.upsets < MaxUpsets
    /\ spent' = [spent EXCEPT !.upsets = @ + 1]

Fine == UNCHANGED spent

---------------------------------------------------------------------------
(* Fan-out *)

(* pipeline_wave fan-out, called by the coordinator: authorized at once,   *)
(* then the main checkout is examined.                                     *)
FanOut ==
    /\ runs[1].status = "active"
    /\ IF spent.called THEN Upset("call") ELSE spent' = [spent EXCEPT !.called = TRUE]
    /\ tasks' = tasks \cup
           {[Task("checkout", 1, {}, "live") EXCEPT
                !.n = IF spent.called THEN spent.upsets + 1 ELSE 0]}
    /\ UNCHANGED <<wave, tracks, runs, git, boot>>

(* The checkout is refused and the coordinator goes on alone; or its wave  *)
(* exists and is returned; or wave and tracks are created.                 *)
FanOutChecked(k) ==
    /\ k.op = "checkout"
    /\ \/ /\ Upset("checkout") \/ (wave.status # "none" /\ Fine)
          /\ Drops(k)
          /\ UNCHANGED <<wave, tracks>>
       \/ /\ wave.status = "none"
          /\ wave' = [wave EXCEPT !.status = "provisioning"]
          /\ tracks' = [t \in Track |-> [tracks[t] EXCEPT !.status = "provisioning"]]
          /\ Then(k, "tree", Track)
          /\ Fine
    /\ UNCHANGED <<runs, git, boot>>

(* The one sequence of the members of a set of tracks in their order *)
Ascending(S) ==
    {s \in [1..Cardinality(S) -> S] : /\ \A i, j \in DOMAIN s : i < j => s[i] < s[j]
                                     /\ \A t \in S : \E i \in DOMAIN s : s[i] = t}

(* The planners of the tracks that have none, in track order; one that     *)
(* cannot be started is left out.  What goes wrong in one pass, with the   *)
(* worktrees that could not be added before it, is one upset.              *)
StartPlanners(rs, missing, lost) ==
    \E started \in SUBSET missing :
    \E order \in Ascending(started) :
        /\ CASE lost # {}         -> Upset("tree")
             [] started # missing -> Upset("planner")
             [] OTHER             -> Fine
        /\ runs' = rs \o [i \in DOMAIN order |-> NewRun("planner", order[i], 1)]
        /\ tracks' = [t \in Track |->
              IF t \notin started THEN tracks[t]
              ELSE [planner |-> Len(rs) + CHOOSE i \in DOMAIN order : order[i] = t,
                    status  |-> IF tracks[t].status = "provisioning" THEN "running"
                                ELSE tracks[t].status]]

Provisioned == IF wave.status = "provisioning" THEN [wave EXCEPT !.status = "running"] ELSE wave

(* A worktree is added, or cannot be and the wave is blocked.  After the   *)
(* last one the wave runs, the planners start and the coordinator's        *)
(* transition is claimed, whatever became of the wave meanwhile.           *)
FanOutTree(k) ==
    LET t == CHOOSE t \in k.seen : \A u \in k.seen : t <= u
    IN /\ k.op = "tree"
       /\ \/ /\ Upset("tree")
             /\ wave' = Blocked(wave)
             /\ Drops(k)
             /\ UNCHANGED <<tracks, runs, git>>
          \/ /\ git' = [git EXCEPT !.trees = @ \cup {t}]
             /\ k.seen # {t}
             /\ Fine
             /\ Then(k, "tree", k.seen \ {t})
             /\ UNCHANGED <<wave, tracks, runs>>
          \/ /\ git' = [git EXCEPT !.trees = @ \cup {t}]
             /\ k.seen = {t}
             /\ wave' = Provisioned
             /\ StartPlanners(Claim(runs, 1), {u \in Track : tracks[u].planner = 0}, {})
             /\ Drops(k)
       /\ UNCHANGED boot

---------------------------------------------------------------------------
(* The agents *)

(* A turn that waits for the answer of one of its tools does not complete. *)
InCall(r) == \E k \in tasks : k.at = r /\ k.op \in {"checkout", "tree", "finalize", "tips"}

Ends(r, status) ==
    /\ runs[r].status = "active"
    /\ runs[r].kind # "serial"
    /\ status = "failed" => runs[r].kind # "coordinator"
    /\ status = "completed" => ~InCall(r)
    /\ runs' = [runs EXCEPT ![r].status = status]
    /\ \/ status = "completed" /\ Fine /\ UNCHANGED git
       \/ status = "failed" /\ Upset("fail") /\ UNCHANGED git
       \/ /\ Upset("dirty")
          /\ status = "completed" /\ runs[r].kind = "terminal"
          /\ git' = [git EXCEPT !.dirty = @ \cup {runs[r].track}]
    /\ tasks' = tasks \cup {Task("ended", r, {}, "live")}
    /\ UNCHANGED <<wave, tracks, boot>>

(* git merge --no-ff of the tracks' branches in ordinal order, by the      *)
(* integration run                                                         *)
Merge(t) ==
    /\ git.main = 1..(t - 1)
    /\ \E r \in DOMAIN runs : runs[r].kind = "integration" /\ runs[r].status = "active"
    /\ git' = [git EXCEPT !.main = @ \cup {t}]
    /\ UNCHANGED <<wave, tracks, runs, tasks, boot, spent>>

(* pipeline_wave block: any run of the wave may call it.                   *)
Block(r) ==
    /\ r \in OfWave
    /\ runs[r].status = "active"
    /\ wave' = Blocked(wave)
    /\ wave' # wave
    /\ UNCHANGED <<tracks, runs, git, tasks, boot, spent>>

(* pipeline_wave finalize: refused to any but the integration run of the   *)
(* wave; then the main checkout is examined.                               *)
Finalize(r) ==
    /\ r \in DOMAIN runs
    /\ runs[r].status = "active" /\ ~InCall(r)
    /\ wave.integration = r
    /\ tasks' = tasks \cup {Task("finalize", r, {}, "live")}
    /\ UNCHANGED <<wave, tracks, runs, git, boot, spent>>

(* The head of main is read; every tip must be an ancestor of it.          *)
FinalizeChecked(k) ==
    /\ k.op = "finalize"
    /\ \/ Upset("checkout") /\ Drops(k)
       \/ Fine /\ Then(k, "tips", git.main)
    /\ UNCHANGED <<wave, tracks, runs, git, boot>>

AllMerged(k) == Track \subseteq k.seen

(* finalizeWave looks at the wave again, which may have moved on.          *)
FinalizeMerged(k) ==
    /\ k.op = "tips"
    /\ Drops(k)
    /\ IF AllMerged(k) /\ Finished(tracks) /\ wave.status = "integrating"
       THEN /\ wave' = [wave EXCEPT !.status = "completed", !.finalized = TRUE]
            /\ tracks' = [t \in Track |-> [tracks[t] EXCEPT !.status = "integrated"]]
            /\ git' = [git EXCEPT !.trees = @ \ Removable]
       ELSE UNCHANGED <<wave, tracks, git>>
    /\ UNCHANGED <<runs, boot, spent>>

---------------------------------------------------------------------------
(* Terminal events *)

(* The ordinary transition of the chain, for a run the wave does not       *)
(* handle: claim it and insert its successor.                              *)
Onward(r) ==
    LET next == IF runs[r].kind = "planner" THEN NewRun("terminal", runs[r].track, r)
                ELSE NewRun("serial", 0, r)
    IN runs' = IF runs[r].claimed THEN runs ELSE Append(Claim(runs, r), next)

(* handleTerminalHook for a planner or the coordinator: not handled.       *)
HandleStep(k) ==
    /\ k.op = "ended"
    /\ runs[k.at].status = "completed"
    /\ runs[k.at].kind \in {"planner", "coordinator"}
    /\ Onward(k.at)
    /\ Drops(k)
    /\ UNCHANGED <<wave, tracks, git, boot, spent>>

(* handleTrackTerminal, up to the look at the worktree *)
HandleTerminal(k) ==
    /\ k.op = "ended"
    /\ runs[k.at].status = "completed"
    /\ runs[k.at].kind = "terminal"
    /\ Then(k, "clean", {})
    /\ UNCHANGED <<wave, tracks, runs, git, boot, spent>>

(* A dirty or missing worktree blocks the wave and settles the run.        *)
TrackClean(k) ==
    /\ k.op = "clean"
    /\ IF runs[k.at].track \in Removable
       THEN Then(k, "tip", {}) /\ UNCHANGED <<wave, runs>>
       ELSE /\ wave' = Blocked(wave)
            /\ runs' = Claim(runs, k.at)
            /\ Drops(k)
    /\ UNCHANGED <<tracks, git, boot, spent>>

(* The tip is read and must descend from the wave's base.  The track is    *)
(* complete, unless it was aborted; who claims the run makes the join.     *)
TrackTip(k) ==
    LET t == runs[k.at].track
    IN /\ k.op = "tip"
       /\ runs' = Claim(runs, k.at)
       /\ \/ /\ Upset("tip")
             /\ wave' = Blocked(wave)
             /\ Drops(k)
             /\ UNCHANGED tracks
          \/ /\ Fine
             /\ tracks' = IF tracks[t].status \in {"provisioning", "running"}
                          THEN [tracks EXCEPT ![t].status = "completed"] ELSE tracks
             /\ IF tracks[t].status # "aborted" /\ ~runs[k.at].claimed
                THEN Then(k, "join", {}) ELSE Drops(k)
             /\ UNCHANGED wave
       /\ UNCHANGED <<git, boot>>

MayJoin == ~wave.joined /\ wave.status = "running" /\ Finished(tracks)

(* claimJoin *)
Join(k) ==
    /\ k.op = "join"
    /\ IF MayJoin
       THEN /\ wave' = [wave EXCEPT !.joined = TRUE, !.status = "integrating"]
            /\ Then(k, "enqueue", {})
       ELSE Drops(k) /\ UNCHANGED wave
    /\ UNCHANGED <<tracks, runs, git, boot, spent>>

(* The integration run is inserted and assigned, or the wave is blocked.   *)
Enqueue(k) ==
    /\ k.op = "enqueue"
    /\ \/ /\ Upset("enqueue")
          /\ wave' = Blocked(wave)
          /\ UNCHANGED runs
       \/ /\ Fine
          /\ runs' = Append(runs, NewRun("integration", 0, 1))
          /\ wave' = [wave EXCEPT !.integration = Len(runs) + 1]
    /\ Drops(k)
    /\ UNCHANGED <<tracks, git, boot>>

(* Mutant: whoever completes lets the chain go on. *)
MovesOnCompleted(r) == runs[r].status = "completed"

MovesOn(r) == runs[r].status = "completed" /\ wave.finalized

(* handleIntegrationTerminal: the chain goes on after a finalized wave;    *)
(* otherwise the wave is blocked and the run settled.                      *)
HandleIntegration(k) ==
    /\ k.op = "ended"
    /\ runs[k.at].kind = "integration"
    /\ IF MovesOn(k.at) THEN Onward(k.at) /\ UNCHANGED wave
       ELSE wave' = Blocked(wave) /\ runs' = Claim(runs, k.at)
    /\ Drops(k)
    /\ UNCHANGED <<tracks, git, boot, spent>>

(* handleTrackFailure: the wave is aborted and its other runs are stopped; *)
(* a wave already aborted or completed is left to the chain, which does    *)
(* not recover the runs of a wave.                                         *)
HandleFailure(k) ==
    /\ k.op = "ended"
    /\ runs[k.at].status = "failed" /\ runs[k.at].track # 0
    /\ IF wave.status \in {"aborted", "completed"}
       THEN Drops(k)
       ELSE Then(k, "stop", Siblings(k.at))
    /\ wave' = AbortedWave(wave)
    /\ tracks' = AbortedTracks(wave, tracks)
    /\ UNCHANGED <<runs, git, boot, spent>>

(* stopWaveSiblings cancels one run after another of those it listed; the  *)
(* failed run that caused it is claimed last.                              *)
StopSibling(k) ==
    /\ k.op = "stop"
    /\ IF k.seen = {}
       THEN /\ runs' = IF k.at = 0 THEN runs ELSE Claim(runs, k.at)
            /\ Drops(k)
       ELSE LET r == CHOOSE r \in k.seen : \A q \in k.seen : r <= q
            IN /\ runs' = IF runs[r].status \in {"active", "paused"}
                          THEN [runs EXCEPT ![r].status = "cancelled"] ELSE runs
               /\ Then(k, "stop", k.seen \ {r})
    /\ UNCHANGED <<wave, tracks, git, boot, spent>>

---------------------------------------------------------------------------
(* The operator *)

(* lca wave abort: the wave and its open tracks, then the clean worktrees, *)
(* then the runs.  Once aborted, the request is only acknowledged.         *)
Abort ==
    /\ wave.status \in {"provisioning", "running", "integrating", "blocked"}
    /\ Upset("abort")
    /\ wave' = AbortedWave(wave)
    /\ tracks' = AbortedTracks(wave, tracks)
    /\ tasks' = tasks \cup {[Task("removal", 0, {}, "live") EXCEPT !.n = spent.upsets]}
    /\ UNCHANGED <<runs, git, boot>>

AbortRemoved(k) ==
    /\ k.op = "removal"
    /\ git' = [git EXCEPT !.trees = @ \ Removable]
    /\ Then(k, "stop", Siblings(0))
    /\ UNCHANGED <<wave, tracks, runs, boot, spent>>

(* lca wave retry: refused unless the wave is blocked, its tracks are      *)
(* complete and its integration run is not queued, running or asking; then *)
(* the main checkout is examined.                                          *)
Retry ==
    /\ wave.status = "blocked"
    /\ Finished(tracks)
    /\ wave.integration # 0 => runs[wave.integration].status # "active"
    /\ Upset("retry")
    /\ tasks' = tasks \cup {[Task("retry", 0, {}, "live") EXCEPT !.n = spent.upsets]}
    /\ UNCHANGED <<wave, tracks, runs, git, boot>>

(* Mutant: what was read before the look at the checkout still counts. *)
MayPrepareStale == Finished(tracks)

MayPrepare == wave.status = "blocked" /\ Finished(tracks)

(* prepareIntegrationRetry reads wave and tracks again, not the run.       *)
RetryChecked(k) ==
    /\ k.op = "retry"
    /\ \/ Upset("checkout") /\ Drops(k) /\ UNCHANGED wave
       \/ ~MayPrepare /\ Fine /\ Drops(k) /\ UNCHANGED wave
       \/ /\ MayPrepare
          /\ Fine
          /\ wave' = [wave EXCEPT !.integration = 0, !.joined = FALSE, !.status = "running"]
          /\ Then(k, "join", {})
    /\ UNCHANGED <<tracks, runs, git, boot>>

Pause(r) ==
    /\ r \in OfWave
    /\ runs[r].status = "active"
    /\ Upset("pause")
    /\ runs' = [runs EXCEPT ![r].status = "paused"]
    /\ UNCHANGED <<wave, tracks, git, tasks, boot>>

Resume(r) ==
    /\ runs[r].status = "paused"
    /\ runs' = [runs EXCEPT ![r].status = "active"]
    /\ UNCHANGED <<wave, tracks, git, tasks, boot, spent>>

---------------------------------------------------------------------------
(* Crash and resume sweep *)

Crash ==
    /\ Upset("crash")
    /\ tasks' = {}
    /\ boot' = [Up EXCEPT !.stage = "waves"]
    /\ UNCHANGED <<wave, tracks, runs, git>>

Unclaimed(kinds) ==
    {r \in DOMAIN runs : runs[r].kind \in kinds /\ runs[r].status = "completed" /\ ~runs[r].claimed}

(* What comes after the worktrees of an unfinished wave: the terminals it  *)
(* missed, then its join as it stood when the wave was listed.             *)
AfterTrees == [stage |-> "terminals", owed |-> Unclaimed({"terminal"}),
               fresh |-> ~wave.joined /\ wave.integration = 0]

(* Mutant: the terminals of tracks are left to the sweep of their wave. *)
AfterWavesUntracked == [stage |-> "transitions", fresh |-> FALSE,
                        owed  |-> Unclaimed({"coordinator", "planner", "integration"})]

(* listPipelineResumeCandidates *)
AfterWaves == [stage |-> "transitions", fresh |-> FALSE,
               owed  |-> Unclaimed({"coordinator", "planner", "terminal", "integration"})]

(* resumeWaves lists the waves that are neither aborted nor completed; in  *)
(* one that was being set up the tracks without a planner come first.      *)
SweepWave ==
    /\ boot.stage = "waves"
    /\ boot' = IF wave.status \in {"none", "aborted", "completed"} THEN AfterWaves
               ELSE IF /\ wave.status \in {"provisioning", "running"}
                       /\ \E t \in Track : tracks[t].planner = 0
               THEN [Up EXCEPT !.stage = "planners"] ELSE AfterTrees
    /\ UNCHANGED <<wave, tracks, runs, git, tasks, spent>>

(* resumeProvisioningWave adds their worktrees, marks the wave running and *)
(* starts the planners.  A worktree that cannot be added is left out, and  *)
(* the planner of its track started all the same.  The coordinator is not  *)
(* claimed.  A wave that needed this is not looked at further in this      *)
(* sweep.                                                                  *)
SweepPlanners ==
    LET missing == {t \in Track : tracks[t].planner = 0}
    IN /\ boot.stage = "planners"
       /\ \E lost \in SUBSET (missing \ git.trees) :
             /\ git' = [git EXCEPT !.trees = @ \cup (missing \ lost)]
             /\ StartPlanners(runs, missing, lost)
       /\ wave' = Provisioned
       /\ boot' = IF git' # git \/ runs' # runs THEN AfterWaves ELSE AfterTrees
       /\ UNCHANGED tasks

Sweeping == \E k \in tasks : k.by = "boot"

(* The next missed terminal or transition, oldest first, when the one      *)
(* before is done.                                                         *)
SweepNext ==
    /\ boot.owed # {} /\ ~Sweeping
    /\ LET r == CHOOSE r \in boot.owed : \A q \in boot.owed : r <= q
       IN /\ tasks' = tasks \cup
                 {Task(IF boot.stage = "terminals" THEN "clean" ELSE "ended", r, {}, "boot")}
          /\ boot' = [boot EXCEPT !.owed = @ \ {r}]
    /\ UNCHANGED <<wave, tracks, runs, git, spent>>

(* resumeReadyJoin after the last terminal of the wave *)
SweepJoin ==
    /\ boot.stage = "terminals" /\ boot.owed = {} /\ ~Sweeping
    /\ boot' = [Up EXCEPT !.stage = "joined"]
    /\ tasks' = tasks \cup (IF boot.fresh /\ Finished(tracks)
                            THEN {Task("join", 0, {}, "boot")} ELSE {})
    /\ UNCHANGED <<wave, tracks, runs, git, spent>>

SweepTransitions ==
    /\ boot.stage = "joined" /\ ~Sweeping
    /\ boot' = AfterWaves
    /\ UNCHANGED <<wave, tracks, runs, git, tasks, spent>>

SweepEnds ==
    /\ boot.stage = "transitions" /\ boot.owed = {} /\ ~Sweeping
    /\ boot' = Up
    /\ UNCHANGED <<wave, tracks, runs, git, tasks, spent>>

---------------------------------------------------------------------------
(* Specification *)

Sweep == SweepWave \/ SweepPlanners \/ SweepNext \/ SweepJoin \/ SweepTransitions \/ SweepEnds

Work(k) ==
    \/ FanOutChecked(k) \/ FanOutTree(k) \/ FinalizeChecked(k) \/ FinalizeMerged(k)
    \/ HandleStep(k) \/ HandleTerminal(k) \/ TrackClean(k) \/ TrackTip(k)
    \/ HandleIntegration(k) \/ HandleFailure(k) \/ StopSibling(k)
    \/ AbortRemoved(k) \/ RetryChecked(k)

Agents ==
    \/ FanOut
    \/ \E r \in DOMAIN runs :
           \/ \E status \in {"completed", "failed"} : Ends(r, status)
           \/ Block(r) \/ Finalize(r)
    \/ \E t \in Track : Merge(t)

Operator == Abort \/ Retry \/ \E r \in DOMAIN runs : Pause(r) \/ Resume(r)

(* The daemon's own steps *)
Daemon ==
    \/ \E k \in tasks : Join(k) \/ Enqueue(k)
    \/ ~Hot /\ (Sweep \/ \E k \in tasks : Work(k))

Next == Daemon \/ Crash \/ (~Hot /\ (Agents \/ Operator))

Spec == Init /\ [][Next]_vars

---------------------------------------------------------------------------
(* Properties *)

(* "It chains to plan-phase only after finalize succeeds"                  *)
(* (docs/implement-fully-protocol.md): the main line goes on from an       *)
(* integration run only when the wave was finalized with every track       *)
(* complete and merged, whatever integration runs were retried, blocked or *)
(* replayed after a crash.                                                 *)
OnlyWholeWavesMoveOn ==
    \A r \in DOMAIN runs :
        runs[r].kind = "serial" /\ runs[runs[r].parent].kind = "integration" =>
            /\ wave.finalized
            /\ \A t \in Track : tracks[t].status = "integrated" /\ t \in git.main

(* An abort is final: a terminal, a join, a retry, a finalize or a sweep   *)
(* that was under way when the wave was aborted neither revives it nor     *)
(* completes one of its tracks nor starts an integration run.              *)
AbortIsFinal ==
    [][wave.status = "aborted" =>
          /\ wave'.status = "aborted"
          /\ \A t \in Track : tracks'[t].status = "completed" => tracks[t].status = "completed"
          /\ \A r \in DOMAIN runs' \ DOMAIN runs : runs'[r].kind # "integration"]_vars

(* What the wave waits for the daemon to do: take note of the end of a     *)
(* track's terminal run, claim the join when all tracks are complete, let  *)
(* the chain go on from a finalized wave.  A join that was claimed is not  *)
(* among it: no sweep starts the integration run of a claim that a kill    *)
(* left without one.                                                       *)
Owed ==
    \/ /\ wave.status \in {"running", "integrating"}
       /\ \E r \in DOMAIN runs : /\ runs[r].kind = "terminal" /\ runs[r].status = "completed"
                               /\ tracks[runs[r].track].status = "running"
    \/ wave.status = "running" /\ Finished(tracks)
    \/ /\ wave.finalized
       /\ runs[wave.integration].status = "completed" /\ ~runs[wave.integration].claimed

(* The barrier does not stand still: when no handler waits and no sweep is *)
(* under way nothing is owed, also when the daemon died before, between or *)
(* after its looks at a worktree or between the claim of a terminal and    *)
(* the join, and when the sweep had a planner to start first and skipped   *)
(* the rest of the wave.                                                   *)
NothingOwedAtRest == tasks = {} /\ boot.stage = "up" => ~Owed

=============================================================================
