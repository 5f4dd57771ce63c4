------------------------- MODULE PipelineWave_proof -------------------------
(***************************************************************************)
(* Proofs about PipelineWave, for every number of tracks and every choice  *)
(* and number of upsets.                                                   *)
(*                                                                         *)
(* Most steps only add to what is known: runs are appended, those that     *)
(* ended stay as they ended, a claim stays, main only gains tracks.  Kept  *)
(* says so, and the lemmas named ...Kept carry each part of the invariant  *)
(* over such a step; what is left for each action is the part it is about. *)
(***************************************************************************)
EXTENDS PipelineWave, FiniteSetTheorems, SequenceTheorems, WellFoundedInduction, TLAPS

Kinds    == {"coordinator", "planner", "terminal", "integration", "serial"}
Ops      == {"checkout", "tree", "finalize", "tips", "ended", "clean", "tip", "join",
             "enqueue", "stop", "removal", "retry"}
Stages   == {"up", "waves", "planners", "terminals", "joined", "transitions"}
RunRows  == [kind : Kinds, track : Nat, parent : Nat, claimed : BOOLEAN,
             status : {"active", "paused", "completed", "failed", "cancelled"}]
TrackRows ==
            [planner : Nat,
             status : {"none", "provisioning", "running", "completed", "integrated", "aborted"}]
WaveRows == [joined : BOOLEAN, integration : Nat, finalized : BOOLEAN,
             status : {"none", "provisioning", "running", "integrating", "blocked", "aborted",
                       "completed"}]
Handlers == [seen : SUBSET Nat, by : {"live", "boot"}, n : Nat, at : Nat, op : Ops]

TypeOK ==
    /\ wave \in WaveRows
    /\ tracks \in [Track -> TrackRows]
    /\ runs \in Seq(RunRows) /\ 1 \in DOMAIN runs
    /\ git \in [trees : SUBSET Track, dirty : SUBSET Track, main : SUBSET Track]
    /\ tasks \subseteq Handlers
    /\ boot \in [stage : Stages, owed : SUBSET Nat, fresh : BOOLEAN]
    /\ spent \in [called : BOOLEAN, upsets : Nat]

(* The runs of tracks, and the main line *)
RunFits(r) ==
    /\ runs[r].kind \in {"planner", "terminal"} =>
          runs[r].track \in Track /\ tracks[runs[r].track].planner # 0
    /\ runs[r].kind = "terminal" /\ runs[r].claimed => runs[r].status \in {"completed", "failed"}
    /\ runs[r].kind = "serial" =>
          /\ runs[r].parent \in DOMAIN runs
          /\ runs[runs[r].parent].kind = "integration" => wave.finalized

RunsFit == runs[1].kind = "coordinator" /\ \A r \in DOMAIN runs : RunFits(r)

(* What a handler holds on to is still so.                                 *)
HandlerFits(k) ==
    /\ k.op = "ended" => k.at \in DOMAIN runs /\ runs[k.at].status \in {"completed", "failed"}
    /\ k.op \in {"clean", "tip"} =>
          k.at \in DOMAIN runs /\ runs[k.at].kind = "terminal" /\ runs[k.at].status = "completed"
    /\ k.op = "stop" =>
          /\ k.at = 0 \/ (k.at \in DOMAIN runs /\ runs[k.at].status = "failed")
          /\ k.seen \subseteq DOMAIN runs
    /\ k.op = "removal" => k.at = 0
    /\ k.op = "tips" => k.seen \subseteq git.main
    /\ k.op = "tree" => wave.status # "none" /\ k.seen # {} /\ k.seen \subseteq Track

HandlersFit == \A k \in tasks : HandlerFits(k)

(* A finalize that waits while the wave integrates has the integration run *)
(* of the wave behind it, or its enqueue before it.                        *)
CallsFit ==
    \A k \in tasks :
        k.op \in {"finalize", "tips"} /\ wave.status = "integrating" =>
            wave.integration # 0 \/ \E l \in tasks : l.op = "enqueue"

(* One handler at a time makes the join. *)
HotFits ==
    \A k \in tasks :
        /\ k.op = "enqueue" => wave.status = "integrating"
        /\ k.op \in {"join", "enqueue"} => \A l \in tasks : l.op \in {"join", "enqueue"} => l = k

OwedFits ==
    /\ \A r \in boot.owed :
          /\ r \in DOMAIN runs /\ runs[r].status = "completed"
          /\ boot.stage = "terminals" => runs[r].kind = "terminal"
          /\ boot.stage \in {"terminals", "transitions"}
    /\ boot.stage = "planners" => wave.status # "none"

WaveFits ==
    /\ wave.status \in {"none", "provisioning", "running"} => ~wave.joined /\ wave.integration = 0
    /\ wave.integration # 0 =>
          wave.integration \in DOMAIN runs /\ runs[wave.integration].kind = "integration"
    /\ wave.status \in {"none", "provisioning"} =>
          /\ \A t \in Track : tracks[t].status \in {"none", "provisioning"} /\ tracks[t].planner = 0
          /\ \A r \in DOMAIN runs : runs[r].kind \in {"coordinator", "serial"}
    /\ wave.status = "aborted" =>
          \A t \in Track : tracks[t].status \in {"completed", "integrated", "aborted"}
    /\ wave.finalized =>
          /\ wave.status = "completed" /\ wave.integration # 0
          /\ \A t \in Track : tracks[t].status = "integrated" /\ t \in git.main
    /\ \A t \in Track : tracks[t].status \in {"completed", "integrated"} => tracks[t].planner # 0

(* The sweep will list what completed without being claimed.               *)
ToBeListed == boot.stage \in {"waves", "planners", "terminals", "joined"}

(* A terminal or integration run that completed was taken note of, or will *)
(* be: by the sweep or by a handler that waits.                            *)
Noted(r) ==
    \/ runs[r].claimed
    \/ ToBeListed
    \/ r \in boot.owed
    \/ \E k \in tasks : k.at = r /\ k.op \in {"ended", "clean", "tip"}

Notable(r) == runs[r].kind \in {"terminal", "integration"} /\ runs[r].status = "completed"

(* The track of a terminal run that was settled does not wait for it.      *)
Settled(r) ==
    runs[r].kind = "terminal" /\ runs[r].status = "completed" /\ runs[r].claimed =>
        \/ tracks[runs[r].track].status \notin {"provisioning", "running"}
        \/ wave.status \in {"blocked", "aborted", "completed"}

AllNoted == \A r \in DOMAIN runs : Settled(r) /\ (Notable(r) => Noted(r))

(* A wave that runs with all its tracks complete has its join coming.      *)
JoinComes ==
    wave.status = "running" /\ Finished(tracks) =>
        \/ \E k \in tasks : k.op = "join"
        \/ boot.stage = "waves"
        \/ boot.stage = "terminals" /\ boot.fresh

IInv ==
    /\ TypeOK /\ RunsFit /\ HandlersFit /\ CallsFit /\ HotFits /\ OwedFits /\ WaveFits
    /\ AllNoted /\ JoinComes

-----------------------------------------------------------------------------
(* Steps that only add to what is known *)

(* Runs are appended; those that ended stay as they ended.                 *)
RunsGrow ==
    /\ runs' \in Seq(RunRows)
    /\ DOMAIN runs \subseteq DOMAIN runs'
    /\ \A r \in DOMAIN runs :
          /\ runs'[r].kind = runs[r].kind /\ runs'[r].track = runs[r].track
          /\ runs'[r].parent = runs[r].parent
          /\ runs[r].status \in {"completed", "failed"} => runs'[r].status = runs[r].status
          /\ runs[r].claimed => runs'[r].claimed

Kept ==
    /\ RunsGrow
    /\ \A t \in Track : tracks[t].planner # 0 => tracks'[t].planner # 0
    /\ git.main \subseteq git'.main
    /\ wave.finalized => wave'.finalized
    /\ wave.status # "none" => wave'.status # "none"
    /\ \A r \in DOMAIN runs : runs'[r].claimed /\ runs[r].kind = "terminal" =>
          runs[r].claimed \/ runs[r].status \in {"completed", "failed"}

New == DOMAIN runs' \ DOMAIN runs

LEMMA RunsFitKept ==
    ASSUME IInv, Kept, \A r \in New : RunFits(r)'
    PROVE  RunsFit'
<1>0. 1 \in DOMAIN runs' /\ runs'[1].kind = "coordinator"
  BY DEF IInv, TypeOK, RunsFit, Kept, RunsGrow
<1> SUFFICES ASSUME NEW r \in DOMAIN runs' PROVE RunFits(r)'
  BY <1>0 DEF RunsFit
<1>1. CASE r \in New
  BY <1>1
<1>2. CASE r \in DOMAIN runs
  <2>1. RunFits(r)
    BY <1>2 DEF IInv, RunsFit
  <2>2. runs'[r].kind = runs[r].kind /\ runs'[r].track = runs[r].track
        /\ runs'[r].parent = runs[r].parent
    BY <1>2 DEF Kept, RunsGrow
  <2>3. runs[r].kind \in {"planner", "terminal"} =>
          runs[r].track \in Track /\ tracks'[runs[r].track].planner # 0
    BY <2>1 DEF RunFits, Kept
  <2>4. runs[r].kind = "serial" =>
          /\ runs[r].parent \in DOMAIN runs'
          /\ runs'[runs[r].parent].kind = "integration" => wave'.finalized
    BY <2>1 DEF RunFits, Kept, RunsGrow
  <2>5. runs[r].kind = "terminal" /\ runs'[r].claimed => runs'[r].status \in {"completed", "failed"}
    BY <1>2, <2>1 DEF RunFits, Kept, RunsGrow
  <2> QED BY <2>2, <2>3, <2>4, <2>5 DEF RunFits
<1> QED BY <1>1, <1>2 DEF New

LEMMA HandlersFitKept ==
    ASSUME IInv, Kept, \A k \in tasks' \ tasks : HandlerFits(k)'
    PROVE  HandlersFit'
<1> SUFFICES ASSUME NEW k \in tasks' PROVE HandlerFits(k)'
  BY DEF HandlersFit
<1>1. CASE k \in tasks
  <2>1. HandlerFits(k)
    BY <1>1 DEF IInv, HandlersFit
  <2> QED BY <2>1 DEF HandlerFits, Kept, RunsGrow
<1> QED BY <1>1

LEMMA OwedFitsKept ==
    ASSUME IInv, Kept, boot' = boot
    PROVE  OwedFits'
BY DEF IInv, OwedFits, Kept, RunsGrow

(* What was noted stays noted when no track starts again and a wave that   *)
(* stands does not go on before its tracks are complete.                   *)
NothingRestarts ==
    /\ \A t \in Track : tracks[t].planner # 0 /\ tracks[t].status \notin {"provisioning", "running"}
                        => tracks'[t].status \notin {"provisioning", "running"}
    /\ wave.status \in {"blocked", "aborted", "completed"} =>
          \/ wave'.status \in {"blocked", "aborted", "completed"}
          \/ \A t \in Track : tracks'[t].status \notin {"provisioning", "running"}

Forgets(r) == \E k \in tasks \ tasks' : k.at = r /\ k.op \in {"ended", "clean", "tip"}

(* A run that is appended is active and not claimed; one that is claimed   *)
(* now is settled.                                                         *)
Settles ==
    /\ \A r \in New : runs'[r].status = "active"
    /\ \A r \in DOMAIN runs : runs'[r].claimed /\ ~runs[r].claimed => Settled(r)'
    /\ \A r \in DOMAIN runs :
          Notable(r)' /\ (runs[r].status # "completed" \/ Forgets(r)) => Noted(r)'

LEMMA AllNotedKept ==
    ASSUME IInv, Kept, NothingRestarts, boot' = boot, Settles
    PROVE  AllNoted'
<1> SUFFICES ASSUME NEW r \in DOMAIN runs'
             PROVE  Settled(r)' /\ (Notable(r)' => Noted(r)')
  BY DEF AllNoted
<1>0. CASE r \notin DOMAIN runs
  BY <1>0 DEF Settles, New, Notable, Settled
<1> SUFFICES ASSUME r \in DOMAIN runs
             PROVE  Settled(r)' /\ (Notable(r)' => Noted(r)')
  BY <1>0
<1>1. runs'[r].kind = runs[r].kind /\ runs'[r].track = runs[r].track
      /\ (runs[r].claimed => runs'[r].claimed)
      /\ (runs[r].status \in {"completed", "failed"} => runs'[r].status = runs[r].status)
  BY DEF Kept, RunsGrow
<1>2. RunFits(r) /\ Settled(r) /\ (Notable(r) => Noted(r))
  BY DEF IInv, AllNoted, RunsFit
<1>3. Settled(r)'
  <2>1. CASE runs[r].claimed
    <3> SUFFICES ASSUME runs[r].kind = "terminal", runs'[r].status = "completed"
                 PROVE  \/ tracks'[runs[r].track].status \notin {"provisioning", "running"}
                        \/ wave'.status \in {"blocked", "aborted", "completed"}
      BY <1>1 DEF Settled
    <3>1. runs[r].track \in Track /\ tracks[runs[r].track].planner # 0
      BY <1>2 DEF RunFits
    <3>2. runs[r].status = "completed"
      BY <1>1, <1>2, <2>1 DEF RunFits
    <3>3. \/ tracks[runs[r].track].status \notin {"provisioning", "running"}
          \/ wave.status \in {"blocked", "aborted", "completed"}
      BY <1>2, <2>1, <3>2 DEF Settled
    <3> QED BY <3>1, <3>3 DEF NothingRestarts
  <2>2. CASE ~runs[r].claimed /\ runs'[r].claimed
    BY <2>2 DEF Settles
  <2>3. CASE ~runs'[r].claimed
    BY <2>3 DEF Settled
  <2> QED BY <2>1, <2>2, <2>3
<1>4. ASSUME Notable(r)' PROVE Noted(r)'
  <2>1. CASE runs[r].status # "completed" \/ Forgets(r)
    BY <1>4, <2>1 DEF Settles
  <2>2. CASE runs[r].status = "completed" /\ ~Forgets(r)
    <3>1. Noted(r)
      BY <1>1, <1>2, <1>4, <2>2 DEF Notable
    <3>2. CASE ToBeListed
      BY <3>2 DEF Noted, ToBeListed
    <3>3. CASE r \in boot.owed
      BY <3>3 DEF Noted
    <3>4. CASE \E k \in tasks : k.at = r /\ k.op \in {"ended", "clean", "tip"}
      BY <2>2, <3>4 DEF Noted, Forgets
    <3> QED BY <1>1, <3>1, <3>2, <3>3, <3>4 DEF Noted
  <2> QED BY <2>1, <2>2
<1> QED BY <1>3, <1>4

(* A step outside of a join: what it must show of the runs it appends, of  *)
(* the handlers it sets waiting and of what they were to settle.           *)
NewFit(k) ==
    /\ HandlerFits(k)' /\ k.op # "enqueue"
    /\ k.op \in {"finalize", "tips"} /\ wave'.status = "integrating" => wave'.integration # 0

Cold ==
    /\ Kept /\ NothingRestarts /\ Settles /\ boot' = boot
    /\ \A r \in New : RunFits(r)'
    /\ \A k \in tasks' \ tasks : NewFit(k)
    /\ \A k, l \in tasks' \ tasks : k.op = "join" /\ l.op = "join" => k = l
    /\ wave'.status = "integrating" =>
          wave.status = "integrating" /\ wave'.integration = wave.integration
    /\ wave'.status = "running" /\ Finished(tracks') =>
          \/ wave.status = "running" /\ Finished(tracks)
          \/ \E k \in tasks' : k.op = "join"

LEMMA ColdKeeps ==
    ASSUME IInv, ~Hot, Cold, TypeOK', WaveFits'
    PROVE  IInv'
<1>1. RunsFit' /\ HandlersFit' /\ OwedFits' /\ AllNoted'
  <2>1. \A k \in tasks' \ tasks : HandlerFits(k)'
    BY DEF Cold, NewFit
  <2> QED BY <2>1, RunsFitKept, HandlersFitKept, OwedFitsKept, AllNotedKept DEF Cold
<1>2. \A k \in tasks : k.op \notin {"join", "enqueue"}
  BY DEF Hot
<1>3. CallsFit'
  <2> SUFFICES ASSUME NEW k \in tasks', k.op \in {"finalize", "tips"}, wave'.status = "integrating"
               PROVE  wave'.integration # 0
    BY DEF CallsFit
  <2>1. CASE k \in tasks
    <3>1. wave.status = "integrating" /\ wave'.integration = wave.integration
      BY DEF Cold
    <3> QED BY <1>2, <2>1, <3>1 DEF IInv, CallsFit
  <2>2. CASE k \notin tasks
    BY <2>2 DEF Cold, NewFit
  <2> QED BY <2>1, <2>2
<1>4. HotFits'
  <2>1. \A k \in tasks' : k.op \in {"join", "enqueue"} => k.op = "join" /\ k \in tasks' \ tasks
    BY <1>2 DEF Cold, NewFit
  <2> QED BY <2>1 DEF HotFits, Cold
<1>5. JoinComes'
  <2> SUFFICES ASSUME wave'.status = "running", Finished(tracks'), \A k \in tasks' : k.op # "join"
               PROVE  boot'.stage = "waves" \/ (boot'.stage = "terminals" /\ boot'.fresh)
    BY DEF JoinComes, Finished
  <2>1. wave.status = "running" /\ Finished(tracks) /\ boot' = boot
    BY DEF Cold
  <2> QED BY <1>2, <2>1 DEF IInv, JoinComes
<1> QED BY <1>1, <1>3, <1>4, <1>5 DEF IInv

-----------------------------------------------------------------------------
(* Steps that leave the wave, its tracks, its runs and the sweep alone     *)

LEMMA OnlyHandlers ==
    ASSUME IInv, ~Hot, UNCHANGED <<wave, tracks, runs, boot>>,
           git' \in [trees : SUBSET Track, dirty : SUBSET Track, main : SUBSET Track],
           git.main \subseteq git'.main,
           spent' \in [called : BOOLEAN, upsets : Nat], tasks' \subseteq Handlers,
           \A k \in tasks' \ tasks : NewFit(k) /\ k.op # "join",
           \A r \in DOMAIN runs : Notable(r) /\ Forgets(r) => Noted(r)'
    PROVE  IInv'
<1>1. /\ wave' = wave /\ tracks' = tracks /\ runs' = runs /\ boot' = boot
  OBVIOUS
<1>2. TypeOK'
  BY <1>1 DEF IInv, TypeOK
<1>3. RunsGrow /\ Kept /\ NothingRestarts /\ New = {}
  BY <1>1 DEF IInv, TypeOK, RunsGrow, Kept, NothingRestarts, New
<1>4. WaveFits'
  BY <1>1 DEF IInv, WaveFits
<1>5. Cold
  <2>1. \A r \in DOMAIN runs : Notable(r)' <=> Notable(r)
    BY <1>1 DEF Notable
  <2>2. Settles
    BY <1>1, <1>3, <2>1 DEF Notable, Settles
  <2>3. Finished(tracks') <=> Finished(tracks)
    BY <1>1
  <2> QED BY <1>1, <1>3, <2>2, <2>3 DEF Cold
<1> QED BY <1>2, <1>4, <1>5, ColdKeeps

LEMMA SpentIs ==
    ASSUME TypeOK
    PROVE  /\ Fine => spent' \in [called : BOOLEAN, upsets : Nat]
           /\ \A kind : Upset(kind) => spent' \in [called : BOOLEAN, upsets : Nat]
BY DEF TypeOK, Fine, Upset

LEMMA TaskIs ==
    ASSUME NEW op \in Ops, NEW at \in Nat, NEW by \in {"live", "boot"}, NEW n \in Nat
    PROVE  LET k == [Task(op, at, {}, by) EXCEPT !.n = n]
           IN k \in Handlers /\ k.op = op /\ k.at = at /\ k.seen = {} /\ k.by = by
BY DEF Task, Handlers

LEMMA PlainTaskIs ==
    ASSUME NEW op \in Ops, NEW at \in Nat, NEW by \in {"live", "boot"}
    PROVE  LET k == Task(op, at, {}, by)
           IN k \in Handlers /\ k.op = op /\ k.at = at /\ k.seen = {} /\ k.by = by
BY DEF Task, Handlers

(* The handlers that name no run and no track settle nothing.              *)
LEMMA FanOutKeeps ==
    ASSUME IInv, ~Hot, FanOut
    PROVE  IInv'
<1> DEFINE n == IF spent.called THEN spent.upsets + 1 ELSE 0
           k == [Task("checkout", 1, {}, "live") EXCEPT !.n = n]
<1>1. TypeOK /\ n \in Nat
  BY DEF IInv, TypeOK
<1>2. tasks' = tasks \cup {k} /\ UNCHANGED <<wave, tracks, runs, git, boot>>
  BY DEF FanOut
<1>3. k \in Handlers /\ k.op = "checkout"
  BY <1>1 DEF Task, Handlers, Ops
<1> HIDE DEF k
<1>4. spent' \in [called : BOOLEAN, upsets : Nat]
  BY <1>1 DEF FanOut, TypeOK, Upset
<1>5. \A l \in tasks' \ tasks : NewFit(l) /\ l.op # "join"
  BY <1>2, <1>3 DEF NewFit, HandlerFits
<1>6. \A r : ~Forgets(r)
  BY <1>2 DEF Forgets
<1> QED BY <1>1, <1>2, <1>3, <1>4, <1>5, <1>6, OnlyHandlers DEF TypeOK

(* A handler goes on to wait for something else, or is done.               *)
LEMMA Moves ==
    ASSUME IInv, ~Hot, UNCHANGED <<wave, tracks, runs, boot>>,
           git' \in [trees : SUBSET Track, dirty : SUBSET Track, main : SUBSET Track],
           git.main \subseteq git'.main,
           spent' \in [called : BOOLEAN, upsets : Nat],
           NEW k \in tasks, NEW new \in SUBSET Handlers, Goes(k, new),
           \A l \in new : NewFit(l) /\ l.op # "join",
           k.op \in {"ended", "clean", "tip"} =>
               \E l \in new : l.at = k.at /\ l.op \in {"ended", "clean", "tip"}
    PROVE  IInv'
<1>1. tasks' = (tasks \ {k}) \cup new
  BY DEF Goes
<1>2. tasks' \subseteq Handlers
  BY <1>1 DEF IInv, TypeOK
<1>3. \A l \in tasks' \ tasks : NewFit(l) /\ l.op # "join"
  BY <1>1
<1>4. ASSUME NEW r \in DOMAIN runs, Notable(r), Forgets(r) PROVE Noted(r)'
  <2>1. k.at = r /\ k.op \in {"ended", "clean", "tip"}
    BY <1>1, <1>4 DEF Forgets
  <2>2. PICK l \in new : l.at = r /\ l.op \in {"ended", "clean", "tip"}
    BY <2>1
  <2> QED BY <1>1, <2>2 DEF Noted
<1> QED BY <1>2, <1>3, <1>4, OnlyHandlers

LEMMA KeptGit ==
    ASSUME IInv
    PROVE  /\ git \in [trees : SUBSET Track, dirty : SUBSET Track, main : SUBSET Track]
           /\ tasks \subseteq Handlers /\ git.main \subseteq Nat
BY DEF IInv, TypeOK, Track

LEMMA FinalizeKeeps ==
    ASSUME IInv, ~Hot, NEW r, Finalize(r)
    PROVE  IInv'
<1> DEFINE k == Task("finalize", r, {}, "live")
<1>1. /\ tasks' = tasks \cup {k} /\ UNCHANGED <<wave, tracks, runs, git, boot, spent>>
      /\ r \in DOMAIN runs /\ wave.integration = r
  BY DEF Finalize
<1>2. r \in Nat /\ r # 0
  BY <1>1, LenProperties DEF IInv, TypeOK
<1>3. k \in Handlers /\ k.op = "finalize"
  BY <1>2, PlainTaskIs DEF Ops
<1> HIDE DEF k
<1>4. spent' \in [called : BOOLEAN, upsets : Nat]
  BY <1>1 DEF IInv, TypeOK
<1>5. \A l \in tasks' \ tasks : NewFit(l) /\ l.op # "join"
  BY <1>1, <1>2, <1>3 DEF NewFit, HandlerFits
<1>6. \A q : ~Forgets(q)
  BY <1>1 DEF Forgets
<1> QED BY <1>1, <1>3, <1>4, <1>5, <1>6, KeptGit, OnlyHandlers

LEMMA FinalizeCheckedKeeps ==
    ASSUME IInv, ~Hot, NEW k \in tasks, FinalizeChecked(k)
    PROVE  IInv'
<1>1. /\ k.op = "finalize" /\ UNCHANGED <<wave, tracks, runs, git, boot>>
      /\ k \in Handlers /\ git.main \in SUBSET Nat
  BY KeptGit DEF FinalizeChecked
<1>2. spent' \in [called : BOOLEAN, upsets : Nat]
  BY SpentIs DEF FinalizeChecked, IInv
<1>3. CASE Drops(k)
  <2>1. Goes(k, {})
    BY <1>3 DEF Drops
  <2> QED BY <1>1, <1>2, <2>1, KeptGit, Moves
<1>4. CASE Then(k, "tips", git.main)
  <2>1. PICK l \in Handlers : l = [k EXCEPT !.op = "tips", !.seen = git.main]
    BY <1>1 DEF Handlers, Ops
  <2>2. Goes(k, {l}) /\ l.op = "tips" /\ l.seen = git.main
    BY <1>1, <1>4, <2>1 DEF Then, Handlers
  <2>3. git' = git /\ (wave'.status = "integrating" => wave'.integration # 0)
    <3>1. wave.status = "integrating" => wave.integration # 0
      BY <1>1 DEF IInv, CallsFit, Hot
    <3> QED BY <1>1, <3>1
  <2>4. NewFit(l)
    BY <1>1, <2>1, <2>3 DEF NewFit, HandlerFits
  <2>5. {l} \in SUBSET Handlers /\ \A m \in {l} : NewFit(m) /\ m.op # "join"
    BY <2>1, <2>2, <2>4
  <2>6. git' \in [trees : SUBSET Track, dirty : SUBSET Track, main : SUBSET Track]
        /\ git.main \subseteq git'.main
    BY <2>3, KeptGit
  <2> QED BY <1>1, <1>2, <2>2, <2>5, <2>6, Moves
<1> QED BY <1>3, <1>4 DEF FinalizeChecked

LEMMA HandleTerminalKeeps ==
    ASSUME IInv, ~Hot, NEW k \in tasks, HandleTerminal(k)
    PROVE  IInv'
<1> DEFINE l == [k EXCEPT !.op = "clean", !.seen = {}]
<1>1. /\ k.op = "ended" /\ UNCHANGED <<wave, tracks, runs, git, boot, spent>>
      /\ runs[k.at].status = "completed" /\ runs[k.at].kind = "terminal"
      /\ k \in Handlers /\ Goes(k, {l})
  BY KeptGit DEF HandleTerminal, Then
<1>2. l \in Handlers /\ l.op = "clean" /\ l.at = k.at
  BY <1>1 DEF Handlers, Ops
<1> HIDE DEF l
<1>3. k.at \in DOMAIN runs
  BY <1>1 DEF IInv, HandlersFit, HandlerFits
<1>4. NewFit(l)
  BY <1>1, <1>2, <1>3 DEF NewFit, HandlerFits
<1>5. spent' \in [called : BOOLEAN, upsets : Nat]
  BY <1>1 DEF IInv, TypeOK
<1> QED BY <1>1, <1>2, <1>4, <1>5, KeptGit, Moves

LEMMA RetryKeeps ==
    ASSUME IInv, ~Hot, Retry
    PROVE  IInv'
<1> DEFINE k == [Task("retry", 0, {}, "live") EXCEPT !.n = spent.upsets]
<1>1. tasks' = tasks \cup {k} /\ UNCHANGED <<wave, tracks, runs, git, boot>>
  BY DEF Retry
<1>2. k \in Handlers /\ k.op = "retry"
  <2>1. spent.upsets \in Nat
    BY DEF IInv, TypeOK
  <2> QED BY <2>1, TaskIs DEF Ops
<1> HIDE DEF k
<1>3. spent' \in [called : BOOLEAN, upsets : Nat]
  BY SpentIs DEF Retry, IInv
<1>4. \A l \in tasks' \ tasks : NewFit(l) /\ l.op # "join"
  BY <1>1, <1>2 DEF NewFit, HandlerFits
<1>5. \A q : ~Forgets(q)
  BY <1>1 DEF Forgets
<1> QED BY <1>1, <1>2, <1>3, <1>4, <1>5, KeptGit, OnlyHandlers

LEMMA AbortRemovedKeeps ==
    ASSUME IInv, ~Hot, NEW k \in tasks, AbortRemoved(k)
    PROVE  IInv'
<1>1. /\ k.op = "removal" /\ UNCHANGED <<wave, tracks, runs, boot, spent>>
      /\ git' = [git EXCEPT !.trees = @ \ Removable]
      /\ k \in Handlers /\ Then(k, "stop", Siblings(0))
  BY KeptGit DEF AbortRemoved
<1>2. Siblings(0) \in SUBSET Nat
  BY LenProperties DEF IInv, TypeOK, Siblings, OfWave
<1>3. PICK l \in Handlers : l = [k EXCEPT !.op = "stop", !.seen = Siblings(0)]
  BY <1>1, <1>2 DEF Handlers, Ops
<1>4. NewFit(l) /\ l.op = "stop" /\ Goes(k, {l})
  <2>1. k.at = 0
    BY <1>1 DEF IInv, HandlersFit, HandlerFits
  <2>2. l.op = "stop" /\ l.at = 0 /\ l.seen \subseteq DOMAIN runs'
    BY <1>1, <1>3, <2>1 DEF Handlers, Siblings, OfWave
  <2> QED BY <1>1, <1>3, <2>2 DEF NewFit, HandlerFits, Then
<1>5. git' \in [trees : SUBSET Track, dirty : SUBSET Track, main : SUBSET Track]
      /\ git'.main = git.main
  BY <1>1, KeptGit
<1>6. spent' \in [called : BOOLEAN, upsets : Nat]
  BY <1>1 DEF IInv, TypeOK
<1> QED BY <1>1, <1>4, <1>5, <1>6, Moves

(* A set of numbers has a least one. *)
LEMMA Least ==
    ASSUME NEW T, T \subseteq Nat, T # {}
    PROVE  \E x \in T : \A y \in T : x <= y
<1> DEFINE R == OpToRel(<, Nat)
<1>1. \A x, y \in Nat : y < x => <<y, x>> \in R
  BY DEF OpToRel
<1>2. IsWellFoundedOn(R, Nat)
  BY NatLessThanWellFounded
<1> HIDE DEF R
<1>3. PICK x \in T : \A y \in T : ~ (<<y, x>> \in R)
  BY <1>2, WFMin
<1>4. \A y \in T : x <= y
  <2> SUFFICES ASSUME NEW y \in T PROVE x <= y
    OBVIOUS
  <2>1. ~(y < x)
    BY <1>1, <1>3
  <2> QED BY <2>1
<1> QED BY <1>4

-----------------------------------------------------------------------------
(* What becomes of the runs *)

Put(rs, r, x) == [rs EXCEPT ![r] = x]

LEMMA Replaced ==
    ASSUME NEW rs \in Seq(RunRows), NEW r \in DOMAIN rs, NEW x \in RunRows
    PROVE  /\ Put(rs, r, x) \in Seq(RunRows)
           /\ DOMAIN Put(rs, r, x) = DOMAIN rs
           /\ Put(rs, r, x)[r] = x
           /\ \A q \in DOMAIN rs : q # r => Put(rs, r, x)[q] = rs[q]
<1>1. DOMAIN rs = 1..Len(rs) /\ r \in 1..Len(rs)
  BY LenProperties
<1> DEFINE ns == [rs EXCEPT ![r] = x]
<1>2. ns \in Seq(RunRows) /\ Len(ns) = Len(rs)
      /\ \A q \in 1..Len(rs) : ns[q] = IF q = r THEN x ELSE rs[q]
  BY <1>1, ExceptSeq
<1>3. DOMAIN ns = DOMAIN rs
  OBVIOUS
<1>4. Put(rs, r, x) = ns
  BY DEF Put
<1> HIDE DEF ns
<1> QED BY <1>1, <1>2, <1>3, <1>4

LEMMA RowsAre ==
    ASSUME NEW rs \in Seq(RunRows), NEW r \in DOMAIN rs
    PROVE  rs[r] \in RunRows
BY ElementOfSeq, LenProperties

LEMMA ClaimIs ==
    ASSUME NEW rs \in Seq(RunRows), NEW r \in DOMAIN rs
    PROVE  /\ Claim(rs, r) \in Seq(RunRows)
           /\ DOMAIN Claim(rs, r) = DOMAIN rs
           /\ Claim(rs, r)[r] = [rs[r] EXCEPT !.claimed = TRUE]
           /\ \A q \in DOMAIN rs : q # r => Claim(rs, r)[q] = rs[q]
<1> DEFINE x == [rs[r] EXCEPT !.claimed = TRUE]
<1>1. x \in RunRows
  <2>1. rs[r] \in RunRows
    BY RowsAre
  <2> QED BY <2>1 DEF RunRows
<1>2. Claim(rs, r) = Put(rs, r, x)
  BY DEF Claim, Put
<1> HIDE DEF x
<1>3. Claim(rs, r) \in Seq(RunRows)
  BY <1>1, <1>2, Replaced
<1>4. DOMAIN Claim(rs, r) = DOMAIN rs
  BY <1>1, <1>2, Replaced
<1>5. Claim(rs, r)[r] = x
  BY <1>1, <1>2, Replaced
<1>6. \A q \in DOMAIN rs : q # r => Claim(rs, r)[q] = rs[q]
  BY <1>1, <1>2, Replaced
<1> QED BY <1>3, <1>4, <1>5, <1>6 DEF x

(* One run ends, is paused, resumed or stopped. *)
LEMMA StatusIs ==
    ASSUME NEW rs \in Seq(RunRows), NEW r \in DOMAIN rs,
           NEW status \in {"active", "paused", "completed", "failed", "cancelled"}
    PROVE  LET ns == [rs EXCEPT ![r].status = status]
           IN /\ ns \in Seq(RunRows)
              /\ DOMAIN ns = DOMAIN rs
              /\ ns[r] = [rs[r] EXCEPT !.status = status]
              /\ \A q \in DOMAIN rs : q # r => ns[q] = rs[q]
<1> DEFINE ns == [rs EXCEPT ![r].status = status]
           x == [rs[r] EXCEPT !.status = status]
<1>1. x \in RunRows
  <2>1. rs[r] \in RunRows
    BY RowsAre
  <2> QED BY <2>1 DEF RunRows
<1>2. ns = Put(rs, r, x)
  BY DEF Put
<1> HIDE DEF x, ns
<1>3. ns \in Seq(RunRows)
  BY <1>1, <1>2, Replaced
<1>4. DOMAIN ns = DOMAIN rs
  BY <1>1, <1>2, Replaced
<1>5. ns[r] = x
  BY <1>1, <1>2, Replaced
<1>6. \A q \in DOMAIN rs : q # r => ns[q] = rs[q]
  BY <1>1, <1>2, Replaced
<1> QED BY <1>3, <1>4, <1>5, <1>6 DEF x, ns

LEMMA AppendIs ==
    ASSUME NEW rs \in Seq(RunRows), NEW x \in RunRows
    PROVE  /\ Append(rs, x) \in Seq(RunRows)
           /\ DOMAIN Append(rs, x) = DOMAIN rs \cup {Len(rs) + 1}
           /\ Len(rs) + 1 \notin DOMAIN rs
           /\ Append(rs, x)[Len(rs) + 1] = x
           /\ \A q \in DOMAIN rs : Append(rs, x)[q] = rs[q]
<1>1. DOMAIN rs = 1..Len(rs) /\ Len(rs) \in Nat
  BY LenProperties
<1>2. /\ Append(rs, x) \in Seq(RunRows) /\ Len(Append(rs, x)) = Len(rs) + 1
      /\ Append(rs, x)[Len(rs) + 1] = x
      /\ \A q \in 1..Len(rs) : Append(rs, x)[q] = rs[q]
  BY AppendProperties
<1>3. DOMAIN Append(rs, x) = 1..(Len(rs) + 1)
  BY <1>2, LenProperties
<1> QED BY <1>1, <1>2, <1>3

LEMMA NewRunIs ==
    ASSUME NEW kind \in Kinds, NEW track \in Nat, NEW parent \in Nat
    PROVE  NewRun(kind, track, parent) \in RunRows
BY DEF NewRun, RunRows

-----------------------------------------------------------------------------
(* Each part of Cold for the usual steps *)

LEMMA SameRuns ==
    ASSUME TypeOK, runs' = runs
    PROVE  /\ RunsGrow /\ New = {}
           /\ \A r \in DOMAIN runs : runs'[r].claimed => runs[r].claimed
BY DEF TypeOK, RunsGrow, New

(* A run that ended is claimed. *)
LEMMA Claimed ==
    ASSUME TypeOK, NEW q \in DOMAIN runs, runs' = Claim(runs, q)
    PROVE  /\ RunsGrow /\ New = {} /\ runs'[q].claimed /\ runs'[q].status = runs[q].status
           /\ runs'[q].kind = runs[q].kind /\ runs'[q].track = runs[q].track
           /\ \A r \in DOMAIN runs : r # q => runs'[r] = runs[r]
<1>1. runs \in Seq(RunRows)
  BY DEF TypeOK
<1>2. DOMAIN runs' = DOMAIN runs /\ runs' \in Seq(RunRows)
      /\ runs'[q] = [runs[q] EXCEPT !.claimed = TRUE]
      /\ \A r \in DOMAIN runs : r # q => runs'[r] = runs[r]
  BY <1>1, ClaimIs
<1>3. runs[q] \in RunRows
  BY <1>1, RowsAre
<1>4. /\ runs'[q].claimed /\ runs'[q].status = runs[q].status
      /\ runs'[q].kind = runs[q].kind /\ runs'[q].track = runs[q].track
      /\ runs'[q].parent = runs[q].parent
  BY <1>2, <1>3 DEF RunRows
<1> QED BY <1>2, <1>4 DEF RunsGrow, New

LEMMA NothingSettled ==
    ASSUME IInv, runs' = runs, NEW k \in tasks, NEW new, Goes(k, new),
           k.op \notin {"ended", "clean", "tip"}
    PROVE  Settles
<1>1. New = {} /\ \A r \in DOMAIN runs : runs'[r].claimed => runs[r].claimed
  BY SameRuns DEF IInv
<1>2. \A r : ~Forgets(r)
  BY DEF Forgets, Goes
<1> QED BY <1>1, <1>2 DEF Settles, Notable

-----------------------------------------------------------------------------
(* Fan-out *)

(* Wave and tracks are created: no planner was started before.             *)
LEMMA FanOutCheckedKeeps ==
    ASSUME IInv, ~Hot, NEW k \in tasks, FanOutChecked(k)
    PROVE  IInv'
<1>1. /\ k.op = "checkout" /\ UNCHANGED <<runs, git, boot>> /\ k \in Handlers
      /\ TypeOK
  BY KeptGit DEF FanOutChecked, IInv
<1>2. spent' \in [called : BOOLEAN, upsets : Nat]
  BY SpentIs DEF FanOutChecked, IInv
<1>3. CASE Drops(k) /\ UNCHANGED <<wave, tracks>>
  <2>1. Goes(k, {})
    BY <1>3 DEF Drops
  <2> QED BY <1>1, <1>2, <1>3, <2>1, KeptGit, Moves
<1>4. CASE /\ wave.status = "none"
           /\ wave' = [wave EXCEPT !.status = "provisioning"]
           /\ tracks' = [t \in Track |-> [tracks[t] EXCEPT !.status = "provisioning"]]
           /\ Then(k, "tree", Track)
  <2>1. PICK l \in Handlers : l = [k EXCEPT !.op = "tree", !.seen = Track]
    <3>1. Track \in SUBSET Nat
      BY WaveAssumption DEF Track
    <3>2. [k EXCEPT !.op = "tree", !.seen = Track] \in Handlers
      BY <1>1, <3>1 DEF Handlers, Ops
    <3> QED BY <3>2
  <2>2. l.op = "tree" /\ Goes(k, {l}) /\ tasks' = (tasks \ {k}) \cup {l}
    BY <1>1, <1>4, <2>1 DEF Handlers, Then, Goes
  <2>3. wave' \in WaveRows /\ wave'.status = "provisioning" /\ wave'.joined = wave.joined
        /\ wave'.integration = wave.integration /\ wave'.finalized = wave.finalized
    BY <1>1, <1>4 DEF TypeOK, WaveRows
  <2>4. \A t \in Track : tracks'[t].status = "provisioning" /\ tracks'[t].planner = tracks[t].planner
    BY <1>1, <1>4 DEF TypeOK, TrackRows
  <2>5. tracks' \in [Track -> TrackRows]
    BY <1>1, <1>4 DEF TypeOK, TrackRows
  <2>6. TypeOK'
    BY <1>1, <1>2, <2>2, <2>3, <2>5 DEF TypeOK
  <2>7. ~wave.finalized /\ (\A t \in Track : tracks[t].planner = 0)
    BY <1>4 DEF IInv, WaveFits
  <2>8. WaveFits'
    BY <1>1, <1>4, <2>3, <2>4, <2>7 DEF IInv, WaveFits
  <2>9. RunsGrow /\ New = {} /\ \A r \in DOMAIN runs : runs'[r].claimed => runs[r].claimed
    BY <1>1, SameRuns
  <2>10. Kept /\ NothingRestarts
    BY <1>1, <1>4, <2>3, <2>4, <2>7, <2>9 DEF Kept, NothingRestarts
  <2>11. Settles
    BY <1>1, <2>2, NothingSettled
  <2>12. NewFit(l)
    <3>1. l.seen = Track /\ 1 \in Track
      BY <1>1, <2>1, WaveAssumption DEF Handlers, Track
    <3> QED BY <2>2, <2>3, <3>1 DEF NewFit, HandlerFits
  <2>13. Cold
    BY <1>1, <2>2, <2>3, <2>9, <2>10, <2>11, <2>12 DEF Cold
  <2> QED BY <2>6, <2>8, <2>13, ColdKeeps
<1> QED BY <1>3, <1>4 DEF FanOutChecked

(* Planners are appended and named by the tracks they are for, which had   *)
(* none; nothing else changes.                                             *)
LEMMA StartPlannersIs ==
    ASSUME TypeOK, NEW rs \in Seq(RunRows), NEW missing \in SUBSET Track, NEW lost,
           StartPlanners(rs, missing, lost)
    PROVE  /\ spent' \in [called : BOOLEAN, upsets : Nat]
           /\ runs' \in Seq(RunRows) /\ DOMAIN rs \subseteq DOMAIN runs'
           /\ \A r \in DOMAIN rs : runs'[r] = rs[r]
           /\ tracks' \in [Track -> TrackRows]
           /\ \A r \in DOMAIN runs' \ DOMAIN rs :
                 /\ runs'[r].kind = "planner" /\ runs'[r].status = "active"
                 /\ runs'[r].track \in Track /\ tracks'[runs'[r].track].planner # 0
           /\ \A t \in Track :
                 \/ tracks'[t] = tracks[t]
                 \/ /\ t \in missing /\ tracks'[t].planner # 0
                    /\ tracks'[t].status = IF tracks[t].status = "provisioning" THEN "running"
                                           ELSE tracks[t].status
<1>1. PICK started \in SUBSET missing : \E order \in Ascending(started) :
        /\ CASE lost # {}         -> Upset("tree")
             [] started # missing -> Upset("planner")
             [] OTHER             -> Fine
        /\ runs' = rs \o [i \in DOMAIN order |-> NewRun("planner", order[i], 1)]
        /\ tracks' = [t \in Track |->
              IF t \notin started THEN tracks[t]
              ELSE [planner |-> Len(rs) + CHOOSE i \in DOMAIN order : order[i] = t,
                    status  |-> IF tracks[t].status = "provisioning" THEN "running"
                                ELSE tracks[t].status]]
  BY DEF StartPlanners
<1>2. PICK order \in Ascending(started) :
        /\ CASE lost # {}         -> Upset("tree")
             [] started # missing -> Upset("planner")
             [] OTHER             -> Fine
        /\ runs' = rs \o [i \in DOMAIN order |-> NewRun("planner", order[i], 1)]
        /\ tracks' = [t \in Track |->
              IF t \notin started THEN tracks[t]
              ELSE [planner |-> Len(rs) + CHOOSE i \in DOMAIN order : order[i] = t,
                    status  |-> IF tracks[t].status = "provisioning" THEN "running"
                                ELSE tracks[t].status]]
  BY <1>1
<1>3. PICK n \in Nat : order \in [1..n -> started] /\ DOMAIN order = 1..n
  <2>1. IsFiniteSet(Track)
    BY FS_Interval, WaveAssumption DEF Track
  <2>2. Cardinality(started) \in Nat
    BY <2>1, FS_Subset, FS_CardinalityType
  <2> QED BY <2>2 DEF Ascending
<1>4. started \subseteq Track /\ Track \subseteq Nat \ {0}
  BY WaveAssumption DEF Track
<1>5. \A t \in started : \E i \in 1..n : order[i] = t
  BY <1>3 DEF Ascending
<1> DEFINE p == [i \in 1..n |-> NewRun("planner", order[i], 1)]
           at(t) == CHOOSE i \in 1..n : order[i] = t
<1>6. p \in Seq(RunRows) /\ Len(p) = n /\ \A i \in 1..n : p[i] = NewRun("planner", order[i], 1)
  <2>1. \A i \in 1..n : NewRun("planner", order[i], 1) \in RunRows
    BY <1>3, <1>4, NewRunIs DEF Kinds
  <2>2. p \in [1..n -> RunRows]
    BY <2>1
  <2> QED BY <2>2, IsASeq, LenProperties
<1>7. \A t \in started : at(t) \in 1..n
  BY <1>5
<1>8. runs' = rs \o p /\ tracks' = [t \in Track |->
              IF t \notin started THEN tracks[t]
              ELSE [planner |-> Len(rs) + at(t),
                    status  |-> IF tracks[t].status = "provisioning" THEN "running"
                                ELSE tracks[t].status]]
  BY <1>2, <1>3
<1> HIDE DEF p, at
<1>9. DOMAIN rs = 1..Len(rs) /\ Len(rs) \in Nat
  BY LenProperties
<1>10. /\ runs' \in Seq(RunRows) /\ Len(runs') = Len(rs) + n
       /\ \A i \in 1..(Len(rs) + n) : runs'[i] = IF i <= Len(rs) THEN rs[i] ELSE p[i - Len(rs)]
  BY <1>6, <1>8, ConcatProperties
<1>11. DOMAIN runs' = 1..(Len(rs) + n)
  BY <1>10, LenProperties
<1>12. \A t \in started : tracks'[t].planner # 0 /\ tracks'[t] \in TrackRows
          /\ tracks'[t].status = IF tracks[t].status = "provisioning" THEN "running"
                                 ELSE tracks[t].status
  <2> SUFFICES ASSUME NEW t \in started
               PROVE tracks'[t].planner # 0 /\ tracks'[t] \in TrackRows
          /\ tracks'[t].status = IF tracks[t].status = "provisioning" THEN "running"
                                 ELSE tracks[t].status
    OBVIOUS
  <2>1. tracks'[t] = [planner |-> Len(rs) + at(t),
                      status  |-> IF tracks[t].status = "provisioning" THEN "running"
                                  ELSE tracks[t].status]
    BY <1>4, <1>8
  <2>2. Len(rs) + at(t) \in Nat \ {0}
    BY <1>7, <1>9
  <2>3. tracks[t] \in TrackRows
    BY <1>4 DEF TypeOK
  <2> QED BY <2>1, <2>2, <2>3 DEF TrackRows
<1>13. \A t \in Track : t \notin started => tracks'[t] = tracks[t]
  BY <1>8
<1>14. tracks' \in [Track -> TrackRows]
  BY <1>8, <1>12, <1>13 DEF TypeOK
<1>15. ASSUME NEW r \in DOMAIN runs' \ DOMAIN rs
       PROVE  /\ runs'[r].kind = "planner" /\ runs'[r].status = "active"
              /\ runs'[r].track \in Track /\ tracks'[runs'[r].track].planner # 0
  <2>1. r - Len(rs) \in 1..n /\ ~(r <= Len(rs)) /\ r \in 1..(Len(rs) + n)
    BY <1>9, <1>11
  <2>2. runs'[r] = NewRun("planner", order[r - Len(rs)], 1)
    BY <1>6, <1>10, <2>1
  <2>3. order[r - Len(rs)] \in started
    BY <1>3, <2>1
  <2>4. /\ runs'[r].kind = "planner" /\ runs'[r].status = "active"
        /\ runs'[r].track = order[r - Len(rs)]
    BY <2>2 DEF NewRun
  <2> QED BY <1>4, <1>12, <2>3, <2>4
<1>16. spent' \in [called : BOOLEAN, upsets : Nat]
  BY <1>2, SpentIs
<1>17. DOMAIN rs \subseteq DOMAIN runs' /\ \A r \in DOMAIN rs : runs'[r] = rs[r]
  BY <1>9, <1>10, <1>11
<1> QED BY <1>10, <1>12, <1>13, <1>14, <1>15, <1>16, <1>17

(* What starting the planners leaves of the wave *)
LEMMA PlannersKeep ==
    ASSUME IInv, wave.status # "none", wave' = Provisioned,
           NEW missing \in SUBSET Track, \A t \in missing : tracks[t].planner = 0,
           tracks' \in [Track -> TrackRows],
           \A t \in Track :
                 \/ tracks'[t] = tracks[t]
                 \/ /\ t \in missing /\ tracks'[t].planner # 0
                    /\ tracks'[t].status = IF tracks[t].status = "provisioning" THEN "running"
                                           ELSE tracks[t].status,
           RunsGrow, git'.main = git.main
    PROVE  /\ wave' \in WaveRows /\ NothingRestarts /\ WaveFits'
           /\ wave'.status # "none" /\ (wave.finalized => wave'.finalized)
           /\ wave'.integration = wave.integration
           /\ wave'.status = "integrating" => wave.status = "integrating"
           /\ \A t \in Track : tracks[t].planner # 0 => tracks'[t].planner # 0
           /\ wave'.status = "running" /\ Finished(tracks') =>
                 wave.status = "running" /\ Finished(tracks)
<1>1. TypeOK /\ WaveFits
  BY DEF IInv
<1>2. /\ wave' \in WaveRows /\ wave'.joined = wave.joined
      /\ wave'.integration = wave.integration /\ wave'.finalized = wave.finalized
      /\ wave'.status = IF wave.status = "provisioning" THEN "running" ELSE wave.status
  BY <1>1 DEF TypeOK, WaveRows, Provisioned
<1>3. \A t \in Track :
          \/ tracks'[t].status = tracks[t].status
          \/ tracks[t].status = "provisioning" /\ tracks'[t].status = "running"
  OBVIOUS
<1>4. \A t \in Track : tracks[t].planner # 0 => tracks'[t] = tracks[t]
  OBVIOUS
<1>5. Track # {} /\ \A t \in Track : tracks[t] \in TrackRows
  <2>1. 1 \in Track
    BY WaveAssumption DEF Track
  <2> QED BY <1>1, <2>1 DEF TypeOK
<1>6. NothingRestarts
  BY <1>2, <1>4 DEF NothingRestarts
<1>7. wave'.status = "running" /\ Finished(tracks') => wave.status = "running" /\ Finished(tracks)
  <2>1. Finished(tracks') => Finished(tracks)
    BY <1>3 DEF Finished
  <2>2. wave.status = "provisioning" => ~Finished(tracks)
    BY <1>1, <1>5 DEF WaveFits, Finished
  <2> QED BY <1>2, <2>1, <2>2
<1>8. WaveFits'
  <2>1. wave'.status \in {"none", "provisioning", "running"} => ~wave'.joined /\ wave'.integration = 0
    BY <1>1, <1>2 DEF WaveFits
  <2>2. wave'.integration # 0 =>
          wave'.integration \in DOMAIN runs' /\ runs'[wave'.integration].kind = "integration"
    BY <1>1, <1>2 DEF WaveFits, RunsGrow
  <2>3. wave'.status \notin {"none", "provisioning"}
    BY <1>1, <1>2 DEF TypeOK
  <2>4. wave'.status = "aborted" =>
          \A t \in Track : tracks'[t].status \in {"completed", "integrated", "aborted"}
    BY <1>1, <1>2, <1>3 DEF WaveFits
  <2>5. wave'.finalized =>
          /\ wave'.status = "completed" /\ wave'.integration # 0
          /\ \A t \in Track : tracks'[t].status = "integrated" /\ t \in git'.main
    BY <1>1, <1>2, <1>3 DEF WaveFits
  <2>6. \A t \in Track : tracks'[t].status \in {"completed", "integrated"} => tracks'[t].planner # 0
    BY <1>1, <1>3, <1>4 DEF WaveFits
  <2> QED BY <2>1, <2>2, <2>3, <2>4, <2>5, <2>6 DEF WaveFits
<1> QED BY <1>2, <1>4, <1>6, <1>7, <1>8

(* A wave that is blocked neither runs nor integrates, and asks nothing    *)
(* more of its tracks.                                                     *)
LEMMA BlockedKeeps ==
    ASSUME IInv, wave' = Blocked(wave), tracks' = tracks, git'.main = git.main,
           RunsGrow, New = {}
    PROVE  /\ wave' \in WaveRows /\ NothingRestarts /\ WaveFits'
           /\ wave'.status \notin {"running", "integrating", "provisioning"}
           /\ wave'.finalized = wave.finalized
           /\ wave.status # "none" => wave'.status \in {"blocked", "aborted", "completed"}
<1>1. TypeOK /\ WaveFits
  BY DEF IInv
<1>2. /\ wave' \in WaveRows /\ wave'.joined = wave.joined
      /\ wave'.integration = wave.integration /\ wave'.finalized = wave.finalized
      /\ wave'.status = IF wave.status \in {"provisioning", "running", "integrating"}
                        THEN "blocked" ELSE wave.status
  BY <1>1 DEF TypeOK, WaveRows, Blocked
<1>3. wave'.status \notin {"running", "integrating", "provisioning"}
      /\ (wave.status # "none" => wave'.status \in {"blocked", "aborted", "completed"})
      /\ (wave'.status # "blocked" => wave'.status = wave.status)
  BY <1>1, <1>2 DEF TypeOK, WaveRows
<1>4. WaveFits'
  <2>1. wave'.status \in {"none", "provisioning", "running"} => ~wave'.joined /\ wave'.integration = 0
    BY <1>1, <1>2, <1>3 DEF WaveFits
  <2>2. wave'.integration # 0 =>
          wave'.integration \in DOMAIN runs' /\ runs'[wave'.integration].kind = "integration"
    BY <1>1, <1>2 DEF WaveFits, RunsGrow
  <2>3. wave'.status \in {"none", "provisioning"} => wave.status = "none"
    BY <1>3
  <2>4. \A r \in DOMAIN runs' : r \in DOMAIN runs /\ runs'[r].kind = runs[r].kind
    BY DEF RunsGrow, New
  <2>5. wave'.status = "aborted" =>
          \A t \in Track : tracks'[t].status \in {"completed", "integrated", "aborted"}
    BY <1>1, <1>3 DEF WaveFits
  <2>6. wave'.finalized =>
          /\ wave'.status = "completed" /\ wave'.integration # 0
          /\ \A t \in Track : tracks'[t].status = "integrated" /\ t \in git'.main
    BY <1>1, <1>2 DEF WaveFits
  <2>7. \A t \in Track : tracks'[t].status \in {"completed", "integrated"} => tracks'[t].planner # 0
    BY <1>1 DEF WaveFits
  <2>8. wave'.status \in {"none", "provisioning"} =>
          /\ \A t \in Track : tracks'[t].status \in {"none", "provisioning"} /\ tracks'[t].planner = 0
          /\ \A r \in DOMAIN runs' : runs'[r].kind \in {"coordinator", "serial"}
    BY <1>1, <2>3, <2>4 DEF WaveFits
  <2> QED BY <2>1, <2>2, <2>5, <2>6, <2>7, <2>8 DEF WaveFits
<1>5. NothingRestarts
  BY <1>3, <1>1 DEF NothingRestarts, TypeOK, WaveRows
<1> QED BY <1>2, <1>3, <1>4, <1>5

LEMMA FanOutTreeKeeps ==
    ASSUME IInv, ~Hot, NEW k \in tasks, FanOutTree(k)
    PROVE  IInv'
<1> DEFINE t == CHOOSE t \in k.seen : \A u \in k.seen : t <= u
<1>1. /\ k.op = "tree" /\ boot' = boot /\ k \in Handlers /\ TypeOK
  BY KeptGit DEF FanOutTree, IInv
<1>2. wave.status # "none"
  BY <1>1 DEF IInv, HandlersFit, HandlerFits
<1>3. CASE /\ Upset("tree")
           /\ wave' = Blocked(wave)
           /\ Drops(k)
           /\ UNCHANGED <<tracks, runs, git>>
  <2>1. spent' \in [called : BOOLEAN, upsets : Nat] /\ Goes(k, {}) /\ tasks' = tasks \ {k}
    BY <1>1, <1>3, SpentIs DEF Drops, Goes
  <2>2. RunsGrow /\ New = {} /\ \A r \in DOMAIN runs : runs'[r].claimed => runs[r].claimed
    BY <1>1, <1>3, SameRuns
  <2>3. /\ wave' \in WaveRows /\ NothingRestarts /\ WaveFits'
        /\ wave'.status \notin {"running", "integrating", "provisioning"}
        /\ wave'.finalized = wave.finalized
        /\ wave.status # "none" => wave'.status \in {"blocked", "aborted", "completed"}
    BY <1>3, <2>2, BlockedKeeps
  <2>4. TypeOK'
    BY <1>1, <1>3, <2>1, <2>3 DEF TypeOK
  <2>5. Kept
    BY <1>3, <2>2, <2>3 DEF Kept
  <2>6. Settles
    BY <1>1, <1>3, <2>1, NothingSettled
  <2>7. Cold
    BY <1>1, <2>1, <2>2, <2>3, <2>5, <2>6 DEF Cold
  <2> QED BY <2>3, <2>4, <2>7, ColdKeeps
<1>3a. t \in Track /\ t \in k.seen /\ k.seen \subseteq Track
  <2>1. k.seen # {} /\ k.seen \subseteq Track /\ Track \subseteq Nat
    BY <1>1, WaveAssumption DEF IInv, HandlersFit, HandlerFits, Track
  <2>2. \E u \in k.seen : \A v \in k.seen : u <= v
    BY <2>1, Least
  <2> QED BY <2>1, <2>2
<1>4. ASSUME git' = [git EXCEPT !.trees = @ \cup {t}], k.seen # {t}, Fine,
             Then(k, "tree", k.seen \ {t}), UNCHANGED <<wave, tracks, runs>>
      PROVE  IInv'
  <2>1. PICK l \in Handlers : l = [k EXCEPT !.op = "tree", !.seen = k.seen \ {t}]
    <3>1. [k EXCEPT !.op = "tree", !.seen = k.seen \ {t}] \in Handlers
      BY <1>1 DEF Handlers, Ops
    <3> QED BY <3>1
  <2>2. l.op = "tree" /\ Goes(k, {l})
    BY <1>1, <1>4, <2>1 DEF Handlers, Then
  <2>3. git' \in [trees : SUBSET Track, dirty : SUBSET Track, main : SUBSET Track]
        /\ git'.main = git.main
    BY <1>4, <1>3a, KeptGit
  <2>4. l.seen # {} /\ l.seen \subseteq Track
    <3>1. l.seen = k.seen \ {t}
      BY <1>1, <2>1 DEF Handlers
    <3> HIDE DEF t
    <3> QED BY <1>3a, <1>4, <3>1
  <2>5. NewFit(l)
    BY <1>2, <1>4, <2>2, <2>4 DEF NewFit, HandlerFits
  <2>6. spent' \in [called : BOOLEAN, upsets : Nat]
    BY <1>1, <1>4, SpentIs
  <2>7. {l} \in SUBSET Handlers /\ \A m \in {l} : NewFit(m) /\ m.op # "join"
    BY <2>1, <2>2, <2>5
  <2>8. /\ UNCHANGED <<wave, tracks, runs, boot>> /\ git.main \subseteq git'.main
        /\ k.op \notin {"ended", "clean", "tip"}
    BY <1>1, <1>4, <2>3
  <2> QED BY <2>2, <2>3, <2>6, <2>7, <2>8, Moves
<1>5. ASSUME git' = [git EXCEPT !.trees = @ \cup {t}], wave' = Provisioned,
             StartPlanners(Claim(runs, 1), {u \in Track : tracks[u].planner = 0}, {}),
             Drops(k)
      PROVE  IInv'
  <2> DEFINE rs == Claim(runs, 1)
             missing == {u \in Track : tracks[u].planner = 0}
  <2>1. Goes(k, {}) /\ tasks' = tasks \ {k}
    BY <1>5 DEF Drops, Goes
  <2>2. /\ rs \in Seq(RunRows) /\ DOMAIN rs = DOMAIN runs
        /\ rs[1] = [runs[1] EXCEPT !.claimed = TRUE]
        /\ \A r \in DOMAIN runs : r # 1 => rs[r] = runs[r]
    BY <1>1, ClaimIs DEF TypeOK
  <2> HIDE DEF rs
  <2>3. /\ spent' \in [called : BOOLEAN, upsets : Nat]
        /\ runs' \in Seq(RunRows) /\ DOMAIN rs \subseteq DOMAIN runs'
        /\ \A r \in DOMAIN rs : runs'[r] = rs[r]
        /\ tracks' \in [Track -> TrackRows]
        /\ \A r \in DOMAIN runs' \ DOMAIN rs :
              /\ runs'[r].kind = "planner" /\ runs'[r].status = "active"
              /\ runs'[r].track \in Track /\ tracks'[runs'[r].track].planner # 0
        /\ \A u \in Track :
              \/ tracks'[u] = tracks[u]
              \/ /\ u \in missing /\ tracks'[u].planner # 0
                 /\ tracks'[u].status = IF tracks[u].status = "provisioning" THEN "running"
                                        ELSE tracks[u].status
    <3>1. StartPlanners(rs, missing, {}) /\ missing \in SUBSET Track
      BY <1>5 DEF rs
    <3> HIDE DEF missing
    <3> QED BY <1>1, <2>2, <3>1, StartPlannersIs
  <2>4. runs[1] \in RunRows /\ runs[1].kind = "coordinator"
    BY <1>1, RowsAre DEF IInv, TypeOK, RunsFit
  <2>5. /\ rs[1].kind = runs[1].kind /\ rs[1].track = runs[1].track
        /\ rs[1].parent = runs[1].parent /\ rs[1].status = runs[1].status /\ rs[1].claimed
    BY <2>2, <2>4 DEF RunRows
  <2>6. RunsGrow
    <3>1. \A r \in DOMAIN runs :
            /\ rs[r].kind = runs[r].kind /\ rs[r].track = runs[r].track
            /\ rs[r].parent = runs[r].parent /\ rs[r].status = runs[r].status
            /\ runs[r].claimed => rs[r].claimed
      BY <2>2, <2>5
    <3> QED BY <2>2, <2>3, <3>1 DEF RunsGrow
  <2>7. git' \in [trees : SUBSET Track, dirty : SUBSET Track, main : SUBSET Track]
        /\ git'.main = git.main
    BY <1>3a, <1>5, KeptGit
  <2>8. /\ wave' \in WaveRows /\ NothingRestarts /\ WaveFits'
        /\ wave'.status # "none" /\ (wave.finalized => wave'.finalized)
        /\ wave'.integration = wave.integration
        /\ wave'.status = "integrating" => wave.status = "integrating"
        /\ \A u \in Track : tracks[u].planner # 0 => tracks'[u].planner # 0
        /\ wave'.status = "running" /\ Finished(tracks') =>
              wave.status = "running" /\ Finished(tracks)
    <3>1. missing \in SUBSET Track /\ \A u \in missing : tracks[u].planner = 0
      OBVIOUS
    <3> HIDE DEF missing
    <3> QED BY <1>2, <1>5, <2>3, <2>6, <2>7, <3>1, PlannersKeep
  <2> HIDE DEF missing
  <2>9. TypeOK'
    <3>1. 1 \in DOMAIN runs' /\ tasks' \subseteq Handlers
      BY <1>1, <2>1, <2>2, <2>3 DEF TypeOK
    <3> QED BY <1>1, <2>3, <2>7, <2>8, <3>1 DEF TypeOK
  <2>10. \A r \in DOMAIN runs : runs'[r] = rs[r]
    BY <2>2, <2>3
  <2>11. \A r \in DOMAIN runs : runs'[r].claimed /\ ~runs[r].claimed => r = 1
    BY <2>2, <2>10
  <2>12. runs'[1].kind = "coordinator"
    BY <1>1, <2>4, <2>5, <2>10 DEF TypeOK
  <2>13. Kept
    BY <2>4, <2>6, <2>7, <2>8, <2>11 DEF Kept
  <2>14. \A r \in New : /\ runs'[r].kind = "planner" /\ runs'[r].status = "active"
                        /\ runs'[r].track \in Track /\ tracks'[runs'[r].track].planner # 0
    BY <2>2, <2>3 DEF New
  <2>15. \A r \in New : RunFits(r)'
    BY <2>14 DEF RunFits
  <2>16. Settles
    <3>1. \A r \in DOMAIN runs : runs'[r].claimed /\ ~runs[r].claimed => Settled(r)'
      BY <2>11, <2>12 DEF Settled
    <3>2. \A r : ~Forgets(r)
      BY <1>1, <2>1 DEF Forgets
    <3>3. \A r \in DOMAIN runs : runs'[r].status = runs[r].status
      BY <2>2, <2>5, <2>10
    <3> QED BY <2>14, <3>1, <3>2, <3>3 DEF Settles, Notable
  <2>17. Cold
    BY <1>1, <2>1, <2>8, <2>13, <2>15, <2>16 DEF Cold
  <2> QED BY <2>8, <2>9, <2>17, ColdKeeps
<1> QED BY <1>1, <1>3, <1>4, <1>5 DEF FanOutTree

-----------------------------------------------------------------------------
(* The agents *)

LEMMA WaveFitsKept ==
    ASSUME IInv, UNCHANGED <<wave, tracks>>, RunsGrow,
           git.main \subseteq git'.main,
           \A r \in New : runs'[r].kind = "serial" \/ wave.status \notin {"none", "provisioning"}
    PROVE  WaveFits' /\ NothingRestarts
<1>1. WaveFits /\ wave' = wave /\ tracks' = tracks
  BY DEF IInv
<1>2. wave.integration # 0 =>
        wave.integration \in DOMAIN runs' /\ runs'[wave.integration].kind = "integration"
  BY <1>1 DEF WaveFits, RunsGrow
<1>3. wave.status \in {"none", "provisioning"} =>
        \A r \in DOMAIN runs' : runs'[r].kind \in {"coordinator", "serial"}
  BY <1>1 DEF WaveFits, RunsGrow, New
<1>4. wave.finalized => \A t \in Track : tracks[t].status = "integrated" /\ t \in git'.main
  BY <1>1 DEF WaveFits
<1>5. WaveFits'
  BY <1>1, <1>2, <1>3, <1>4 DEF WaveFits
<1> QED BY <1>1, <1>5 DEF NothingRestarts

LEMMA EndsKeeps ==
    ASSUME IInv, ~Hot, NEW r \in DOMAIN runs, NEW status \in {"completed", "failed"},
           Ends(r, status)
    PROVE  IInv'
<1> DEFINE k == Task("ended", r, {}, "live")
<1>1. /\ runs[r].status = "active" /\ runs' = [runs EXCEPT ![r].status = status]
      /\ tasks' = tasks \cup {k} /\ UNCHANGED <<wave, tracks, boot>> /\ TypeOK
  BY DEF Ends, IInv
<1>2. /\ runs' \in Seq(RunRows) /\ DOMAIN runs' = DOMAIN runs
      /\ runs'[r] = [runs[r] EXCEPT !.status = status]
      /\ \A q \in DOMAIN runs : q # r => runs'[q] = runs[q]
  BY <1>1, StatusIs DEF TypeOK
<1>3. runs[r] \in RunRows
  BY <1>1, RowsAre DEF TypeOK
<1>4. /\ runs'[r].kind = runs[r].kind /\ runs'[r].track = runs[r].track
      /\ runs'[r].parent = runs[r].parent /\ (runs'[r].claimed = runs[r].claimed)
      /\ runs'[r].status = status
  BY <1>2, <1>3 DEF RunRows
<1>5. RunsGrow /\ New = {}
  BY <1>1, <1>2, <1>4 DEF RunsGrow, New
<1>6. k \in Handlers /\ k.op = "ended" /\ k.at = r
  <2>1. r \in Nat
    BY <1>1, LenProperties DEF TypeOK
  <2> QED BY <2>1, PlainTaskIs DEF Ops
<1> HIDE DEF k
<1>7. spent' \in [called : BOOLEAN, upsets : Nat]
  BY <1>1, SpentIs DEF Ends
<1>8. /\ git' \in [trees : SUBSET Track, dirty : SUBSET Track, main : SUBSET Track]
      /\ git'.main = git.main
  <2>1. CASE UNCHANGED git
    BY <2>1, KeptGit
  <2>2. CASE runs[r].kind = "terminal" /\ git' = [git EXCEPT !.dirty = @ \cup {runs[r].track}]
    <3>1. runs[r].track \in Track
      BY <2>2 DEF IInv, RunsFit, RunFits
    <3> QED BY <2>2, <3>1, KeptGit
  <2> QED BY <2>1, <2>2 DEF Ends
<1>9. TypeOK'
  BY <1>1, <1>2, <1>6, <1>7, <1>8 DEF TypeOK
<1>10. WaveFits' /\ NothingRestarts
  BY <1>1, <1>5, <1>8, WaveFitsKept
<1>11. \A q \in DOMAIN runs : runs'[q].claimed => runs[q].claimed
  BY <1>2, <1>4
<1>12. Kept
  BY <1>1, <1>5, <1>8, <1>11 DEF Kept
<1>13. Settles
  <2>1. \A q \in DOMAIN runs : ~Forgets(q)
    BY <1>1 DEF Forgets
  <2>2. Noted(r)'
    BY <1>1, <1>6 DEF Noted
  <2>3. \A q \in DOMAIN runs : q # r => (Notable(q)' <=> Notable(q))
    BY <1>2 DEF Notable
  <2> QED BY <1>5, <1>11, <2>1, <2>2, <2>3 DEF Settles, Notable
<1>14. \A l \in tasks' \ tasks : l = k
  BY <1>1
<1>15. \A l \in tasks' \ tasks : NewFit(l)
  <2> SUFFICES ASSUME NEW l \in tasks' \ tasks PROVE NewFit(l)
    OBVIOUS
  <2>1. l.op = "ended" /\ l.at = r
    BY <1>6, <1>14
  <2> QED BY <1>2, <1>4, <2>1 DEF NewFit, HandlerFits
<1>16. Cold
  BY <1>1, <1>5, <1>10, <1>12, <1>13, <1>14, <1>15 DEF Cold
<1> QED BY <1>9, <1>10, <1>16, ColdKeeps

LEMMA MergeKeeps ==
    ASSUME IInv, ~Hot, NEW t \in Track, Merge(t)
    PROVE  IInv'
<1>1. /\ git' = [git EXCEPT !.main = @ \cup {t}]
      /\ UNCHANGED <<wave, tracks, runs, tasks, boot, spent>>
  BY DEF Merge
<1>2. /\ git' \in [trees : SUBSET Track, dirty : SUBSET Track, main : SUBSET Track]
      /\ git.main \subseteq git'.main
  BY <1>1, KeptGit
<1>3. spent' \in [called : BOOLEAN, upsets : Nat]
  BY <1>1 DEF IInv, TypeOK
<1>4. tasks' = tasks /\ \A r : ~Forgets(r)
  BY <1>1 DEF Forgets
<1> QED BY <1>1, <1>2, <1>3, <1>4, KeptGit, OnlyHandlers

LEMMA BlockKeeps ==
    ASSUME IInv, ~Hot, NEW r, Block(r)
    PROVE  IInv'
<1>1. wave' = Blocked(wave) /\ UNCHANGED <<tracks, runs, git, tasks, boot, spent>> /\ TypeOK
      /\ wave' # wave
  BY DEF Block, IInv
<1>2. RunsGrow /\ New = {} /\ \A q \in DOMAIN runs : runs'[q].claimed => runs[q].claimed
  BY <1>1, SameRuns
<1>3. wave.status # "none"
  BY <1>1 DEF Blocked
<1>4. /\ wave' \in WaveRows /\ NothingRestarts /\ WaveFits'
      /\ wave'.status \notin {"running", "integrating", "provisioning"}
      /\ wave'.finalized = wave.finalized
      /\ wave.status # "none" => wave'.status \in {"blocked", "aborted", "completed"}
  BY <1>1, <1>2, BlockedKeeps
<1>5. TypeOK'
  BY <1>1, <1>4 DEF TypeOK
<1>6. Kept
  BY <1>1, <1>2, <1>3, <1>4 DEF Kept
<1>7. Settles
  BY <1>1, <1>2 DEF Settles, Forgets, Notable
<1>8. Cold
  BY <1>1, <1>2, <1>4, <1>6, <1>7 DEF Cold
<1> QED BY <1>4, <1>5, <1>8, ColdKeeps

(* The tips that were read are on main still, and an integrating wave that *)
(* is asked to finalize has its integration run.                           *)
LEMMA FinalizeMergedKeeps ==
    ASSUME IInv, ~Hot, NEW k \in tasks, FinalizeMerged(k)
    PROVE  IInv'
<1>1. /\ k.op = "tips" /\ Goes(k, {}) /\ tasks' = tasks \ {k} /\ k \in Handlers /\ TypeOK
      /\ UNCHANGED <<runs, boot, spent>>
  BY KeptGit DEF FinalizeMerged, Drops, Goes, IInv
<1>2. RunsGrow /\ New = {} /\ \A q \in DOMAIN runs : runs'[q].claimed => runs[q].claimed
  BY <1>1, SameRuns
<1>3. spent' \in [called : BOOLEAN, upsets : Nat]
  BY <1>1 DEF TypeOK
<1>4. CASE UNCHANGED <<wave, tracks, git>>
  BY <1>1, <1>3, <1>4, KeptGit, Moves
<1>5. ASSUME /\ AllMerged(k) /\ Finished(tracks) /\ wave.status = "integrating"
             /\ wave' = [wave EXCEPT !.status = "completed", !.finalized = TRUE]
             /\ tracks' = [t \in Track |-> [tracks[t] EXCEPT !.status = "integrated"]]
             /\ git' = [git EXCEPT !.trees = @ \ Removable]
      PROVE  IInv'
  <2>1. /\ git' \in [trees : SUBSET Track, dirty : SUBSET Track, main : SUBSET Track]
        /\ git'.main = git.main
    BY <1>5, KeptGit
  <2>2. Track \subseteq git.main
    BY <1>1, <1>5 DEF AllMerged, IInv, HandlersFit, HandlerFits
  <2>3. wave.integration # 0
    BY <1>1, <1>5 DEF IInv, CallsFit, Hot
  <2>4. wave' \in WaveRows /\ wave'.status = "completed" /\ wave'.finalized
    BY <1>1, <1>5 DEF TypeOK, WaveRows
  <2>5. wave'.integration = wave.integration
    BY <1>1, <1>5 DEF TypeOK, WaveRows
  <2>6. tracks' \in [Track -> TrackRows]
    BY <1>1, <1>5 DEF TypeOK, TrackRows
  <2>7. \A t \in Track : tracks'[t].status = "integrated" /\ tracks'[t].planner = tracks[t].planner
    BY <1>1, <1>5 DEF TypeOK, TrackRows
  <2>8. \A t \in Track : tracks[t].planner # 0
    BY <1>5 DEF IInv, WaveFits, Finished
  <2>9. WaveFits'
    <3>1. wave'.integration \in DOMAIN runs' /\ runs'[wave'.integration].kind = "integration"
      BY <1>1, <2>3, <2>5 DEF IInv, WaveFits
    <3> QED BY <2>1, <2>2, <2>3, <2>4, <2>5, <2>7, <2>8, <3>1 DEF WaveFits
  <2>10. TypeOK'
    BY <1>1, <1>3, <2>1, <2>4, <2>6 DEF TypeOK
  <2>11. Kept /\ NothingRestarts
    BY <1>2, <2>1, <2>4, <2>7, <2>8 DEF Kept, NothingRestarts
  <2>12. Settles
    BY <1>1, NothingSettled
  <2>13. Cold
    BY <1>1, <1>2, <2>4, <2>11, <2>12 DEF Cold
  <2> QED BY <2>9, <2>10, <2>13, ColdKeeps
<1> QED BY <1>4, <1>5 DEF FinalizeMerged

-----------------------------------------------------------------------------
(* Terminal events *)

(* The chain goes on from a run that ended: it is claimed, and its         *)
(* successor inserted.                                                     *)
LEMMA OnwardIs ==
    ASSUME TypeOK, NEW r \in DOMAIN runs, Onward(r),
           runs[r].status \in {"completed", "failed"}, RunFits(r)
    PROVE  /\ RunsGrow
           /\ \A q \in DOMAIN runs :
                 /\ runs'[q].status = runs[q].status
                 /\ runs'[q].claimed => runs[q].claimed \/ q = r
           /\ runs'[r].claimed
           /\ \A q \in New :
                 /\ runs'[q].status = "active" /\ ~runs'[q].claimed
                 /\ IF runs[r].kind = "planner"
                    THEN runs'[q].kind = "terminal" /\ runs'[q].track = runs[r].track
                    ELSE runs'[q].kind = "serial" /\ runs'[q].parent = r
<1>1. CASE runs[r].claimed
  <2>1. runs' = runs
    BY <1>1 DEF Onward
  <2>2. RunsGrow /\ New = {}
    BY <2>1, SameRuns
  <2> QED BY <1>1, <2>1, <2>2
<1>2. CASE ~runs[r].claimed
  <2> DEFINE next == IF runs[r].kind = "planner" THEN NewRun("terminal", runs[r].track, r)
                     ELSE NewRun("serial", 0, r)
             rs == Claim(runs, r)
  <2>1. runs' = Append(rs, next)
    BY <1>2 DEF Onward
  <2>2. runs \in Seq(RunRows) /\ runs[r] \in RunRows /\ r \in Nat
    BY RowsAre, LenProperties DEF TypeOK
  <2>3. /\ next \in RunRows /\ next.status = "active" /\ ~next.claimed
        /\ IF runs[r].kind = "planner"
           THEN next.kind = "terminal" /\ next.track = runs[r].track
           ELSE next.kind = "serial" /\ next.parent = r
    <3>1. runs[r].track \in Nat
      BY <2>2 DEF RunRows
    <3>2. NewRun("terminal", runs[r].track, r) \in RunRows /\ NewRun("serial", 0, r) \in RunRows
      BY <2>2, <3>1, NewRunIs DEF Kinds
    <3> QED BY <3>2 DEF NewRun
  <2> HIDE DEF next
  <2>4. /\ rs \in Seq(RunRows) /\ DOMAIN rs = DOMAIN runs
        /\ rs[r] = [runs[r] EXCEPT !.claimed = TRUE]
        /\ \A q \in DOMAIN runs : q # r => rs[q] = runs[q]
    BY <2>2, ClaimIs
  <2> HIDE DEF rs
  <2>5. /\ rs[r].kind = runs[r].kind /\ rs[r].track = runs[r].track
        /\ rs[r].parent = runs[r].parent /\ rs[r].status = runs[r].status /\ rs[r].claimed
    BY <2>2, <2>4 DEF RunRows
  <2>6. /\ runs' \in Seq(RunRows) /\ DOMAIN runs' = DOMAIN rs \cup {Len(rs) + 1}
        /\ Len(rs) + 1 \notin DOMAIN rs /\ runs'[Len(rs) + 1] = next
        /\ \A q \in DOMAIN rs : runs'[q] = rs[q]
    BY <2>1, <2>3, <2>4, AppendIs
  <2>7. \A q \in DOMAIN runs :
          /\ rs[q].kind = runs[q].kind /\ rs[q].track = runs[q].track
          /\ rs[q].parent = runs[q].parent /\ rs[q].status = runs[q].status
          /\ runs[q].claimed => rs[q].claimed
          /\ rs[q].claimed => runs[q].claimed \/ q = r
    BY <2>4, <2>5
  <2>8. RunsGrow
    BY <2>4, <2>6, <2>7 DEF RunsGrow
  <2>9. \A q \in New : runs'[q] = next
    BY <2>4, <2>6 DEF New
  <2>10. \A q \in DOMAIN runs :
           /\ runs'[q].status = runs[q].status
           /\ runs'[q].claimed => runs[q].claimed \/ q = r
    BY <2>4, <2>6, <2>7
  <2>11. runs'[r].claimed
    BY <2>4, <2>5, <2>6
  <2>12. \A q \in New :
           /\ runs'[q].status = "active" /\ ~runs'[q].claimed
           /\ IF runs[r].kind = "planner"
              THEN runs'[q].kind = "terminal" /\ runs'[q].track = runs[r].track
              ELSE runs'[q].kind = "serial" /\ runs'[q].parent = r
    BY <2>3, <2>9
  <2> QED BY <2>8, <2>10, <2>11, <2>12
<1> QED BY <1>1, <1>2

(* Onward from a planner, the coordinator or, once the wave is finalized,  *)
(* the integration run, whose handler is done.                             *)
LEMMA OnwardKeeps ==
    ASSUME IInv, ~Hot, NEW k \in tasks, k.op = "ended", runs[k.at].status = "completed",
           runs[k.at].kind # "terminal",
           runs[k.at].kind = "integration" => wave.finalized,
           Onward(k.at), Drops(k), UNCHANGED <<wave, tracks, git, boot, spent>>
    PROVE  IInv'
<1> DEFINE r == k.at
<1>1. TypeOK /\ r \in DOMAIN runs /\ RunFits(r) /\ runs[r] \in RunRows
  <2>1. TypeOK /\ r \in DOMAIN runs
    BY DEF IInv, HandlersFit, HandlerFits
  <2> QED BY <2>1, RowsAre DEF IInv, RunsFit, TypeOK
<1>2. /\ RunsGrow
      /\ \A q \in DOMAIN runs :
            /\ runs'[q].status = runs[q].status
            /\ runs'[q].claimed => runs[q].claimed \/ q = r
      /\ runs'[r].claimed
      /\ \A q \in New :
            /\ runs'[q].status = "active" /\ ~runs'[q].claimed
            /\ IF runs[r].kind = "planner"
               THEN runs'[q].kind = "terminal" /\ runs'[q].track = runs[r].track
               ELSE runs'[q].kind = "serial" /\ runs'[q].parent = r
  BY <1>1, OnwardIs
<1>3. tasks' = tasks \ {k}
  BY DEF Drops, Goes
<1>4. TypeOK'
  <2>1. runs' \in Seq(RunRows) /\ 1 \in DOMAIN runs'
    BY <1>1, <1>2 DEF RunsGrow, TypeOK
  <2> QED BY <1>1, <1>3, <2>1 DEF TypeOK
<1>5. runs[r].kind = "planner" => wave.status \notin {"none", "provisioning"}
  BY <1>1 DEF IInv, WaveFits
<1>6. WaveFits' /\ NothingRestarts
  BY <1>2, <1>5, WaveFitsKept
<1>7. Kept
  BY <1>1, <1>2 DEF Kept
<1>8. \A q \in New : RunFits(q)'
  <2> SUFFICES ASSUME NEW q \in New PROVE RunFits(q)'
    OBVIOUS
  <2>1. CASE runs[r].kind = "planner"
    <3>1. runs'[q].kind = "terminal" /\ runs'[q].track = runs[r].track /\ ~runs'[q].claimed
      BY <1>2, <2>1
    <3>2. runs[r].track \in Track /\ tracks'[runs[r].track].planner # 0
      BY <1>1, <2>1 DEF RunFits
    <3> QED BY <3>1, <3>2 DEF RunFits
  <2>2. CASE runs[r].kind # "planner"
    <3>1. runs'[q].kind = "serial" /\ runs'[q].parent = r
      BY <1>2, <2>2
    <3>2. r \in DOMAIN runs' /\ runs'[r].kind = runs[r].kind
      BY <1>1, <1>2 DEF RunsGrow
    <3> QED BY <3>1, <3>2 DEF RunFits
  <2> QED BY <2>1, <2>2
<1>9. Settles
  <2>1. \A q \in DOMAIN runs : runs'[q].claimed /\ ~runs[q].claimed => Settled(q)'
    <3>1. runs'[r].kind # "terminal"
      BY <1>1, <1>2 DEF RunsGrow
    <3> QED BY <1>2, <3>1 DEF Settled
  <2>2. \A q \in DOMAIN runs : Forgets(q) => Noted(q)'
    BY <1>2, <1>3 DEF Forgets, Noted
  <2> QED BY <1>2, <2>1, <2>2 DEF Settles, Notable
<1>10. Cold
  BY <1>2, <1>3, <1>6, <1>7, <1>8, <1>9 DEF Cold
<1> QED BY <1>4, <1>6, <1>10, ColdKeeps

LEMMA HandleStepKeeps ==
    ASSUME IInv, ~Hot, NEW k \in tasks, HandleStep(k)
    PROVE  IInv'
BY OnwardKeeps DEF HandleStep

(* The run that ended is settled and the wave blocked.                     *)
LEMMA SettleKeeps ==
    ASSUME IInv, ~Hot, NEW k \in tasks, k.at \in DOMAIN runs,
           runs[k.at].status \in {"completed", "failed"},
           runs[k.at].kind \in {"planner", "terminal", "integration"},
           wave' = Blocked(wave), runs' = Claim(runs, k.at), Drops(k),
           UNCHANGED <<tracks, git, boot>>,
           spent' \in [called : BOOLEAN, upsets : Nat]
    PROVE  IInv'
<1> DEFINE r == k.at
<1>1. TypeOK /\ tasks' = tasks \ {k}
  BY DEF IInv, Drops, Goes
<1>2. /\ RunsGrow /\ New = {} /\ runs'[r].claimed /\ runs'[r].status = runs[r].status
      /\ \A q \in DOMAIN runs : q # r => runs'[q] = runs[q]
  BY <1>1, Claimed
<1>3. wave.status # "none"
  BY DEF IInv, WaveFits
<1>4. /\ wave' \in WaveRows /\ NothingRestarts /\ WaveFits'
      /\ wave'.status \notin {"running", "integrating", "provisioning"}
      /\ wave'.finalized = wave.finalized
      /\ wave'.status \in {"blocked", "aborted", "completed"}
  BY <1>2, <1>3, BlockedKeeps
<1>5. TypeOK'
  <2>1. runs' \in Seq(RunRows) /\ 1 \in DOMAIN runs'
    BY <1>1, <1>2 DEF RunsGrow, TypeOK
  <2> QED BY <1>1, <1>4, <2>1 DEF TypeOK
<1>6. Kept
  BY <1>2, <1>4 DEF Kept
<1>7. Settles
  <2>1. \A q \in DOMAIN runs : Settled(q)'
    BY <1>4 DEF Settled
  <2>2. \A q \in DOMAIN runs : Forgets(q) => Noted(q)'
    BY <1>1, <1>2 DEF Forgets, Noted
  <2>3. \A q \in DOMAIN runs : runs'[q].status = runs[q].status
    BY <1>2
  <2> QED BY <1>2, <2>1, <2>2, <2>3 DEF Settles, Notable
<1>8. Cold
  BY <1>1, <1>2, <1>4, <1>6, <1>7 DEF Cold
<1> QED BY <1>4, <1>5, <1>8, ColdKeeps

LEMMA HandleIntegrationKeeps ==
    ASSUME IInv, ~Hot, NEW k \in tasks, HandleIntegration(k)
    PROVE  IInv'
<1>1. k.at \in DOMAIN runs /\ runs[k.at].status \in {"completed", "failed"}
  BY DEF IInv, HandlersFit, HandlerFits, HandleIntegration
<1>2. CASE MovesOn(k.at) /\ Onward(k.at) /\ UNCHANGED wave
  BY <1>2, OnwardKeeps DEF HandleIntegration, MovesOn
<1>3. CASE wave' = Blocked(wave) /\ runs' = Claim(runs, k.at)
  <2>1. spent' \in [called : BOOLEAN, upsets : Nat]
    BY DEF IInv, TypeOK, HandleIntegration
  <2> QED BY <1>1, <1>3, <2>1, SettleKeeps DEF HandleIntegration
<1> QED BY <1>2, <1>3 DEF HandleIntegration

LEMMA TrackCleanKeeps ==
    ASSUME IInv, ~Hot, NEW k \in tasks, TrackClean(k)
    PROVE  IInv'
<1>1. /\ k.op = "clean" /\ UNCHANGED <<tracks, git, boot, spent>> /\ k \in Handlers
      /\ k.at \in DOMAIN runs /\ runs[k.at].kind = "terminal" /\ runs[k.at].status = "completed"
  BY KeptGit DEF IInv, HandlersFit, HandlerFits, TrackClean
<1>2. spent' \in [called : BOOLEAN, upsets : Nat]
  BY <1>1 DEF IInv, TypeOK
<1>3. CASE Then(k, "tip", {}) /\ UNCHANGED <<wave, runs>>
  <2>1. PICK l \in Handlers : l = [k EXCEPT !.op = "tip", !.seen = {}]
    <3>1. [k EXCEPT !.op = "tip", !.seen = {}] \in Handlers
      BY <1>1 DEF Handlers, Ops
    <3> QED BY <3>1
  <2>2. l.op = "tip" /\ l.at = k.at /\ Goes(k, {l})
    BY <1>1, <1>3, <2>1 DEF Handlers, Then
  <2>3. NewFit(l)
    BY <1>1, <1>3, <2>2 DEF NewFit, HandlerFits
  <2>4. {l} \in SUBSET Handlers /\ \A m \in {l} : NewFit(m) /\ m.op # "join"
    BY <2>1, <2>2, <2>3
  <2>5. /\ UNCHANGED <<wave, tracks, runs, boot>>
        /\ git' \in [trees : SUBSET Track, dirty : SUBSET Track, main : SUBSET Track]
        /\ git.main \subseteq git'.main
    BY <1>1, <1>3, KeptGit
  <2>6. \E m \in {l} : m.at = k.at /\ m.op \in {"ended", "clean", "tip"}
    BY <2>2
  <2> QED BY <1>2, <2>2, <2>4, <2>5, <2>6, Moves
<1>4. CASE wave' = Blocked(wave) /\ runs' = Claim(runs, k.at) /\ Drops(k)
  BY <1>1, <1>2, <1>4, SettleKeeps
<1> QED BY <1>3, <1>4 DEF TrackClean

(* Who completes the last track claims its run and makes the join.         *)
LEMMA TrackTipKeeps ==
    ASSUME IInv, ~Hot, NEW k \in tasks, TrackTip(k)
    PROVE  IInv'
<1> DEFINE r == k.at
           t == runs[r].track
<1>1. /\ k.op = "tip" /\ UNCHANGED <<git, boot>> /\ k \in Handlers /\ TypeOK
      /\ r \in DOMAIN runs /\ runs[r].kind = "terminal" /\ runs[r].status = "completed"
      /\ runs' = Claim(runs, r)
  BY KeptGit DEF IInv, HandlersFit, HandlerFits, TrackTip
<1>2. spent' \in [called : BOOLEAN, upsets : Nat]
  BY <1>1, SpentIs DEF TrackTip
<1>3. CASE wave' = Blocked(wave) /\ Drops(k) /\ UNCHANGED tracks
  BY <1>1, <1>2, <1>3, SettleKeeps
<1>4. ASSUME /\ tracks' = IF tracks[t].status \in {"provisioning", "running"}
                          THEN [tracks EXCEPT ![t].status = "completed"] ELSE tracks
             /\ IF tracks[t].status # "aborted" /\ ~runs[r].claimed
                THEN Then(k, "join", {}) ELSE Drops(k)
             /\ UNCHANGED wave
      PROVE  IInv'
  <2>1. /\ RunsGrow /\ New = {} /\ runs'[r].claimed /\ runs'[r].status = runs[r].status
        /\ runs'[r].kind = runs[r].kind /\ runs'[r].track = runs[r].track
        /\ \A q \in DOMAIN runs : q # r => runs'[q] = runs[q]
    BY <1>1, Claimed
  <2>2. t \in Track /\ tracks[t].planner # 0 /\ wave.status \notin {"none", "provisioning"}
    BY <1>1 DEF IInv, RunsFit, RunFits, WaveFits
  <2>3. \A u \in Track : tracks[u] \in TrackRows
    BY <1>1 DEF TypeOK
  <2> DEFINE done == tracks[t].status \in {"provisioning", "running"}
  <2>4. /\ tracks' \in [Track -> TrackRows]
        /\ \A u \in Track : tracks'[u].planner = tracks[u].planner
        /\ \A u \in Track : u # t \/ ~done => tracks'[u].status = tracks[u].status
        /\ done => tracks'[t].status = "completed"
    <3> DEFINE row == [tracks[t] EXCEPT !.status = "completed"]
    <3>1. row \in TrackRows /\ row.status = "completed" /\ row.planner = tracks[t].planner
      BY <2>2, <2>3 DEF TrackRows
    <3>2. tracks' = IF done THEN [tracks EXCEPT ![t] = row] ELSE tracks
      BY <1>4
    <3> HIDE DEF row
    <3>3. tracks \in [Track -> TrackRows]
      BY <1>1 DEF TypeOK
    <3> QED BY <2>2, <3>1, <3>2, <3>3
  <2>5. \A l \in tasks' \ tasks : l.op = "join" /\ l = [k EXCEPT !.op = "join", !.seen = {}]
    BY <1>1, <1>4 DEF Then, Drops, Goes, Handlers
  <2>6. tasks' \subseteq Handlers
    <3>1. [k EXCEPT !.op = "join", !.seen = {}] \in Handlers
      BY <1>1 DEF Handlers, Ops
    <3> QED BY <1>1, <2>5, <3>1 DEF TypeOK
  <2>7. TypeOK'
    <3>1. runs' \in Seq(RunRows) /\ 1 \in DOMAIN runs'
      BY <1>1, <2>1 DEF RunsGrow, TypeOK
    <3> QED BY <1>1, <1>2, <1>4, <2>4, <2>6, <3>1 DEF TypeOK
  <2>8. done => ~wave.finalized
    BY <2>2 DEF IInv, WaveFits
  <2> HIDE DEF t
  <2>9. WaveFits'
    <3>1. WaveFits /\ wave' = wave /\ git' = git
      BY <1>1, <1>4 DEF IInv
    <3>2. wave.integration # 0 =>
            wave.integration \in DOMAIN runs' /\ runs'[wave.integration].kind = "integration"
      BY <2>1, <3>1 DEF WaveFits, RunsGrow
    <3>3. wave.status = "aborted" =>
            \A u \in Track : tracks'[u].status \in {"completed", "integrated", "aborted"}
      BY <2>4, <3>1 DEF WaveFits
    <3>4. wave.finalized => \A u \in Track : tracks'[u].status = "integrated" /\ u \in git'.main
      BY <2>4, <2>8, <3>1 DEF WaveFits
    <3>5. \A u \in Track : tracks'[u].status \in {"completed", "integrated"} => tracks'[u].planner # 0
      BY <2>2, <2>4, <3>1 DEF WaveFits
    <3> QED BY <2>2, <3>1, <3>2, <3>3, <3>4, <3>5 DEF WaveFits
  <2>10. Kept
    BY <1>1, <1>4, <2>1, <2>4 DEF Kept
  <2>11. NothingRestarts
    BY <1>4, <2>4 DEF NothingRestarts
  <2>12. Settles
    <3>1. Settled(r)'
      <4>1. runs'[r].track = t
        BY <2>1 DEF t
      <4>2. tracks'[t].status \notin {"provisioning", "running"}
        BY <2>2, <2>4
      <4> QED BY <4>1, <4>2 DEF Settled
    <3>2. \A q \in DOMAIN runs : runs'[q].claimed /\ ~runs[q].claimed => Settled(q)'
      BY <2>1, <3>1
    <3>3. \A q \in DOMAIN runs : Forgets(q) => Noted(q)'
      BY <1>4, <2>1 DEF Forgets, Noted, Then, Drops, Goes
    <3>4. \A q \in DOMAIN runs : runs'[q].status = runs[q].status
      BY <2>1
    <3> QED BY <2>1, <3>2, <3>3, <3>4 DEF Settles, Notable
  <2>13. wave'.status = "running" /\ Finished(tracks') =>
           \/ wave.status = "running" /\ Finished(tracks)
           \/ \E l \in tasks' : l.op = "join"
    <3>1. CASE ~done
      BY <1>4, <2>4, <3>1 DEF Finished
    <3>2. CASE done /\ wave.status = "running"
      <4>1. ~runs[r].claimed
        BY <1>1, <3>2 DEF IInv, AllNoted, Settled, t
      <4>2. Then(k, "join", {})
        BY <1>4, <3>2, <4>1
      <4>3. [k EXCEPT !.op = "join", !.seen = {}] \in tasks'
        BY <4>2 DEF Then, Goes
      <4>4. [k EXCEPT !.op = "join", !.seen = {}].op = "join"
        BY <1>1 DEF Handlers
      <4> QED BY <4>3, <4>4
    <3> QED BY <1>4, <3>1, <3>2
  <2>14. \A l \in tasks' \ tasks : NewFit(l)
    BY <2>5 DEF NewFit, HandlerFits
  <2>15. Cold
    BY <1>1, <1>4, <2>1, <2>5, <2>10, <2>11, <2>12, <2>13, <2>14 DEF Cold
  <2> QED BY <2>7, <2>9, <2>15, ColdKeeps
<1> QED BY <1>3, <1>4 DEF TrackTip

(* An aborted wave leaves no track open. *)
LEMMA AbortedKeeps ==
    ASSUME IInv, wave' = AbortedWave(wave), tracks' = AbortedTracks(wave, tracks),
           UNCHANGED <<runs, git>>
    PROVE  /\ wave' \in WaveRows /\ tracks' \in [Track -> TrackRows]
           /\ Kept /\ NothingRestarts /\ WaveFits' /\ New = {}
           /\ wave'.status \in {"aborted", "completed"}
           /\ \A r \in DOMAIN runs : runs'[r].claimed => runs[r].claimed
<1>1. TypeOK /\ WaveFits /\ runs' = runs /\ git' = git
  BY DEF IInv
<1>2. RunsGrow /\ New = {} /\ \A r \in DOMAIN runs : runs'[r].claimed => runs[r].claimed
  BY <1>1, SameRuns
<1>3. CASE wave.status \in {"aborted", "completed"}
  <2>1. wave' = wave /\ tracks' = tracks
    BY <1>3 DEF AbortedWave, AbortedTracks
  <2>2. WaveFits' /\ NothingRestarts
    BY <1>1, <1>2, <1>3, <2>1, WaveFitsKept
  <2> QED BY <1>1, <1>2, <1>3, <2>1, <2>2 DEF TypeOK, Kept
<1>4. CASE wave.status \notin {"aborted", "completed"}
  <2>1. /\ wave' \in WaveRows /\ wave'.status = "aborted" /\ wave'.joined = wave.joined
        /\ wave'.integration = wave.integration /\ wave'.finalized = wave.finalized
    BY <1>1, <1>4 DEF TypeOK, WaveRows, AbortedWave
  <2>2. \A t \in Track :
          /\ tracks'[t] \in TrackRows /\ tracks'[t].planner = tracks[t].planner
          /\ tracks'[t].status = IF tracks[t].status \in {"completed", "integrated"}
                                 THEN tracks[t].status ELSE "aborted"
    <3> SUFFICES ASSUME NEW t \in Track
                 PROVE
          /\ tracks'[t] \in TrackRows /\ tracks'[t].planner = tracks[t].planner
          /\ tracks'[t].status = IF tracks[t].status \in {"completed", "integrated"}
                                 THEN tracks[t].status ELSE "aborted"
      OBVIOUS
    <3>1. tracks'[t] = IF tracks[t].status \in {"completed", "integrated"} THEN tracks[t]
                       ELSE [tracks[t] EXCEPT !.status = "aborted"]
      BY <1>4 DEF AbortedTracks
    <3>2. tracks[t] \in TrackRows
      BY <1>1 DEF TypeOK
    <3> QED BY <3>1, <3>2 DEF TrackRows
  <2>3. tracks' \in [Track -> TrackRows]
    BY <1>4, <2>2 DEF AbortedTracks
  <2>4. ~wave.finalized
    BY <1>1, <1>4 DEF WaveFits
  <2>5. WaveFits'
    BY <1>1, <2>1, <2>2, <2>4 DEF WaveFits
  <2>6. Kept /\ NothingRestarts
    BY <1>1, <1>2, <2>1, <2>2, <2>4 DEF Kept, NothingRestarts
  <2> QED BY <1>2, <2>1, <2>3, <2>5, <2>6
<1> QED BY <1>3, <1>4

LEMMA SiblingsAre ==
    ASSUME IInv, NEW r
    PROVE  Siblings(r) \in SUBSET Nat /\ Siblings(r) \subseteq DOMAIN runs
BY LenProperties DEF IInv, TypeOK, Siblings, OfWave

LEMMA HandleFailureKeeps ==
    ASSUME IInv, ~Hot, NEW k \in tasks, HandleFailure(k)
    PROVE  IInv'
<1> DEFINE r == k.at
<1>1. /\ k.op = "ended" /\ UNCHANGED <<runs, git, boot, spent>> /\ k \in Handlers /\ TypeOK
      /\ runs[r].status = "failed" /\ r \in DOMAIN runs
  BY KeptGit DEF IInv, HandlersFit, HandlerFits, HandleFailure
<1>2. /\ wave' \in WaveRows /\ tracks' \in [Track -> TrackRows]
      /\ Kept /\ NothingRestarts /\ WaveFits' /\ New = {}
      /\ wave'.status \in {"aborted", "completed"}
      /\ \A q \in DOMAIN runs : runs'[q].claimed => runs[q].claimed
  BY AbortedKeeps DEF HandleFailure
<1>3. PICK l \in Handlers : l = [k EXCEPT !.op = "stop", !.seen = Siblings(r)]
  <2>1. Siblings(r) \in SUBSET Nat
    BY SiblingsAre
  <2>2. [k EXCEPT !.op = "stop", !.seen = Siblings(r)] \in Handlers
    BY <1>1, <2>1 DEF Handlers, Ops
  <2> QED BY <2>2
<1>4. l.op = "stop" /\ l.at = r /\ l.seen \subseteq DOMAIN runs
  BY <1>1, <1>3, SiblingsAre DEF Handlers
<1>5. tasks' = tasks \ {k} \/ tasks' = (tasks \ {k}) \cup {l}
  BY <1>3 DEF HandleFailure, Drops, Then, Goes
<1>6. TypeOK'
  BY <1>1, <1>2, <1>5 DEF TypeOK
<1>7. \A m \in tasks' \ tasks : m = l
  BY <1>5
<1>8. NewFit(l)
  <2>1. HandlerFits(l)'
    BY <1>1, <1>4 DEF HandlerFits
  <2> QED BY <1>4, <2>1 DEF NewFit
<1>9. Settles
  <2>1. \A q \in DOMAIN runs : runs'[q].status = "completed" => ~Forgets(q)
    BY <1>1, <1>5 DEF Forgets
  <2> QED BY <1>1, <1>2, <2>1 DEF Settles, Notable
<1>10. Cold
  BY <1>1, <1>2, <1>4, <1>7, <1>8, <1>9 DEF Cold
<1> QED BY <1>2, <1>6, <1>10, ColdKeeps

LEMMA AbortKeeps ==
    ASSUME IInv, ~Hot, Abort
    PROVE  IInv'
<1>1. UNCHANGED <<runs, git, boot>> /\ TypeOK
  BY DEF IInv, Abort
<1>2. /\ wave' \in WaveRows /\ tracks' \in [Track -> TrackRows]
      /\ Kept /\ NothingRestarts /\ WaveFits' /\ New = {}
      /\ wave'.status \in {"aborted", "completed"}
      /\ \A q \in DOMAIN runs : runs'[q].claimed => runs[q].claimed
  BY AbortedKeeps DEF Abort
<1>3. PICK l \in Handlers : /\ l = [Task("removal", 0, {}, "live") EXCEPT !.n = spent.upsets]
                            /\ l.op = "removal" /\ l.at = 0
  <2>1. spent.upsets \in Nat
    BY <1>1 DEF TypeOK
  <2> DEFINE l == [Task("removal", 0, {}, "live") EXCEPT !.n = spent.upsets]
  <2>2. l \in Handlers /\ l.op = "removal" /\ l.at = 0
    BY <2>1, TaskIs DEF Ops
  <2> QED BY <2>2
<1>4. tasks' = tasks \cup {l}
  BY <1>3 DEF Abort
<1>5. spent' \in [called : BOOLEAN, upsets : Nat]
  BY <1>1, SpentIs DEF Abort
<1>6. TypeOK'
  BY <1>1, <1>2, <1>4, <1>5 DEF TypeOK
<1>7. NewFit(l)
  BY <1>3 DEF NewFit, HandlerFits
<1>8. Settles
  BY <1>1, <1>2, <1>4 DEF Settles, Notable, Forgets
<1>9. Cold
  BY <1>1, <1>2, <1>3, <1>4, <1>7, <1>8 DEF Cold
<1> QED BY <1>2, <1>6, <1>9, ColdKeeps

(* A run that was listed is stopped, unless it ended meanwhile.            *)
LEMMA StopSiblingKeeps ==
    ASSUME IInv, ~Hot, NEW k \in tasks, StopSibling(k)
    PROVE  IInv'
<1>1. /\ k.op = "stop" /\ UNCHANGED <<wave, tracks, git, boot, spent>> /\ k \in Handlers /\ TypeOK
      /\ k.at = 0 \/ (k.at \in DOMAIN runs /\ runs[k.at].status = "failed")
      /\ k.seen \subseteq DOMAIN runs
  BY KeptGit DEF IInv, HandlersFit, HandlerFits, StopSibling
<1>2. spent' \in [called : BOOLEAN, upsets : Nat]
  BY <1>1 DEF TypeOK
<1>3. CASE runs' = runs /\ Drops(k)
  <2>1. Goes(k, {})
    BY <1>3 DEF Drops
  <2> QED BY <1>1, <1>2, <1>3, <2>1, KeptGit, Moves
<1>4. ASSUME k.at # 0, runs' = Claim(runs, k.at), Drops(k)
      PROVE  IInv'
  <2>1. k.at \in DOMAIN runs /\ runs[k.at].status = "failed" /\ tasks' = tasks \ {k}
    BY <1>1, <1>4 DEF Drops, Goes
  <2>2. /\ RunsGrow /\ New = {} /\ runs'[k.at].status = runs[k.at].status
        /\ \A q \in DOMAIN runs : q # k.at => runs'[q] = runs[q]
    BY <1>1, <1>4, <2>1, Claimed
  <2>3. TypeOK'
    <3>1. runs' \in Seq(RunRows) /\ 1 \in DOMAIN runs'
      BY <1>1, <2>2 DEF RunsGrow, TypeOK
    <3> QED BY <1>1, <1>2, <2>1, <3>1 DEF TypeOK
  <2>4. WaveFits' /\ NothingRestarts
    BY <1>1, <2>2, WaveFitsKept
  <2>5. Kept
    BY <1>1, <2>1, <2>2 DEF Kept
  <2>6. Settles
    <3>1. \A q \in DOMAIN runs : runs'[q].claimed /\ ~runs[q].claimed => Settled(q)'
      BY <2>1, <2>2 DEF Settled
    <3>2. \A q \in DOMAIN runs : ~Forgets(q)
      BY <1>1, <2>1 DEF Forgets
    <3>3. \A q \in DOMAIN runs : runs'[q].status = runs[q].status
      BY <2>2
    <3> QED BY <2>2, <3>1, <3>2, <3>3 DEF Settles, Notable
  <2>7. Cold
    BY <1>1, <2>1, <2>2, <2>4, <2>5, <2>6 DEF Cold
  <2> QED BY <2>3, <2>4, <2>7, ColdKeeps
<1>5. ASSUME k.seen # {}, NEW r \in k.seen,
             runs' = IF runs[r].status \in {"active", "paused"}
                     THEN [runs EXCEPT ![r].status = "cancelled"] ELSE runs,
             Then(k, "stop", k.seen \ {r})
      PROVE  IInv'
  <2>1. PICK l \in Handlers : l = [k EXCEPT !.op = "stop", !.seen = k.seen \ {r}]
    <3>1. [k EXCEPT !.op = "stop", !.seen = k.seen \ {r}] \in Handlers
      BY <1>1 DEF Handlers, Ops
    <3> QED BY <3>1
  <2>2. l.op = "stop" /\ l.at = k.at /\ l.seen \subseteq DOMAIN runs /\ tasks' = (tasks \ {k}) \cup {l}
    BY <1>1, <1>5, <2>1 DEF Handlers, Then, Goes
  <2>3. /\ RunsGrow /\ New = {}
        /\ \A q \in DOMAIN runs : runs'[q].claimed = runs[q].claimed
        /\ \A q \in DOMAIN runs : runs'[q].status = "completed" => runs[q].status = "completed"
    <3>1. r \in DOMAIN runs
      BY <1>1, <1>5
    <3>2. CASE runs' = runs
      BY <1>1, <3>2, SameRuns
    <3>3. CASE runs[r].status \in {"active", "paused"} /\ runs' = [runs EXCEPT ![r].status = "cancelled"]
      <4>1. /\ runs' \in Seq(RunRows) /\ DOMAIN runs' = DOMAIN runs
            /\ runs'[r] = [runs[r] EXCEPT !.status = "cancelled"]
            /\ \A q \in DOMAIN runs : q # r => runs'[q] = runs[q]
        BY <1>1, <3>1, <3>3, StatusIs DEF TypeOK
      <4>2. runs[r] \in RunRows
        BY <1>1, <3>1, RowsAre DEF TypeOK
      <4>3. /\ runs'[r].kind = runs[r].kind /\ runs'[r].track = runs[r].track
            /\ runs'[r].parent = runs[r].parent /\ (runs'[r].claimed = runs[r].claimed)
            /\ runs'[r].status = "cancelled"
        BY <4>1, <4>2 DEF RunRows
      <4>4. RunsGrow /\ New = {}
        BY <3>3, <4>1, <4>3 DEF RunsGrow, New
      <4> QED BY <4>1, <4>3, <4>4
    <3> QED BY <1>5, <3>2, <3>3
  <2>4. TypeOK'
    <3>1. runs' \in Seq(RunRows) /\ 1 \in DOMAIN runs'
      BY <1>1, <2>3 DEF RunsGrow, TypeOK
    <3> QED BY <1>1, <1>2, <2>2, <3>1 DEF TypeOK
  <2>5. WaveFits' /\ NothingRestarts
    BY <1>1, <2>3, WaveFitsKept
  <2>6. Kept
    BY <1>1, <2>3 DEF Kept
  <2>7. Settles
    <3>1. \A q \in DOMAIN runs : ~Forgets(q)
      BY <1>1, <2>2 DEF Forgets
    <3> QED BY <2>3, <3>1 DEF Settles, Notable
  <2>8. NewFit(l)
    <3>1. HandlerFits(l)'
      <4>1. l.at = 0 \/ (l.at \in DOMAIN runs' /\ runs'[l.at].status = "failed")
        BY <1>1, <2>2, <2>3 DEF RunsGrow
      <4> QED BY <2>2, <2>3, <4>1 DEF HandlerFits, RunsGrow
    <3> QED BY <2>2, <3>1 DEF NewFit
  <2>9. \A m \in tasks' \ tasks : m = l
    BY <2>2
  <2>10. Cold
    BY <1>1, <2>2, <2>3, <2>5, <2>6, <2>7, <2>8, <2>9 DEF Cold
  <2> QED BY <2>4, <2>5, <2>10, ColdKeeps
<1>6. CASE k.seen = {}
  BY <1>3, <1>4, <1>6 DEF StopSibling
<1>7. CASE k.seen # {}
  <2> DEFINE r == CHOOSE r \in k.seen : \A q \in k.seen : r <= q
  <2>1. r \in k.seen
    <3>1. k.seen \subseteq Nat
      BY <1>1 DEF Handlers
    <3>2. \E q \in k.seen : \A p \in k.seen : q <= p
      BY <1>7, <3>1, Least
    <3> QED BY <3>2
  <2>2. /\ runs' = IF runs[r].status \in {"active", "paused"}
                   THEN [runs EXCEPT ![r].status = "cancelled"] ELSE runs
        /\ Then(k, "stop", k.seen \ {r})
    BY <1>7 DEF StopSibling
  <2> HIDE DEF r
  <2> QED BY <1>5, <1>7, <2>1, <2>2
<1> QED BY <1>6, <1>7

-----------------------------------------------------------------------------
(* The operator *)

LEMMA RetryCheckedKeeps ==
    ASSUME IInv, ~Hot, NEW k \in tasks, RetryChecked(k)
    PROVE  IInv'
<1>1. /\ k.op = "retry" /\ UNCHANGED <<tracks, runs, git, boot>> /\ k \in Handlers /\ TypeOK
  BY KeptGit DEF IInv, RetryChecked
<1>2. spent' \in [called : BOOLEAN, upsets : Nat]
  BY <1>1, SpentIs DEF RetryChecked
<1>3. CASE Drops(k) /\ UNCHANGED wave
  <2>1. Goes(k, {})
    BY <1>3 DEF Drops
  <2> QED BY <1>1, <1>2, <1>3, <2>1, KeptGit, Moves
<1>4. ASSUME /\ MayPrepare
             /\ wave' = [wave EXCEPT !.integration = 0, !.joined = FALSE, !.status = "running"]
             /\ Then(k, "join", {})
      PROVE  IInv'
  <2>1. PICK l \in Handlers : l = [k EXCEPT !.op = "join", !.seen = {}]
    <3>1. [k EXCEPT !.op = "join", !.seen = {}] \in Handlers
      BY <1>1 DEF Handlers, Ops
    <3> QED BY <3>1
  <2>2. l.op = "join" /\ tasks' = (tasks \ {k}) \cup {l} /\ Goes(k, {l})
    BY <1>1, <1>4, <2>1 DEF Handlers, Then, Goes
  <2>3. wave' \in WaveRows /\ wave'.status = "running" /\ wave'.integration = 0 /\ ~wave'.joined
    BY <1>1, <1>4 DEF TypeOK, WaveRows
  <2>4. wave'.finalized = wave.finalized
    BY <1>1, <1>4 DEF TypeOK, WaveRows
  <2>5. wave.status = "blocked" /\ ~wave.finalized
    BY <1>4 DEF IInv, WaveFits, MayPrepare
  <2>6. \A t \in Track : tracks'[t].status \notin {"provisioning", "running"}
    BY <1>1, <1>4 DEF MayPrepare, Finished
  <2>7. TypeOK'
    BY <1>1, <1>2, <2>2, <2>3 DEF TypeOK
  <2>8. WaveFits'
    BY <1>1, <2>3, <2>4, <2>5 DEF IInv, WaveFits
  <2>9. RunsGrow /\ New = {} /\ \A r \in DOMAIN runs : runs'[r].claimed => runs[r].claimed
    BY <1>1, SameRuns
  <2>10. Kept /\ NothingRestarts
    BY <1>1, <2>3, <2>5, <2>6, <2>9 DEF Kept, NothingRestarts
  <2>11. Settles
    BY <1>1, <2>2, NothingSettled
  <2>12. NewFit(l) /\ \A m \in tasks' \ tasks : m = l
    BY <2>2 DEF NewFit, HandlerFits
  <2>13. Cold
    BY <1>1, <2>2, <2>3, <2>9, <2>10, <2>11, <2>12 DEF Cold
  <2> QED BY <2>7, <2>8, <2>13, ColdKeeps
<1> QED BY <1>3, <1>4 DEF RetryChecked

LEMMA StatusKeeps ==
    ASSUME IInv, ~Hot, NEW r \in DOMAIN runs, NEW status \in {"active", "paused"},
           runs[r].status \in {"active", "paused"},
           runs' = [runs EXCEPT ![r].status = status],
           UNCHANGED <<wave, tracks, git, tasks, boot>>,
           spent' \in [called : BOOLEAN, upsets : Nat]
    PROVE  IInv'
<1>1. TypeOK
  BY DEF IInv
<1>2. /\ runs' \in Seq(RunRows) /\ DOMAIN runs' = DOMAIN runs
      /\ runs'[r] = [runs[r] EXCEPT !.status = status]
      /\ \A q \in DOMAIN runs : q # r => runs'[q] = runs[q]
  BY <1>1, StatusIs DEF TypeOK
<1>3. runs[r] \in RunRows
  BY <1>1, RowsAre DEF TypeOK
<1>4. /\ runs'[r].kind = runs[r].kind /\ runs'[r].track = runs[r].track
      /\ runs'[r].parent = runs[r].parent /\ (runs'[r].claimed = runs[r].claimed)
      /\ runs'[r].status = status
  BY <1>2, <1>3 DEF RunRows
<1>5. RunsGrow /\ New = {}
  BY <1>2, <1>4 DEF RunsGrow, New
<1>6. TypeOK'
  BY <1>1, <1>2 DEF TypeOK
<1>7. WaveFits' /\ NothingRestarts
  BY <1>5, WaveFitsKept
<1>8. Kept
  BY <1>2, <1>4, <1>5 DEF Kept
<1>9. Settles
  <2>1. \A q \in DOMAIN runs : runs'[q].claimed => runs[q].claimed
    BY <1>2, <1>4
  <2>2. \A q \in DOMAIN runs : Notable(q)' => runs[q].status = "completed"
    BY <1>2, <1>4 DEF Notable
  <2>3. \A q : ~Forgets(q)
    BY DEF Forgets
  <2> QED BY <1>5, <2>1, <2>2, <2>3 DEF Settles
<1>10. Cold
  BY <1>5, <1>7, <1>8, <1>9 DEF Cold
<1> QED BY <1>6, <1>7, <1>10, ColdKeeps

LEMMA PauseKeeps ==
    ASSUME IInv, ~Hot, NEW r \in DOMAIN runs, Pause(r) \/ Resume(r)
    PROVE  IInv'
<1>1. spent' \in [called : BOOLEAN, upsets : Nat]
  BY SpentIs DEF IInv, TypeOK, Pause, Resume
<1>2. CASE Pause(r)
  BY <1>1, <1>2, StatusKeeps DEF Pause
<1>3. CASE Resume(r)
  BY <1>1, <1>3, StatusKeeps DEF Resume
<1> QED BY <1>2, <1>3

-----------------------------------------------------------------------------
(* The join *)

(* A wave that runs has not joined: who makes the join claims it.          *)
LEMMA JoinKeeps ==
    ASSUME IInv, NEW k \in tasks, Join(k)
    PROVE  IInv'
<1>1. /\ k.op = "join" /\ UNCHANGED <<tracks, runs, git, boot, spent>> /\ k \in Handlers /\ TypeOK
      /\ \A l \in tasks : l.op \in {"join", "enqueue"} => l = k
  BY KeptGit DEF IInv, HotFits, Join
<1>2. RunsGrow /\ New = {} /\ \A r \in DOMAIN runs : runs'[r].claimed => runs[r].claimed
  BY <1>1, SameRuns
<1>3. ASSUME MayJoin, wave' = [wave EXCEPT !.joined = TRUE, !.status = "integrating"],
             Then(k, "enqueue", {})
      PROVE  IInv'
  <2>1. PICK l \in Handlers : l = [k EXCEPT !.op = "enqueue", !.seen = {}]
    <3>1. [k EXCEPT !.op = "enqueue", !.seen = {}] \in Handlers
      BY <1>1 DEF Handlers, Ops
    <3> QED BY <3>1
  <2>2. l.op = "enqueue" /\ tasks' = (tasks \ {k}) \cup {l} /\ Goes(k, {l})
    BY <1>1, <1>3, <2>1 DEF Handlers, Then, Goes
  <2>3. wave' \in WaveRows /\ wave'.status = "integrating"
    BY <1>1, <1>3 DEF TypeOK, WaveRows
  <2>4. wave'.finalized = wave.finalized /\ wave'.integration = wave.integration
    BY <1>1, <1>3 DEF TypeOK, WaveRows
  <2>5. wave.status = "running" /\ ~wave.finalized /\ wave.integration = 0
    BY <1>3 DEF IInv, WaveFits, MayJoin
  <2>6. TypeOK'
    BY <1>1, <2>2, <2>3 DEF TypeOK
  <2>7. WaveFits'
    BY <1>1, <2>3, <2>4, <2>5 DEF IInv, WaveFits
  <2>8. Kept /\ NothingRestarts
    BY <1>1, <1>2, <2>3, <2>5 DEF Kept, NothingRestarts
  <2>9. Settles
    BY <1>1, <2>2, NothingSettled
  <2>10. \A m \in tasks' \ tasks : HandlerFits(m)'
    <3>1. \A m \in tasks' \ tasks : m.op = "enqueue"
      BY <2>2
    <3> QED BY <3>1 DEF HandlerFits
  <2>11. RunsFit' /\ HandlersFit' /\ OwedFits' /\ AllNoted'
    BY <1>1, <1>2, <2>8, <2>9, <2>10, RunsFitKept, HandlersFitKept, OwedFitsKept, AllNotedKept
  <2>12. CallsFit' /\ HotFits' /\ JoinComes'
    <3>1. l \in tasks' /\ \A m \in tasks' : m.op \in {"join", "enqueue"} => m = l
      BY <1>1, <2>2
    <3> QED BY <2>2, <2>3, <3>1 DEF CallsFit, HotFits, JoinComes
  <2> QED BY <2>6, <2>7, <2>11, <2>12 DEF IInv
<1>4. ASSUME ~MayJoin, Drops(k), UNCHANGED wave
      PROVE  IInv'
  <2>1. tasks' = tasks \ {k} /\ Goes(k, {})
    BY <1>4 DEF Drops, Goes
  <2>2. TypeOK'
    BY <1>1, <1>4, <2>1 DEF TypeOK
  <2>3. WaveFits' /\ NothingRestarts
    BY <1>1, <1>2, <1>4, WaveFitsKept
  <2>4. Kept
    BY <1>1, <1>2, <1>4 DEF Kept
  <2>5. Settles
    BY <1>1, <2>1, NothingSettled
  <2>6. RunsFit' /\ HandlersFit' /\ OwedFits' /\ AllNoted'
    BY <1>1, <1>2, <2>1, <2>3, <2>4, <2>5, RunsFitKept, HandlersFitKept, OwedFitsKept,
       AllNotedKept
  <2>7. CallsFit' /\ HotFits'
    BY <1>1, <1>4, <2>1 DEF IInv, CallsFit, HotFits
  <2>8. JoinComes'
    BY <1>1, <1>4 DEF IInv, WaveFits, MayJoin, JoinComes, Finished
  <2> QED BY <2>2, <2>3, <2>6, <2>7, <2>8 DEF IInv
<1> QED BY <1>3, <1>4 DEF Join

LEMMA EnqueueKeeps ==
    ASSUME IInv, NEW k \in tasks, Enqueue(k)
    PROVE  IInv'
<1>1. /\ k.op = "enqueue" /\ UNCHANGED <<tracks, git, boot>> /\ k \in Handlers /\ TypeOK
      /\ \A l \in tasks : l.op \in {"join", "enqueue"} => l = k
      /\ wave.status = "integrating" /\ ~wave.finalized
      /\ tasks' = tasks \ {k} /\ Goes(k, {})
  BY KeptGit DEF IInv, HotFits, WaveFits, Enqueue, Drops, Goes
<1>2. spent' \in [called : BOOLEAN, upsets : Nat]
  BY <1>1, SpentIs DEF Enqueue
<1>3. ASSUME RunsGrow, Settles, wave' \in WaveRows, WaveFits', NothingRestarts,
             wave'.status # "running", wave'.status # "none",
             wave'.status = "integrating" => wave'.integration # 0,
             \A r \in New : RunFits(r)',
             \A r \in DOMAIN runs : runs'[r].claimed => runs[r].claimed
      PROVE  IInv'
  <2>1. TypeOK'
    BY <1>1, <1>2, <1>3 DEF TypeOK, RunsGrow
  <2>2. Kept
    BY <1>1, <1>3 DEF Kept
  <2>3. RunsFit' /\ HandlersFit' /\ OwedFits' /\ AllNoted'
    BY <1>1, <1>3, <2>2, RunsFitKept, HandlersFitKept, OwedFitsKept, AllNotedKept
  <2>4. CallsFit' /\ HotFits' /\ JoinComes'
    BY <1>1, <1>3 DEF CallsFit, HotFits, JoinComes
  <2> QED BY <1>3, <2>1, <2>3, <2>4 DEF IInv
<1>4. CASE wave' = Blocked(wave) /\ UNCHANGED runs
  <2>1. RunsGrow /\ New = {} /\ \A r \in DOMAIN runs : runs'[r].claimed => runs[r].claimed
    BY <1>1, <1>4, SameRuns
  <2>2. /\ wave' \in WaveRows /\ NothingRestarts /\ WaveFits'
        /\ wave'.status \notin {"running", "integrating", "provisioning"}
        /\ wave.status # "none" => wave'.status \in {"blocked", "aborted", "completed"}
    BY <1>1, <1>4, <2>1, BlockedKeeps
  <2>3. Settles
    BY <1>1, <1>4, NothingSettled
  <2> QED BY <1>1, <1>3, <2>1, <2>2, <2>3
<1>5. CASE /\ runs' = Append(runs, NewRun("integration", 0, 1))
           /\ wave' = [wave EXCEPT !.integration = Len(runs) + 1]
  <2> DEFINE x == NewRun("integration", 0, 1)
  <2>1. x \in RunRows /\ x.kind = "integration" /\ x.status = "active"
    <3>1. x \in RunRows
      BY NewRunIs DEF Kinds
    <3> QED BY <3>1 DEF NewRun
  <2> HIDE DEF x
  <2>2. /\ runs' \in Seq(RunRows) /\ DOMAIN runs' = DOMAIN runs \cup {Len(runs) + 1}
        /\ Len(runs) + 1 \notin DOMAIN runs /\ runs'[Len(runs) + 1] = x
        /\ \A q \in DOMAIN runs : runs'[q] = runs[q]
    BY <1>1, <1>5, <2>1, AppendIs DEF TypeOK, x
  <2>3. RunsGrow /\ New = {Len(runs) + 1} /\ Len(runs) + 1 \in Nat \ {0}
    BY <1>1, <2>2, LenProperties DEF RunsGrow, New, TypeOK
  <2>4. /\ wave' \in WaveRows /\ wave'.status = "integrating" /\ wave'.integration = Len(runs) + 1
        /\ wave'.finalized = wave.finalized
    BY <1>1, <1>5, <2>3 DEF TypeOK, WaveRows
  <2>5. \A r \in New : runs'[r] = x
    BY <2>2, <2>3
  <2>6. WaveFits'
    BY <1>1, <2>1, <2>2, <2>3, <2>4 DEF IInv, WaveFits
  <2>7. NothingRestarts
    BY <1>1 DEF NothingRestarts
  <2>8. \A r \in New : RunFits(r)'
    BY <2>1, <2>5 DEF RunFits
  <2>9. Settles
    <3>1. \A q : ~Forgets(q)
      BY <1>1 DEF Forgets
    <3> QED BY <2>1, <2>2, <2>5, <3>1 DEF Settles, Notable
  <2>10. \A r \in DOMAIN runs : runs'[r].claimed => runs[r].claimed
    BY <2>2
  <2> QED BY <1>3, <2>3, <2>4, <2>6, <2>7, <2>8, <2>9, <2>10
<1> QED BY <1>4, <1>5 DEF Enqueue

-----------------------------------------------------------------------------
(* Crash and resume sweep *)

Boots == [stage : Stages, owed : SUBSET Nat, fresh : BOOLEAN]

(* A step of the sweep that looks only.                                    *)
LEMMA LooksKeeps ==
    ASSUME IInv, UNCHANGED <<wave, tracks, runs, git>>,
           spent' \in [called : BOOLEAN, upsets : Nat],
           boot' \in Boots, tasks' \subseteq Handlers,
           \A k \in tasks' \ tasks : HandlerFits(k)' /\ k.op \notin {"finalize", "tips"},
           ~Hot, \A k, l \in tasks' \ tasks : k = l, \A k \in tasks' \ tasks : k.op # "enqueue",
           OwedFits', JoinComes',
           \A r \in DOMAIN runs : Notable(r) => Noted(r)'
    PROVE  IInv'
<1>1. /\ wave' = wave /\ tracks' = tracks /\ runs' = runs /\ git' = git
  OBVIOUS
<1>2. TypeOK'
  BY <1>1 DEF IInv, TypeOK, Boots
<1>3. RunsFit' /\ WaveFits'
  BY <1>1 DEF IInv, RunsFit, RunFits, WaveFits
<1>4. HandlersFit'
  <2>1. RunsGrow /\ New = {} /\ \A r \in DOMAIN runs : runs'[r].claimed => runs[r].claimed
    BY <1>1, SameRuns DEF IInv
  <2>2. Kept
    BY <1>1, <2>1 DEF Kept
  <2> QED BY <2>2, HandlersFitKept
<1>5. CallsFit'
  <2> SUFFICES ASSUME NEW k \in tasks', k.op \in {"finalize", "tips"}, wave.status = "integrating"
               PROVE  wave.integration # 0
    BY <1>1 DEF CallsFit
  <2>1. k \in tasks
    OBVIOUS
  <2> QED BY <2>1 DEF IInv, CallsFit, Hot
<1>6. HotFits'
  BY <1>1 DEF HotFits, Hot
<1>7. AllNoted'
  <2>1. \A r \in DOMAIN runs : Settled(r)' /\ (Notable(r)' <=> Notable(r))
    BY <1>1 DEF IInv, AllNoted, Settled, Notable
  <2> QED BY <1>1, <2>1 DEF AllNoted
<1> QED BY <1>2, <1>3, <1>4, <1>5, <1>6, <1>7 DEF IInv

LEMMA CrashKeeps ==
    ASSUME IInv, Crash
    PROVE  IInv'
<1>1. /\ UNCHANGED <<wave, tracks, runs, git>> /\ tasks' = {} /\ boot' = [Up EXCEPT !.stage = "waves"]
      /\ TypeOK
  BY DEF Crash, IInv
<1>2. spent' \in [called : BOOLEAN, upsets : Nat]
  BY <1>1, SpentIs DEF Crash
<1>3. boot' \in Boots /\ boot'.stage = "waves" /\ boot'.owed = {}
  BY <1>1 DEF Up, Boots, Stages
<1>4. wave' = wave /\ tracks' = tracks /\ runs' = runs
  BY <1>1
<1>5. TypeOK'
  BY <1>1, <1>2, <1>3 DEF TypeOK, Boots
<1>6. RunsFit' /\ WaveFits'
  BY <1>1 DEF IInv, RunsFit, RunFits, WaveFits
<1>7. HandlersFit' /\ CallsFit' /\ HotFits'
  BY <1>1 DEF HandlersFit, CallsFit, HotFits
<1>8. OwedFits' /\ JoinComes'
  BY <1>3 DEF OwedFits, JoinComes
<1>9. AllNoted'
  <2>1. \A r \in DOMAIN runs : Settled(r)' <=> Settled(r)
    BY <1>4 DEF Settled
  <2>2. ToBeListed'
    BY <1>3 DEF ToBeListed
  <2> QED BY <1>4, <2>1, <2>2 DEF IInv, AllNoted, Noted
<1> QED BY <1>5, <1>6, <1>7, <1>8, <1>9 DEF IInv

(* What the sweep lists                                                    *)
LEMMA ListsAre ==
    ASSUME TypeOK
    PROVE  /\ AfterTrees \in Boots /\ AfterTrees.stage = "terminals"
           /\ AfterTrees.fresh = (~wave.joined /\ wave.integration = 0)
           /\ AfterTrees.owed = Unclaimed({"terminal"})
           /\ AfterWaves \in Boots /\ AfterWaves.stage = "transitions"
           /\ AfterWaves.owed = Unclaimed({"coordinator", "planner", "terminal", "integration"})
<1>1. \A kinds : Unclaimed(kinds) \in SUBSET Nat
  BY LenProperties DEF TypeOK, Unclaimed
<1>2. AfterTrees \in Boots /\ AfterTrees.stage = "terminals"
      /\ AfterTrees.owed = Unclaimed({"terminal"})
  BY <1>1 DEF AfterTrees, Boots, Stages
<1>3. AfterTrees.fresh = (~wave.joined /\ wave.integration = 0)
  BY DEF AfterTrees
<1>4. AfterWaves \in Boots /\ AfterWaves.stage = "transitions"
      /\ AfterWaves.owed = Unclaimed({"coordinator", "planner", "terminal", "integration"})
  BY <1>1 DEF AfterWaves, Boots, Stages
<1> QED BY <1>2, <1>3, <1>4

LEMMA Listed ==
    ASSUME TypeOK, RunsGrow, boot' = AfterTrees \/ boot' = AfterWaves
    PROVE  /\ boot' \in Boots /\ OwedFits' /\ boot'.stage \in {"terminals", "transitions"}
           /\ \A r \in DOMAIN runs : Notable(r) => Noted(r)'
<1>1. CASE boot' = AfterTrees
  <2>1. boot' \in Boots /\ boot'.stage = "terminals" /\ boot'.owed = Unclaimed({"terminal"})
    BY <1>1, ListsAre
  <2>2. OwedFits'
    BY <2>1 DEF OwedFits, Unclaimed, RunsGrow
  <2> QED BY <2>1, <2>2 DEF Noted, ToBeListed
<1>2. CASE boot' = AfterWaves
  <2>1. /\ boot' \in Boots /\ boot'.stage = "transitions"
        /\ boot'.owed = Unclaimed({"coordinator", "planner", "terminal", "integration"})
    BY <1>2, ListsAre
  <2>2. OwedFits'
    BY <2>1 DEF OwedFits, Unclaimed, RunsGrow
  <2>3. \A r \in DOMAIN runs : Notable(r) => runs'[r].claimed \/ r \in boot'.owed
    BY <2>1 DEF Notable, Unclaimed, RunsGrow
  <2> QED BY <2>1, <2>2, <2>3 DEF Noted
<1> QED BY <1>1, <1>2

LEMMA SweepWaveKeeps ==
    ASSUME IInv, ~Hot, SweepWave
    PROVE  IInv'
<1>1. /\ UNCHANGED <<wave, tracks, runs, git, tasks, spent>> /\ TypeOK /\ boot.stage = "waves"
      /\ \A k \in tasks' \ tasks : HandlerFits(k)' /\ k.op \notin {"finalize", "tips"}
      /\ \A k, l \in tasks' \ tasks : k = l
      /\ \A k \in tasks' \ tasks : k.op # "enqueue"
  BY DEF SweepWave, IInv
<1>2. spent' \in [called : BOOLEAN, upsets : Nat] /\ tasks' \subseteq Handlers /\ RunsGrow
  BY <1>1, SameRuns DEF TypeOK
<1>3. CASE boot' = AfterWaves /\ wave.status \in {"none", "aborted", "completed"}
  <2>1. JoinComes'
    BY <1>1, <1>3 DEF JoinComes
  <2> QED BY <1>1, <1>2, <1>3, <2>1, Listed, LooksKeeps
<1>4. CASE boot' = [Up EXCEPT !.stage = "planners"] /\ \E t \in Track : tracks[t].planner = 0
           /\ wave.status \in {"provisioning", "running"}
  <2>1. boot' \in Boots /\ boot'.stage = "planners" /\ boot'.owed = {}
    BY <1>4 DEF Up, Boots, Stages
  <2>2. ~Finished(tracks)
    BY <1>4 DEF IInv, WaveFits, Finished
  <2>3. JoinComes'
    BY <1>1, <2>2 DEF JoinComes, Finished
  <2>4. OwedFits'
    BY <1>1, <1>4, <2>1 DEF OwedFits
  <2>5. \A r \in DOMAIN runs : Notable(r) => Noted(r)'
    BY <2>1 DEF Noted, ToBeListed
  <2> QED BY <1>1, <1>2, <2>1, <2>3, <2>4, <2>5, LooksKeeps
<1>5. CASE boot' = AfterTrees
  <2>1. boot'.stage = "terminals" /\ boot'.fresh = (~wave.joined /\ wave.integration = 0)
    BY <1>1, <1>5, ListsAre
  <2>2. wave.status = "running" => boot'.fresh
    BY <2>1 DEF IInv, WaveFits
  <2>3. JoinComes'
    BY <1>1, <2>1, <2>2 DEF JoinComes
  <2> QED BY <1>1, <1>2, <1>5, <2>3, Listed, LooksKeeps
<1> QED BY <1>3, <1>4, <1>5 DEF SweepWave

(* A wave whose planners the sweep starts is not waiting for its join.     *)
LEMMA SweepPlannersKeeps ==
    ASSUME IInv, ~Hot, SweepPlanners
    PROVE  IInv'
<1> DEFINE missing == {t \in Track : tracks[t].planner = 0}
<1>0. PICK lost \in SUBSET (missing \ git.trees) :
        /\ git' = [git EXCEPT !.trees = @ \cup (missing \ lost)]
        /\ StartPlanners(runs, missing, lost)
  BY DEF SweepPlanners
<1>1. /\ boot.stage = "planners"
      /\ wave' = Provisioned /\ tasks' = tasks
      /\ boot' = AfterTrees \/ boot' = AfterWaves
      /\ TypeOK
  BY DEF SweepPlanners, IInv
<1>2. wave.status # "none" /\ missing \in SUBSET Track
      /\ \A t \in missing : tracks[t].planner = 0
  BY <1>1 DEF IInv, OwedFits
<1> HIDE DEF missing
<1>3. runs \in Seq(RunRows)
  BY <1>1 DEF TypeOK
<1>4. /\ spent' \in [called : BOOLEAN, upsets : Nat]
      /\ runs' \in Seq(RunRows) /\ DOMAIN runs \subseteq DOMAIN runs'
      /\ \A r \in DOMAIN runs : runs'[r] = runs[r]
      /\ tracks' \in [Track -> TrackRows]
      /\ \A r \in DOMAIN runs' \ DOMAIN runs :
            /\ runs'[r].kind = "planner" /\ runs'[r].status = "active"
            /\ runs'[r].track \in Track /\ tracks'[runs'[r].track].planner # 0
      /\ \A t \in Track :
            \/ tracks'[t] = tracks[t]
            \/ /\ t \in missing /\ tracks'[t].planner # 0
               /\ tracks'[t].status = IF tracks[t].status = "provisioning" THEN "running"
                                      ELSE tracks[t].status
  BY <1>0, <1>1, <1>2, <1>3, StartPlannersIs
<1>5. RunsGrow
  BY <1>4 DEF RunsGrow
<1>6. /\ git' \in [trees : SUBSET Track, dirty : SUBSET Track, main : SUBSET Track]
      /\ git'.main = git.main
  BY <1>0, <1>2, KeptGit
<1>7. /\ wave' \in WaveRows /\ NothingRestarts /\ WaveFits'
      /\ wave'.status # "none" /\ (wave.finalized => wave'.finalized)
      /\ wave'.integration = wave.integration
      /\ wave'.status = "integrating" => wave.status = "integrating"
      /\ \A u \in Track : tracks[u].planner # 0 => tracks'[u].planner # 0
      /\ wave'.status = "running" /\ Finished(tracks') =>
            wave.status = "running" /\ Finished(tracks)
  BY <1>1, <1>2, <1>4, <1>5, <1>6, PlannersKeep
<1>8. /\ boot' \in Boots /\ OwedFits' /\ boot'.stage \in {"terminals", "transitions"}
      /\ \A r \in DOMAIN runs : Notable(r) => Noted(r)'
  BY <1>1, <1>5, Listed
<1>9. TypeOK'
  <2>1. 1 \in DOMAIN runs' /\ tasks' \subseteq Handlers
    BY <1>1, <1>4 DEF TypeOK
  <2> QED BY <1>4, <1>6, <1>7, <1>8, <2>1 DEF TypeOK, Boots
<1>10. Kept
  BY <1>4, <1>5, <1>6, <1>7 DEF Kept
<1>11. \A r \in New : /\ runs'[r].kind = "planner" /\ runs'[r].status = "active"
                      /\ runs'[r].track \in Track /\ tracks'[runs'[r].track].planner # 0
  BY <1>4 DEF New
<1>12. RunsFit' /\ HandlersFit'
  <2>1. \A r \in New : RunFits(r)'
    BY <1>11 DEF RunFits
  <2> QED BY <1>1, <1>10, <2>1, RunsFitKept, HandlersFitKept
<1>13. CallsFit' /\ HotFits' /\ JoinComes'
  <2>1. CallsFit'
    BY <1>1, <1>7 DEF IInv, CallsFit
  <2>2. HotFits'
    BY <1>1 DEF HotFits, Hot
  <2>3. ~(wave'.status = "running" /\ Finished(tracks'))
    BY <1>1, <1>7 DEF IInv, JoinComes, Hot
  <2>4. JoinComes'
    BY <2>3 DEF JoinComes, Finished
  <2> QED BY <2>1, <2>2, <2>4
<1>14. AllNoted'
  <2> SUFFICES ASSUME NEW r \in DOMAIN runs' PROVE Settled(r)' /\ (Notable(r)' => Noted(r)')
    BY DEF AllNoted
  <2>1. CASE r \in New
    BY <1>11, <2>1 DEF Settled, Notable
  <2>2. CASE r \in DOMAIN runs
    <3>1. runs'[r] = runs[r] /\ Settled(r)
      BY <1>4, <2>2 DEF IInv, AllNoted
    <3>2. Settled(r)'
      <4> SUFFICES ASSUME runs[r].kind = "terminal", runs[r].status = "completed", runs[r].claimed
                   PROVE  \/ tracks'[runs[r].track].status \notin {"provisioning", "running"}
                          \/ wave'.status \in {"blocked", "aborted", "completed"}
        BY <3>1 DEF Settled
      <4>1. runs[r].track \in Track /\ tracks[runs[r].track].planner # 0
        BY <2>2 DEF IInv, RunsFit, RunFits
      <4>2. \/ tracks[runs[r].track].status \notin {"provisioning", "running"}
            \/ wave.status \in {"blocked", "aborted", "completed"}
        BY <3>1 DEF Settled
      <4>3. CASE wave.status \in {"blocked", "aborted", "completed"}
        BY <1>1, <4>3 DEF Provisioned
      <4> QED BY <1>7, <4>1, <4>2, <4>3 DEF NothingRestarts
    <3>3. Notable(r)' => Noted(r)'
      BY <1>8, <2>2, <3>1 DEF Notable
    <3> QED BY <3>2, <3>3
  <2> QED BY <2>1, <2>2 DEF New
<1> QED BY <1>7, <1>8, <1>9, <1>12, <1>13, <1>14 DEF IInv

LEMMA SweepNextKeeps ==
    ASSUME IInv, ~Hot, SweepNext
    PROVE  IInv'
<1> DEFINE r == CHOOSE r \in boot.owed : \A q \in boot.owed : r <= q
           op == IF boot.stage = "terminals" THEN "clean" ELSE "ended"
<1>1. /\ boot.owed # {} /\ TypeOK /\ UNCHANGED <<wave, tracks, runs, git, spent>>
      /\ tasks' = tasks \cup {Task(op, r, {}, "boot")}
      /\ boot' = [boot EXCEPT !.owed = @ \ {r}]
  BY DEF SweepNext, IInv
<1>2. r \in boot.owed /\ r \in Nat
  <2>1. boot.owed \subseteq Nat
    BY <1>1 DEF TypeOK
  <2>2. \E q \in boot.owed : \A p \in boot.owed : q <= p
    BY <1>1, <2>1, Least
  <2> QED BY <2>1, <2>2
<1>3. /\ r \in DOMAIN runs /\ runs[r].status = "completed"
      /\ boot.stage = "terminals" => runs[r].kind = "terminal"
  BY <1>2 DEF IInv, OwedFits
<1> HIDE DEF r
<1>4. PICK k \in Handlers : k = Task(op, r, {}, "boot") /\ k.op = op /\ k.at = r
  <2>1. op \in Ops
    BY DEF Ops
  <2> HIDE DEF op
  <2> QED BY <1>2, <2>1, PlainTaskIs
<1>5. tasks' = tasks \cup {k} /\ tasks' \subseteq Handlers
  BY <1>1, <1>4 DEF TypeOK
<1>6. /\ boot' \in Boots /\ boot'.stage = boot.stage /\ (boot'.fresh = boot.fresh)
      /\ boot'.owed = boot.owed \ {r}
  <2>1. boot \in Boots
    BY <1>1 DEF TypeOK, Boots
  <2> QED BY <1>1, <2>1 DEF Boots
<1>7. HandlerFits(k)' /\ k.op \in {"clean", "ended"}
  BY <1>1, <1>3, <1>4 DEF HandlerFits
<1>8. OwedFits'
  BY <1>1, <1>6 DEF IInv, OwedFits
<1>9. JoinComes'
  BY <1>1, <1>5, <1>6 DEF IInv, JoinComes, Hot
<1>10. \A q \in DOMAIN runs : Notable(q) => Noted(q)'
  <2> SUFFICES ASSUME NEW q \in DOMAIN runs, Notable(q) PROVE Noted(q)'
    OBVIOUS
  <2>1. Noted(q)
    BY DEF IInv, AllNoted
  <2>2. CASE q = r
    BY <1>4, <1>5, <1>7, <2>2 DEF Noted
  <2>3. CASE q # r
    BY <1>1, <1>5, <1>6, <2>1, <2>3 DEF Noted, ToBeListed
  <2> QED BY <2>2, <2>3
<1>11. /\ \A l \in tasks' \ tasks : HandlerFits(l)' /\ l.op \notin {"finalize", "tips"}
       /\ \A l, m \in tasks' \ tasks : l = m
       /\ \A l \in tasks' \ tasks : l.op # "enqueue"
  <2>1. \A l \in tasks' \ tasks : l = k
    BY <1>5
  <2> QED BY <1>7, <2>1
<1>12. spent' \in [called : BOOLEAN, upsets : Nat]
  BY <1>1 DEF TypeOK
<1> QED BY <1>1, <1>5, <1>6, <1>8, <1>9, <1>10, <1>11, <1>12, LooksKeeps

(* The join as it stood when the wave was listed: a wave that runs now had *)
(* not joined then.                                                        *)
LEMMA SweepJoinKeeps ==
    ASSUME IInv, ~Hot, SweepJoin
    PROVE  IInv'
<1> DEFINE k == Task("join", 0, {}, "boot")
           new == IF boot.fresh /\ Finished(tracks) THEN {k} ELSE {}
<1>1. /\ boot.stage = "terminals" /\ TypeOK /\ UNCHANGED <<wave, tracks, runs, git, spent>>
      /\ boot' = [Up EXCEPT !.stage = "joined"] /\ tasks' = tasks \cup new
  BY DEF SweepJoin, IInv
<1>2. boot' \in Boots /\ boot'.stage = "joined" /\ boot'.owed = {}
  BY <1>1 DEF Up, Boots, Stages
<1>3. k \in Handlers /\ k.op = "join"
  BY PlainTaskIs DEF Ops
<1>4. /\ new \subseteq {k} /\ (boot.fresh /\ Finished(tracks) => new = {k})
  OBVIOUS
<1> HIDE DEF k, new
<1>5. /\ tasks' \subseteq Handlers
      /\ \A l \in tasks' \ tasks : l = k
      /\ boot.fresh /\ Finished(tracks) => k \in tasks'
  BY <1>1, <1>3, <1>4 DEF TypeOK
<1>6. \A l \in tasks' \ tasks : HandlerFits(l)' /\ l.op \notin {"finalize", "tips"} /\ l.op # "enqueue"
  <2>1. \A l \in tasks' \ tasks : l.op = "join"
    BY <1>3, <1>5
  <2> QED BY <2>1 DEF HandlerFits
<1>7. \A l, m \in tasks' \ tasks : l = m
  BY <1>5
<1>8. OwedFits'
  BY <1>2 DEF OwedFits
<1>9. JoinComes'
  <2>1. wave.status = "running" /\ Finished(tracks) => boot.fresh
    BY <1>1 DEF IInv, JoinComes, Hot
  <2> QED BY <1>1, <1>3, <1>5, <2>1 DEF JoinComes, Finished
<1>10. \A r \in DOMAIN runs : Notable(r) => Noted(r)'
  BY <1>2 DEF Noted, ToBeListed
<1>11. spent' \in [called : BOOLEAN, upsets : Nat]
  BY <1>1 DEF TypeOK
<1> QED BY <1>1, <1>2, <1>5, <1>6, <1>7, <1>8, <1>9, <1>10, <1>11, LooksKeeps

LEMMA SweepLastKeeps ==
    ASSUME IInv, ~Hot, SweepTransitions \/ SweepEnds
    PROVE  IInv'
<1>1. /\ UNCHANGED <<wave, tracks, runs, git, tasks, spent>> /\ TypeOK
      /\ boot.stage \in {"joined", "transitions"}
      /\ \A k \in tasks' \ tasks : HandlerFits(k)' /\ k.op \notin {"finalize", "tips"}
      /\ \A k, l \in tasks' \ tasks : k = l
      /\ \A k \in tasks' \ tasks : k.op # "enqueue"
  BY DEF SweepTransitions, SweepEnds, IInv
<1>2. spent' \in [called : BOOLEAN, upsets : Nat] /\ tasks' \subseteq Handlers /\ RunsGrow
  BY <1>1, SameRuns DEF TypeOK
<1>3. JoinComes'
  <2>1. ~(wave.status = "running" /\ Finished(tracks))
    BY <1>1 DEF IInv, JoinComes, Hot
  <2> QED BY <1>1, <2>1 DEF JoinComes, Finished
<1>4. CASE SweepTransitions
  <2>1. boot' = AfterWaves
    BY <1>4 DEF SweepTransitions
  <2> QED BY <1>1, <1>2, <1>3, <2>1, Listed, LooksKeeps
<1>5. CASE SweepEnds
  <2>1. boot' \in Boots /\ boot'.stage = "up" /\ boot'.owed = {} /\ boot.owed = {}
        /\ boot.stage = "transitions"
    BY <1>5 DEF SweepEnds, Up, Boots, Stages
  <2>2. OwedFits'
    BY <2>1 DEF OwedFits
  <2>3. \A r \in DOMAIN runs : Notable(r) => Noted(r)'
    BY <1>1, <2>1 DEF IInv, AllNoted, Noted, ToBeListed
  <2> QED BY <1>1, <1>2, <1>3, <2>1, <2>2, <2>3, LooksKeeps
<1> QED BY <1>4, <1>5

-----------------------------------------------------------------------------
(* The invariant *)

LEMMA Starts ==
    ASSUME Init
    PROVE  IInv
<1>1. /\ wave = [status |-> "none", joined |-> FALSE, integration |-> 0, finalized |-> FALSE]
      /\ tracks = [t \in Track |-> [status |-> "none", planner |-> 0]]
      /\ runs = <<NewRun("coordinator", 0, 0)>>
      /\ git = [trees |-> {}, dirty |-> {}, main |-> {}]
      /\ tasks = {}
      /\ boot = Up
      /\ spent = [called |-> FALSE, upsets |-> 0]
  BY DEF Init
<1> DEFINE x == NewRun("coordinator", 0, 0)
<1>2. x \in RunRows /\ x.kind = "coordinator" /\ x.status = "active"
  <2>1. x \in RunRows
    BY NewRunIs DEF Kinds
  <2> QED BY <2>1 DEF NewRun
<1> HIDE DEF x
<1>3. runs \in Seq(RunRows) /\ DOMAIN runs = {1} /\ runs[1] = x
  BY <1>1, <1>2 DEF x
<1>4. boot \in Boots /\ boot.stage = "up" /\ boot.owed = {}
  BY <1>1 DEF Up, Boots, Stages
<1>5. wave \in WaveRows /\ wave.status = "none" /\ wave.integration = 0 /\ ~wave.joined
      /\ ~wave.finalized
  BY <1>1 DEF WaveRows
<1>6. tracks \in [Track -> TrackRows]
      /\ \A t \in Track : tracks[t].status = "none" /\ tracks[t].planner = 0
  BY <1>1 DEF TrackRows
<1>7. TypeOK
  BY <1>1, <1>3, <1>4, <1>5, <1>6 DEF TypeOK, Boots
<1>8. RunsFit
  BY <1>2, <1>3 DEF RunsFit, RunFits
<1>9. HandlersFit /\ CallsFit /\ HotFits /\ OwedFits /\ JoinComes
  BY <1>1, <1>4, <1>5 DEF HandlersFit, CallsFit, HotFits, OwedFits, JoinComes
<1>10. WaveFits
  BY <1>2, <1>3, <1>5, <1>6 DEF WaveFits
<1>11. AllNoted
  BY <1>2, <1>3 DEF AllNoted, Settled, Notable
<1> QED BY <1>7, <1>8, <1>9, <1>10, <1>11 DEF IInv

LEMMA Stutters ==
    ASSUME IInv, UNCHANGED vars
    PROVE  IInv'
<1>1. /\ wave' = wave /\ tracks' = tracks /\ runs' = runs /\ git' = git /\ tasks' = tasks
      /\ boot' = boot /\ spent' = spent
  BY DEF vars
<1>2. TypeOK'
  BY <1>1 DEF IInv, TypeOK
<1>3. RunsFit' /\ WaveFits'
  BY <1>1 DEF IInv, RunsFit, RunFits, WaveFits
<1>4. HandlersFit' /\ CallsFit' /\ HotFits' /\ OwedFits'
  BY <1>1 DEF IInv, HandlersFit, HandlerFits, CallsFit, HotFits, OwedFits
<1>5. AllNoted'
  BY <1>1 DEF IInv, AllNoted, Settled, Notable, Noted, ToBeListed
<1>6. JoinComes'
  BY <1>1 DEF IInv, JoinComes, Finished
<1> QED BY <1>2, <1>3, <1>4, <1>5, <1>6 DEF IInv

LEMMA Inductive ==
    ASSUME IInv, [Next]_vars
    PROVE  IInv'
<1>1. CASE UNCHANGED vars
  BY <1>1, Stutters
<1>2. CASE Crash
  BY <1>2, CrashKeeps
<1>3. ASSUME NEW k \in tasks, Join(k) \/ Enqueue(k) PROVE IInv'
  BY <1>3, JoinKeeps, EnqueueKeeps
<1>4. ASSUME ~Hot, Sweep PROVE IInv'
  BY <1>4, SweepWaveKeeps, SweepPlannersKeeps, SweepNextKeeps, SweepJoinKeeps, SweepLastKeeps
     DEF Sweep
<1>5. ASSUME ~Hot, NEW k \in tasks, Work(k) PROVE IInv'
  <2>1. CASE FanOutChecked(k) \/ FanOutTree(k)
    BY <1>5, <2>1, FanOutCheckedKeeps, FanOutTreeKeeps
  <2>2. CASE FinalizeChecked(k) \/ FinalizeMerged(k)
    BY <1>5, <2>2, FinalizeCheckedKeeps, FinalizeMergedKeeps
  <2>3. CASE HandleStep(k) \/ HandleTerminal(k) \/ TrackClean(k) \/ TrackTip(k)
    BY <1>5, <2>3, HandleStepKeeps, HandleTerminalKeeps, TrackCleanKeeps, TrackTipKeeps
  <2>4. CASE HandleIntegration(k) \/ HandleFailure(k) \/ StopSibling(k)
    BY <1>5, <2>4, HandleIntegrationKeeps, HandleFailureKeeps, StopSiblingKeeps
  <2>5. CASE AbortRemoved(k) \/ RetryChecked(k)
    BY <1>5, <2>5, AbortRemovedKeeps, RetryCheckedKeeps
  <2> QED BY <1>5, <2>1, <2>2, <2>3, <2>4, <2>5 DEF Work
<1>6. ASSUME ~Hot, Agents PROVE IInv'
  <2>1. CASE FanOut
    BY <1>6, <2>1, FanOutKeeps
  <2>2. ASSUME NEW r \in DOMAIN runs, NEW status \in {"completed", "failed"}, Ends(r, status)
        PROVE  IInv'
    BY <1>6, <2>2, EndsKeeps
  <2>3. ASSUME NEW r \in DOMAIN runs, Block(r) \/ Finalize(r) PROVE IInv'
    BY <1>6, <2>3, BlockKeeps, FinalizeKeeps
  <2>4. ASSUME NEW t \in Track, Merge(t) PROVE IInv'
    BY <1>6, <2>4, MergeKeeps
  <2> QED BY <1>6, <2>1, <2>2, <2>3, <2>4 DEF Agents
<1>7. ASSUME ~Hot, Operator PROVE IInv'
  BY <1>7, AbortKeeps, RetryKeeps, PauseKeeps DEF Operator
<1> QED BY <1>1, <1>2, <1>3, <1>4, <1>5, <1>6, <1>7 DEF Next, Daemon

(* The inductive invariant, which includes the type of every variable.     *)
THEOREM IInvHolds == Spec => []IInv
<1>1. Init => IInv
  BY Starts
<1>2. IInv /\ [Next]_vars => IInv'
  BY Inductive
<1> QED BY <1>1, <1>2, PTL DEF Spec

-----------------------------------------------------------------------------
(* The properties *)

(* The main line goes on from an integration run only out of a finalized   *)
(* wave: every track integrated, and merged on main.                       *)
THEOREM OnlyWholeWaves == Spec => []OnlyWholeWavesMoveOn
<1>1. IInv => OnlyWholeWavesMoveOn
  BY DEF IInv, RunsFit, RunFits, WaveFits, OnlyWholeWavesMoveOn
<1> QED BY <1>1, IInvHolds, PTL

(* Nothing is owed when no handler waits and no sweep is under way: a      *)
(* completed run is claimed by then and its track settled, and a wave that *)
(* runs with its tracks complete has its join coming.                      *)
THEOREM TheBarrierDoesNotStandStill == Spec => []NothingOwedAtRest
<1>1. ASSUME IInv, tasks = {}, boot.stage = "up" PROVE ~Owed
  <2>1. \A r \in DOMAIN runs : Notable(r) => runs[r].claimed
    <3>1. ~ToBeListed /\ boot.owed = {}
      BY <1>1 DEF IInv, OwedFits, ToBeListed
    <3> QED BY <1>1, <3>1 DEF IInv, AllNoted, Noted
  <2>2. \A r \in DOMAIN runs :
          runs[r].kind = "terminal" /\ runs[r].status = "completed"
          /\ wave.status \in {"running", "integrating"}
          => tracks[runs[r].track].status # "running"
    BY <1>1, <2>1 DEF IInv, AllNoted, Settled, Notable
  <2>3. ~(wave.status = "running" /\ Finished(tracks))
    BY <1>1 DEF IInv, JoinComes
  <2>4. wave.finalized /\ runs[wave.integration].status = "completed" =>
          runs[wave.integration].claimed
    BY <1>1, <2>1 DEF IInv, WaveFits, Notable
  <2> QED BY <2>2, <2>3, <2>4 DEF Owed
<1>2. IInv => NothingOwedAtRest
  BY <1>1 DEF NothingOwedAtRest
<1> QED BY <1>2, IInvHolds, PTL

(* What AbortIsFinal asks of a step *)
LeavesIt ==
    /\ wave' = wave
    /\ \A t \in Track : tracks'[t].status = "completed" => tracks[t].status = "completed"
    /\ \A r \in New : runs'[r].kind # "integration"

LEMMA OfStanding ==
    ASSUME wave' = wave, tracks' = tracks, DOMAIN runs' = DOMAIN runs
    PROVE  LeavesIt
BY DEF LeavesIt, New

LEMMA ClaimLeaves ==
    ASSUME IInv, NEW r \in DOMAIN runs
    PROVE  DOMAIN Claim(runs, r) = DOMAIN runs
BY ClaimIs DEF IInv, TypeOK

LEMMA HandlersLeave ==
    ASSUME IInv, wave.status = "aborted", NEW k \in tasks, Work(k)
    PROVE  LeavesIt
<1>1. TypeOK /\ RunsFit /\ WaveFits /\ HandlerFits(k) /\ Blocked(wave) = wave
  BY DEF IInv, HandlersFit, Blocked
<1>2. CASE FanOutChecked(k)
  BY <1>2, OfStanding DEF FanOutChecked
<1>3. CASE FanOutTree(k)
  <2>1. CASE wave' = Blocked(wave) /\ UNCHANGED <<tracks, runs>>
    BY <1>1, <2>1, OfStanding
  <2>2. CASE UNCHANGED <<wave, tracks, runs>>
    BY <2>2, OfStanding
  <2>3. ASSUME wave' = Provisioned,
               StartPlanners(Claim(runs, 1), {u \in Track : tracks[u].planner = 0}, {})
        PROVE  LeavesIt
    <3> DEFINE rs == Claim(runs, 1)
               missing == {u \in Track : tracks[u].planner = 0}
    <3>1. rs \in Seq(RunRows) /\ DOMAIN rs = DOMAIN runs
      BY <1>1, ClaimIs DEF TypeOK
    <3>2. StartPlanners(rs, missing, {}) /\ missing \in SUBSET Track
      BY <2>3
    <3> HIDE DEF rs, missing
    <3>3. /\ \A r \in DOMAIN runs' \ DOMAIN rs : runs'[r].kind = "planner"
          /\ \A t \in Track :
                \/ tracks'[t] = tracks[t]
                \/ tracks'[t].status = IF tracks[t].status = "provisioning" THEN "running"
                                       ELSE tracks[t].status
      BY <1>1, <3>1, <3>2, StartPlannersIs
    <3>4. wave' = wave
      BY <2>3 DEF Provisioned
    <3> QED BY <3>1, <3>3, <3>4 DEF LeavesIt, New
  <2> QED BY <1>3, <2>1, <2>2, <2>3 DEF FanOutTree
<1>4. CASE FinalizeChecked(k) \/ FinalizeMerged(k)
  BY <1>4, OfStanding DEF FinalizeChecked, FinalizeMerged
<1>5. CASE HandleTerminal(k) \/ AbortRemoved(k) \/ RetryChecked(k)
  BY <1>5, OfStanding DEF HandleTerminal, AbortRemoved, RetryChecked, MayPrepare
<1>6. ASSUME Onward(k.at), k.op = "ended", UNCHANGED <<wave, tracks>> PROVE LeavesIt
  <2>1. k.at \in DOMAIN runs /\ runs[k.at].status \in {"completed", "failed"} /\ RunFits(k.at)
    BY <1>1, <1>6 DEF HandlerFits, RunsFit
  <2>2. \A q \in New : IF runs[k.at].kind = "planner"
                       THEN runs'[q].kind = "terminal" ELSE runs'[q].kind = "serial"
    BY <1>1, <1>6, <2>1, OnwardIs
  <2> QED BY <1>6, <2>2 DEF LeavesIt
<1>7. CASE HandleStep(k)
  BY <1>6, <1>7 DEF HandleStep
<1>8. CASE TrackClean(k)
  <2>1. k.at \in DOMAIN runs
    BY <1>1, <1>8 DEF HandlerFits, TrackClean
  <2> QED BY <1>1, <1>8, <2>1, ClaimLeaves, OfStanding DEF TrackClean
<1>9. CASE TrackTip(k)
  <2>1. k.at \in DOMAIN runs /\ runs[k.at].kind = "terminal"
    BY <1>1, <1>9 DEF HandlerFits, TrackTip
  <2>2. tracks[runs[k.at].track].status \notin {"provisioning", "running"}
    BY <1>1, <2>1 DEF RunsFit, RunFits, WaveFits
  <2>3. wave' = wave /\ tracks' = tracks /\ runs' = Claim(runs, k.at)
    BY <1>1, <1>9, <2>2 DEF TrackTip
  <2> QED BY <2>1, <2>3, ClaimLeaves, OfStanding
<1>10. CASE HandleIntegration(k)
  <2>1. k.at \in DOMAIN runs
    BY <1>1, <1>10 DEF HandlerFits, HandleIntegration
  <2>2. CASE Onward(k.at) /\ UNCHANGED wave
    BY <1>6, <1>10, <2>2 DEF HandleIntegration
  <2>3. CASE wave' = Blocked(wave) /\ runs' = Claim(runs, k.at)
    BY <1>1, <1>10, <2>1, <2>3, ClaimLeaves, OfStanding DEF HandleIntegration
  <2> QED BY <1>10, <2>2, <2>3 DEF HandleIntegration
<1>11. CASE HandleFailure(k)
  BY <1>11, OfStanding DEF HandleFailure, AbortedWave, AbortedTracks
<1>12. CASE StopSibling(k)
  <2>1. k.at # 0 => k.at \in DOMAIN runs
    BY <1>1, <1>12 DEF HandlerFits, StopSibling
  <2>2. DOMAIN runs' = DOMAIN runs
    BY <1>12, <2>1, ClaimLeaves DEF StopSibling
  <2> QED BY <1>12, <2>2, OfStanding DEF StopSibling
<1> QED BY <1>2, <1>3, <1>4, <1>5, <1>7, <1>8, <1>9, <1>10, <1>11, <1>12 DEF Work

LEMMA SweepLeaves ==
    ASSUME IInv, wave.status = "aborted", Sweep
    PROVE  LeavesIt
<1>1. CASE SweepWave \/ SweepNext \/ SweepJoin \/ SweepTransitions \/ SweepEnds
  BY <1>1, OfStanding DEF SweepWave, SweepNext, SweepJoin, SweepTransitions, SweepEnds
<1>2. CASE SweepPlanners
  <2> DEFINE missing == {u \in Track : tracks[u].planner = 0}
  <2>1. PICK lost : StartPlanners(runs, missing, lost)
    BY <1>2 DEF SweepPlanners
  <2>1a. missing \in SUBSET Track /\ runs \in Seq(RunRows) /\ TypeOK
    BY DEF IInv, TypeOK
  <2> HIDE DEF missing
  <2>2. /\ \A r \in DOMAIN runs' \ DOMAIN runs : runs'[r].kind = "planner"
        /\ \A t \in Track :
              \/ tracks'[t] = tracks[t]
              \/ tracks'[t].status = IF tracks[t].status = "provisioning" THEN "running"
                                     ELSE tracks[t].status
    BY <2>1, <2>1a, StartPlannersIs
  <2>3. wave' = wave
    BY <1>2 DEF SweepPlanners, Provisioned
  <2> QED BY <2>2, <2>3 DEF LeavesIt, New
<1> QED BY <1>1, <1>2 DEF Sweep

LEMMA OthersLeave ==
    ASSUME IInv, wave.status = "aborted", Crash \/ Agents \/ Operator
    PROVE  LeavesIt
<1>1. CASE Crash \/ FanOut \/ Retry
  BY <1>1, OfStanding DEF Crash, FanOut, Retry
<1>2. CASE Abort
  BY <1>2 DEF Abort
<1>3. ASSUME NEW r \in DOMAIN runs, NEW status, Ends(r, status) PROVE LeavesIt
  <2>1. DOMAIN runs' = DOMAIN runs
    BY <1>3 DEF Ends
  <2> QED BY <1>3, <2>1, OfStanding DEF Ends
<1>4. ASSUME NEW r \in DOMAIN runs, Block(r) \/ Finalize(r) PROVE LeavesIt
  BY <1>4, OfStanding DEF Block, Blocked, Finalize
<1>5. ASSUME NEW t \in Track, Merge(t) PROVE LeavesIt
  BY <1>5, OfStanding DEF Merge
<1>6. ASSUME NEW r \in DOMAIN runs, Pause(r) \/ Resume(r) PROVE LeavesIt
  <2>1. DOMAIN runs' = DOMAIN runs
    BY <1>6 DEF Pause, Resume
  <2> QED BY <1>6, <2>1, OfStanding DEF Pause, Resume
<1> QED BY <1>1, <1>2, <1>3, <1>4, <1>5, <1>6 DEF Agents, Operator

(* An aborted wave stays aborted, completes no track and starts no         *)
(* integration run, whatever was under way when it was aborted.            *)
THEOREM TheAbortIsFinal == Spec => AbortIsFinal
<1> DEFINE Final == wave.status = "aborted" =>
              /\ wave'.status = "aborted"
              /\ \A t \in Track : tracks'[t].status = "completed" => tracks[t].status = "completed"
              /\ \A r \in DOMAIN runs' \ DOMAIN runs : runs'[r].kind # "integration"
<1>1. IInv /\ [Next]_vars => [Final]_vars
  <2> SUFFICES ASSUME IInv, Next, wave.status = "aborted" PROVE LeavesIt
    BY DEF LeavesIt, New, vars
  <2>1. ASSUME NEW k \in tasks, Join(k) \/ Enqueue(k) PROVE LeavesIt
    <3>1. ~Enqueue(k)
      BY DEF IInv, HotFits, Enqueue
    <3> QED BY <2>1, <3>1, OfStanding DEF Join, MayJoin
  <2> QED BY <2>1, HandlersLeave, SweepLeaves, OthersLeave DEF Next, Daemon
<1> QED BY <1>1, IInvHolds, PTL DEF Spec, AbortIsFinal
=============================================================================
