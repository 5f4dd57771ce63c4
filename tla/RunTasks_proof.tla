--------------------------- MODULE RunTasks_proof ---------------------------
(***************************************************************************)
(* Who works on a run, for every number of runs, cap, attempt limit and    *)
(* number of crashes and stalls: a run that is under way has a task of its *)
(* own that nobody has aborted, and a free slot beside a queued run always *)
(* has somebody who will pump.                                             *)
(*                                                                         *)
(* Both hold while no follow-up turn is begun (Unaided): a follow-up       *)
(* watches the controller that is registered for its run, and the late     *)
(* task of the turn before may have removed it.  The second also needs     *)
(* that no track stands in the pump's way and that no task waits for the   *)
(* answer of a run that may be cancelled meanwhile (Lean).                 *)
(***************************************************************************)
EXTENDS RunEngine_proof

Unaided == OperatorOps \subseteq {"cancel", "pause", "answer"}

Lean == TrackRuns = {} /\ (AskKinds = {} \/ MaxCrashes = 0)

Working == {"running", "needs_input"}

(* The task of s drives its run: it is an attempt, it has not come to its  *)
(* end, and the controller it watches is its own and has not been aborted. *)
Drives(m, s) ==
    /\ m.task[s].kind \in ExecKinds
    /\ m.task[s].pc \in {"spawning", "resuming", "answerWait", "sending",
                         "streaming", "waiting"}
    /\ m.task[s].sig = s
    /\ s \notin m.aborted

(* The tasks there are without follow-ups. *)
Fits(t) ==
    /\ t.kind \in ExecKinds \cup {"answer", "none"}
    /\ t.pc \notin {"reviving", "fallback"}
    /\ t.pc = "answerWait" => t.kind = "needsinput"
    /\ Lean => t.kind # "needsinput"

Sober(d) == d.msgs = 0 /\ (AskKinds = {} => d.status # "needs_input")

Driven(d, m) == d.status \in Working => \E s \in Slots : Drives(m, s)

Staffed(r, d, m) ==
    /\ Sober(d)
    /\ \A s \in Slots : Fits(m.task[s])
    /\ r \notin TrackRuns => Driven(d, m)

(* The end of the task pumps the queue, if its run has settled.  What an   *)
(* answer's task does after its dispose was decided before it.             *)
Pumps(t) ==
    /\ t.pc # "idle"
    /\ t.pc = "disposing" /\ t.kind \notin ExecKinds => t.orig \in Terminal

Busy(d, m) ==
    m.pumpTimer \/ (d.status \in Terminal /\ \E s \in Slots : Pumps(m.task[s]))

Starved(D) == Cardinality(Active(D)) < Cap /\ Queued(D) # {}

Conserving(D, M) == Starved(D) => \E r \in Runs : Busy(D[r], M[r])

Manned(D, M) ==
    /\ \A r \in Runs : Staffed(r, D[r], M[r])
    /\ Lean => Conserving(D, M)

TInv ==
    /\ \A r \in Runs : Sober(db[r])
    /\ MaxCrashes = 0 => up
    /\ up => Manned(db, mem)

OnDuty == Unaided /\ IInv /\ up /\ Manned(db, mem)

LEMMA DutyTypes ==
    ASSUME OnDuty
    PROVE  /\ db \in [Runs -> DbRow] /\ mem \in [Runs -> MemRow]
           /\ \A r \in Runs : /\ ~mem[r].pendingInterrupt /\ ~mem[r].interruptTimer
                              /\ Staffed(r, db[r], mem[r])
                              /\ db[r] \in DbRow /\ mem[r] \in MemRow
<1>1. Calm
  BY DEF OnDuty, Unaided, Calm
<1>2. \A r \in Runs : ~mem[r].pendingInterrupt /\ ~mem[r].interruptTimer
  BY <1>1 DEF OnDuty, IInv, GoodRows, Good, Quiet
<1> QED BY <1>2 DEF OnDuty, IInv, GoodRows, Manned

(* The entries of k are those of m, as far as the tasks go. *)
Same(m, k) ==
    /\ k.task = m.task /\ k.aborted = m.aborted /\ k.pumpTimer = m.pumpTimer
    /\ k.pendingInterrupt = m.pendingInterrupt

LEMMA StaffedSame ==
    ASSUME NEW r, NEW d, NEW m, NEW k, Staffed(r, d, m), Same(m, k)
    PROVE  Staffed(r, d, k)
BY DEF Staffed, Same, Driven, Drives

-----------------------------------------------------------------------------
(* The pump leaves no slot free beside a queued run. *)
LEMMA PumpFills ==
    ASSUME NEW D \in [Runs -> DbRow], NEW S, PumpStarts(S, D, Runs),
           db' = AfterPump(S, D)
    PROVE  ~Starved(db')
<1>1. S \subseteq Runs /\ S \subseteq Queued(D)
  BY DEF PumpStarts, Queued
<1>2. CASE S = Queued(D)
  BY <1>2 DEF Starved, Queued, AfterPump, BeginRow, DbRow
<1>3. CASE Cardinality(S) + Cardinality(Active(D)) >= Cap
  <2>1. Active(db') = S \cup Active(D)
    BY <1>1 DEF Active, AfterPump, BeginRow, Holding, DbRow
  <2>2. S \cap Active(D) = {}
    BY <1>1 DEF Active, Queued, Holding
  <2>3. Active(D) \subseteq Runs
    BY DEF Active
  <2>4. /\ IsFiniteSet(S) /\ IsFiniteSet(Active(D))
        /\ Cardinality(S) \in Nat /\ Cardinality(Active(D)) \in Nat
    BY <1>1, <2>3, RunsFinite
  <2>5. Cardinality(S \cup Active(D)) = Cardinality(S) + Cardinality(Active(D))
    BY <2>2, <2>4, DisjointUnion
  <2>6. Cardinality(Active(db')) >= Cap
    BY <1>3, <2>1, <2>5
  <2> QED BY <2>1, <2>4, <2>5, <2>6, CapAssumption DEF Starved
<1>4. ~\E h \in Queued(D) \ (S \cup Runs) : \A q \in Queued(D) \ S : h <= q
  BY DEF Queued
<1> QED BY <1>2, <1>3, <1>4 DEF PumpStarts

LEMMA BegunStaffed ==
    ASSUME NEW r, NEW d \in DbRow, NEW m \in MemRow, Staffed(r, d, m)
    PROVE  Staffed(r, BeginRow(d), BeginMem(m))
<1> DEFINE s == NewSlot(m)
           n == BeginMem(m)
           t == [pc |-> "spawning", kind |-> "fresh", orig |-> "none", sig |-> s]
<1>1. s \in Slots
  BY NewSlotType
<1>2. n = [m EXCEPT !.inFlight = s, !.aborted = m.aborted \ {s}, !.task[s] = t]
  BY DEF BeginMem, NewTask
<1>3. /\ n.aborted = m.aborted \ {s} /\ n.task[s] = t
      /\ \A x \in Slots : n.task[x] = IF x = s THEN t ELSE m.task[x]
  BY <1>1, <1>2 DEF MemRow
<1> HIDE DEF s, n
<1>4. Fits(t) /\ Drives(n, s)
  BY <1>1, <1>3 DEF Fits, Drives, ExecKinds
<1>5. \A x \in Slots : Fits(n.task[x])
  BY <1>3, <1>4 DEF Staffed
<1>6. BeginRow(d).msgs = d.msgs /\ BeginRow(d).status = "running"
  BY DEF BeginRow, DbRow
<1>7. Staffed(r, BeginRow(d), n)
  BY <1>1, <1>4, <1>5, <1>6 DEF Staffed, Sober, Driven
<1> QED BY <1>7 DEF n

LEMMA PumpManned ==
    ASSUME OnDuty, NEW D \in [Runs -> DbRow], NEW M \in [Runs -> MemRow],
           \A r \in Runs : Staffed(r, D[r], M[r]), Pump(D, M)
    PROVE  Manned(db', mem')
<1>1. PICK S \in SUBSET Runs :
        /\ PumpStarts(S, D, Context)
        /\ db' = [r \in Runs |-> IF r \in S THEN BeginRow(D[r]) ELSE D[r]]
        /\ mem' = [r \in Runs |-> IF r \in S THEN BeginMem(M[r]) ELSE M[r]]
  BY DEF Pump
<1>2. \A r \in Runs : Staffed(r, db'[r], mem'[r])
  BY <1>1, BegunStaffed
<1>3. ASSUME Lean PROVE ~Starved(db')
  <2>1. Context = Runs
    BY <1>3 DEF Lean, Context, OnDuty, IInv
  <2> QED BY <1>1, <2>1, PumpFills DEF AfterPump
<1> QED BY <1>2, <1>3 DEF Manned, Conserving

(* What a write may do to a run that somebody may be counted upon for. *)
Trades(r, d, m) ==
    \/ Busy(d, m)
    \/ /\ ~Busy(db[r], mem[r])
       /\ db[r].status \in Holding => d.status \in Holding
       /\ d.status = "queued" => db[r].status = "queued"

LEMMA WriteManned ==
    ASSUME OnDuty, NEW r \in Runs, NEW d, NEW m, Write(r, d, m), Staffed(r, d, m),
           Lean => Trades(r, d, m)
    PROVE  Manned(db', mem')
<1>1. \A q \in Runs : /\ db'[q] = IF q = r THEN d ELSE db[q]
                      /\ mem'[q] = IF q = r THEN m ELSE mem[q]
  BY DutyTypes DEF Write
<1>2. \A q \in Runs : Staffed(q, db'[q], mem'[q])
  BY <1>1, DutyTypes
<1>3. ASSUME Lean, Starved(db')
      PROVE  \E q \in Runs : Busy(db'[q], mem'[q])
  <2>1. CASE Busy(d, m)
    BY <1>1, <2>1
  <2>2. CASE ~Busy(d, m)
    <3>1. /\ ~Busy(db[r], mem[r])
          /\ db[r].status \in Holding => d.status \in Holding
          /\ d.status = "queued" => db[r].status = "queued"
      BY <1>3, <2>2 DEF Trades
    <3>2. Active(db) \subseteq Active(db') /\ Active(db') \subseteq Runs
      BY <1>1, <3>1 DEF Active
    <3>3. Queued(db') \subseteq Queued(db)
      BY <1>1, <3>1 DEF Queued
    <3>4. Cardinality(Active(db)) <= Cardinality(Active(db'))
      BY <3>2, RunsFinite, FS_Subset
    <3>5. Cardinality(Active(db)) \in Nat /\ Cardinality(Active(db')) \in Nat
      BY <3>2, RunsFinite
    <3>6. Starved(db)
      BY <1>3, <3>3, <3>4, <3>5, CapAssumption DEF Starved
    <3>7. PICK q \in Runs : Busy(db[q], mem[q])
      BY <1>3, <3>6 DEF OnDuty, Manned, Conserving
    <3> QED BY <1>1, <3>1, <3>7
  <2> QED BY <2>1, <2>2
<1> QED BY <1>2, <1>3 DEF Manned, Conserving

LEMMA WriteAndPumpManned ==
    ASSUME OnDuty, NEW r \in Runs, NEW d \in DbRow, NEW m \in MemRow,
           WriteAndPump(r, d, m), Staffed(r, d, m)
    PROVE  Manned(db', mem')
<1> DEFINE D == [db EXCEPT ![r] = d]
           M == [mem EXCEPT ![r] = m]
<1>1. D \in [Runs -> DbRow] /\ M \in [Runs -> MemRow]
  BY DutyTypes
<1>2. \A q \in Runs : Staffed(q, D[q], M[q])
  BY DutyTypes
<1>3. Pump(D, M)
  BY DEF WriteAndPump
<1> HIDE DEF D, M
<1> QED BY <1>1, <1>2, <1>3, PumpManned

(* A write that leaves the run's status and what can be counted upon. *)
LEMMA SameManned ==
    ASSUME OnDuty, NEW r \in Runs, NEW d, NEW m, Write(r, d, m), Same(mem[r], m),
           d.status = db[r].status, d.msgs = db[r].msgs
    PROVE  Manned(db', mem')
<1>1. Staffed(r, d, m)
  <2>1. Staffed(r, db[r], m)
    BY DutyTypes, StaffedSame
  <2> QED BY <2>1 DEF Staffed, Sober, Driven
<1>2. Trades(r, d, m)
  BY DEF Trades, Busy, Same
<1> QED BY <1>1, <1>2, WriteManned

-----------------------------------------------------------------------------
(* The ends of tasks. *)
Onward(d0, d) ==
    /\ d0.status \in Terminal => d.status \in Terminal
    /\ d0.status \in Holding => d.status \in Holding \cup Terminal
    /\ d.status = "queued" => d0.status = "queued"

LEMMA SettleManned ==
    ASSUME OnDuty, NEW r \in Runs, NEW d \in DbRow, NEW m \in MemRow, NEW terminal,
           Staffed(r, d, m), ~m.pendingInterrupt, m.pumpTimer = mem[r].pumpTimer,
           Onward(db[r], d), d.status \in Terminal => terminal,
           Settle(r, d, m, terminal)
    PROVE  Manned(db', mem')
<1>1. CASE \E n \in {d.attempts} \cup (IF TailPrunes THEN {0} ELSE {}) :
             WriteAndPump(r, [d EXCEPT !.attempts = n],
                          [m EXCEPT !.deliverTimer = @ \/ d.status # "cancelled"])
  <2>1. PICK n \in {d.attempts} \cup (IF TailPrunes THEN {0} ELSE {}) :
             WriteAndPump(r, [d EXCEPT !.attempts = n],
                          [m EXCEPT !.deliverTimer = @ \/ d.status # "cancelled"])
    BY <1>1
  <2> DEFINE e == [d EXCEPT !.attempts = n]
             k == [m EXCEPT !.deliverTimer = @ \/ d.status # "cancelled"]
  <2>2. e \in DbRow /\ e.status = d.status /\ e.msgs = d.msgs
    BY DEF DbRow
  <2>3. k \in MemRow /\ Same(m, k)
    BY DEF MemRow, Same
  <2> HIDE DEF e, k
  <2>4. Staffed(r, e, m)
    BY <2>2 DEF Staffed, Sober, Driven
  <2>5. Staffed(r, e, k)
    BY <2>3, <2>4, StaffedSame
  <2> QED BY <2>1, <2>2, <2>3, <2>5, WriteAndPumpManned DEF e, k
<1>2. CASE d.status \notin Terminal /\ Write(r, d, m)
  <2>1. Trades(r, d, m)
    BY <1>2 DEF Trades, Busy, Onward
  <2> QED BY <1>2, <2>1, WriteManned
<1> QED BY <1>1, <1>2 DEF Settle

(* The task of s may leave the run with the row d. *)
Leaving(r, s, d, m) ==
    /\ r \in Runs /\ s \in Slots /\ d \in DbRow /\ m \in MemRow
    /\ Same(mem[r], m)
    /\ Sober(d) /\ Onward(db[r], d)
    /\ r \notin TrackRuns /\ d.status \in Working =>
          \E w \in Slots \ {s} : Drives(m, w)

LEMMA LeavingSame ==
    ASSUME NEW r, NEW s, NEW d, NEW m, Leaving(r, s, d, m), NEW k \in MemRow, Same(m, k)
    PROVE  Leaving(r, s, d, k)
BY DEF Leaving, Same, Drives

LEMMA IdleTypes == Idle \in Task /\ Fits(Idle)
BY SlotTypes DEF Idle, Task, Pcs, Kinds, Fits, ExecKinds

LEMMA EndedIs ==
    ASSUME NEW m \in MemRow, NEW s \in Slots
    PROVE  /\ Ended(m, s) \in MemRow
           /\ \A x \in Slots : Ended(m, s).task[x] = IF x = s THEN Idle ELSE m.task[x]
           /\ Ended(m, s).aborted \subseteq m.aborted
           /\ Ended(m, s).pumpTimer = m.pumpTimer
           /\ Ended(m, s).pendingInterrupt = m.pendingInterrupt
<1>1. PICK A \in SUBSET m.aborted : Ended(m, s) = [m EXCEPT !.task[s] = Idle, !.aborted = A]
  BY DEF Ended, MemRow
<1>2. m.aborted \subseteq Slots /\ m.task \in [Slots -> Task]
  BY DEF MemRow
<1> DEFINE T == [m.task EXCEPT ![s] = Idle]
<1>3. T \in [Slots -> Task] /\ \A x \in Slots : T[x] = IF x = s THEN Idle ELSE m.task[x]
  BY <1>2, IdleTypes
<1>4. Ended(m, s) = [m EXCEPT !.task = T, !.aborted = A]
  BY <1>1 DEF MemRow
<1> HIDE DEF T
<1>5. /\ Ended(m, s).task = T /\ Ended(m, s).aborted = A
      /\ Ended(m, s).pumpTimer = m.pumpTimer
      /\ Ended(m, s).pendingInterrupt = m.pendingInterrupt
  BY <1>4 DEF MemRow
<1>6. Ended(m, s) \in MemRow
  <2>1. A \in SUBSET Slots
    BY <1>2
  <2> QED BY <1>3, <1>4, <2>1 DEF MemRow
<1> QED BY <1>3, <1>5, <1>6

LEMMA EndedStaffed ==
    ASSUME OnDuty, NEW r, NEW s, NEW d, NEW m, Leaving(r, s, d, m)
    PROVE  Staffed(r, d, Ended(m, s))
<1> DEFINE n == Ended(m, s)
<1>1. /\ \A x \in Slots : n.task[x] = IF x = s THEN Idle ELSE m.task[x]
      /\ n.aborted \subseteq m.aborted
  BY EndedIs DEF Leaving
<1>2. \A x \in Slots : Fits(m.task[x])
  BY DutyTypes DEF Leaving, Same, Staffed
<1> HIDE DEF n
<1>3. \A x \in Slots : Fits(n.task[x])
  BY <1>1, <1>2, IdleTypes
<1>4. ASSUME r \notin TrackRuns PROVE Driven(d, n)
  <2>1. \A w \in Slots \ {s} : Drives(m, w) => Drives(n, w)
    BY <1>1 DEF Drives
  <2> QED BY <1>4, <2>1 DEF Leaving, Driven
<1>5. Staffed(r, d, n)
  BY <1>3, <1>4 DEF Leaving, Staffed
<1> QED BY <1>5 DEF n

LEMMA EndManned ==
    ASSUME OnDuty, NEW r, NEW s, NEW d, NEW m, Leaving(r, s, d, m), NEW terminal,
           d.status \in Terminal => terminal, Settle(r, d, Ended(m, s), terminal)
    PROVE  Manned(db', mem')
<1>1. r \in Runs /\ s \in Slots /\ d \in DbRow /\ m \in MemRow
      /\ Same(mem[r], m) /\ Onward(db[r], d)
  BY DEF Leaving
<1>2. ~mem[r].pendingInterrupt
  BY <1>1, DutyTypes
<1>3. Ended(m, s) \in MemRow /\ ~Ended(m, s).pendingInterrupt
      /\ Ended(m, s).pumpTimer = mem[r].pumpTimer
  BY <1>1, <1>2, EndedIs DEF Same
<1>4. Staffed(r, d, Ended(m, s))
  BY EndedStaffed
<1> QED BY <1>1, <1>3, <1>4, SettleManned

LEMMA DisposeManned ==
    ASSUME OnDuty, NEW r, NEW s, NEW d, NEW m, Leaving(r, s, d, m),
           d.status \in Terminal \cup {"paused"}, Write(r, d, Disposing(m, s, d.status))
    PROVE  Manned(db', mem')
<1> DEFINE n == Disposing(m, s, d.status)
           t == [m.task[s] EXCEPT !.pc = "disposing", !.orig = d.status, !.sig = NoTask]
<1>1. r \in Runs /\ s \in Slots /\ m \in MemRow /\ Same(mem[r], m) /\ Onward(db[r], d) /\ Sober(d)
  BY DEF Leaving
<1>2. m.task \in [Slots -> Task]
  BY <1>1 DEF MemRow
<1>3. t.kind = m.task[s].kind /\ t.pc = "disposing" /\ t.orig = d.status
  BY <1>1, <1>2 DEF Task
<1>4. n = [m EXCEPT !.task[s] = t]
  BY <1>1 DEF Disposing, MemRow
<1>5. /\ \A x \in Slots : n.task[x] = IF x = s THEN t ELSE m.task[x]
      /\ n.pumpTimer = m.pumpTimer
  BY <1>1, <1>2, <1>4 DEF MemRow
<1>6. \A x \in Slots : Fits(m.task[x])
  BY <1>1, DutyTypes DEF Same, Staffed
<1> HIDE DEF n, t
<1>7. Fits(t)
  BY <1>1, <1>3, <1>6 DEF Fits
<1>8. Staffed(r, d, n)
  BY <1>1, <1>5, <1>6, <1>7 DEF Staffed, Driven, Working, Terminal
<1>9. Trades(r, d, n)
  <2>1. CASE d.status \in Terminal
    <3>1. Pumps(t)
      BY <1>3, <2>1 DEF Pumps
    <3> QED BY <1>1, <1>5, <2>1, <3>1 DEF Trades, Busy
  <2>2. CASE d.status = "paused"
    <3>1. db[r].status \notin Terminal
      BY <1>1, <2>2 DEF Onward, Terminal
    <3>2. n.pumpTimer = mem[r].pumpTimer
      BY <1>1, <1>5 DEF Same
    <3> QED BY <2>2, <3>1, <3>2 DEF Trades, Busy, Holding
  <2> QED BY <2>1, <2>2
<1> QED BY <1>1, <1>8, <1>9, WriteManned DEF n

(* Forgetting the handle and the controller, or keeping the session, does  *)
(* not touch the tasks.                                                    *)
LEMMA SameRelease ==
    ASSUME NEW m \in MemRow
    PROVE  /\ Release(m) \in MemRow /\ Same(m, Release(m))
           /\ [m EXCEPT !.retained = TRUE] \in MemRow /\ Same(m, [m EXCEPT !.retained = TRUE])
           /\ WithHandle(m) \in MemRow /\ Same(m, WithHandle(m))
BY SlotTypes DEF Release, WithHandle, MemRow, Same

LEMMA LeavingKept ==
    ASSUME NEW r, NEW s, NEW d, NEW m, Leaving(r, s, d, m)
    PROVE  Leaving(r, s, d, Release(m)) /\ Leaving(r, s, d, [m EXCEPT !.retained = TRUE])
<1>1. m \in MemRow
  BY DEF Leaving
<1> QED BY <1>1, SameRelease, LeavingSame

LEMMA ExecFinallyManned ==
    ASSUME OnDuty, NEW r, NEW s, NEW d, NEW m, NEW active, Leaving(r, s, d, m),
           ExecFinally(r, s, d, m, active)
    PROVE  Manned(db', mem')
<1> DEFINE m1 == Release(m)
<1>1. Leaving(r, s, d, m1) /\ Leaving(r, s, d, [m1 EXCEPT !.retained = TRUE])
  BY LeavingKept
<1> HIDE DEF m1
<1>2. \/ Settle(r, d, Ended([m1 EXCEPT !.retained = TRUE], s), d.status \in Terminal)
      \/ /\ d.status \in Terminal \cup {"paused"}
         /\ Write(r, d, Disposing(m1, s, d.status))
      \/ Settle(r, d, Ended(m1, s), d.status \in Terminal)
  BY DEF ExecFinally, m1
<1> QED BY <1>1, <1>2, EndManned, DisposeManned

LEMMA CleanupManned ==
    ASSUME OnDuty, NEW r, NEW s, NEW d, NEW m, NEW active, NEW always, Leaving(r, s, d, m),
           Cleanup(r, s, d, m, active, always)
    PROVE  Manned(db', mem')
<1> DEFINE m1 == IF always \/ d.status \in Terminal \cup {"paused"} THEN Release(m) ELSE m
<1>1. Leaving(r, s, d, m1) /\ Leaving(r, s, d, [m1 EXCEPT !.retained = TRUE])
  BY LeavingKept
<1>2. \/ Settle(r, d, Ended([m1 EXCEPT !.retained = TRUE], s), d.status \in Terminal)
      \/ /\ d.status \in Terminal \cup {"paused"}
         /\ Write(r, d, Disposing(m, s, d.status))
      \/ Settle(r, d, Ended(m1, s), d.status \in Terminal)
  BY DEF Cleanup
<1> HIDE DEF m1
<1> QED BY <1>1, <1>2, EndManned, DisposeManned

LEMMA KindFits ==
    ASSUME OnDuty, NEW r \in Runs, NEW s \in Slots
    PROVE  /\ Fits(mem[r].task[s])
           /\ mem[r].task[s].kind \notin {"follow", "revive", "retained"}
           /\ mem[r].task[s].pc \notin {"reviving", "fallback"}
<1>1. Fits(mem[r].task[s])
  BY DutyTypes DEF Staffed
<1> QED BY <1>1 DEF Fits, ExecKinds

LEMMA ReturnManned ==
    ASSUME OnDuty, NEW r, NEW s, NEW d, NEW m, Leaving(r, s, d, m), Return(r, s, d, m)
    PROVE  Manned(db', mem')
<1>1. m.task[s].kind \notin {"follow", "revive", "retained"}
  BY KindFits DEF Leaving, Same
<1>2. \/ ExecFinally(r, s, d, m, m.task[s].kind # "needsinput")
      \/ Cleanup(r, s, d, m, TRUE, FALSE)
  BY <1>1 DEF Return
<1> QED BY <1>2, ExecFinallyManned, CleanupManned

(* Who may leave: a task that does not drive its run, ... *)
LEMMA LeavesBehind ==
    ASSUME OnDuty, NEW r \in Runs, NEW s \in Slots, NEW d \in DbRow, NEW m \in MemRow,
           Same(mem[r], m), d.status = db[r].status, d.msgs = db[r].msgs,
           d.status \in Working => ~Drives(mem[r], s)
    PROVE  Leaving(r, s, d, m)
<1>1. Staffed(r, db[r], mem[r])
  BY DutyTypes
<1>2. Sober(d) /\ Onward(db[r], d)
  BY <1>1 DEF Staffed, Sober, Onward
<1>3. ASSUME r \notin TrackRuns, d.status \in Working
      PROVE  \E w \in Slots \ {s} : Drives(m, w)
  <2>1. PICK w \in Slots : Drives(mem[r], w)
    BY <1>1, <1>3 DEF Staffed, Driven
  <2>2. w # s
    BY <1>3, <2>1
  <2> QED BY <2>1, <2>2 DEF Same, Drives
<1> QED BY <1>2, <1>3 DEF Leaving

(* ... and any task, with a run that it settles. *)
LEMMA LeavesSettled ==
    ASSUME OnDuty, NEW r \in Runs, NEW s \in Slots, NEW d \in DbRow, NEW m \in MemRow,
           Same(mem[r], m), d.status \in Terminal, d.msgs = db[r].msgs
    PROVE  Leaving(r, s, d, m)
<1>1. Staffed(r, db[r], mem[r])
  BY DutyTypes
<1>2. Sober(d) /\ Onward(db[r], d) /\ d.status \notin Working
  BY <1>1 DEF Staffed, Sober, Onward, Terminal, Working
<1> QED BY <1>2 DEF Leaving

LEMMA SameSelf == \A m : Same(m, m)
BY DEF Same

LEMMA LeavesFailed ==
    ASSUME OnDuty, NEW r \in Runs, NEW s \in Slots, NEW m \in MemRow, Same(mem[r], m)
    PROVE  Leaving(r, s, Fail(db[r]), m)
<1>0. db[r] \in DbRow
  BY DutyTypes
<1>1. CASE db[r].status \in Holding
  <2>1. /\ Fail(db[r]) \in DbRow /\ Fail(db[r]).status = "failed"
        /\ Fail(db[r]).msgs = db[r].msgs
    BY <1>0, <1>1 DEF Fail, DbRow, Statuses
  <2> QED BY <2>1, LeavesSettled DEF Terminal
<1>2. CASE db[r].status \notin Holding
  <2>1. Fail(db[r]) = db[r] /\ db[r].status \notin Working
    BY <1>2 DEF Fail, Holding, Working
  <2> QED BY <1>0, <2>1, LeavesBehind
<1> QED BY <1>1, <1>2

LEMMA ExecThrowsManned ==
    ASSUME OnDuty, NEW r \in Runs, NEW s \in Slots, NEW active,
           ExecThrows(r, s, db[r], mem[r], active)
    PROVE  Manned(db', mem')
<1>1. CASE s \in mem[r].aborted
  <2>1. ~Drives(mem[r], s)
    BY <1>1 DEF Drives
  <2>2. Leaving(r, s, db[r], mem[r])
    BY <2>1, DutyTypes, SameSelf, LeavesBehind
  <2> QED BY <1>1, <2>2, ExecFinallyManned DEF ExecThrows
<1>2. CASE s \notin mem[r].aborted
  <2>1. Leaving(r, s, Fail(db[r]), mem[r])
    BY DutyTypes, SameSelf, LeavesFailed
  <2> QED BY <1>2, <2>1, ExecFinallyManned DEF ExecThrows
<1> QED BY <1>1, <1>2

LEMMA ThrowManned ==
    ASSUME OnDuty, NEW r \in Runs, NEW s \in Slots, Throw(r, s, db[r], mem[r])
    PROVE  Manned(db', mem')
<1>1. mem[r].task[s].kind \notin {"follow", "revive", "retained"}
  BY KindFits
<1>2. \/ ExecThrows(r, s, db[r], mem[r], mem[r].task[s].kind # "needsinput")
      \/ Cleanup(r, s, Fail(db[r]), mem[r], mem[r].handle, TRUE)
  BY <1>1 DEF Throw
<1>3. Leaving(r, s, Fail(db[r]), mem[r])
  BY DutyTypes, SameSelf, LeavesFailed
<1> QED BY <1>2, <1>3, ExecThrowsManned, CleanupManned

-----------------------------------------------------------------------------
(* The operator, the triggers, the timers and the watchdog. *)
LEMMA TriggerManned ==
    ASSUME OnDuty, NEW r \in Runs, Trigger(r)
    PROVE  Manned(db', mem')
<1> DEFINE d == [db[r] EXCEPT !.status = "queued"]
<1>1. db[r] \in DbRow /\ mem[r] \in MemRow /\ Staffed(r, db[r], mem[r])
  BY DutyTypes
<1>2. d \in DbRow /\ d.status = "queued" /\ d.msgs = db[r].msgs
  BY <1>1 DEF DbRow, Statuses
<1> HIDE DEF d
<1>3. Staffed(r, d, mem[r])
  BY <1>1, <1>2 DEF Staffed, Sober, Driven, Working
<1>4. WriteAndPump(r, d, mem[r])
  BY DEF Trigger, d
<1> QED BY <1>1, <1>2, <1>3, <1>4, WriteAndPumpManned

(* A run that settles under its driving task leaves that task to pump. *)
LEMMA DriverPumps ==
    ASSUME NEW r, NEW d, NEW m, Staffed(r, d, m), Lean, d.status \in Working
    PROVE  \E s \in Slots : Pumps(m.task[s])
<1>1. PICK s \in Slots : Drives(m, s)
  BY DEF Lean, Staffed, Driven
<1> QED BY <1>1 DEF Drives, Pumps

(* What cancelRun and pauseRun do to the entries of the run. *)
AbortedMem(m) == [AbortInFlight(NoWaiter(m)) EXCEPT !.pendingInterrupt = FALSE]

LEMMA AbortedIs ==
    ASSUME NEW m \in MemRow
    PROVE  AbortedMem(m).task = m.task /\ AbortedMem(m).pumpTimer = m.pumpTimer
BY DEF AbortedMem, AbortInFlight, NoWaiter, MemRow

LEMMA CancelManned ==
    ASSUME OnDuty, NEW r \in Runs, Cancel(r)
    PROVE  Manned(db', mem')
<1> DEFINE d == [db[r] EXCEPT !.status = "cancelled", !.msgs = 0]
           e == NoAsk(d)
           m == AbortedMem(mem[r])
<1>1. db[r] \in DbRow /\ mem[r] \in MemRow /\ Staffed(r, db[r], mem[r])
  BY DutyTypes
<1>2. d.status = "cancelled" /\ d.msgs = 0 /\ e.status = "cancelled" /\ e.msgs = 0
  BY <1>1 DEF DbRow, NoAsk
<1>3. m.task = mem[r].task /\ m.pumpTimer = mem[r].pumpTimer
  BY <1>1, AbortedIs
<1>4. \/ db[r].status = "queued" /\ Write(r, d, mem[r])
      \/ db[r].status \in Working /\ Write(r, e, m)
  BY DEF Cancel, AbortedMem, Working
<1> HIDE DEF d, e, m
<1>5. Staffed(r, d, mem[r]) /\ Staffed(r, e, m)
  BY <1>1, <1>2, <1>3 DEF Staffed, Sober, Driven, Working
<1>6. CASE db[r].status = "queued" /\ Write(r, d, mem[r])
  <2>1. Trades(r, d, mem[r])
    BY <1>2, <1>6 DEF Trades, Busy, Terminal, Holding
  <2> QED BY <1>5, <1>6, <2>1, WriteManned
<1>7. CASE db[r].status \in Working /\ Write(r, e, m)
  <2>1. ASSUME Lean PROVE Trades(r, e, m)
    <3>1. \E s \in Slots : Pumps(mem[r].task[s])
      BY <1>1, <1>7, <2>1, DriverPumps
    <3> QED BY <1>2, <1>3, <3>1 DEF Trades, Busy, Terminal
  <2> QED BY <1>5, <1>7, <2>1, WriteManned
<1> QED BY <1>4, <1>6, <1>7

LEMMA PauseManned ==
    ASSUME OnDuty, NEW r \in Runs, Pause(r)
    PROVE  Manned(db', mem')
<1> DEFINE e == NoAsk([db[r] EXCEPT !.status = "paused"])
           m == AbortedMem(mem[r])
<1>1. db[r] \in DbRow /\ mem[r] \in MemRow /\ Staffed(r, db[r], mem[r])
  BY DutyTypes
<1>2. e.status = "paused" /\ e.msgs = db[r].msgs
  BY <1>1 DEF DbRow, NoAsk
<1>3. m.task = mem[r].task /\ m.pumpTimer = mem[r].pumpTimer
  BY <1>1, AbortedIs
<1>4. db[r].status = "running" /\ Write(r, e, m)
  BY DEF Pause, AbortedMem
<1> HIDE DEF e, m
<1>5. Staffed(r, e, m)
  BY <1>1, <1>2, <1>3 DEF Staffed, Sober, Driven, Working
<1>6. Trades(r, e, m)
  BY <1>2, <1>3, <1>4 DEF Trades, Busy, Terminal, Holding
<1> QED BY <1>4, <1>5, <1>6, WriteManned

(* An answer changes the pace of a task that waits for it, or adds a task  *)
(* in a slot that is free.                                                 *)
LEMMA AnsweredMem ==
    ASSUME OnDuty, NEW r \in Runs, NEW a \in Slots, mem[r].task[a].pc \in {"answerWait", "idle"},
           NEW t \in Task, Fits(t),
           mem[r].task[a].pc = "answerWait" => t = [mem[r].task[a] EXCEPT !.pc = "sending"],
           NEW m, m.task = [mem[r].task EXCEPT ![a] = t], m.aborted = mem[r].aborted,
           NEW d, d.status \in Working, db[r].status \in Working, Sober(d)
    PROVE  Staffed(r, d, m)
<1>1. mem[r].task \in [Slots -> Task] /\ Staffed(r, db[r], mem[r])
  BY DutyTypes DEF MemRow
<1>2. \A x \in Slots : m.task[x] = IF x = a THEN t ELSE mem[r].task[x]
  BY <1>1
<1>3. \A x \in Slots : Fits(m.task[x])
  BY <1>1, <1>2 DEF Staffed
<1>4. ASSUME NEW w \in Slots, Drives(mem[r], w) PROVE Drives(m, w)
  <2>1. CASE w # a
    BY <1>2, <1>4, <2>1 DEF Drives
  <2>2. CASE w = a
    <3>1. mem[r].task[a].pc = "answerWait"
      BY <1>4, <2>2 DEF Drives
    <3>2. mem[r].task[a] \in Task
      BY <1>1
    <3>3. t.pc = "sending" /\ t.kind = mem[r].task[a].kind /\ t.sig = mem[r].task[a].sig
      BY <3>1, <3>2 DEF Task
    <3>4. m.task[w] = t
      BY <1>2, <2>2
    <3> QED BY <1>4, <2>2, <3>3, <3>4 DEF Drives
  <2> QED BY <2>1, <2>2
<1> QED BY <1>1, <1>3, <1>4 DEF Staffed, Driven

LEMMA AnswerManned ==
    ASSUME OnDuty, NEW r \in Runs, Answer(r)
    PROVE  Manned(db', mem')
<1> DEFINE d == [NoAsk(db[r]) EXCEPT !.status = "running"]
           a == mem[r].answerWaiter
           b == NewSlot(mem[r])
           t == [pc |-> "sending", kind |-> "answer", orig |-> "none", sig |-> NoTask]
           m1 == NoWaiter(mem[r])
           m2 == ToAnswerWaiter(mem[r])
           m3 == [mem[r] EXCEPT !.task[b] = t]
           m4 == [mem[r] EXCEPT !.pendingAnswer = TRUE]
<1>1. db[r] \in DbRow /\ mem[r] \in MemRow /\ Staffed(r, db[r], mem[r])
  BY DutyTypes
<1>2. d.status = "running" /\ d.msgs = db[r].msgs /\ db[r].status \in Working
  BY <1>1 DEF DbRow, NoAsk, Answer, Working
<1>3. Sober(d) /\ d.status \in Working
  BY <1>1, <1>2 DEF Staffed, Sober, Working
<1>4. \/ Write(r, d, m1)
      \/ a # NoTask /\ Write(r, d, m2)
      \/ Room(mem[r]) /\ Write(r, d, m3)
      \/ Write(r, d, mem[r])
      \/ Write(r, d, m4)
  BY DEF Answer
<1>5. \A m : m.pumpTimer = mem[r].pumpTimer => Trades(r, d, m)
  BY <1>2 DEF Trades, Busy, Working, Terminal, Holding
<1>6. Staffed(r, d, mem[r])
  BY <1>1, <1>2, <1>3 DEF Staffed, Driven
<1>7. \A m : Same(mem[r], m) /\ Write(r, d, m) => Manned(db', mem')
  BY <1>5, <1>6, StaffedSame, WriteManned DEF Same
<1>8. Same(mem[r], m1) /\ Same(mem[r], m4)
  BY <1>1 DEF Same, NoWaiter, MemRow
<1>9. CASE a # NoTask /\ Write(r, d, m2)
  <2>1. a \in Slots /\ mem[r].task[a].pc = "answerWait"
    <3>1. mem[r].task[a].pc = "answerWait"
      BY <1>9 DEF OnDuty, IInv, GoodRows, Good
    <3>2. mem[r].answerWaiter \in 0..NumSlots
      BY <1>1 DEF MemRow
    <3> QED BY <1>9, <3>1, <3>2, SlotsAssumption DEF Slots, NoTask
  <2> DEFINE u == [mem[r].task[a] EXCEPT !.pc = "sending"]
  <2>2. mem[r].task[a] \in Task
    BY <1>1, <2>1 DEF MemRow
  <2>3. u \in Task /\ u.pc = "sending" /\ u.kind = mem[r].task[a].kind
    BY <2>2 DEF Task, Pcs
  <2>4. Fits(u)
    BY <2>1, <2>3, KindFits DEF Fits
  <2>5. /\ m2.task = [mem[r].task EXCEPT ![a] = u] /\ m2.aborted = mem[r].aborted
        /\ m2.pumpTimer = mem[r].pumpTimer
    BY <1>1, <2>1 DEF ToAnswerWaiter, MemRow
  <2> HIDE DEF a, u, m2, d
  <2>6. Staffed(r, d, m2)
    BY <1>2, <1>3, <2>1, <2>3, <2>4, <2>5, AnsweredMem DEF u
  <2> QED BY <1>5, <1>9, <2>5, <2>6, WriteManned
<1>10. CASE Room(mem[r]) /\ Write(r, d, m3)
  <2>1. b \in Slots /\ mem[r].task[b].pc = "idle"
    <3>1. FreeSlots(mem[r]) # {}
      BY <1>10, RoomIsFree
    <3>2. \E s \in Slots : FreeSlots(mem[r]) # {} => s \in FreeSlots(mem[r])
      BY <3>1 DEF FreeSlots
    <3>3. b \in FreeSlots(mem[r])
      BY <3>1, <3>2 DEF NewSlot
    <3> HIDE DEF b
    <3> QED BY <3>3 DEF FreeSlots
  <2>2. t \in Task /\ Fits(t)
    BY SlotTypes DEF Task, Pcs, Kinds, Fits, ExecKinds
  <2>3. /\ m3.task = [mem[r].task EXCEPT ![b] = t] /\ m3.aborted = mem[r].aborted
        /\ m3.pumpTimer = mem[r].pumpTimer
    BY <1>1 DEF MemRow
  <2> HIDE DEF b, t, m3, d
  <2>4. Staffed(r, d, m3)
    BY <1>2, <1>3, <2>1, <2>2, <2>3, AnsweredMem
  <2> QED BY <1>5, <1>10, <2>3, <2>4, WriteManned
<1> HIDE DEF d, m1, m2, m3, m4
<1> QED BY <1>4, <1>7, <1>8, <1>9, <1>10, SameSelf

LEMMA OperatorManned ==
    ASSUME OnDuty, NEW r \in Runs, Operator(r)
    PROVE  Manned(db', mem')
<1>1. /\ "resume" \notin OperatorOps /\ "send" \notin OperatorOps
      /\ "interrupt" \notin OperatorOps /\ "queue" \notin OperatorOps
  BY DEF OnDuty, Unaided
<1>2. Cancel(r) \/ Pause(r) \/ Answer(r)
  BY <1>1 DEF Operator, Resume, Send, Interrupt, QueueMessage, Op
<1> QED BY <1>2, CancelManned, PauseManned, AnswerManned

LEMMA TimerManned ==
    ASSUME OnDuty, NEW r \in Runs, Timer(r)
    PROVE  Manned(db', mem')
<1>1. db[r] \in DbRow /\ mem[r] \in MemRow /\ Staffed(r, db[r], mem[r]) /\ ~mem[r].interruptTimer
  BY DutyTypes
<1>2. CASE PumpTimer(r)
  <2> DEFINE m == [mem[r] EXCEPT !.pumpTimer = FALSE]
  <2>1. m \in MemRow /\ m.task = mem[r].task /\ m.aborted = mem[r].aborted
    BY <1>1 DEF MemRow
  <2>2. WriteAndPump(r, db[r], m)
    BY <1>2 DEF PumpTimer
  <2> HIDE DEF m
  <2>3. Staffed(r, db[r], m)
    BY <1>1, <2>1 DEF Staffed, Driven, Drives
  <2> QED BY <1>1, <2>1, <2>2, <2>3, WriteAndPumpManned
<1>3. CASE DeliverTimer(r)
  <2> DEFINE m == [mem[r] EXCEPT !.deliverTimer = FALSE]
  <2>1. ~Delivers(db[r], m)
    BY <1>1 DEF Delivers, Staffed, Sober
  <2>2. Write(r, db[r], m)
    BY <1>3, <2>1 DEF DeliverTimer
  <2>3. Same(mem[r], m)
    BY <1>1 DEF Same, MemRow
  <2> HIDE DEF m
  <2> QED BY <2>2, <2>3, SameManned
<1>4. ~InterruptTimer(r)
  BY <1>1 DEF InterruptTimer
<1> QED BY <1>2, <1>3, <1>4 DEF Timer

LEMMA RecoverIs ==
    ASSUME NEW d \in DbRow
    PROVE  RecoverRow(d).status \in {"queued", "failed"} /\ RecoverRow(d).msgs = d.msgs
BY DEF RecoverRow, DbRow

LEMMA WatchdogManned ==
    ASSUME OnDuty, NEW r \in Runs, Watchdog(r)
    PROVE  Manned(db', mem')
<1>1. db[r] \in DbRow /\ mem[r] \in MemRow /\ Staffed(r, db[r], mem[r])
  BY DutyTypes
<1>2. CASE StallSweep(r)
  <2> DEFINE d == RecoverRow(db[r])
             m == [Release(AbortInFlight(mem[r])) EXCEPT !.pumpTimer = TRUE]
  <2>1. d.status \in {"queued", "failed"} /\ d.msgs = db[r].msgs
    BY <1>1, RecoverIs
  <2>2. m.pumpTimer /\ m.task = mem[r].task
    BY <1>1 DEF Release, AbortInFlight, MemRow
  <2>3. Write(r, d, m)
    BY <1>2 DEF StallSweep
  <2> HIDE DEF d, m
  <2>4. Staffed(r, d, m)
    BY <1>1, <2>1, <2>2 DEF Staffed, Sober, Driven, Working
  <2> QED BY <2>2, <2>3, <2>4, WriteManned DEF Trades, Busy
<1>3. CASE RetainedSweep(r)
  <2>1. Write(r, db[r], [mem[r] EXCEPT !.retained = FALSE])
    BY <1>3 DEF RetainedSweep
  <2>2. Same(mem[r], [mem[r] EXCEPT !.retained = FALSE])
    BY <1>1 DEF Same, MemRow
  <2> QED BY <2>1, <2>2, SameManned
<1> QED BY <1>2, <1>3 DEF Watchdog

-----------------------------------------------------------------------------
(* The tasks, await by await. *)
LEMMA ToManned ==
    ASSUME OnDuty, NEW r \in Runs, NEW s \in Slots,
           mem[r].task[s].pc \notin {"idle", "disposing"},
           NEW pc \in {"sending", "streaming", "waiting", "answerWait"},
           pc = "answerWait" => mem[r].task[s].kind = "needsinput",
           NEW d, d.status = db[r].status, d.msgs = db[r].msgs,
           NEW m, m.pumpTimer = mem[r].pumpTimer, m.aborted = mem[r].aborted,
           NEW sig, mem[r].task[s].kind \in ExecKinds => sig \in {s, mem[r].task[s].sig},
           m.task = [mem[r].task EXCEPT ![s].pc = pc, ![s].sig = sig],
           Write(r, d, m)
    PROVE  Manned(db', mem')
<1> DEFINE t == [mem[r].task[s] EXCEPT !.pc = pc, !.sig = sig]
<1>1. mem[r].task \in [Slots -> Task] /\ Staffed(r, db[r], mem[r])
  BY DutyTypes DEF MemRow
<1>2. mem[r].task[s] \in Task
  BY <1>1
<1>3. t.pc = pc /\ t.sig = sig /\ t.kind = mem[r].task[s].kind /\ t.orig = mem[r].task[s].orig
  BY <1>2 DEF Task
<1>4. \A x \in Slots : m.task[x] = IF x = s THEN t ELSE mem[r].task[x]
  BY <1>1
<1> HIDE DEF t
<1>5. Fits(t) /\ Pumps(t)
  BY <1>3, KindFits DEF Fits, Pumps
<1>6. \A x \in Slots : Fits(m.task[x])
  BY <1>1, <1>4, <1>5 DEF Staffed
<1>7. ASSUME NEW w \in Slots, Drives(mem[r], w) PROVE Drives(m, w)
  <2>1. CASE w # s
    BY <1>4, <1>7, <2>1 DEF Drives
  <2>2. CASE w = s
    BY <1>3, <1>4, <1>7, <2>2 DEF Drives
  <2> QED BY <2>1, <2>2
<1>8. Staffed(r, d, m)
  BY <1>1, <1>6, <1>7 DEF Staffed, Sober, Driven
<1>9. Busy(db[r], mem[r]) => Busy(d, m)
  BY <1>4, <1>5 DEF Busy
<1>10. Trades(r, d, m)
  BY <1>9 DEF Trades
<1> QED BY <1>8, <1>10, WriteManned

(* The forms in which the handlers write the new pace. *)
LEMMA PaceManned ==
    ASSUME OnDuty, NEW r \in Runs, NEW s \in Slots,
           mem[r].task[s].pc \notin {"idle", "disposing"},
           NEW pc \in {"sending", "streaming", "waiting", "answerWait"},
           pc = "answerWait" => mem[r].task[s].kind = "needsinput",
           NEW d, d.status = db[r].status, d.msgs = db[r].msgs,
           NEW n \in MemRow, Same(mem[r], n),
           \/ Write(r, d, To(n, s, pc))
           \/ Write(r, d, [To(n, s, pc) EXCEPT !.pendingAnswer = FALSE])
           \/ Write(r, d, [To(n, s, pc) EXCEPT !.answerWaiter = s])
    PROVE  Manned(db', mem')
<1> DEFINE T == [mem[r].task EXCEPT ![s].pc = pc, ![s].sig = mem[r].task[s].sig]
           k == To(n, s, pc)
           k1 == [k EXCEPT !.pendingAnswer = FALSE]
           k2 == [k EXCEPT !.answerWaiter = s]
<1>1. mem[r].task \in [Slots -> Task]
  BY DutyTypes DEF MemRow
<1>2. T = [mem[r].task EXCEPT ![s].pc = pc]
  <2>1. mem[r].task[s] \in Task
    BY <1>1
  <2>2. [mem[r].task[s] EXCEPT !.pc = pc, !.sig = mem[r].task[s].sig]
            = [mem[r].task[s] EXCEPT !.pc = pc]
    BY <2>1 DEF Task
  <2> QED BY <1>1, <2>2
<1>3. k.task = T /\ k.aborted = mem[r].aborted /\ k.pumpTimer = mem[r].pumpTimer
  BY <1>2 DEF To, Same, MemRow
<1>4. /\ k1.task = T /\ k1.aborted = mem[r].aborted /\ k1.pumpTimer = mem[r].pumpTimer
      /\ k2.task = T /\ k2.aborted = mem[r].aborted /\ k2.pumpTimer = mem[r].pumpTimer
  BY <1>2 DEF To, Same, MemRow
<1>5. Write(r, d, k) \/ Write(r, d, k1) \/ Write(r, d, k2)
  OBVIOUS
<1>6. ASSUME NEW m, m.task = T, m.aborted = mem[r].aborted, m.pumpTimer = mem[r].pumpTimer,
             Write(r, d, m)
      PROVE  Manned(db', mem')
  <2> DEFINE sig == mem[r].task[s].sig
  <2>1. m.task = [mem[r].task EXCEPT ![s].pc = pc, ![s].sig = sig]
    BY <1>6
  <2>2. sig \in {s, mem[r].task[s].sig}
    OBVIOUS
  <2> HIDE DEF sig, T, k, k1, k2
  <2> QED BY <1>6, <2>1, <2>2, ToManned
<1> HIDE DEF k, k1, k2, T
<1> QED BY <1>3, <1>4, <1>5, <1>6

LEMMA AgentIs ==
    ASSUME NEW d \in DbRow
    PROVE  WithAgent(d) \in DbRow /\ WithAgent(d).status = d.status /\ WithAgent(d).msgs = d.msgs
BY DEF WithAgent, DbRow

LEMMA StartedManned ==
    ASSUME OnDuty, NEW r \in Runs, NEW s \in Slots,
           mem[r].task[s].pc \notin {"idle", "disposing"},
           Started(r, s, WithHandle(mem[r]))
    PROVE  Manned(db', mem')
<1> DEFINE n == WithHandle(mem[r])
           d == WithAgent(db[r])
<1>1. n \in MemRow /\ Same(mem[r], n)
  BY DutyTypes, SameRelease
<1>2. d.status = db[r].status /\ d.msgs = db[r].msgs
  BY DutyTypes, AgentIs
<1>3. \/ Write(r, d, [To(n, s, "sending") EXCEPT !.pendingAnswer = FALSE])
      \/ Write(r, d, To(n, s, "streaming"))
  BY DEF Started
<1> HIDE DEF n, d
<1> QED BY <1>1, <1>2, <1>3, PaceManned

LEMMA SpawnManned ==
    ASSUME OnDuty, NEW r \in Runs, NEW s \in Slots, SpawnReturns(r, s) \/ SpawnRejects(r, s)
    PROVE  Manned(db', mem')
<1>1. db[r] \in DbRow /\ mem[r] \in MemRow /\ ~mem[r].pendingInterrupt /\ ~mem[r].interruptTimer
      /\ Staffed(r, db[r], mem[r]) /\ mem \in [Runs -> MemRow] /\ db \in [Runs -> DbRow]
  BY DutyTypes
<1>2. CASE SpawnReturns(r, s)
  BY <1>2, StartedManned DEF SpawnReturns, At
<1>3. CASE /\ ~(s \notin mem[r].aborted /\ db[r].status \in Working)
           /\ ExecFinally(r, s, db[r], mem[r], FALSE)
  <2>1. db[r].status \in Working => ~Drives(mem[r], s)
    BY <1>3 DEF Drives
  <2>2. Leaving(r, s, db[r], mem[r])
    BY <1>1, <2>1, SameSelf, LeavesBehind
  <2> QED BY <1>3, <2>2, ExecFinallyManned
<1>4. CASE /\ db' = [q \in Runs |-> IF q = r THEN RecoverRow(db[q]) ELSE db[q]]
           /\ mem' = [q \in Runs |->
                IF q = r THEN [Ended(Release(mem[r]), s) EXCEPT !.pumpTimer = TRUE,
                                 !.interruptTimer = @ \/ mem[r].pendingInterrupt,
                                 !.pendingInterrupt = FALSE]
                ELSE mem[q]]
  <2> DEFINE d == RecoverRow(db[r])
             n == Ended(Release(mem[r]), s)
             m == [n EXCEPT !.pumpTimer = TRUE, !.interruptTimer = @ \/ mem[r].pendingInterrupt,
                            !.pendingInterrupt = FALSE]
  <2>1. Release(mem[r]) \in MemRow /\ Same(mem[r], Release(mem[r]))
    BY <1>1, SameRelease
  <2>2. n \in MemRow /\ \A x \in Slots : n.task[x] = Idle \/ n.task[x] = mem[r].task[x]
    BY <2>1, EndedIs DEF Same
  <2>3. d.status \in {"queued", "failed"} /\ d.msgs = db[r].msgs
    BY <1>1, RecoverIs
  <2> HIDE DEF n
  <2>4. m.pumpTimer /\ m.task = n.task
    BY <2>2 DEF MemRow
  <2>5. Write(r, d, m)
    BY <1>1, <1>4 DEF Write, n
  <2> HIDE DEF d, m
  <2>6. \A x \in Slots : Fits(m.task[x])
    BY <1>1, <2>2, <2>4, IdleTypes DEF Staffed
  <2>7. Staffed(r, d, m)
    BY <1>1, <2>3, <2>6 DEF Staffed, Sober, Driven, Working
  <2> QED BY <2>4, <2>5, <2>7, WriteManned DEF Trades, Busy
<1>5. ASSUME SpawnRejects(r, s)
      PROVE  \/ /\ ~(s \notin mem[r].aborted /\ db[r].status \in Working)
                /\ ExecFinally(r, s, db[r], mem[r], FALSE)
             \/ /\ db' = [q \in Runs |-> IF q = r THEN RecoverRow(db[q]) ELSE db[q]]
                /\ mem' = [q \in Runs |->
                     IF q = r THEN [Ended(Release(mem[r]), s) EXCEPT !.pumpTimer = TRUE,
                                      !.interruptTimer = @ \/ mem[r].pendingInterrupt,
                                      !.pendingInterrupt = FALSE]
                     ELSE mem[q]]
  BY <1>1, <1>5 DEF SpawnRejects, Working
<1> QED BY <1>2, <1>3, <1>4, <1>5

LEMMA ResumeManned ==
    ASSUME OnDuty, NEW r \in Runs, NEW s \in Slots, ResumeReturns(r, s) \/ ResumeRejects(r, s)
    PROVE  Manned(db', mem')
<1> DEFINE n == WithHandle(mem[r])
           d == WithAgent(db[r])
           kind == mem[r].task[s].kind
<1>1. n \in MemRow /\ Same(mem[r], n)
  BY DutyTypes, SameRelease
<1>2. d.status = db[r].status /\ d.msgs = db[r].msgs
  BY DutyTypes, AgentIs
<1>3. kind \notin {"follow", "revive", "retained"}
  BY KindFits
<1>4. mem[r].task[s].pc = "resuming"
  BY DEF ResumeReturns, ResumeRejects, At
<1>5. CASE ResumeReturns(r, s)
  <2>1. n.task[s] = mem[r].task[s]
    BY <1>1 DEF Same
  <2>2. \/ Started(r, s, n)
        \/ kind = "needsinput" /\ Write(r, d, To(n, s, "streaming"))
        \/ /\ kind = "needsinput"
           /\ Write(r, d, [To(n, s, "sending") EXCEPT !.pendingAnswer = FALSE])
        \/ /\ kind = "needsinput"
           /\ Write(r, d, [To(n, s, "answerWait") EXCEPT !.answerWaiter = s])
    <3> HIDE DEF n, d
    <3> QED BY <1>3, <1>5, <2>1 DEF ResumeReturns, n, d
  <2>3. Started(r, s, n) => Manned(db', mem')
    BY <1>4, StartedManned
  <2> HIDE DEF n, d
  <2> QED BY <1>1, <1>2, <1>4, <2>2, <2>3, PaceManned
<1>6. CASE ResumeRejects(r, s)
  <2>1. ExecThrows(r, s, db[r], mem[r], FALSE)
    BY <1>3, <1>6 DEF ResumeRejects
  <2> QED BY <2>1, ExecThrowsManned
<1> QED BY <1>5, <1>6

LEMMA SendManned ==
    ASSUME OnDuty, NEW r \in Runs, NEW s \in Slots, SendReturns(r, s)
    PROVE  Manned(db', mem')
<1> DEFINE n == WithHandle(mem[r])
           d == WithAgent(db[r])
           kind == mem[r].task[s].kind
           sig == IF kind \in ExecKinds THEN s ELSE n.inFlight
<1>1. n \in MemRow /\ Same(mem[r], n)
  BY DutyTypes, SameRelease
<1>2. d \in DbRow /\ d.status = db[r].status /\ d.msgs = db[r].msgs
  BY DutyTypes, AgentIs
<1>3. kind \notin {"follow", "revive", "retained"} /\ mem[r].task[s].pc = "sending"
  BY KindFits DEF SendReturns, At
<1>4. n.task = mem[r].task /\ n.aborted = mem[r].aborted /\ n.pumpTimer = mem[r].pumpTimer
  BY <1>1 DEF Same
<1>5. \/ sig # NoTask /\ Write(r, d, [To(n, s, "streaming") EXCEPT !.task[s].sig = sig])
      \/ sig = NoTask /\ Return(r, s, d, n)
  BY <1>3, <1>4 DEF SendReturns
<1>6. CASE sig # NoTask /\ Write(r, d, [To(n, s, "streaming") EXCEPT !.task[s].sig = sig])
  <2> DEFINE k == [To(n, s, "streaming") EXCEPT !.task[s].sig = sig]
  <2>1. k.task = [mem[r].task EXCEPT ![s].pc = "streaming", ![s].sig = sig]
        /\ k.aborted = mem[r].aborted /\ k.pumpTimer = mem[r].pumpTimer
    BY <1>1, <1>4 DEF To, MemRow
  <2>2. kind \in ExecKinds => sig \in {s, mem[r].task[s].sig}
    OBVIOUS
  <2>3. Write(r, d, k)
    BY <1>6
  <2> HIDE DEF k, d, sig
  <2> QED BY <1>2, <1>3, <2>1, <2>2, <2>3, ToManned
<1>7. CASE sig = NoTask /\ Return(r, s, d, n)
  <2>1. s # NoTask
    BY SlotsAssumption DEF Slots, NoTask
  <2>2. ~Drives(mem[r], s)
    BY <1>7, <2>1 DEF Drives
  <2> HIDE DEF d, n, sig
  <2>3. Leaving(r, s, d, n)
    BY <1>1, <1>2, <2>2, LeavesBehind
  <2> QED BY <1>7, <2>3, ReturnManned
<1> QED BY <1>5, <1>6, <1>7

LEMMA StreamManned ==
    ASSUME OnDuty, NEW r \in Runs, NEW s \in Slots, StreamEnds(r, s)
    PROVE  Manned(db', mem')
<1>1. mem[r] \in MemRow /\ db[r] \in DbRow
  BY DutyTypes
<1>2. CASE Signalled(r, s) /\ Return(r, s, db[r], mem[r])
  <2>1. ~Drives(mem[r], s)
    BY <1>2 DEF Signalled, Drives
  <2>2. Leaving(r, s, db[r], mem[r])
    BY <1>1, <2>1, SameSelf, LeavesBehind
  <2> QED BY <1>2, <2>2, ReturnManned
<1>3. CASE Write(r, db[r], To(mem[r], s, "waiting"))
  <2>1. mem[r].task[s].pc = "streaming"
    BY DEF StreamEnds, At
  <2> QED BY <1>1, <1>3, <2>1, SameSelf, PaceManned
<1> QED BY <1>2, <1>3 DEF StreamEnds

LEMMA WaitManned ==
    ASSUME OnDuty, NEW r \in Runs, NEW s \in Slots, WaitReturns(r, s)
    PROVE  Manned(db', mem')
<1>1. mem[r] \in MemRow /\ db[r] \in DbRow
  BY DutyTypes
<1>2. CASE \E res \in SdkResults : Return(r, s, [db[r] EXCEPT !.status = res], mem[r])
  <2>1. PICK res \in SdkResults : Return(r, s, [db[r] EXCEPT !.status = res], mem[r])
    BY <1>2
  <2> DEFINE d == [db[r] EXCEPT !.status = res]
  <2>2. d \in DbRow /\ d.status \in Terminal /\ d.msgs = db[r].msgs
    BY <1>1, ResultAssumption DEF DbRow, Terminal, Statuses
  <2> HIDE DEF d
  <2>3. Leaving(r, s, d, mem[r])
    BY <1>1, <2>2, SameSelf, LeavesSettled
  <2> QED BY <2>1, <2>3, ReturnManned DEF d
<1>3. CASE ~TakesResult(db[r]) /\ Return(r, s, db[r], mem[r])
  <2>1. db[r].status \notin Working
    BY <1>3 DEF TakesResult, Working
  <2>2. Leaving(r, s, db[r], mem[r])
    BY <1>1, <2>1, SameSelf, LeavesBehind
  <2> QED BY <1>3, <2>2, ReturnManned
<1> QED BY <1>2, <1>3, KindFits DEF WaitReturns

LEMMA DisposedManned ==
    ASSUME OnDuty, NEW r \in Runs, NEW s \in Slots, Disposed(r, s)
    PROVE  Manned(db', mem')
<1> DEFINE t == mem[r].task[s]
           n == Release(mem[r])
<1>1. mem[r] \in MemRow /\ db[r] \in DbRow /\ ~mem[r].pendingInterrupt
  BY DutyTypes
<1>2. t.pc = "disposing"
  BY DEF Disposed, At
<1>3. ~Drives(mem[r], s)
  BY <1>2 DEF Drives
<1>4. Leaving(r, s, db[r], mem[r]) /\ Leaving(r, s, db[r], n)
  BY <1>1, <1>3, SameSelf, LeavesBehind, LeavingKept
<1> HIDE DEF n
<1>5. CASE Settle(r, db[r], Ended(mem[r], s), TRUE)
  BY <1>4, <1>5, EndManned
<1>6. CASE t.orig \in Terminal /\ Settle(r, db[r], Ended(n, s), t.orig \in Terminal)
  BY <1>4, <1>6, EndManned
<1>7. CASE /\ t.kind \notin ExecKinds /\ t.orig \notin Terminal
           /\ Settle(r, db[r], Ended(n, s), t.orig \in Terminal)
  <2>1. n \in MemRow /\ Same(mem[r], n)
    BY <1>4 DEF Leaving
  <2> DEFINE k == Ended(n, s)
  <2>2. /\ \A x \in Slots : k.task[x] = IF x = s THEN Idle ELSE mem[r].task[x]
        /\ k.pumpTimer = mem[r].pumpTimer /\ ~k.pendingInterrupt
    BY <1>1, <2>1, EndedIs DEF Same
  <2>3. Staffed(r, db[r], k)
    BY <1>4, EndedStaffed
  <2> HIDE DEF k
  <2>4. Write(r, db[r], k)
    BY <1>7, <2>2 DEF Settle, k
  <2>5. ~Pumps(t)
    BY <1>2, <1>7 DEF Pumps
  <2>6. Busy(db[r], mem[r]) => Busy(db[r], k)
    BY <2>2, <2>5 DEF Busy
  <2> QED BY <2>3, <2>4, <2>6, WriteManned DEF Trades
<1> QED BY <1>5, <1>6, <1>7 DEF Disposed, n

LEMMA TaskManned ==
    ASSUME OnDuty, NEW r \in Runs, NEW s \in Slots, TaskStep(r, s)
    PROVE  Manned(db', mem')
<1>1. ~FallbackDone(r, s) /\ ~ReviveReturns(r, s) /\ ~ReviveRejects(r, s)
  BY KindFits DEF FallbackDone, ReviveReturns, ReviveRejects, At
<1>2. ASSUME SendRejects(r, s) \/ StreamRejects(r, s) \/ WaitRejects(r, s)
      PROVE  Throw(r, s, db[r], mem[r])
  BY <1>2 DEF SendRejects, StreamRejects, WaitRejects
<1> QED BY <1>1, <1>2, SpawnManned, ResumeManned, SendManned, StreamManned, WaitManned,
           DisposedManned, ThrowManned DEF TaskStep

LEMMA AskManned ==
    ASSUME OnDuty, NEW r \in Runs, Ask(r)
    PROVE  Manned(db', mem')
<1>1. db[r] \in DbRow /\ mem[r] \in MemRow /\ Staffed(r, db[r], mem[r])
  BY DutyTypes
<1>2. PICK waiter : Asked(r, waiter)
  BY DEF Ask, McpAsk, SentinelAsk
<1>3. AskKinds # {}
  BY DEF Ask, McpAsk, SentinelAsk
<1> DEFINE d == [db[r] EXCEPT !.ask = TRUE, !.status = "needs_input"]
           m == [mem[r] EXCEPT !.waiter = waiter]
<1>4. d.status = "needs_input" /\ d.msgs = db[r].msgs /\ db[r].status = "running" /\ Write(r, d, m)
  BY <1>1, <1>2 DEF Asked, DbRow
<1>5. Same(mem[r], m)
  BY <1>1 DEF Same, MemRow
<1> HIDE DEF d, m
<1>6. Staffed(r, db[r], m)
  BY <1>1, <1>5, StaffedSame
<1>7. Staffed(r, d, m)
  BY <1>3, <1>4, <1>6 DEF Staffed, Sober, Driven, Working
<1>8. Trades(r, d, m)
  BY <1>4, <1>5 DEF Trades, Busy, Same, Terminal, Holding
<1> QED BY <1>4, <1>7, <1>8, WriteManned

-----------------------------------------------------------------------------
(* Crashes, the boot and the invariant. *)
LEMMA BootManned ==
    ASSUME IInv, TInv, Boot
    PROVE  (\A r \in Runs : Sober(db'[r])) /\ (up' => Manned(db', mem'))
<1> DEFINE ctx == Runs \ TrackRuns
           d == [r \in Runs |-> IF Interrupted(r) /\ ~db[r].agent
                                THEN RecoverRow(db[r]) ELSE db[r]]
           pumped(r) == [NoMem EXCEPT !.pumpTimer = Interrupted(r) /\ ~db[r].agent]
           kind(r) == IF db[r].status = "needs_input" THEN "needsinput" ELSE "reattach"
           task(r) == NewTask(NoMem, "resuming", kind(r), "none")
           m == [r \in Runs |-> IF Interrupted(r) /\ db[r].agent /\ r \in ctx
                                THEN task(r) ELSE pumped(r)]
<1>1. PICK S \in SUBSET Runs :
        /\ PumpStarts(S, d, ctx)
        /\ db' = [r \in Runs |-> IF r \in S THEN BeginRow(d[r]) ELSE d[r]]
        /\ up' => mem' = [r \in Runs |-> IF r \in S THEN BeginMem(m[r]) ELSE m[r]]
  BY DEF Boot
<1>2. ~up /\ MaxCrashes # 0
  BY DEF Boot, TInv
<1>3. \A r \in Runs : Good(db[r], NoMem) /\ db[r] \in DbRow /\ Sober(db[r])
  BY GoodNoMem DEF IInv, GoodRows, Good, TInv
<1>4. ASSUME NEW r \in Runs
      PROVE  d[r] \in DbRow /\ m[r] \in MemRow /\ Staffed(r, d[r], m[r])
  <2> DEFINE b == NewSlot(NoMem)
             t == [pc |-> "resuming", kind |-> kind(r), orig |-> "none", sig |-> b]
  <2>1. NoMem \in MemRow /\ \A x \in Slots : NoMem.task[x] = Idle
    BY <1>3 DEF Good, NoMem
  <2>2. d[r] \in DbRow
    BY <1>3, GoodRecover DEF Good
  <2>3. CASE Interrupted(r) /\ db[r].agent /\ r \in ctx
    <3>1. m[r] = task(r) /\ d[r] = db[r]
      BY <2>3
    <3>2. Good(db[r], task(r))
      <4>1. kind(r) \in Kinds /\ "none" \in RestPoints
        BY DEF Kinds, ExecKinds, RestPoints
      <4> HIDE DEF d, kind
      <4> QED BY <1>3, <4>1, NoMemFree, GoodNewTask, PcTypes
    <3>3. task(r) = [NoMem EXCEPT !.inFlight = b, !.aborted = NoMem.aborted \ {b}, !.task[b] = t]
      BY DEF NewTask
    <3>4. b \in Slots
      BY NewSlotType
    <3>5. /\ \A x \in Slots : task(r).task[x] = IF x = b THEN t ELSE Idle
          /\ b \notin task(r).aborted
      <4> HIDE DEF task, t, b
      <4> QED BY <2>1, <3>3, <3>4 DEF MemRow
    <3>6. Fits(t)
      <4>1. kind(r) \in {"needsinput", "reattach"}
        OBVIOUS
      <4>2. Lean => kind(r) # "needsinput"
        BY <1>2, <1>3 DEF Lean, Sober
      <4> HIDE DEF kind
      <4> QED BY <4>1, <4>2 DEF Fits, ExecKinds
    <3>7. kind(r) \in ExecKinds
      BY DEF ExecKinds
    <3> HIDE DEF m, d, task, kind
    <3>8. Drives(task(r), b)
      BY <3>4, <3>5, <3>7 DEF Drives
    <3>9. Staffed(r, db[r], task(r))
      <4> HIDE DEF t, b
      <4> QED BY <1>3, <3>4, <3>5, <3>6, <3>8, IdleTypes DEF Staffed, Driven
    <3> QED BY <1>3, <3>1, <3>2, <3>9 DEF Good
  <2>4. CASE ~(Interrupted(r) /\ db[r].agent /\ r \in ctx)
    <3>1. m[r] = pumped(r)
      BY <2>4
    <3>2. (Interrupted(r) /\ ~db[r].agent) \in BOOLEAN
      BY DEF Interrupted
    <3>3. pumped(r) \in MemRow /\ pumped(r).task = NoMem.task
      BY <2>1, <3>2 DEF MemRow
    <3>4. Sober(d[r]) /\ (r \notin TrackRuns => d[r].status \notin Working)
      <4>1. CASE Interrupted(r) /\ ~db[r].agent
        <5>1. d[r] = RecoverRow(db[r])
          BY <4>1
        <5> HIDE DEF d
        <5> QED BY <1>3, <5>1, RecoverIs DEF Sober, Working
      <4>2. CASE ~(Interrupted(r) /\ ~db[r].agent)
        <5>1. d[r] = db[r]
          BY <4>2
        <5> QED BY <1>3, <2>4, <4>2, <5>1 DEF Interrupted, Working
      <4> QED BY <4>1, <4>2
    <3> HIDE DEF d, m, pumped
    <3>5. Staffed(r, d[r], pumped(r))
      BY <2>1, <3>3, <3>4, IdleTypes DEF Staffed, Driven
    <3> QED BY <2>2, <3>1, <3>3, <3>5
  <2> QED BY <2>3, <2>4
<1>5. d \in [Runs -> DbRow] /\ m \in [Runs -> MemRow]
  <2>1. \A r \in Runs : d[r] \in DbRow /\ m[r] \in MemRow
    BY <1>4
  <2> QED BY <2>1
<1> HIDE DEF d, m
<1>6. \A r \in Runs : /\ Staffed(r, BeginRow(d[r]), BeginMem(m[r]))
                       /\ Staffed(r, d[r], m[r])
  BY <1>4, BegunStaffed
<1>7. \A r \in Runs : Sober(db'[r])
  BY <1>1, <1>6 DEF Staffed
<1>8. ASSUME up' PROVE \A r \in Runs : Staffed(r, db'[r], mem'[r])
  BY <1>1, <1>6, <1>8
<1>9. ASSUME Lean PROVE ~Starved(db')
  <2>1. ctx = Runs
    BY <1>9 DEF Lean
  <2> HIDE DEF ctx
  <2> QED BY <1>1, <1>5, <2>1, PumpFills DEF AfterPump
<1> QED BY <1>7, <1>8, <1>9 DEF Manned, Conserving

LEMMA MannedSober ==
    ASSUME Manned(db', mem')
    PROVE  \A r \in Runs : Sober(db'[r])
BY DEF Manned, Staffed

LEMMA InitManned ==
    ASSUME Init
    PROVE  TInv
<1>1. \A r \in Runs : db[r] = NoRow /\ mem[r] = NoMem
  BY DEF Init
<1>2. NoRow.msgs = 0 /\ NoRow.status = "absent" /\ \A s \in Slots : NoMem.task[s] = Idle
  BY DEF NoRow, NoMem
<1>3. \A r \in Runs : Staffed(r, NoRow, NoMem)
  BY <1>2, IdleTypes DEF Staffed, Sober, Driven, Working
<1>4. Queued(db) = {}
  BY <1>1, <1>2 DEF Queued
<1>5. Manned(db, mem)
  BY <1>1, <1>3, <1>4 DEF Manned, Conserving, Starved
<1>6. up
  BY DEF Init
<1> QED BY <1>5, <1>6 DEF TInv, Manned, Staffed

LEMMA TStep ==
    ASSUME Unaided, IInv, TInv, [Next]_vars
    PROVE  TInv'
<1>1. CASE Crash
  <2>1. ~up' /\ db' = db /\ MaxCrashes # 0
    <3>1. used.crashes < MaxCrashes /\ used.crashes \in Nat
      BY <1>1 DEF Crash, IInv
    <3> QED BY <1>1, <3>1 DEF Crash
  <2> QED BY <2>1 DEF TInv
<1>2. CASE Boot
  <2>1. MaxCrashes # 0
    BY <1>2 DEF Boot, TInv
  <2> QED BY <1>2, <2>1, BootManned DEF TInv
<1>3. CASE UNCHANGED <<db, mem, up>>
  BY <1>3 DEF TInv, Manned, Conserving, Staffed, Driven, Sober, Starved, Active, Queued, Busy
<1>4. ASSUME NEW r \in Runs,
             \/ Trigger(r) \/ Operator(r) \/ Timer(r) \/ Watchdog(r) \/ Ask(r)
             \/ \E s \in Slots : TaskStep(r, s)
      PROVE  TInv'
  <2>1. up /\ up' = up
    <3>1. CASE Trigger(r) \/ Timer(r) \/ Watchdog(r) \/ Ask(r)
      BY <3>1 DEF Trigger, Timer, PumpTimer, DeliverTimer, InterruptTimer, Watchdog,
                  StallSweep, RetainedSweep, Ask, McpAsk, SentinelAsk, At
    <3>2. CASE Operator(r)
      BY <3>2 DEF Operator, Cancel, Pause, Resume, Send, Interrupt, QueueMessage, Answer, Op
    <3>3. CASE \E s \in Slots : TaskStep(r, s)
      BY <3>3 DEF TaskStep, SpawnReturns, SpawnRejects, ResumeReturns, ResumeRejects,
                  SendReturns, SendRejects, StreamEnds, StreamRejects, WaitReturns,
                  WaitRejects, FallbackDone, ReviveReturns, ReviveRejects, Disposed, At
    <3> QED BY <1>4, <3>1, <3>2, <3>3
  <2>2. OnDuty
    BY <2>1 DEF OnDuty, TInv
  <2>3. Manned(db', mem')
    BY <1>4, <2>2, TriggerManned, OperatorManned, TimerManned, WatchdogManned, AskManned,
       TaskManned
  <2> QED BY <2>1, <2>3, MannedSober DEF TInv
<1>5. ASSUME NEW r \in Runs, LoseWorktree(r) PROVE UNCHANGED <<db, mem, up>>
  BY <1>5 DEF LoseWorktree
<1> QED BY <1>1, <1>2, <1>3, <1>4, <1>5 DEF Next, vars

LEMMA TInvHolds ==
    ASSUME Unaided
    PROVE  Spec => [](IInv /\ TInv)
<1>1. Init => TInv
  BY InitManned
<1>2. IInv /\ TInv /\ [Next]_vars => TInv'
  BY TStep
<1> QED BY <1>1, <1>2, InitGood, Inductive, PTL DEF Spec

(* A run that is under way and no track has a task of its own that works   *)
(* on it, whatever crashes, stalls, retries, pauses, cancels, questions    *)
(* and late tasks of earlier attempts interleave: it is no zombie.         *)
THEOREM WorkingRunsAreDriven ==
    ASSUME Unaided
    PROVE  Spec => [](up => \A r \in Runs \ TrackRuns : Driven(db[r], mem[r]))
<1>1. TInv => (up => \A r \in Runs \ TrackRuns : Driven(db[r], mem[r]))
  BY DEF TInv, Manned, Staffed
<1> QED BY <1>1, TInvHolds, PTL

(* Where no turn follows another, a run that is running or asking always   *)
(* has a task, for every number of runs, crashes and stalls.  (A track is  *)
(* left without one by a boot; after a follow-up the late end of the turn  *)
(* before may leave a run without one.)                                    *)
THEOREM NoZombies ==
    ASSUME OperatorOps \subseteq {"cancel", "pause", "answer"}, TrackRuns = {}
    PROVE  Spec => []RunningHasTask
<1>1. Unaided
  BY DEF Unaided
<1>2. IInv /\ TInv => RunningHasTask
  <2> SUFFICES ASSUME TInv, NEW r \in Runs, up, Status(r) \in {"running", "needs_input"}
               PROVE  Tasks(r) # {}
    BY DEF RunningHasTask
  <2>1. PICK s \in Slots : Drives(mem[r], s)
    BY DEF TInv, Manned, Staffed, Driven, Working, Status
  <2>2. s \in Tasks(r)
    BY <2>1 DEF Tasks, Drives
  <2> QED BY <2>2
<1> QED BY <1>1, <1>2, TInvHolds, PTL

(* No step forgets to pump the queue: while a slot is free and a run is    *)
(* queued, a pump is due, or a task of a settled run is on its way to it,  *)
(* through every cancel, stall, retry, failure and crash.  It needs that   *)
(* no re-attached task waits for the answer of a run that is cancelled:    *)
(* agents do not ask, or the daemon is not restarted.                      *)
THEOREM NoSlotIsForgotten ==
    ASSUME OperatorOps \subseteq {"cancel", "pause", "answer"}, TrackRuns = {},
           AskKinds = {} \/ MaxCrashes = 0
    PROVE  Spec => []WorkConserving
<1>1. Unaided /\ Lean
  BY DEF Unaided, Lean
<1>2. IInv /\ TInv => WorkConserving
  <2> SUFFICES ASSUME TInv, up, Starved(db)
               PROVE  \E r \in Runs : Moving(r) \/ mem[r].pumpTimer \/ mem[r].interruptTimer
    BY DEF WorkConserving, Starved
  <2>1. PICK r \in Runs : Busy(db[r], mem[r])
    BY <1>1 DEF TInv, Manned, Conserving
  <2>2. ASSUME NEW s \in Slots, Pumps(mem[r].task[s]) PROVE Moving(r)
    <3>1. Fits(mem[r].task[s])
      BY DEF TInv, Manned, Staffed
    <3>2. mem[r].task[s].pc \notin {"idle", "answerWait"}
      BY <1>1, <2>2, <3>1 DEF Pumps, Fits
    <3> QED BY <3>2 DEF Moving, Tasks
  <2> QED BY <2>1, <2>2 DEF Busy
<1> QED BY <1>1, <1>2, TInvHolds, PTL
=============================================================================
