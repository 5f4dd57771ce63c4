--------------------------- MODULE RunRows_proof ---------------------------
(***************************************************************************)
(* What the steps of RunEngine do to the rows of the runs, for every value *)
(* of the constants: whose doing it is when a run leaves a status, and     *)
(* that the engine implements RunScheduler.                                *)
(*                                                                         *)
(* Nearly every step gives one run a new row and may pump the queue after  *)
(* it (Becomes).  What a task, a timer or the watchdog makes of a row by   *)
(* itself is Own; the operator, a delivery and the boot are left.          *)
(***************************************************************************)
EXTENDS MCRunEngine, RunEngine_proof

(* Nobody gives a paused run another turn but by resuming it.              *)
Undisturbed == Calm /\ Unsent

Own(d, e) ==
    /\ e \in DbRow /\ e.msgs = d.msgs
    /\ d.status \notin Holding => e.status = d.status
    /\ d.status \in Holding => e.status # "absent"
    /\ Undisturbed /\ d.status = "paused" => e.status \in {"paused", "failed"}

Becomes(r, e) ==
    \E S \in SUBSET Runs :
        /\ S = {} \/ PumpStarts(S, [db EXCEPT ![r] = e], Context)
        /\ db' = AfterPump(S, [db EXCEPT ![r] = e])

ByItself(r) == \E e : Own(db[r], e) /\ Becomes(r, e)

(* What the properties ask of a row that nobody asked to change.           *)
RowStep(d, e) ==
    /\ d.status = "cancelled" => e.status = "cancelled"
    /\ e.msgs < d.msgs =>
          /\ d.status \in {"completed", "failed"} /\ e.status = "running"
          /\ e.msgs + 1 = d.msgs
    /\ Undisturbed /\ d.status = "paused" => e.status \in {"paused", "failed"}

LEMMA RowsTyped ==
    ASSUME GoodRows(db, mem), NEW r \in Runs
    PROVE  db[r] \in DbRow /\ db \in [Runs -> DbRow] /\ Own(db[r], db[r])
BY DEF GoodRows, Good, Own, DbRow, Holding

LEMMA WriteBecomes ==
    ASSUME GoodRows(db, mem), NEW r \in Runs, NEW e \in DbRow, NEW m, Write(r, e, m)
    PROVE  Becomes(r, e)
<1>1. db' = AfterPump({}, [db EXCEPT ![r] = e])
  BY DEF Write, AfterPump, GoodRows
<1>2. {} \in SUBSET Runs
  OBVIOUS
<1> QED BY <1>1, <1>2 DEF Becomes

LEMMA PumpBecomes ==
    ASSUME NEW r \in Runs, NEW e, NEW m, WriteAndPump(r, e, m)
    PROVE  Becomes(r, e)
BY DEF WriteAndPump, Pump, Becomes, AfterPump

LEMMA BecomesRow ==
    ASSUME GoodRows(db, mem), NEW r \in Runs, NEW e, Becomes(r, e)
    PROVE  \A q \in Runs :
              LET x == IF q = r THEN e ELSE db[q]
              IN  db'[q] = x \/ (x.status = "queued" /\ db'[q] = BeginRow(x))
<1>1. PICK S \in SUBSET Runs :
        /\ S = {} \/ PumpStarts(S, [db EXCEPT ![r] = e], Context)
        /\ db' = AfterPump(S, [db EXCEPT ![r] = e])
  BY DEF Becomes
<1> DEFINE D == [db EXCEPT ![r] = e]
<1>2. \A q \in Runs : D[q] = IF q = r THEN e ELSE db[q]
  BY DEF GoodRows
<1>3. \A q \in S : D[q].status = "queued"
  BY <1>1 DEF PumpStarts, Queued
<1> HIDE DEF D
<1>4. \A q \in Runs : db'[q] = IF q \in S THEN BeginRow(D[q]) ELSE D[q]
  BY <1>1 DEF AfterPump, D
<1> QED BY <1>2, <1>3, <1>4

LEMMA BeginRowIs ==
    ASSUME NEW x \in DbRow
    PROVE  /\ BeginRow(x).status = "running" /\ BeginRow(x).msgs = x.msgs
           /\ BeginRow(x) \in DbRow
<1>1. x.attempts + 1 \in Nat /\ "running" \in Statuses \cup {"absent"}
  BY DEF DbRow, Statuses
<1> QED BY <1>1 DEF BeginRow, DbRow

LEMMA OwnRows ==
    ASSUME GoodRows(db, mem), NEW r \in Runs, ByItself(r)
    PROVE  \A q \in Runs : RowStep(db[q], db'[q])
<1>1. PICK e : Own(db[r], e) /\ Becomes(r, e)
  BY DEF ByItself
<1> SUFFICES ASSUME NEW q \in Runs PROVE RowStep(db[q], db'[q])
  OBVIOUS
<1> DEFINE x == IF q = r THEN e ELSE db[q]
<1>2. Own(db[q], x) /\ db[q] \in DbRow /\ x \in DbRow
  BY <1>1, RowsTyped DEF Own
<1>3. db'[q] = x \/ (x.status = "queued" /\ db'[q] = BeginRow(x))
  BY <1>1, BecomesRow
<1> HIDE DEF x
<1>4. db[q].msgs \in Nat /\ x.msgs = db[q].msgs
  BY <1>2, BoundAssumption DEF Own, DbRow
<1>5. CASE db'[q] = x
  BY <1>2, <1>4, <1>5 DEF Own, RowStep, Holding
<1>6. CASE x.status = "queued" /\ db'[q] = BeginRow(x)
  BY <1>2, <1>4, <1>6, BeginRowIs DEF Own, RowStep, Holding
<1> QED BY <1>3, <1>5, <1>6

-----------------------------------------------------------------------------
(* The ends of tasks *)

OwnWrites(r, d) == r \in Runs /\ GoodRows(db, mem) /\ Own(db[r], d)

(* The task of slot s may put its run back to where it found it.           *)
MayRestore(m, s) == Rests(m.task[s]) /\ m.task[s].pc # "disposing"

LEMMA OwnWrite ==
    ASSUME NEW r, NEW d, NEW m, OwnWrites(r, d), Write(r, d, m)
    PROVE  ByItself(r)
BY WriteBecomes DEF OwnWrites, Own, ByItself

LEMMA OwnPump ==
    ASSUME NEW r, NEW d, NEW m, OwnWrites(r, d), WriteAndPump(r, d, m)
    PROVE  ByItself(r)
BY PumpBecomes DEF OwnWrites, ByItself

LEMMA OwnSettle ==
    ASSUME NEW r, NEW d, NEW m, NEW terminal, OwnWrites(r, d), Settle(r, d, m, terminal)
    PROVE  ByItself(r)
<1>1. ASSUME NEW n \in {d.attempts, 0}, NEW k, WriteAndPump(r, [d EXCEPT !.attempts = n], k)
      PROVE  ByItself(r)
  <2> DEFINE e == [d EXCEPT !.attempts = n]
  <2>1. d \in DbRow
    BY DEF OwnWrites, Own
  <2>2. e \in DbRow /\ e.status = d.status /\ e.msgs = d.msgs
    BY <2>1 DEF DbRow
  <2> HIDE DEF e
  <2>3. OwnWrites(r, e)
    BY <2>2 DEF OwnWrites, Own
  <2> QED BY <1>1, <2>3, OwnPump DEF e
<1>2. \/ \E k : WriteAndPump(r, d, k)
      \/ \E n \in {d.attempts, 0} : \E k : WriteAndPump(r, [d EXCEPT !.attempts = n], k)
      \/ Write(r, d, m)
  BY DEF Settle
<1> QED BY <1>1, <1>2, OwnPump, OwnWrite

LEMMA OwnExecFinally ==
    ASSUME NEW r, NEW s, NEW d, NEW m, NEW active, OwnWrites(r, d),
           ExecFinally(r, s, d, m, active)
    PROVE  ByItself(r)
<1>1. (\E k, terminal : Settle(r, d, k, terminal)) \/ (\E k : Write(r, d, k))
  BY DEF ExecFinally
<1> QED BY <1>1, OwnSettle, OwnWrite

LEMMA OwnCleanup ==
    ASSUME NEW r, NEW s, NEW d, NEW m, NEW active, NEW always, OwnWrites(r, d),
           Cleanup(r, s, d, m, active, always)
    PROVE  ByItself(r)
<1>1. (\E k, terminal : Settle(r, d, k, terminal)) \/ (\E k : Write(r, d, k))
  BY DEF Cleanup
<1> QED BY <1>1, OwnSettle, OwnWrite

LEMMA OwnReturn ==
    ASSUME NEW r, NEW s, NEW d, NEW m, OwnWrites(r, d), Return(r, s, d, m)
    PROVE  ByItself(r)
BY OwnExecFinally, OwnCleanup DEF Return

LEMMA OwnFail ==
    ASSUME NEW r, NEW d, OwnWrites(r, d)
    PROVE  OwnWrites(r, Fail(d))
<1>1. d \in DbRow /\ Own(db[r], d)
  BY DEF OwnWrites, Own
<1>2. CASE d.status \in Holding
  <2>1. /\ Fail(d) \in DbRow /\ Fail(d).status = "failed" /\ Fail(d).msgs = d.msgs
    BY <1>1, <1>2 DEF Fail, DbRow, Statuses
  <2> QED BY <1>1, <1>2, <2>1 DEF OwnWrites, Own
<1>3. CASE d.status \notin Holding
  BY <1>3 DEF Fail
<1> QED BY <1>2, <1>3

LEMMA OwnRestore ==
    ASSUME NEW r, NEW s, NEW d, NEW m, OwnWrites(r, d), MayRestore(m, s)
    PROVE  OwnWrites(r, Restore(d, m.task[s].orig))
<1> DEFINE orig == m.task[s].orig
           e == Restore(d, orig)
<1>1. d \in DbRow /\ Own(db[r], d)
  BY DEF OwnWrites, Own
<1>2. CASE d.status \in Holding /\ CanTransition(d.status, orig)
  <2>1. orig \in Statuses
    BY <1>2, AllowedStatuses DEF CanTransition
  <2>2. e \in DbRow /\ e.status = orig /\ e.msgs = d.msgs
    BY <1>1, <1>2, <2>1 DEF Restore, DbRow
  <2>3. Undisturbed => orig \in RestPoints /\ orig # "cancelled"
    BY DEF MayRestore, Rests, Undisturbed
  <2>4. d.status = "paused" => orig \in {"running", "cancelled", "failed"}
    BY <1>2 DEF CanTransition, Allowed
  <2>5. d.status = "failed" => FALSE
    BY <1>2 DEF Holding
  <2> HIDE DEF orig, e
  <2>6. Undisturbed /\ db[r].status = "paused" => e.status \in {"paused", "failed"}
    BY <1>1, <2>2, <2>3, <2>4, <2>5 DEF Own, RestPoints, Terminal
  <2>7. e.status # "absent" /\ (db[r].status \notin Holding => d.status = db[r].status)
    BY <1>1, <2>1, <2>2 DEF Own, Statuses
  <2> QED BY <1>1, <1>2, <2>2, <2>6, <2>7 DEF OwnWrites, Own, e, orig
<1>3. CASE ~(d.status \in Holding /\ CanTransition(d.status, orig))
  BY <1>3 DEF Restore
<1> QED BY <1>2, <1>3

LEMMA OwnThrow ==
    ASSUME NEW r, NEW s, NEW d, NEW m, OwnWrites(r, d), MayRestore(m, s), Throw(r, s, d, m)
    PROVE  ByItself(r)
<1> DEFINE x == Restore(d, m.task[s].orig)
<1>1. OwnWrites(r, Fail(d)) /\ OwnWrites(r, x)
  BY OwnFail, OwnRestore
<1>2. ASSUME NEW active, ExecThrows(r, s, d, m, active) PROVE ByItself(r)
  <2>1. \E e \in {d, Fail(d)} : ExecFinally(r, s, e, m, active)
    BY <1>2 DEF ExecThrows
  <2> QED BY <1>1, <2>1, OwnExecFinally
<1>3. ASSUME NEW active, FollowThrows(r, s, d, m, active) PROVE ByItself(r)
  <2>1. \/ \E e \in {x, Fail(d)} : Cleanup(r, s, e, m, active, TRUE)
        \/ \E k : Write(r, d, k)
    BY <1>3 DEF FollowThrows
  <2> HIDE DEF x
  <2> QED BY <1>1, <2>1, OwnCleanup, OwnWrite
<1>4. CASE ReviveThrows(r, s, d, m)
  <2>1. \E e \in {x, Fail(d)} : Cleanup(r, s, e, m, m.handle, TRUE)
    BY <1>4 DEF ReviveThrows
  <2> HIDE DEF x
  <2> QED BY <1>1, <2>1, OwnCleanup
<1>5. CASE Fallback(r, s, d, m)
  BY <1>5, OwnWrite DEF Fallback
<1>6. ASSUME NEW active, Cleanup(r, s, Fail(d), m, active, TRUE) PROVE ByItself(r)
  BY <1>1, <1>6, OwnCleanup
<1> QED BY <1>2, <1>3, <1>4, <1>5, <1>6 DEF Throw

-----------------------------------------------------------------------------
(* The steps of the daemon *)

LEMMA TaskMayRestore ==
    ASSUME IInv, NEW r \in Runs, NEW s \in Slots, NEW pc \in Pcs, At(r, s, pc), pc # "disposing"
    PROVE  /\ MayRestore(mem[r], s) /\ MayRestore(WithHandle(mem[r]), s)
           /\ OwnWrites(r, db[r]) /\ OwnWrites(r, WithAgent(db[r]))
<1>1. GoodRows(db, mem) /\ Good(db[r], mem[r]) /\ mem[r].task[s].pc = pc
  BY DEF IInv, GoodRows, At
<1>2. MayRestore(mem[r], s)
  BY <1>1 DEF MayRestore, Good
<1>3. MayRestore(WithHandle(mem[r]), s)
  BY <1>2 DEF MayRestore, WithHandle
<1>4. OwnWrites(r, db[r])
  BY <1>1, RowsTyped DEF OwnWrites
<1>5. OwnWrites(r, WithAgent(db[r]))
  BY <1>1, <1>4 DEF OwnWrites, Own, WithAgent, DbRow
<1> QED BY <1>2, <1>3, <1>4, <1>5

LEMMA OwnStarted ==
    ASSUME NEW r, NEW s, NEW m, OwnWrites(r, WithAgent(db[r])), Started(r, s, m)
    PROVE  ByItself(r)
BY OwnWrite DEF Started

LEMMA OwnSpawnResume ==
    ASSUME IInv, NEW r \in Runs, NEW s \in Slots,
           SpawnReturns(r, s) \/ ResumeReturns(r, s) \/ ResumeRejects(r, s)
    PROVE  ByItself(r)
<1>1. CASE SpawnReturns(r, s)
  BY <1>1, TaskMayRestore, OwnStarted DEF SpawnReturns, Pcs
<1>2. CASE ResumeReturns(r, s)
  <2>1. OwnWrites(r, WithAgent(db[r]))
    BY <1>2, TaskMayRestore DEF ResumeReturns, Pcs
  <2>2. (\E m : Started(r, s, m)) \/ (\E m : Write(r, WithAgent(db[r]), m))
    BY <1>2 DEF ResumeReturns
  <2> QED BY <2>1, <2>2, OwnStarted, OwnWrite
<1>3. CASE ResumeRejects(r, s)
  <2> DEFINE x == Restore(db[r], mem[r].task[s].orig)
  <2>1. OwnWrites(r, db[r]) /\ MayRestore(mem[r], s)
    BY <1>3, TaskMayRestore DEF ResumeRejects, Pcs
  <2>2. OwnWrites(r, Fail(db[r])) /\ OwnWrites(r, x)
    BY <2>1, OwnFail, OwnRestore
  <2>3. \/ \E e \in {db[r], Fail(db[r])} : ExecFinally(r, s, e, mem[r], FALSE)
        \/ \E e \in {x, Fail(db[r])} : Cleanup(r, s, e, mem[r], mem[r].handle, TRUE)
        \/ \E k : Write(r, db[r], k)
    BY <1>3 DEF ResumeRejects, ExecThrows, FollowThrows
  <2> HIDE DEF x
  <2> QED BY <2>1, <2>2, <2>3, OwnExecFinally, OwnCleanup, OwnWrite
<1> QED BY <1>1, <1>2, <1>3

LEMMA OwnSendStream ==
    ASSUME IInv, NEW r \in Runs, NEW s \in Slots,
           \/ SendReturns(r, s) \/ SendRejects(r, s)
           \/ StreamEnds(r, s) \/ StreamRejects(r, s)
    PROVE  ByItself(r)
<1>1. CASE SendReturns(r, s)
  <2>1. OwnWrites(r, WithAgent(db[r]))
    BY <1>1, TaskMayRestore DEF SendReturns, Pcs
  <2>2. \/ \E m : Return(r, s, WithAgent(db[r]), m)
        \/ \E m : Write(r, WithAgent(db[r]), m)
    BY <1>1 DEF SendReturns
  <2> QED BY <2>1, <2>2, OwnReturn, OwnWrite
<1>2. CASE SendRejects(r, s)
  BY <1>2, TaskMayRestore, OwnThrow DEF SendRejects, Pcs
<1>3. CASE StreamEnds(r, s)
  BY <1>3, TaskMayRestore, OwnReturn, OwnWrite DEF StreamEnds, Pcs
<1>4. CASE StreamRejects(r, s)
  BY <1>4, TaskMayRestore, OwnThrow DEF StreamRejects, Pcs
<1> QED BY <1>1, <1>2, <1>3, <1>4

LEMMA OwnWait ==
    ASSUME IInv, NEW r \in Runs, NEW s \in Slots, WaitReturns(r, s) \/ WaitRejects(r, s)
    PROVE  ByItself(r)
<1>1. CASE WaitReturns(r, s)
  <2>1. OwnWrites(r, db[r])
    BY <1>1, TaskMayRestore DEF WaitReturns, Pcs
  <2>2. ASSUME TakesResult(db[r]), NEW res \in SdkResults,
               Return(r, s, [db[r] EXCEPT !.status = res], mem[r])
        PROVE  ByItself(r)
    <3> DEFINE e == [db[r] EXCEPT !.status = res]
    <3>1. db[r] \in DbRow /\ res \in Terminal
      BY <2>1, ResultAssumption DEF OwnWrites, Own
    <3>2. e \in DbRow /\ e.status = res /\ e.msgs = db[r].msgs
      BY <3>1 DEF DbRow, Terminal, Statuses
    <3> HIDE DEF e
    <3>3. OwnWrites(r, e)
      BY <2>1, <2>2, <3>1, <3>2 DEF OwnWrites, Own, TakesResult, Holding, Terminal
    <3> QED BY <2>2, <3>3, OwnReturn DEF e
  <2>3. \/ \E res \in SdkResults :
              TakesResult(db[r]) /\ Return(r, s, [db[r] EXCEPT !.status = res], mem[r])
        \/ Return(r, s, db[r], mem[r])
        \/ \E k : Write(r, db[r], k)
    BY <1>1 DEF WaitReturns, Fallback
  <2> QED BY <2>1, <2>2, <2>3, OwnReturn, OwnWrite
<1>2. CASE WaitRejects(r, s)
  BY <1>2, TaskMayRestore, OwnThrow DEF WaitRejects, Pcs
<1> QED BY <1>1, <1>2

LEMMA OwnLastSteps ==
    ASSUME IInv, NEW r \in Runs, NEW s \in Slots,
           \/ FallbackDone(r, s) \/ ReviveReturns(r, s) \/ ReviveRejects(r, s)
           \/ Disposed(r, s)
    PROVE  ByItself(r)
<1> DEFINE x == Restore(db[r], mem[r].task[s].orig)
<1>1. CASE FallbackDone(r, s)
  <2>1. OwnWrites(r, db[r]) /\ OwnWrites(r, x)
    BY <1>1, TaskMayRestore, OwnRestore DEF FallbackDone, Pcs
  <2>2. \E e \in {db[r], x} : \E k : Write(r, e, k)
    BY <1>1 DEF FallbackDone
  <2> HIDE DEF x
  <2> QED BY <2>1, <2>2, OwnWrite
<1>2. CASE ReviveReturns(r, s) \/ ReviveRejects(r, s)
  <2>1. OwnWrites(r, x) /\ OwnWrites(r, WithAgent(db[r]))
    BY <1>2, TaskMayRestore, OwnRestore DEF ReviveReturns, ReviveRejects, Pcs
  <2>2. \/ Cleanup(r, s, x, mem[r], mem[r].handle, TRUE)
        \/ \E k : Write(r, WithAgent(db[r]), k)
    BY <1>2 DEF ReviveReturns, ReviveRejects
  <2> HIDE DEF x
  <2> QED BY <2>1, <2>2, OwnCleanup, OwnWrite
<1>3. CASE Disposed(r, s)
  <2>1. OwnWrites(r, db[r])
    BY RowsTyped DEF IInv, OwnWrites
  <2>2. \E k, terminal : Settle(r, db[r], k, terminal)
    BY <1>3 DEF Disposed
  <2> QED BY <2>1, <2>2, OwnSettle
<1> QED BY <1>1, <1>2, <1>3

LEMMA OwnRecover ==
    ASSUME IInv, NEW r \in Runs, db[r].status \in {"running", "needs_input"}
    PROVE  OwnWrites(r, RecoverRow(db[r]))
<1>1. GoodRows(db, mem) /\ db[r] \in DbRow
  BY RowsTyped DEF IInv
<1>2. /\ RecoverRow(db[r]) \in DbRow /\ RecoverRow(db[r]).msgs = db[r].msgs
      /\ RecoverRow(db[r]).status \in {"queued", "failed"}
  BY <1>1 DEF RecoverRow, DbRow, Statuses
<1> QED BY <1>1, <1>2 DEF OwnWrites, Own, Holding

LEMMA OwnTimers ==
    ASSUME IInv, NEW r \in Runs, PumpTimer(r) \/ Watchdog(r) \/ Ask(r)
    PROVE  ByItself(r)
<1>1. OwnWrites(r, db[r]) /\ db[r] \in DbRow
  BY RowsTyped DEF IInv, OwnWrites
<1>2. CASE PumpTimer(r)
  BY <1>1, <1>2, OwnPump DEF PumpTimer
<1>3. CASE StallSweep(r)
  BY <1>3, OwnRecover, OwnWrite DEF StallSweep
<1>4. CASE RetainedSweep(r)
  BY <1>1, <1>4, OwnWrite DEF RetainedSweep
<1>5. CASE Ask(r)
  <2> DEFINE e == [db[r] EXCEPT !.ask = TRUE, !.status = "needs_input"]
  <2>1. db[r].status = "running" /\ \E m : Write(r, e, m)
    BY <1>5 DEF Ask, McpAsk, SentinelAsk, Asked
  <2>2. e \in DbRow /\ e.status = "needs_input" /\ e.msgs = db[r].msgs
    BY <1>1 DEF DbRow, Statuses
  <2> HIDE DEF e
  <2>3. OwnWrites(r, e)
    BY <1>1, <2>1, <2>2 DEF OwnWrites, Own, Holding
  <2> QED BY <2>1, <2>3, OwnWrite
<1> QED BY <1>2, <1>3, <1>4, <1>5 DEF Watchdog

(* A spawn that is rejected; with an interrupt the pump runs before the    *)
(* run is put back.                                                        *)
LEMMA RejectedSpawn ==
    ASSUME IInv, NEW r \in Runs, NEW s \in Slots, SpawnRejects(r, s)
    PROVE  /\ Calm => ByItself(r)
           /\ \A q \in Runs : RowStep(db[q], db'[q])
<1>1. OwnWrites(r, db[r]) /\ GoodRows(db, mem) /\ db \in [Runs -> DbRow]
  BY RowsTyped DEF IInv, OwnWrites
<1>2. CASE ExecFinally(r, s, db[r], mem[r], FALSE)
  BY <1>1, <1>2, OwnExecFinally, OwnRows
<1>3. ASSUME db[r].status \in {"running", "needs_input"}, NEW S \in SUBSET Runs,
             ~mem[r].pendingInterrupt => S = {},
             mem[r].pendingInterrupt => PumpStarts(S, db, Context),
             db' = [q \in Runs |-> IF q = r THEN RecoverRow(db[r])
                                   ELSE IF q \in S THEN BeginRow(db[q]) ELSE db[q]]
      PROVE  /\ Calm => ByItself(r)
             /\ \A q \in Runs : RowStep(db[q], db'[q])
  <2>1. OwnWrites(r, RecoverRow(db[r]))
    BY <1>3, OwnRecover
  <2>2. ASSUME Calm PROVE ByItself(r)
    <3>1. S = {}
      BY <1>3, <2>2 DEF IInv, GoodRows, Good, Quiet
    <3>2. db' = AfterPump({}, [db EXCEPT ![r] = RecoverRow(db[r])])
      BY <1>1, <1>3, <3>1 DEF AfterPump
    <3>3. {} \in SUBSET Runs
      OBVIOUS
    <3>4. Becomes(r, RecoverRow(db[r]))
      BY <3>2, <3>3 DEF Becomes
    <3> QED BY <2>1, <3>4 DEF OwnWrites, ByItself
  <2>3. ASSUME NEW q \in Runs PROVE RowStep(db[q], db'[q])
    <3>1. \A p \in S : db[p].status = "queued"
      BY <1>3 DEF PumpStarts, Queued
    <3>2. db[q].msgs \in Nat /\ db[q] \in DbRow
      BY <1>1, BoundAssumption DEF DbRow
    <3>3. CASE q = r
      BY <1>3, <2>1, <3>2, <3>3 DEF OwnWrites, Own, RowStep, Holding
    <3>4. CASE q # r /\ q \in S
      BY <1>3, <3>1, <3>2, <3>4, BeginRowIs DEF RowStep
    <3>5. CASE q # r /\ q \notin S
      BY <1>3, <3>2, <3>5 DEF RowStep
    <3> QED BY <3>3, <3>4, <3>5
  <2> QED BY <2>2, <2>3
<1>4. \/ ExecFinally(r, s, db[r], mem[r], FALSE)
      \/ /\ db[r].status \in {"running", "needs_input"}
         /\ \E S \in SUBSET Runs :
              /\ ~mem[r].pendingInterrupt => S = {}
              /\ mem[r].pendingInterrupt => PumpStarts(S, db, Context)
              /\ db' = [q \in Runs |-> IF q = r THEN RecoverRow(db[r])
                                       ELSE IF q \in S THEN BeginRow(db[q]) ELSE db[q]]
  BY DEF SpawnRejects
<1> QED BY <1>2, <1>3, <1>4

LEMMA OwnTask ==
    ASSUME IInv, NEW r \in Runs, NEW s \in Slots, TaskStep(r, s)
    PROVE  ByItself(r) \/ SpawnRejects(r, s)
BY OwnSpawnResume, OwnSendStream, OwnWait, OwnLastSteps DEF TaskStep

-----------------------------------------------------------------------------
(* The operator, the deliveries and the boot *)

LEMMA SameRows ==
    ASSUME GoodRows(db, mem), db' = db
    PROVE  \A q \in Runs : RowStep(db[q], db'[q])
<1>1. \A q \in Runs : db[q].msgs \in Nat
  BY BoundAssumption DEF GoodRows, DbRow
<1> QED BY <1>1 DEF RowStep

LEMMA OperatorRows ==
    ASSUME IInv, NEW r \in Runs, Operator(r)
    PROVE  /\ used'.ops > used.ops
           /\ \A q \in Runs : db'[q].msgs < db[q].msgs => db'[q].status = "cancelled"
<1>1. GoodRows(db, mem) /\ db[r] \in DbRow /\ \A q \in Runs : db[q].msgs \in Nat
  BY BoundAssumption DEF IInv, GoodRows, DbRow
<1>2. ASSUME NEW name, Op(name) PROVE used'.ops > used.ops
  <2>1. used.ops \in Nat /\ used' = [used EXCEPT !.ops = @ + 1]
    BY <1>2, BoundAssumption DEF IInv, Op, Spend
  <2>2. used'.ops = used.ops + 1
    BY <2>1 DEF IInv
  <2> QED BY <2>1, <2>2
<1>3. used'.ops > used.ops
  BY <1>2 DEF Operator, Cancel, Pause, Resume, Send, Interrupt, QueueMessage, Answer
<1>4. ASSUME NEW e, \E m : Write(r, e, m),
             e.status = "cancelled" \/ e.msgs \in {db[r].msgs, db[r].msgs + 1}
      PROVE  \A q \in Runs : db'[q].msgs < db[q].msgs => db'[q].status = "cancelled"
  <2>1. \A q \in Runs : db'[q] = IF q = r THEN e ELSE db[q]
    BY <1>1, <1>4 DEF Write, GoodRows
  <2> QED BY <1>1, <1>4, <2>1
<1>5. CASE Cancel(r)
  <2> DEFINE e == [db[r] EXCEPT !.status = "cancelled", !.msgs = 0]
  <2>1. e.status = "cancelled" /\ NoAsk(e).status = "cancelled"
    BY <1>1 DEF NoAsk, DbRow
  <2>2. (\E m : Write(r, e, m)) \/ (\E m : Write(r, NoAsk(e), m))
    BY <1>5 DEF Cancel
  <2> HIDE DEF e
  <2>3. \A q \in Runs : db'[q].msgs < db[q].msgs => db'[q].status = "cancelled"
    BY <1>4, <2>1, <2>2
  <2> QED BY <1>3, <2>3
<1>6. CASE Pause(r) \/ Interrupt(r) \/ Answer(r)
  <2> DEFINE p == NoAsk([db[r] EXCEPT !.status = "paused"])
             n == NoAsk(db[r])
             a == [NoAsk(db[r]) EXCEPT !.status = "running"]
  <2>1. p.msgs = db[r].msgs /\ n.msgs = db[r].msgs /\ a.msgs = db[r].msgs
    BY <1>1 DEF NoAsk, DbRow
  <2>2. \E e \in {p, n, a} : \E m : Write(r, e, m)
    BY <1>6 DEF Pause, Interrupt, Answer
  <2> HIDE DEF p, n, a
  <2>3. \A q \in Runs : db'[q].msgs < db[q].msgs => db'[q].status = "cancelled"
    BY <1>4, <2>1, <2>2
  <2> QED BY <1>3, <2>3
<1>7. CASE Resume(r) \/ Send(r)
  <2> DEFINE a == [db[r] EXCEPT !.status = "running"]
  <2>1. a.msgs = db[r].msgs
    BY <1>1 DEF DbRow
  <2>2. \E e \in {db[r], a} : \E m : Write(r, e, m)
    BY <1>7 DEF Resume, Send, FollowUp, FollowUpRow
  <2> HIDE DEF a
  <2>3. \A q \in Runs : db'[q].msgs < db[q].msgs => db'[q].status = "cancelled"
    BY <1>4, <2>1, <2>2
  <2> QED BY <1>3, <2>3
<1>8. CASE QueueMessage(r)
  <2> DEFINE e == [db[r] EXCEPT !.msgs = @ + 1]
  <2>1. e.msgs = db[r].msgs + 1
    BY <1>1 DEF DbRow
  <2>2. \E m : Write(r, e, m)
    BY <1>8 DEF QueueMessage
  <2> HIDE DEF e
  <2>3. \A q \in Runs : db'[q].msgs < db[q].msgs => db'[q].status = "cancelled"
    BY <1>4, <2>1, <2>2
  <2> QED BY <1>3, <2>3
<1> QED BY <1>5, <1>6, <1>7, <1>8 DEF Operator

(* A write of one row, and nothing else *)
LEMMA OneRowStep ==
    ASSUME IInv, NEW r \in Runs, NEW e, NEW m, Write(r, e, m), RowStep(db[r], e)
    PROVE  \A q \in Runs : RowStep(db[q], db'[q])
<1>1. db \in [Runs -> DbRow] /\ \A q \in Runs : db[q].msgs \in Nat
  BY BoundAssumption DEF IInv, GoodRows, DbRow
<1>2. \A q \in Runs : db'[q] = IF q = r THEN e ELSE db[q]
  BY <1>1 DEF Write
<1> QED BY <1>1, <1>2 DEF RowStep

LEMMA DeliverRows ==
    ASSUME IInv, NEW r \in Runs, DeliverTimer(r)
    PROVE  \A q \in Runs : RowStep(db[q], db'[q])
<1>1. db[r] \in DbRow /\ db[r].msgs \in Nat
  BY BoundAssumption DEF IInv, GoodRows, DbRow
<1> DEFINE d == [db[r] EXCEPT !.msgs = @ - 1]
           e == [d EXCEPT !.status = "running"]
<1>2. \/ \E m : Write(r, db[r], m)
      \/ /\ db[r].status \in {"completed", "failed"} /\ db[r].msgs > 0
         /\ \E m : Write(r, e, m)
  BY DEF DeliverTimer, Delivers, FollowUp, FollowUpRow
<1>3. e.status = "running" /\ e.msgs = db[r].msgs - 1
  BY <1>1 DEF DbRow
<1> HIDE DEF e
<1>4. RowStep(db[r], db[r])
  BY <1>1 DEF RowStep
<1>5. db[r].status \in {"completed", "failed"} => RowStep(db[r], e)
  BY <1>1, <1>3 DEF RowStep
<1> QED BY <1>2, <1>4, <1>5, OneRowStep

LEMMA InterruptTimerRows ==
    ASSUME IInv, NEW r \in Runs, InterruptTimer(r)
    PROVE  ~Calm /\ \A q \in Runs : RowStep(db[q], db'[q])
<1>1. db[r] \in DbRow /\ db[r].msgs \in Nat
  BY BoundAssumption DEF IInv, GoodRows, DbRow
<1>2. ~Calm
  BY DEF InterruptTimer, IInv, GoodRows, Good, Quiet
<1> DEFINE e == [db[r] EXCEPT !.status = "running"]
<1>3. \/ \E m : Write(r, db[r], m)
      \/ db[r].status # "cancelled" /\ \E m : Write(r, e, m)
  BY DEF InterruptTimer, InterruptStarts, FollowUp, FollowUpRow
<1>4. e.msgs = db[r].msgs
  BY <1>1 DEF DbRow
<1> HIDE DEF e
<1>5. RowStep(db[r], db[r]) /\ (db[r].status # "cancelled" => RowStep(db[r], e))
  BY <1>1, <1>2, <1>4 DEF RowStep, Undisturbed
<1> QED BY <1>2, <1>3, <1>5, OneRowStep

LEMMA TriggerRows ==
    ASSUME IInv, NEW r \in Runs, Trigger(r)
    PROVE  \A q \in Runs : RowStep(db[q], db'[q])
<1> DEFINE e == [db[r] EXCEPT !.status = "queued"]
<1>1. GoodRows(db, mem) /\ db[r] \in DbRow
  BY RowsTyped DEF IInv
<1>2. e \in DbRow /\ e.status = "queued" /\ e.msgs = db[r].msgs
  BY <1>1 DEF DbRow, Statuses
<1>3. Becomes(r, e) /\ db[r].status = "absent"
  BY PumpBecomes DEF Trigger
<1> HIDE DEF e
<1> SUFFICES ASSUME NEW q \in Runs PROVE RowStep(db[q], db'[q])
  OBVIOUS
<1> DEFINE x == IF q = r THEN e ELSE db[q]
<1>4. db'[q] = x \/ (x.status = "queued" /\ db'[q] = BeginRow(x))
  BY <1>1, <1>3, BecomesRow
<1>5. x \in DbRow /\ x.msgs = db[q].msgs /\ x.msgs \in Nat
      /\ (db[q].status \in {"cancelled", "paused"} => x = db[q])
  BY <1>1, <1>2, <1>3, BoundAssumption DEF GoodRows, DbRow
<1> HIDE DEF x
<1>6. BeginRow(x).status = "running" /\ BeginRow(x).msgs = x.msgs
  BY <1>5, BeginRowIs
<1>7. CASE db'[q] = x
  BY <1>5, <1>7 DEF RowStep
<1>8. CASE x.status = "queued" /\ db'[q] = BeginRow(x)
  BY <1>5, <1>6, <1>8 DEF RowStep
<1> QED BY <1>4, <1>7, <1>8

(* The rows the boot starts from *)
BootRows == [q \in Runs |-> IF Interrupted(q) /\ ~db[q].agent THEN RecoverRow(db[q]) ELSE db[q]]

LEMMA BootIs ==
    ASSUME Boot
    PROVE  \E S \in SUBSET Runs : /\ PumpStarts(S, BootRows, Runs \ TrackRuns)
                                  /\ db' = AfterPump(S, BootRows)
BY DEF Boot, BootRows, AfterPump

LEMMA BootRowIs ==
    ASSUME IInv, NEW q \in Runs
    PROVE  /\ BootRows[q] \in DbRow /\ BootRows[q].msgs = db[q].msgs
           /\ \/ BootRows[q] = db[q]
              \/ /\ db[q].status \in {"running", "needs_input"}
                 /\ BootRows[q].status \in {"queued", "failed"}
<1>1. db[q] \in DbRow
  BY RowsTyped DEF IInv
<1>2. CASE Interrupted(q) /\ ~db[q].agent
  BY <1>1, <1>2 DEF BootRows, Interrupted, RecoverRow, DbRow, Statuses
<1>3. CASE ~(Interrupted(q) /\ ~db[q].agent)
  BY <1>1, <1>3 DEF BootRows
<1> QED BY <1>2, <1>3

LEMMA BootStep ==
    ASSUME IInv, Boot
    PROVE  \A q \in Runs : RowStep(db[q], db'[q])
<1>1. PICK S \in SUBSET Runs : /\ PumpStarts(S, BootRows, Runs \ TrackRuns)
                               /\ db' = AfterPump(S, BootRows)
  BY BootIs
<1> SUFFICES ASSUME NEW q \in Runs PROVE RowStep(db[q], db'[q])
  OBVIOUS
<1> DEFINE x == BootRows[q]
<1>2. x \in DbRow /\ x.msgs = db[q].msgs /\ x.msgs \in Nat
      /\ (db[q].status \in {"cancelled", "paused"} => x = db[q])
  BY BootRowIs, BoundAssumption DEF DbRow
<1>3. db'[q] = IF q \in S THEN BeginRow(x) ELSE x
  BY <1>1 DEF AfterPump
<1>4. q \in S => x.status = "queued"
  BY <1>1 DEF PumpStarts, Queued
<1> HIDE DEF x
<1> QED BY <1>2, <1>3, <1>4, BeginRowIs DEF RowStep

(* Whose doing it is when a row changes                                    *)
RowsStep ==
    \/ \A q \in Runs : RowStep(db[q], db'[q])
    \/ /\ used'.ops > used.ops
       /\ \A q \in Runs : db'[q].msgs < db[q].msgs => db'[q].status = "cancelled"

LEMMA NextRows ==
    ASSUME IInv, [Next]_vars
    PROVE  RowsStep
<1>1. GoodRows(db, mem)
  BY DEF IInv
<1>2. ASSUME NEW r \in Runs, Trigger(r) \/ Timer(r) \/ Watchdog(r) \/ Ask(r) \/ LoseWorktree(r)
      PROVE  RowsStep
  <2>1. CASE PumpTimer(r) \/ Watchdog(r) \/ Ask(r)
    BY <1>1, <2>1, OwnTimers, OwnRows DEF RowsStep
  <2>2. CASE LoseWorktree(r)
    BY <1>1, <2>2, SameRows DEF LoseWorktree, RowsStep
  <2> QED BY <1>2, <2>1, <2>2, TriggerRows, DeliverRows, InterruptTimerRows DEF Timer, RowsStep
<1>3. ASSUME NEW r \in Runs, NEW s \in Slots, TaskStep(r, s)
      PROVE  RowsStep
  BY <1>1, <1>3, OwnTask, OwnRows, RejectedSpawn DEF RowsStep
<1>4. CASE Crash \/ UNCHANGED vars
  BY <1>1, <1>4, SameRows DEF Crash, vars, RowsStep
<1>5. ASSUME NEW r \in Runs, Operator(r) PROVE RowsStep
  BY <1>5, OperatorRows DEF RowsStep
<1>6. CASE Boot
  BY <1>6, BootStep DEF RowsStep
<1> QED BY <1>2, <1>3, <1>4, <1>5, <1>6 DEF Next

-----------------------------------------------------------------------------
(* A cancelled run moves again only on a message of the operator, whatever *)
(* result, retry, interrupt, answer or restart comes late.                 *)
THEOREM ACancelSticks == Spec => CancelSticks
<1>1. IInv /\ [Next]_vars =>
        [\A r \in Runs : Status(r) = "cancelled" /\ db'[r].status # "cancelled"
          => used'.ops > used.ops]_vars
  BY NextRows DEF RowsStep, RowStep, Status
<1> QED BY <1>1, Invariance, PTL DEF Spec, CancelSticks

(* A queued message leaves the queue by the turn that delivers it, or with *)
(* the run when that is cancelled; no two timers take the same one.        *)
THEOREM AMessageStartsATurn == Spec => MessageStartsTurn
<1>1. IInv /\ [Next]_vars =>
        [\A r \in Runs : db'[r].msgs < db[r].msgs =>
          \/ db'[r].status = "cancelled"
          \/ /\ Status(r) \in {"completed", "failed"} /\ db'[r].status = "running"
             /\ db'[r].msgs + 1 = db[r].msgs]_vars
  BY NextRows DEF RowsStep, RowStep, Status
<1> QED BY <1>1, Invariance, PTL DEF Spec, MessageStartsTurn

(* A pause outlives the turn it cut short: unless the operator sends or    *)
(* interrupts, only the operator takes the run out of it, or a rejected    *)
(* call of the SDK fails it.  A message to a cancelled run that is paused  *)
(* and then aborted would restore the cancel, and the follow-up of an      *)
(* earlier interrupt would make the run go on.                             *)
THEOREM APauseOutlivesItsTurn ==
    ASSUME OperatorOps \cap {"send", "interrupt"} = {}
    PROVE  Spec => PauseOutlivesTurn
<1>1. Undisturbed
  BY DEF Undisturbed, Calm, Unsent
<1>2. IInv /\ [Next]_vars =>
        [\A r \in Runs : Status(r) = "paused" =>
          db'[r].status \in {"paused", "failed"} \/ used'.ops > used.ops]_vars
  BY <1>1, NextRows DEF RowsStep, RowStep, Status
<1> QED BY <1>2, Invariance, PTL DEF Spec, PauseOutlivesTurn

-----------------------------------------------------------------------------
(* The engine implements the scheduler *)

Phase == [r \in Runs |-> PhaseOf(db[r].status)]

PhasesOf(D) == [r \in Runs |-> PhaseOf(D[r].status)]

LEMMA PhaseIs ==
    ASSUME NEW st \in Statuses \cup {"absent"}
    PROVE  /\ PhaseOf(st) \in {"absent", "waiting", "holding", "done"}
           /\ PhaseOf(st) = "absent" <=> st = "absent"
           /\ PhaseOf(st) = "waiting" <=> st = "queued"
           /\ PhaseOf(st) = "holding" <=> st \in Holding
           /\ PhaseOf(st) = "done" <=> st \in Terminal
<1>1. CASE st = "absent"
  BY <1>1 DEF PhaseOf, Holding, Terminal
<1>2. CASE st = "queued"
  BY <1>2 DEF PhaseOf, Holding, Terminal
<1>3. CASE st \in Holding
  BY <1>3 DEF PhaseOf, Holding, Terminal
<1>4. CASE st \in Terminal
  BY <1>4 DEF PhaseOf, Holding, Terminal
<1> QED BY <1>1, <1>2, <1>3, <1>4 DEF Statuses, Holding, Terminal

LEMMA SameCardinality == \A S : Scheduler!Cardinality(S) = Cardinality(S)
BY DEF Scheduler!Cardinality, Cardinality

(* What the pump may start from the rows D, the scheduler may serve.       *)
LEMMA ServesIs ==
    ASSUME NEW D \in [Runs -> DbRow], NEW S \in SUBSET Runs, NEW ctx,
           S = {} \/ PumpStarts(S, D, ctx)
    PROVE  Scheduler!Serves(S, PhasesOf(D))
<1>1. \A r \in Runs : D[r].status \in Statuses \cup {"absent"}
  BY DEF DbRow
<1>2. Scheduler!With(PhasesOf(D), "waiting") = Queued(D)
  BY <1>1, PhaseIs DEF Scheduler!With, Scheduler!Runs, Runs, PhasesOf, Queued
<1>3. Scheduler!With(PhasesOf(D), "holding") = Active(D)
  BY <1>1, PhaseIs DEF Scheduler!With, Scheduler!Runs, Runs, PhasesOf, Active
<1>4. S \subseteq Queued(D) /\ (\A r \in S, q \in Queued(D) \ S : r < q)
      /\ (S = {} \/ Cardinality(S) + Cardinality(Active(D)) <= Cap)
  BY DEF PumpStarts
<1> QED BY <1>2, <1>3, <1>4, SameCardinality DEF Scheduler!Serves

LEMMA AdmitIs ==
    ASSUME NEW D \in [Runs -> DbRow], NEW S \in SUBSET Runs, NEW ctx,
           S = {} \/ PumpStarts(S, D, ctx), db' = AfterPump(S, D)
    PROVE  Scheduler!Admit(PhasesOf(D))
<1>1. Phase' = [r \in Runs |-> IF r \in S THEN "holding" ELSE PhasesOf(D)[r]]
  <2>1. \A r \in Runs : db'[r].status = IF r \in S THEN "running" ELSE D[r].status
    BY DEF AfterPump, BeginRow, DbRow
  <2>2. PhaseOf("running") = "holding"
    BY PhaseIs DEF Statuses, Holding
  <2> QED BY <2>1, <2>2 DEF Phase, PhasesOf
<1>2. Scheduler!Serves(S, PhasesOf(D))
  BY ServesIs
<1> QED BY <1>1, <1>2 DEF Scheduler!Admit, Scheduler!Runs, Runs, Phase

SchedulerStep == [Scheduler!Next]_Phase

LEMMA LeaveIs ==
    ASSUME NEW D \in SUBSET Scheduler!With(Phase, "holding"),
           NEW W \in SUBSET (Scheduler!With(Phase, "holding") \ D),
           Scheduler!Leave(D, W)
    PROVE  SchedulerStep
BY DEF SchedulerStep, Scheduler!Next, Phase

(* A row that keeps its phase, or leaves its slot *)
LEMMA OwnRefines ==
    ASSUME IInv, NEW r \in Runs, ByItself(r)
    PROVE  SchedulerStep
<1>1. PICK e : Own(db[r], e) /\ Becomes(r, e)
  BY DEF ByItself
<1>2. PICK S \in SUBSET Runs :
        /\ S = {} \/ PumpStarts(S, [db EXCEPT ![r] = e], Context)
        /\ db' = AfterPump(S, [db EXCEPT ![r] = e])
  BY <1>1 DEF Becomes
<1>3. db[r] \in DbRow /\ db \in [Runs -> DbRow] /\ e \in DbRow
  BY <1>1, RowsTyped DEF IInv, Own
<1> DEFINE D == [db EXCEPT ![r] = e]
           was == PhaseOf(db[r].status)
           is == PhaseOf(e.status)
           gone == IF was = "holding" /\ is = "done" THEN {r} ELSE {}
           back == IF was = "holding" /\ is = "waiting" THEN {r} ELSE {}
<1>4. D \in [Runs -> DbRow] /\ \A q \in Runs : D[q] = IF q = r THEN e ELSE db[q]
  BY <1>3
<1>5. Scheduler!Admit(PhasesOf(D))
  <2> HIDE DEF D
  <2> QED BY <1>2, <1>4, AdmitIs DEF D
<1>6. is = was \/ (was = "holding" /\ is \in {"done", "waiting"})
  BY <1>1, <1>3, PhaseIs DEF Own, DbRow
<1>7. gone \in SUBSET Scheduler!With(Phase, "holding")
      /\ back \in SUBSET (Scheduler!With(Phase, "holding") \ gone)
  BY DEF Scheduler!With, Scheduler!Runs, Runs, Phase
<1> HIDE DEF D
<1>8. PhasesOf(D) = [q \in Runs |-> IF q \in gone THEN "done"
                                    ELSE IF q \in back THEN "waiting" ELSE Phase[q]]
  BY <1>4, <1>6 DEF PhasesOf, Phase
<1>9. Scheduler!Leave(gone, back)
  BY <1>5, <1>8 DEF Scheduler!Leave, Scheduler!Runs, Runs, Phase
<1> HIDE DEF gone, back
<1> QED BY <1>7, <1>9, LeaveIs

-----------------------------------------------------------------------------
(* A write of one row, and nothing else, by what it does to the phase      *)
Moved(was, is) ==
    \/ is = was
    \/ was = "holding" /\ is \in {"done", "waiting"}
    \/ was = "waiting" /\ is = "done"
    \/ was \in {"done", "waiting"} /\ is = "holding"

LEMMA AdmitNobody ==
    ASSUME NEW p, Phase' = [q \in Runs |-> p[q]]
    PROVE  Scheduler!Admit(p)
<1>1. Scheduler!Serves({}, p) /\ {} \in SUBSET Runs
  BY DEF Scheduler!Serves
<1>2. Phase' = [q \in Runs |-> IF q \in {} THEN "holding" ELSE p[q]]
  OBVIOUS
<1> QED BY <1>1, <1>2 DEF Scheduler!Admit, Scheduler!Runs, Runs, Phase

LEMMA MoveRefines ==
    ASSUME NEW r \in Runs, NEW is, Phase' = [Phase EXCEPT ![r] = is], Moved(Phase[r], is)
    PROVE  SchedulerStep
<1>1. Phase = [q \in Runs |-> Phase[q]] /\ r \in Scheduler!Runs
  BY DEF Phase, Scheduler!Runs, Runs
<1>2. CASE is = Phase[r]
  <2>1. Phase' = Phase
    BY <1>1, <1>2
  <2> QED BY <2>1 DEF SchedulerStep
<1>3. CASE Phase[r] = "holding" /\ is \in {"done", "waiting"}
  <2> DEFINE gone == IF is = "done" THEN {r} ELSE {}
             back == IF is = "waiting" THEN {r} ELSE {}
             p == [q \in Runs |-> IF q \in gone THEN "done"
                                  ELSE IF q \in back THEN "waiting" ELSE Phase[q]]
  <2>1. gone \in SUBSET Scheduler!With(Phase, "holding")
        /\ back \in SUBSET (Scheduler!With(Phase, "holding") \ gone)
    BY <1>1, <1>3 DEF Scheduler!With
  <2>2. Phase' = [q \in Runs |-> p[q]]
    BY <1>1, <1>3
  <2>3. Scheduler!Admit(p)
    <3> HIDE DEF p
    <3> QED BY <2>2, AdmitNobody
  <2>4. Scheduler!Leave(gone, back)
    BY <2>3 DEF Scheduler!Leave, Scheduler!Runs, Runs, Phase
  <2> HIDE DEF gone, back
  <2> QED BY <2>1, <2>4, LeaveIs
<1>4. CASE Phase[r] = "waiting" /\ is = "done"
  <2> DEFINE p == [Phase EXCEPT ![r] = "done"]
  <2>1. Phase' = [q \in Runs |-> p[q]]
    BY <1>1, <1>4
  <2>2. Scheduler!Admit(p)
    <3> HIDE DEF p
    <3> QED BY <2>1, AdmitNobody
  <2>3. Scheduler!Withdraw(r)
    BY <1>4, <2>2 DEF Scheduler!Withdraw, Phase
  <2> QED BY <1>1, <2>3 DEF SchedulerStep, Scheduler!Next, Phase
<1>5. CASE Phase[r] \in {"done", "waiting"} /\ is = "holding"
  <2>1. Scheduler!Reopen(r)
    BY <1>5 DEF Scheduler!Reopen, Phase
  <2> QED BY <1>1, <2>1 DEF SchedulerStep, Scheduler!Next, Phase
<1> QED BY <1>2, <1>3, <1>4, <1>5 DEF Moved

LEMMA WriteRefines ==
    ASSUME IInv, NEW r \in Runs, NEW e, NEW m, Write(r, e, m),
           Moved(PhaseOf(db[r].status), PhaseOf(e.status))
    PROVE  SchedulerStep
<1>1. db \in [Runs -> DbRow]
  BY DEF IInv, GoodRows
<1>2. \A q \in Runs : db'[q] = IF q = r THEN e ELSE db[q]
  BY <1>1 DEF Write
<1>3. Phase' = [Phase EXCEPT ![r] = PhaseOf(e.status)]
  BY <1>2 DEF Phase
<1>4. Phase[r] = PhaseOf(db[r].status)
  BY DEF Phase
<1> DEFINE is == PhaseOf(e.status)
<1>5. Phase' = [Phase EXCEPT ![r] = is] /\ Moved(Phase[r], is)
  BY <1>3, <1>4
<1> HIDE DEF is
<1> QED BY <1>5, MoveRefines

LEMMA SameRefines ==
    ASSUME db' = db
    PROVE  SchedulerStep
BY DEF SchedulerStep, Phase

(* A run is submitted                                                      *)
LEMMA TriggerRefines ==
    ASSUME IInv, NEW r \in Runs, Trigger(r)
    PROVE  SchedulerStep
<1> DEFINE e == [db[r] EXCEPT !.status = "queued"]
           D == [db EXCEPT ![r] = e]
<1>1. db \in [Runs -> DbRow] /\ \A q \in Runs : db[q].status \in Statuses \cup {"absent"}
  BY RowsTyped DEF IInv, DbRow
<1>2. e \in DbRow /\ e.status = "queued"
  BY <1>1 DEF DbRow, Statuses
<1>3. Becomes(r, e)
  BY PumpBecomes DEF Trigger
<1> HIDE DEF e
<1>4. D \in [Runs -> DbRow] /\ \A q \in Runs : D[q] = IF q = r THEN e ELSE db[q]
  BY <1>1, <1>2
<1>5. PICK S \in SUBSET Runs : /\ S = {} \/ PumpStarts(S, D, Context)
                               /\ db' = AfterPump(S, D)
  BY <1>3 DEF Becomes
<1> HIDE DEF D
<1>6. Scheduler!Admit(PhasesOf(D))
  BY <1>4, <1>5, AdmitIs
<1>7. PhaseOf("queued") = "waiting"
  BY PhaseIs DEF Statuses
<1>8. PhasesOf(D) = [Phase EXCEPT ![r] = "waiting"]
  BY <1>2, <1>4, <1>7 DEF PhasesOf, Phase
<1>9. Scheduler!Admit([Phase EXCEPT ![r] = "waiting"])
  BY <1>6, <1>8
<1>10. Phase[r] = "absent" /\ \A q \in Runs : q < r => Phase[q] # "absent"
  BY <1>1, PhaseIs DEF Trigger, Phase
<1>11. Scheduler!Submit(r)
  BY <1>9, <1>10 DEF Scheduler!Submit, Scheduler!Runs, Runs, Phase
<1>12. r \in Scheduler!Runs
  BY DEF Scheduler!Runs, Runs
<1> QED BY <1>11, <1>12 DEF SchedulerStep, Scheduler!Next, Phase

(* The boot puts back or fails the runs that never had an agent.           *)
LEMMA BootRefines ==
    ASSUME IInv, Boot
    PROVE  SchedulerStep
<1>1. PICK S \in SUBSET Runs : /\ PumpStarts(S, BootRows, Runs \ TrackRuns)
                               /\ db' = AfterPump(S, BootRows)
  BY BootIs
<1>2. BootRows \in [Runs -> DbRow]
  BY BootRowIs DEF BootRows
<1>3. Scheduler!Admit(PhasesOf(BootRows))
  BY <1>1, <1>2, AdmitIs
<1> DEFINE over == {q \in Runs : BootRows[q] # db[q] /\ BootRows[q].status = "failed"}
           back == {q \in Runs : BootRows[q] # db[q] /\ BootRows[q].status = "queued"}
<1>4. \A q \in Runs : BootRows[q] # db[q] =>
         db[q].status \in Holding /\ BootRows[q].status \in {"queued", "failed"}
  BY BootRowIs DEF Holding
<1>5. /\ PhaseOf("queued") = "waiting" /\ PhaseOf("failed") = "done"
      /\ \A st \in Holding : PhaseOf(st) = "holding"
  BY PhaseIs DEF Statuses, Terminal, Holding
<1>6. over \in SUBSET Scheduler!With(Phase, "holding")
      /\ back \in SUBSET (Scheduler!With(Phase, "holding") \ over)
  BY <1>4, <1>5 DEF Scheduler!With, Scheduler!Runs, Runs, Phase
<1>7. PhasesOf(BootRows) = [q \in Runs |-> IF q \in over THEN "done"
                                    ELSE IF q \in back THEN "waiting" ELSE Phase[q]]
  BY <1>4, <1>5 DEF PhasesOf, Phase
<1>8. Scheduler!Leave(over, back)
  BY <1>3, <1>7 DEF Scheduler!Leave, Scheduler!Runs, Runs, Phase
<1> HIDE DEF over, back
<1> QED BY <1>6, <1>8, LeaveIs

(* The operator's commands                                                 *)
LEMMA OperatorRefines ==
    ASSUME IInv, NEW r \in Runs, Operator(r)
    PROVE  SchedulerStep
<1>1. db[r] \in DbRow /\ db[r].status \in Statuses \cup {"absent"}
  BY RowsTyped DEF IInv, DbRow
<1>2. \A e : (\E m : Write(r, e, m)) /\ Moved(PhaseOf(db[r].status), PhaseOf(e.status))
             => SchedulerStep
  BY WriteRefines
<1>3. /\ PhaseOf("queued") = "waiting"
      /\ \A st \in {"running", "needs_input", "paused"} : PhaseOf(st) = "holding"
      /\ \A st \in Terminal : PhaseOf(st) = "done"
      /\ PhaseOf("cancelled") = "done"
  BY PhaseIs DEF Statuses, Terminal, Holding
<1>4. CASE Cancel(r)
  <2> DEFINE e == [db[r] EXCEPT !.status = "cancelled", !.msgs = 0]
  <2>1. e.status = "cancelled" /\ NoAsk(e).status = "cancelled"
    BY <1>1 DEF NoAsk, DbRow
  <2>2. (\E m : Write(r, e, m)) \/ (\E m : Write(r, NoAsk(e), m))
    BY <1>4 DEF Cancel
  <2> HIDE DEF e
  <2>3. PhaseOf(db[r].status) \in {"waiting", "holding"}
    BY <1>3, <1>4 DEF Cancel
  <2>4. Moved(PhaseOf(db[r].status), "done")
    BY <2>3 DEF Moved
  <2> QED BY <1>2, <1>3, <2>1, <2>2, <2>4
<1>5. CASE Pause(r)
  <2> DEFINE e == NoAsk([db[r] EXCEPT !.status = "paused"])
  <2>1. e.status = "paused" /\ db[r].status = "running" /\ \E m : Write(r, e, m)
    BY <1>1, <1>5 DEF NoAsk, DbRow, Pause
  <2> HIDE DEF e
  <2> QED BY <1>2, <1>3, <2>1 DEF Moved
<1>6. CASE Resume(r) \/ Send(r)
  <2> DEFINE e == [db[r] EXCEPT !.status = "running"]
  <2>1. e.status = "running"
    BY <1>1 DEF DbRow
  <2>2. db[r].status \in Terminal \cup {"paused"} /\ \E x \in {db[r], e} : \E m : Write(r, x, m)
    BY <1>6 DEF Resume, Send, FollowUp, FollowUpRow
  <2> HIDE DEF e
  <2> QED BY <1>2, <1>3, <2>1, <2>2 DEF Moved
<1>7. CASE QueueMessage(r)
  <2> DEFINE e == [db[r] EXCEPT !.msgs = @ + 1]
  <2>1. e.status = db[r].status /\ \E m : Write(r, e, m)
    BY <1>1, <1>7 DEF DbRow, QueueMessage
  <2> HIDE DEF e
  <2> QED BY <1>2, <2>1 DEF Moved
<1>8. CASE Answer(r)
  <2> DEFINE e == [NoAsk(db[r]) EXCEPT !.status = "running"]
  <2>1. e.status = "running" /\ db[r].status = "needs_input" /\ \E m : Write(r, e, m)
    BY <1>1, <1>8 DEF NoAsk, DbRow, Answer
  <2> HIDE DEF e
  <2> QED BY <1>2, <1>3, <2>1 DEF Moved
<1>9. CASE Interrupt(r)
  <2> DEFINE e == NoAsk(db[r])
  <2>1. e.status = db[r].status /\ \E m : Write(r, e, m)
    BY <1>1, <1>9 DEF NoAsk, DbRow, Interrupt
  <2> HIDE DEF e
  <2> QED BY <1>2, <2>1 DEF Moved
<1> QED BY <1>4, <1>5, <1>6, <1>7, <1>8, <1>9 DEF Operator

LEMMA DeliverRefines ==
    ASSUME IInv, NEW r \in Runs, DeliverTimer(r)
    PROVE  SchedulerStep
<1>1. db[r] \in DbRow
  BY RowsTyped DEF IInv
<1> DEFINE d == [db[r] EXCEPT !.msgs = @ - 1]
           e == [d EXCEPT !.status = "running"]
<1>2. \/ \E m : Write(r, db[r], m)
      \/ /\ db[r].status \in {"completed", "failed"}
         /\ \E m : Write(r, e, m)
  BY DEF DeliverTimer, Delivers, FollowUp, FollowUpRow
<1>3. e.status = "running"
  BY <1>1 DEF DbRow
<1> HIDE DEF e
<1>4. PhaseOf("running") = "holding" /\ \A st \in {"completed", "failed"} : PhaseOf(st) = "done"
  BY PhaseIs DEF Statuses, Terminal, Holding
<1>5. Moved(PhaseOf(db[r].status), PhaseOf(db[r].status))
      /\ (db[r].status \in {"completed", "failed"} =>
             Moved(PhaseOf(db[r].status), PhaseOf(e.status)))
  BY <1>3, <1>4 DEF Moved
<1> QED BY <1>2, <1>5, WriteRefines

LEMMA InterruptTimerRefines ==
    ASSUME IInv, NEW r \in Runs, InterruptTimer(r)
    PROVE  SchedulerStep
<1>1. db[r] \in DbRow /\ db[r].status \in Statuses \cup {"absent"}
  BY RowsTyped DEF IInv, DbRow
<1> DEFINE e == [db[r] EXCEPT !.status = "running"]
<1>2. \/ \E m : Write(r, db[r], m)
      \/ db[r].status # "absent" /\ \E m : Write(r, e, m)
  BY DEF InterruptTimer, InterruptStarts, FollowUp, FollowUpRow
<1>3. e.status = "running"
  BY <1>1 DEF DbRow
<1> HIDE DEF e
<1>4. PhaseOf("running") = "holding"
  BY PhaseIs DEF Statuses, Holding
<1>5. Moved(PhaseOf(db[r].status), PhaseOf(db[r].status))
      /\ (db[r].status # "absent" => Moved(PhaseOf(db[r].status), PhaseOf(e.status)))
  BY <1>1, <1>3, <1>4, PhaseIs DEF Moved
<1> QED BY <1>2, <1>5, WriteRefines

(* A spawn that is rejected while an interrupt is pending: the queue is    *)
(* served before the run is put back.                                      *)
LEMMA RejectRefines ==
    ASSUME IInv, NEW r \in Runs, NEW s \in Slots, SpawnRejects(r, s)
    PROVE  SchedulerStep
<1>1. CASE Calm
  BY <1>1, RejectedSpawn, OwnRefines
<1>2. CASE ExecFinally(r, s, db[r], mem[r], FALSE)
  <2>1. OwnWrites(r, db[r])
    BY RowsTyped DEF IInv, OwnWrites
  <2> QED BY <1>2, <2>1, OwnExecFinally, OwnRefines
<1>3. CASE ~Calm /\ ~ExecFinally(r, s, db[r], mem[r], FALSE)
  <2>1. db[r] \in DbRow /\ db \in [Runs -> DbRow]
    BY RowsTyped DEF IInv
  <2>2. db[r].status \in {"running", "needs_input"}
    BY <1>3 DEF SpawnRejects
  <2>3. PICK S \in SUBSET Runs :
          /\ S = {} \/ PumpStarts(S, db, Context)
          /\ db' = [q \in Runs |-> IF q = r THEN RecoverRow(db[r])
                                   ELSE IF q \in S THEN BeginRow(db[q]) ELSE db[q]]
    BY <1>3 DEF SpawnRejects
  <2>4. Scheduler!Serves(S, Phase)
    <3>1. PhasesOf(db) = Phase
      BY DEF PhasesOf, Phase
    <3> QED BY <2>1, <2>3, <3>1, ServesIs
  <2> DEFINE ph == PhaseOf(RecoverRow(db[r]).status)
  <2>5. ph \in {"waiting", "done"}
    <3>1. RecoverRow(db[r]).status \in {"queued", "failed"}
      BY <2>1 DEF RecoverRow, DbRow
    <3> QED BY <3>1, PhaseIs DEF Statuses, Terminal
  <2>6. Phase[r] = "holding" /\ PhaseOf("running") = "holding"
    BY <2>2, PhaseIs DEF Phase, Statuses, Holding
  <2>7. Phase' = [q \in Runs |-> IF q = r THEN ph
                                 ELSE IF q \in S THEN "holding" ELSE Phase[q]]
    <3>1. \A q \in Runs : BeginRow(db[q]).status = "running"
      BY <2>1, BeginRowIs
    <3> QED BY <2>3, <2>6, <3>1 DEF Phase
  <2>8. "interrupt" \in OperatorOps
    BY <1>3 DEF Calm
  <2> HIDE DEF ph
  <2>9. Scheduler!GiveBack(r)
    BY <2>4, <2>5, <2>6, <2>7, <2>8 DEF Scheduler!GiveBack, Scheduler!Runs, Runs, Phase
  <2>10. r \in Scheduler!Runs
    BY DEF Scheduler!Runs, Runs
  <2> QED BY <2>9, <2>10 DEF SchedulerStep, Scheduler!Next, Phase
<1> QED BY <1>1, <1>2, <1>3

LEMMA NextRefines ==
    ASSUME IInv, [Next]_vars
    PROVE  SchedulerStep
<1>1. ASSUME NEW r \in Runs, Trigger(r) \/ Operator(r) \/ Watchdog(r) \/ Ask(r) \/ LoseWorktree(r)
      PROVE  SchedulerStep
  <2>1. CASE Watchdog(r) \/ Ask(r)
    BY <2>1, OwnTimers, OwnRefines
  <2>2. CASE LoseWorktree(r)
    BY <2>2, SameRefines DEF LoseWorktree
  <2> QED BY <1>1, <2>1, <2>2, TriggerRefines, OperatorRefines
<1>2. ASSUME NEW r \in Runs, Timer(r) PROVE SchedulerStep
  BY <1>2, OwnTimers, OwnRefines, DeliverRefines, InterruptTimerRefines DEF Timer
<1>3. ASSUME NEW r \in Runs, NEW s \in Slots, TaskStep(r, s) PROVE SchedulerStep
  BY <1>3, OwnTask, RejectRefines, OwnRefines
<1>4. CASE Crash \/ UNCHANGED vars
  BY <1>4, SameRefines DEF Crash, vars
<1> QED BY <1>1, <1>2, <1>3, <1>4, BootRefines DEF Next

(* Whatever tasks, crashes, timers and commands interleave, every step of  *)
(* the engine is one of the scheduler on the phases of its runs, or none.  *)
(* Only an interrupt makes it serve the queue out of turn: the task whose  *)
(* spawn was rejected pumps before it puts its own run back (GiveBack).    *)
THEOREM TheEngineSchedules == Spec => ImplementsScheduler
<1>1. Init => Scheduler!Init
  <2>1. PhaseOf("absent") = "absent"
    BY PhaseIs
  <2> QED BY <2>1 DEF Init, NoRow, Scheduler!Init, Scheduler!Runs, Runs
<1>2. IInv /\ [Next]_vars => [Scheduler!Next]_Phase
  BY NextRefines DEF SchedulerStep
<1>3. IInv /\ [Next]_vars => [Scheduler!Next]_([r \in Runs |-> PhaseOf(db[r].status)])
  BY <1>2 DEF Phase
<1> QED BY <1>1, <1>3, Invariance, PTL DEF Spec, ImplementsScheduler, Scheduler!Spec
=============================================================================
