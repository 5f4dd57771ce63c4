------------------------- MODULE ChainRunner_proof -------------------------
(***************************************************************************)
(* Proofs about ChainRunner, for every budget, every choice of faults and  *)
(* requests, and every number of crashes.                                  *)
(*                                                                         *)
(* A step does one of three things to the runs: it leaves who they are     *)
(* alone (Kept), it adds one, or it records something about one that was   *)
(* added.  There is one continuation at a time, and what it holds on to    *)
(* (TaskFits) is true when it runs: nothing else is served before it.      *)
(***************************************************************************)
EXTENDS ChainRunner, FiniteSetTheorems, SequenceTheorems, TLAPS

Workers  == DOMAIN Edge
Statuses == {"active", "needs_input", "completed", "failed", "cancelled"}
Reasons  == {"none", "status-mismatch", "stopped", "max-depth", "unresolved",
             "already-chained", "enqueue-failed"}
Remarks  == {"auto", "unrecovered", "requested", "skipped", "failed"}
Acts     == [by : {"chain", "daemon", "operator", "discovery"}, worker : Workers,
             depth : Nat, max : Nat]
RunRows  == [worker : Workers, origin : {"chain", "daemon", "operator", "discovery"},
             parent : Nat, depth : Nat, max : Nat, extended : BOOLEAN, status : Statuses,
             safe : BOOLEAN, stop : {"none", "complete", "halt", "operator", "abort"},
             handled : BOOLEAN, halt : Reasons, notes : SUBSET Remarks,
             review : Nat, card : {"none", "pending", "settled"}]
Inserts  == [op : {"insert"}, run : Nat, act : Acts]
Records  == [op : {"record"}, run : Nat, child : Nat]
Tasks    == Inserts \cup Records
            \cup [op : {"request", "advise", "reopen", "mark", "cancel", "close"}, run : Nat]
            \cup [op : {"terminal", "recover", "request", "revisit"}, run : Nat, status : Statuses]

TypeOK ==
    /\ runs \in Seq(RunRows)
    /\ waiting \subseteq Inserts
    /\ boot \in [phase : {"start", "waves", "transitions", "halts", "discovery", "advisories",
                          "done"}, left : SUBSET Nat]
    /\ spent \in [ops : Nat, crashes : Nat]

(* Only the newest step is open, and each step has one successor.          *)
IsNewest(i) == \A j \in Steps : j <= i

RowFits(i) ==
    /\ runs[i].parent \in Ids \cup {0} /\ runs[i].parent < i
    /\ runs[i].stop = "abort" => runs[i].handled
    /\ runs[i].origin \in {"daemon", "discovery"} => runs[i].parent # 0

LineFits ==
    /\ \E i \in Steps : IsNewest(i)
    /\ \A i, j \in Steps : i < j => runs[i].handled
    /\ \A i, j \in Steps : runs[i].parent = runs[j].parent => i = j
    /\ \A i \in Ids : RowFits(i)

(* The review of a finished feature: the plan before it found nothing left *)
(* to do.                                                                  *)
OfPlan(worker, origin, p) ==
    origin = "chain" /\ worker = "review" /\ p # 0 /\ runs[p].worker = "plan"

EndsFeature(i) == OfPlan(runs[i].worker, runs[i].origin, runs[i].parent)

ReviewFits(i) ==
    /\ EndsFeature(i) => Execute /\ runs[runs[i].parent].stop = "complete"
    /\ runs[i].review # 0 =>
          runs[i].review \in Steps /\ runs[runs[i].review].parent = i

ReviewsFit == \A i \in Ids : ReviewFits(i)

Gated ==
    \A i \in Ids :
        runs[i].origin = "chain" /\ runs[i].parent # 0 /\ EndsFeature(runs[i].parent)
        => runs[i].worker = "gate"

(* A final gate that does not resolve is made up for by the next cycle.    *)
GatedHere == "target" \notin Faults => Gated

DeclinesFit ==
    \A i \in Ids : runs[i].origin = "daemon" =>
        runs[runs[i].parent].handled /\ "unrecovered" \notin runs[runs[i].parent].notes

(* What a continuation holds on to *)
InsertFits(i, act) ==
    /\ act.by = "discovery" => Advisories(i) = {}
    /\ act.by # "discovery" =>
          i \in Steps /\ runs[i].handled /\ IsNewest(i) /\ runs[i].stop # "abort"
    /\ act.by = "daemon" =>
          /\ "auto" \notin runs[i].notes /\ "unrecovered" \notin runs[i].notes
          /\ Cardinality(AutoRetried) < AutoBudget
    /\ act.by = "chain" =>
          /\ OfPlan(act.worker, "chain", i) => Execute /\ runs[i].stop = "complete"
          /\ "target" \notin Faults /\ EndsFeature(i) => act.worker = "gate"

RecordFits(i, child) ==
    /\ child \in Steps /\ runs[child].parent = i
    /\ runs[child].origin = "daemon" =>
          "auto" \notin runs[i].notes /\ Cardinality(AutoRetried) < AutoBudget

TaskFits(t) ==
    /\ t.run \in Ids
    /\ t.op \in {"recover", "mark"} => t.run \in Steps
    /\ t.op = "mark" => runs[t.run].handled
    /\ t.op = "insert" => InsertFits(t.run, t.act)
    /\ t.op = "record" => RecordFits(t.run, t.child)

(* There is one continuation, or one and the end of an answered briefing.  *)
OfAnswer(t) == t.op \in {"mark", "cancel"} \/ (t.op = "insert" /\ t.act.by = "operator")

QueueFits ==
    \/ ready = <<>>
    \/ /\ ready # <<>> /\ Head(ready) \in Tasks /\ TaskFits(Head(ready))
       /\ \/ Tail(ready) = <<>>
          \/ /\ OfAnswer(Head(ready))
             /\ \E a \in Ids : Tail(ready) = <<Task("close", a)>>

WaitFits == \A w \in waiting : w.run \in Steps /\ w.act.by = "operator"

BootFits ==
    /\ boot.left \subseteq Ids
    /\ boot.phase = "halts" => boot.left \subseteq Steps
    /\ boot.left # {} => boot.phase \in DOMAIN Sweep

(* A recovery that was inserted and is not recorded yet is within the      *)
(* budget, and a crash may lose the record.                                *)
Daemons == {i \in Ids : runs[i].origin = "daemon"}

Recording ==
    /\ ready # <<>> /\ Head(ready).op = "record"
    /\ runs[Head(ready).child].origin = "daemon"

BudgetFits ==
    /\ Cardinality(AutoRetried) <= AutoBudget
    /\ Cardinality(Daemons)
          <= Cardinality(AutoRetried) + spent.crashes + (IF Recording THEN 1 ELSE 0)

IInv ==
    /\ TypeOK /\ LineFits /\ ReviewsFit /\ GatedHere /\ DeclinesFit /\ OneAdvisory
    /\ QueueFits /\ WaitFits /\ BootFits /\ BudgetFits

-----------------------------------------------------------------------------
(* Steps that leave alone who the runs are *)

RowHolds(r, x) ==
    /\ x.worker = r.worker /\ x.origin = r.origin /\ x.parent = r.parent
    /\ r.handled => x.handled
    /\ r.stop # "none" => x.stop = r.stop
    /\ x.stop = "abort" => r.stop = "abort" \/ r.handled
    /\ "unrecovered" \in x.notes => "unrecovered" \in r.notes \/ ~r.handled

Holds ==
    /\ runs' \in Seq(RunRows)
    /\ Ids' = Ids
    /\ \A i \in Ids : RowHolds(runs[i], runs'[i])

(* Nor is anything recorded about what was added.                          *)
RowKept(r, x) ==
    /\ RowHolds(r, x)
    /\ x.review = r.review
    /\ ("auto" \in x.notes) = ("auto" \in r.notes)

Kept ==
    /\ runs' \in Seq(RunRows)
    /\ Ids' = Ids
    /\ \A i \in Ids : RowKept(runs[i], runs'[i])

LEMMA RunsAre ==
    ASSUME TypeOK
    PROVE  /\ Len(runs) \in Nat /\ DOMAIN runs = Ids /\ Ids \subseteq Nat \ {0}
           /\ \A i \in Ids : runs[i] \in RunRows
<1>1. runs \in Seq(RunRows)
  BY DEF TypeOK
<1>2. Len(runs) \in Nat /\ DOMAIN runs = 1..Len(runs)
  BY <1>1, LenProperties
<1>3. \A i \in 1..Len(runs) : runs[i] \in RunRows
  BY <1>1, ElementOfSeq
<1> QED BY <1>2, <1>3 DEF Ids

LEMMA SameIsKept ==
    ASSUME TypeOK, runs' = runs
    PROVE  Kept
BY DEF Kept, RowKept, RowHolds, TypeOK, Ids

LEMMA KeptHolds ==
    ASSUME Kept
    PROVE  Holds
BY DEF Kept, Holds, RowKept

LEMMA HoldsSteps ==
    ASSUME TypeOK, Holds
    PROVE  Steps' = Steps
BY DEF Holds, RowHolds, Steps

LEMMA KeptSets ==
    ASSUME TypeOK, Kept
    PROVE  /\ Steps' = Steps /\ Daemons' = Daemons /\ AutoRetried' = AutoRetried
           /\ \A i \in Ids : (Advisories(i))' = Advisories(i)
BY DEF Kept, RowKept, RowHolds, Steps, Daemons, AutoRetried, Advisories

LEMMA LineFitsKept ==
    ASSUME TypeOK, LineFits, Holds
    PROVE  LineFits'
<1>1. Steps' = Steps /\ Steps \subseteq Ids
  BY HoldsSteps DEF Steps
<1>2. (\E i \in Steps : IsNewest(i))'
  BY <1>1 DEF LineFits, IsNewest
<1>3. \A i, j \in Steps : i < j => runs'[i].handled
  BY <1>1 DEF LineFits, Holds, RowHolds
<1>4. \A i, j \in Steps : runs'[i].parent = runs'[j].parent => i = j
  BY <1>1 DEF LineFits, Holds, RowHolds
<1>5. ASSUME NEW i \in Ids PROVE RowFits(i)'
  BY <1>5 DEF LineFits, Holds, RowHolds, RowFits
<1> QED BY <1>1, <1>2, <1>3, <1>4, <1>5 DEF LineFits, Holds

LEMMA EndsFeatureKept ==
    ASSUME TypeOK, LineFits, Holds
    PROVE  \A i \in Ids : (EndsFeature(i)' = EndsFeature(i))
<1> SUFFICES ASSUME NEW i \in Ids PROVE (EndsFeature(i)' = EndsFeature(i))
  OBVIOUS
<1>1. runs[i].parent \in Ids \cup {0}
  BY DEF LineFits, RowFits
<1>2. RowHolds(runs[i], runs'[i])
  BY DEF Holds
<1>3. CASE runs[i].parent \in Ids
  <2>1. RowHolds(runs[runs[i].parent], runs'[runs[i].parent])
    BY <1>3 DEF Holds
  <2> QED BY <1>2, <2>1 DEF RowHolds, EndsFeature, OfPlan
<1>4. CASE runs[i].parent = 0
  BY <1>2, <1>4 DEF RowHolds, EndsFeature, OfPlan
<1> QED BY <1>1, <1>3, <1>4

LEMMA ReviewsFitKept ==
    ASSUME TypeOK, LineFits, ReviewsFit, Kept
    PROVE  ReviewsFit'
<1> SUFFICES ASSUME NEW i \in Ids PROVE ReviewFits(i)'
  BY DEF Kept, ReviewsFit
<1>1. ReviewFits(i) /\ RowFits(i) /\ RowKept(runs[i], runs'[i])
  BY DEF ReviewsFit, LineFits, Kept
<1>2. EndsFeature(i)' => Execute /\ runs'[runs'[i].parent].stop = "complete"
  <2> SUFFICES ASSUME EndsFeature(i) PROVE Execute /\ runs'[runs'[i].parent].stop = "complete"
    BY EndsFeatureKept, KeptHolds
  <2>1. runs[i].parent \in Ids /\ Execute /\ runs[runs[i].parent].stop = "complete"
    BY <1>1 DEF RowFits, ReviewFits, EndsFeature, OfPlan
  <2>2. RowKept(runs[runs[i].parent], runs'[runs[i].parent])
    BY <2>1 DEF Kept
  <2> QED BY <1>1, <2>1, <2>2 DEF RowKept, RowHolds
<1>3. runs'[i].review # 0 => runs'[i].review \in Steps' /\ runs'[runs'[i].review].parent = i
  <2> SUFFICES ASSUME runs[i].review # 0
               PROVE  runs[i].review \in Steps' /\ runs'[runs[i].review].parent = i
    BY <1>1 DEF RowKept, RowHolds
  <2>1. runs[i].review \in Steps /\ runs[runs[i].review].parent = i
    BY <1>1 DEF ReviewFits
  <2> QED BY <2>1, KeptSets DEF Kept, RowKept, RowHolds, Steps
<1> QED BY <1>2, <1>3 DEF ReviewFits

LEMMA GatedKept ==
    ASSUME TypeOK, LineFits, GatedHere, Holds
    PROVE  GatedHere'
<1> SUFFICES ASSUME Gated, NEW i \in Ids,
                    (/\ runs[i].origin = "chain" /\ runs[i].parent # 0
                     /\ EndsFeature(runs[i].parent))'
             PROVE  runs'[i].worker = "gate"
  BY DEF GatedHere, Gated, Holds
<1>1. RowHolds(runs[i], runs'[i]) /\ RowFits(i)
  BY DEF Holds, LineFits
<1>2. PICK p \in Ids : p = runs[i].parent
  BY <1>1 DEF RowFits, RowHolds
<1>3. EndsFeature(p)'
  <2>1. p = (runs[i].parent)'
    BY <1>1, <1>2 DEF RowHolds
  <2> QED BY <2>1
<1>4. EndsFeature(p)
  BY <1>3, EndsFeatureKept
<1> QED BY <1>1, <1>2, <1>4 DEF Gated, RowHolds

LEMMA DeclinesFitKept ==
    ASSUME TypeOK, LineFits, DeclinesFit, Holds
    PROVE  DeclinesFit'
<1> SUFFICES ASSUME NEW i \in Ids, runs'[i].origin = "daemon"
             PROVE  /\ runs'[runs'[i].parent].handled
                    /\ "unrecovered" \notin runs'[runs'[i].parent].notes
  BY DEF DeclinesFit, Holds
<1>1. RowHolds(runs[i], runs'[i]) /\ RowFits(i)
  BY DEF Holds, LineFits
<1>2. runs[i].parent \in Ids
  BY <1>1 DEF RowFits, RowHolds
<1>3. RowHolds(runs[runs[i].parent], runs'[runs[i].parent])
  BY <1>2 DEF Holds
<1> QED BY <1>1, <1>3 DEF DeclinesFit, RowHolds

LEMMA OneAdvisoryKept ==
    ASSUME OneAdvisory, Holds
    PROVE  OneAdvisory'
BY DEF OneAdvisory, Holds, RowHolds

LEMMA Finite ==
    ASSUME TypeOK
    PROVE  /\ IsFiniteSet(AutoRetried) /\ IsFiniteSet(Daemons)
           /\ Cardinality(AutoRetried) \in Nat /\ Cardinality(Daemons) \in Nat
<1>1. IsFiniteSet(Ids)
  BY RunsAre, FS_Interval DEF Ids
<1>2. AutoRetried \subseteq Ids /\ Daemons \subseteq Ids
  BY DEF AutoRetried, Daemons
<1>3. IsFiniteSet(AutoRetried) /\ IsFiniteSet(Daemons)
  BY <1>1, <1>2, FS_Subset
<1> QED BY <1>3, FS_CardinalityType

LEMMA BudgetKept ==
    ASSUME TypeOK, BudgetFits, Kept, ~Recording, spent'.crashes \in Nat,
           spent'.crashes >= spent.crashes
    PROVE  BudgetFits'
<1>1. AutoRetried' = AutoRetried /\ Daemons' = Daemons
  BY KeptSets
<1>2. Cardinality(AutoRetried') = Cardinality(AutoRetried)
      /\ Cardinality(Daemons') = Cardinality(Daemons)
  BY <1>1
<1>3. Cardinality(AutoRetried) \in Nat /\ Cardinality(Daemons) \in Nat /\ spent.crashes \in Nat
  BY Finite DEF TypeOK
<1>4. Cardinality(Daemons) <= Cardinality(AutoRetried) + spent.crashes
  BY <1>3 DEF BudgetFits
<1>5. Cardinality(Daemons) <= Cardinality(AutoRetried) + spent'.crashes
  BY <1>3, <1>4
<1>6. Cardinality(Daemons) <= Cardinality(AutoRetried) + spent'.crashes
                               + (IF Recording' THEN 1 ELSE 0)
  BY <1>3, <1>5
<1> QED BY <1>2, <1>6 DEF BudgetFits

(* What the runs say is kept; the rest is for each action to show.         *)
LEMMA KeptKeeps ==
    ASSUME IInv, Kept, ~Recording, QueueFits', waiting' \subseteq Inserts, WaitFits',
           boot' \in [phase : {"start", "waves", "transitions", "halts", "discovery",
                               "advisories", "done"}, left : SUBSET Nat],
           BootFits', spent' \in [ops : Nat, crashes : Nat], spent'.crashes >= spent.crashes
    PROVE  IInv'
<1>1. TypeOK'
  BY DEF TypeOK, Kept
<1>2. LineFits' /\ ReviewsFit' /\ GatedHere' /\ DeclinesFit' /\ OneAdvisory'
  BY KeptHolds, LineFitsKept, ReviewsFitKept, GatedKept, DeclinesFitKept, OneAdvisoryKept DEF IInv
<1>3. BudgetFits'
  BY BudgetKept DEF IInv
<1> QED BY <1>1, <1>2, <1>3 DEF IInv

LEMMA WaitKept ==
    ASSUME TypeOK, Kept, WaitFits, UNCHANGED waiting
    PROVE  WaitFits' /\ waiting' \subseteq Inserts
BY KeptSets DEF WaitFits, TypeOK

LEMMA BootKept ==
    ASSUME TypeOK, Kept, BootFits, UNCHANGED boot
    PROVE  /\ BootFits'
           /\ boot' \in [phase : {"start", "waves", "transitions", "halts", "discovery",
                                  "advisories", "done"}, left : SUBSET Nat]
BY KeptSets DEF BootFits, TypeOK, Kept

LEMMA QuietKeeps ==
    ASSUME IInv, Kept, ~Recording, QueueFits', Quiet
    PROVE  IInv'
<1>1. spent' \in [ops : Nat, crashes : Nat] /\ spent'.crashes >= spent.crashes
  BY DEF Quiet, IInv, TypeOK
<1> QED BY <1>1, KeptKeeps, WaitKept, BootKept DEF IInv, Quiet

-----------------------------------------------------------------------------
(* The queue of continuations *)

LEMMA Pairs ==
    ASSUME NEW t, NEW u
    PROVE  /\ Head(<<t>>) = t /\ Tail(<<t>>) = <<>> /\ <<t>> # <<>>
           /\ Head(<<t, u>>) = t /\ Tail(<<t, u>>) = <<u>> /\ <<t, u>> # <<>>
           /\ <<t>> \o <<>> = <<t>> /\ <<>> \o <<t>> = <<t>> /\ <<t>> \o <<u>> = <<t, u>>
<1> DEFINE S == {t, u}
<1>1. <<t>> \in Seq(S) /\ <<u>> \in Seq(S) /\ <<>> \in Seq(S) /\ <<t, u>> \in Seq(S)
  OBVIOUS
<1>2. <<t>> \o <<>> = <<t>> /\ <<>> \o <<t>> = <<t>>
  BY <1>1, ConcatEmptySeq
<1> DEFINE c == <<t>> \o <<u>>
<1>3. /\ c \in Seq(S) /\ Len(c) = Len(<<t>>) + Len(<<u>>)
      /\ \A i \in 1..Len(<<t>>) + Len(<<u>>) : c[i] = IF i <= Len(<<t>>) THEN <<t>>[i]
                                                      ELSE <<u>>[i - Len(<<t>>)]
  BY <1>1, ConcatProperties
<1>4. Len(<<t>>) = 1 /\ Len(<<u>>) = 1 /\ <<t>>[1] = t /\ <<u>>[1] = u
      /\ Len(<<t, u>>) = 2 /\ <<t, u>>[1] = t /\ <<t, u>>[2] = u
  OBVIOUS
<1> HIDE DEF c
<1>5. Len(c) = 2 /\ c[1] = t /\ c[2] = u
  BY <1>3, <1>4
<1>6. c = <<t, u>>
  <2>1. \A i \in 1..Len(c) : c[i] = <<t, u>>[i]
    BY <1>4, <1>5
  <2> QED BY <1>1, <1>3, <1>4, <1>5, <2>1, SeqEqual
<1>7. /\ Head(<<t>>) = t /\ Tail(<<t>>) = <<>> /\ <<t>> # <<>>
      /\ Head(<<t, u>>) = t /\ Tail(<<t, u>>) = <<u>> /\ <<t, u>> # <<>>
  OBVIOUS
<1> QED BY <1>2, <1>6, <1>7 DEF c

LEMMA CloseFits ==
    ASSUME NEW a \in Nat, (a \in Ids)
    PROVE  Task("close", a) \in Tasks /\ TaskFits(Task("close", a))
BY DEF Task, Tasks, TaskFits

LEMMA DropFits ==
    ASSUME TypeOK, QueueFits, ready # <<>>, Drop, Ids \subseteq Ids'
    PROVE  QueueFits'
<1>1. CASE Tail(ready) = <<>>
  BY <1>1 DEF Drop, QueueFits
<1>2. CASE Tail(ready) # <<>>
  <2>1. PICK a \in Ids : ready' = <<Task("close", a)>>
    BY <1>2 DEF QueueFits, Drop
  <2> DEFINE t == Task("close", a)
  <2>2. ready' = <<t>> /\ t \in Tasks /\ t.op = "close" /\ t.run = a
    BY <2>1, RunsAre DEF Task, Tasks
  <2> HIDE DEF t
  <2>3. ready' # <<>> /\ Head(ready') = t /\ Tail(ready') = <<>>
    BY <2>2, Pairs
  <2>4. TaskFits(t)'
    BY <2>2 DEF TaskFits
  <2>5. TaskFits(Head(ready))'
    BY <2>3, <2>4
  <2> QED BY <2>2, <2>3, <2>5 DEF QueueFits
<1> QED BY <1>1, <1>2

LEMMA StartFits ==
    ASSUME NEW t \in Tasks, ready' = <<t>>, TaskFits(t)'
    PROVE  QueueFits'
<1>1. ready' # <<>> /\ Head(ready') = t /\ Tail(ready') = <<>>
  BY Pairs
<1>2. TaskFits(Head(ready))'
  BY <1>1
<1> QED BY <1>1, <1>2 DEF QueueFits

LEMMA StartWithClose ==
    ASSUME NEW t \in Tasks, NEW a \in Nat, ready' = <<t, Task("close", a)>>, OfAnswer(t),
           TaskFits(t)', (a \in Ids)'
    PROVE  QueueFits'
<1>1. ready' # <<>> /\ Head(ready') = t /\ Tail(ready') = <<Task("close", a)>>
  BY Pairs
<1>2. TaskFits(Head(ready))' /\ OfAnswer(Head(ready))'
  BY <1>1
<1>3. (\E b \in Ids : Tail(ready) = <<Task("close", b)>>)'
  BY <1>1
<1> QED BY <1>1, <1>2, <1>3 DEF QueueFits

(* Of a continuation that is not an answer's: nothing is behind it.        *)
LEMMA FrontFits ==
    ASSUME QueueFits, ready # <<>>, ~OfAnswer(Head(ready)), NEW t \in Tasks,
           Front(<<t>>) \/ Back(<<t>>), TaskFits(t)'
    PROVE  QueueFits' /\ ready' = <<t>>
<1>1. Tail(ready) = <<>>
  BY DEF QueueFits
<1>2. ready' = <<t>>
  BY <1>1, Pairs DEF Front, Back
<1> QED BY <1>2, StartFits

LEMMA AnswerFits ==
    ASSUME TypeOK, QueueFits, ready # <<>>, NEW t \in Tasks, OfAnswer(t),
           Front(<<t>>), TaskFits(t)', Ids \subseteq Ids'
    PROVE  QueueFits'
<1>1. CASE Tail(ready) = <<>>
  <2>1. ready' = <<t>>
    BY <1>1, Pairs DEF Front
  <2> QED BY <2>1, StartFits
<1>2. CASE Tail(ready) # <<>>
  <2>1. PICK a \in Ids : Tail(ready) = <<Task("close", a)>>
    BY <1>2 DEF QueueFits
  <2>2. a \in Nat /\ (a \in Ids)'
    BY RunsAre
  <2>3. <<t>> \o <<Task("close", a)>> = <<t, Task("close", a)>>
    BY Pairs
  <2>4. ready' = <<t, Task("close", a)>>
    BY <2>1, <2>3 DEF Front
  <2> QED BY <2>2, <2>4, StartWithClose
<1> QED BY <1>1, <1>2

-----------------------------------------------------------------------------
(* Steps that change one row *)

LEMMA OneRow ==
    ASSUME TypeOK, NEW i \in Ids, NEW x \in RunRows, RowKept(runs[i], x),
           runs' = [runs EXCEPT ![i] = x]
    PROVE  /\ Kept /\ runs'[i] = x
           /\ \A j \in Ids : j # i => runs'[j] = runs[j]
<1>1. runs \in Seq(RunRows) /\ i \in 1..Len(runs)
  BY DEF TypeOK, Ids
<1>2. /\ runs' \in Seq(RunRows) /\ Len(runs') = Len(runs)
      /\ \A j \in 1..Len(runs) : runs'[j] = IF j = i THEN x ELSE runs[j]
  BY <1>1, ExceptSeq
<1>3. Ids' = Ids
  BY <1>2 DEF Ids
<1>4. ASSUME NEW j \in Ids PROVE RowKept(runs[j], runs'[j])
  <2>1. CASE j = i
    BY <1>2, <2>1 DEF Ids
  <2>2. CASE j # i
    <3>1. runs'[j] = runs[j]
      BY <1>2, <2>2 DEF Ids
    <3> QED BY <3>1 DEF RowKept, RowHolds
  <2> QED BY <2>1, <2>2
<1> QED BY <1>2, <1>3, <1>4 DEF Kept, Ids

LEMMA HaltIs ==
    ASSUME TypeOK, NEW i \in Ids, NEW h \in Reasons, runs' = Set(i, "halt", h)
    PROVE  Kept
<1> DEFINE x == [runs[i] EXCEPT !.halt = h]
<1>1. runs[i] \in RunRows
  BY RunsAre
<1>2. x \in RunRows /\ RowKept(runs[i], x)
  BY <1>1 DEF RunRows, RowKept, RowHolds
<1>3. runs' = [runs EXCEPT ![i] = x]
  BY DEF Set
<1> QED BY <1>2, <1>3, OneRow

LEMMA CardIs ==
    ASSUME TypeOK, NEW i \in Ids, NEW c \in {"none", "pending", "settled"},
           runs' = Set(i, "card", c)
    PROVE  Kept
<1> DEFINE x == [runs[i] EXCEPT !.card = c]
<1>1. runs[i] \in RunRows
  BY RunsAre
<1>2. x \in RunRows /\ RowKept(runs[i], x)
  BY <1>1 DEF RunRows, RowKept, RowHolds
<1>3. runs' = [runs EXCEPT ![i] = x]
  BY DEF Set
<1> QED BY <1>2, <1>3, OneRow

LEMMA StatusIs ==
    ASSUME TypeOK, NEW i \in Ids, NEW status \in Statuses, runs' = Set(i, "status", status)
    PROVE  Kept
<1> DEFINE x == [runs[i] EXCEPT !.status = status]
<1>1. runs[i] \in RunRows
  BY RunsAre
<1>2. x \in RunRows /\ RowKept(runs[i], x)
  BY <1>1 DEF RunRows, RowKept, RowHolds
<1>3. runs' = [runs EXCEPT ![i] = x]
  BY DEF Set
<1> QED BY <1>2, <1>3, OneRow

LEMMA StopIs ==
    ASSUME TypeOK, NEW i \in Ids, NEW kind \in {"complete", "halt", "operator", "abort"},
           runs[i].stop = "none", kind = "abort" => runs[i].handled,
           runs' = Set(i, "stop", kind)
    PROVE  Kept
<1> DEFINE x == [runs[i] EXCEPT !.stop = kind]
<1>1. runs[i] \in RunRows
  BY RunsAre
<1>2. x \in RunRows
  BY <1>1 DEF RunRows
<1>3. x.stop = kind /\ x.worker = runs[i].worker /\ x.origin = runs[i].origin
      /\ x.parent = runs[i].parent /\ x.review = runs[i].review
      /\ (x.handled = runs[i].handled) /\ x.notes = runs[i].notes
  BY <1>1 DEF RunRows
<1>4. RowKept(runs[i], x)
  BY <1>3 DEF RowKept, RowHolds
<1>5. runs' = [runs EXCEPT ![i] = x]
  BY DEF Set
<1> QED BY <1>2, <1>4, <1>5, OneRow

LEMMA NoteIs ==
    ASSUME TypeOK, NEW i \in Ids, NEW what \in Remarks \ {"auto"},
           what = "unrecovered" => ~runs[i].handled, runs' = Note(runs, i, what)
    PROVE  Kept
<1> DEFINE x == [runs[i] EXCEPT !.notes = @ \cup {what}]
<1>1. runs[i] \in RunRows
  BY RunsAre
<1>2. x \in RunRows
  BY <1>1 DEF RunRows, Remarks
<1>3. x.stop = runs[i].stop /\ x.worker = runs[i].worker /\ x.origin = runs[i].origin
      /\ x.parent = runs[i].parent /\ x.review = runs[i].review
      /\ (x.handled = runs[i].handled) /\ x.notes = runs[i].notes \cup {what}
  BY <1>1 DEF RunRows
<1>4. RowKept(runs[i], x)
  BY <1>3 DEF RowKept, RowHolds, Remarks
<1>5. runs' = [runs EXCEPT ![i] = x]
  BY DEF Note
<1> QED BY <1>2, <1>4, <1>5, OneRow

(* The claim, alone or with the evidence of a halt                         *)
Claims(i) ==
    /\ Kept
    /\ runs'[i].handled /\ runs'[i].stop = runs[i].stop /\ runs'[i].notes = runs[i].notes

LEMMA ClaimIs ==
    ASSUME TypeOK, NEW i \in Ids, NEW h \in Reasons,
           \/ runs' = Claimed(i)
           \/ runs' = [runs EXCEPT ![i].handled = TRUE]
           \/ runs' = [Set(i, "halt", h) EXCEPT ![i].handled = TRUE]
    PROVE  Claims(i)
<1> DEFINE x == [runs[i] EXCEPT !.handled = TRUE]
           y == [runs[i] EXCEPT !.halt = h, !.handled = TRUE]
<1>1. runs[i] \in RunRows
  BY RunsAre
<1>2. x \in RunRows /\ y \in RunRows
  BY <1>1 DEF RunRows
<1>3. ASSUME NEW z \in {x, y} PROVE RowKept(runs[i], z)
  BY <1>1, <1>3 DEF RunRows, RowKept, RowHolds
<1>4. ASSUME NEW z \in {x, y}
      PROVE  z.handled /\ z.stop = runs[i].stop /\ z.notes = runs[i].notes
  BY <1>1, <1>4 DEF RunRows
<1>5. runs' = [runs EXCEPT ![i] = x] \/ runs' = [runs EXCEPT ![i] = y]
  BY DEF Claimed, Set
<1> HIDE DEF x, y
<1>6. PICK z \in {x, y} : runs' = [runs EXCEPT ![i] = z]
  BY <1>5
<1>7. z \in RunRows /\ RowKept(runs[i], z)
  BY <1>2, <1>3
<1>8. Kept /\ runs'[i] = z
  BY <1>6, <1>7, OneRow
<1> QED BY <1>4, <1>8 DEF Claims

(* A decision that is made is there when it is carried out.                *)
LEMMA InsertOk ==
    ASSUME IInv, NEW i \in Steps, ~runs[i].handled, Claims(i),
           NEW act \in Acts, act.by # "discovery",
           act.by = "daemon" =>
               /\ "auto" \notin runs[i].notes /\ "unrecovered" \notin runs[i].notes
               /\ Cardinality(AutoRetried) < AutoBudget,
           act.by = "chain" =>
               /\ OfPlan(act.worker, "chain", i) => Execute /\ runs[i].stop = "complete"
               /\ "target" \notin Faults /\ EndsFeature(i) => act.worker = "gate"
    PROVE  InsertFits(i, act)'
<1>1. TypeOK /\ LineFits /\ Kept /\ i \in Ids
  BY DEF IInv, Claims, Steps
<1>2. Steps' = Steps /\ AutoRetried' = AutoRetried
  BY <1>1, KeptSets
<1>3. RowKept(runs[i], runs'[i])
  BY <1>1 DEF Kept
<1>4. IsNewest(i)
  <2> SUFFICES ASSUME NEW j \in Steps, ~(j <= i) PROVE FALSE
    BY DEF IsNewest
  <2>1. i < j
    BY <1>1, RunsAre DEF Steps
  <2> QED BY <1>1, <2>1 DEF LineFits
<1>5. IsNewest(i)' /\ (i \in Steps)'
  BY <1>2, <1>4 DEF IsNewest
<1>6. runs'[i].stop # "abort"
  BY <1>1 DEF LineFits, RowFits, Claims
<1>7. Cardinality(AutoRetried') = Cardinality(AutoRetried)
  BY <1>2
<1>8. OfPlan(act.worker, "chain", i)' => OfPlan(act.worker, "chain", i)
  BY <1>3 DEF OfPlan, RowKept, RowHolds
<1>9. EndsFeature(i)' => EndsFeature(i)
  BY <1>1, EndsFeatureKept, KeptHolds
<1> QED BY <1>5, <1>6, <1>7, <1>8, <1>9 DEF InsertFits, Claims

LEMMA InsertIs ==
    ASSUME NEW i \in Nat, NEW act \in Acts
    PROVE  /\ Insert(i, act) \in Tasks /\ Insert(i, act) \in Inserts
           /\ Insert(i, act).op = "insert" /\ Insert(i, act).run = i
           /\ Insert(i, act).act = act
BY DEF Insert, Inserts, Tasks

LEMMA TaskIs ==
    ASSUME NEW i \in Nat, NEW op \in {"request", "advise", "reopen", "mark", "cancel", "close"}
    PROVE  Task(op, i) \in Tasks /\ Task(op, i).op = op /\ Task(op, i).run = i
BY DEF Task, Tasks

-----------------------------------------------------------------------------
(* The continuations *)

LEMMA HeadIs ==
    ASSUME IInv, NEW op, At(op)
    PROVE  /\ ready # <<>> /\ Head(ready) \in Tasks /\ Head(ready).op = op
           /\ TaskFits(Head(ready)) /\ Head(ready).run \in Ids
           /\ op \notin {"mark", "cancel", "insert"} => ~OfAnswer(Head(ready))
           /\ op # "record" => ~Recording
BY DEF IInv, At, QueueFits, TaskFits, OfAnswer, Recording

LEMMA RowsAlike ==
    ASSUME TypeOK, NEW i \in Ids, NEW rs,
           rs = runs \/ rs = Set(i, "halt", "status-mismatch")
    PROVE  /\ rs[i] \in RunRows
           /\ rs[i].worker = runs[i].worker /\ (rs[i].handled = runs[i].handled)
           /\ rs[i].notes = runs[i].notes
<1> DEFINE x == [runs[i] EXCEPT !.halt = "status-mismatch"]
<1>1. runs[i] \in RunRows /\ i \in DOMAIN runs
  BY RunsAre
<1>2. x \in RunRows /\ x.worker = runs[i].worker /\ (x.handled = runs[i].handled)
      /\ x.notes = runs[i].notes
  BY <1>1 DEF RunRows, Reasons
<1>3. rs = runs \/ rs = [runs EXCEPT ![i] = x]
  BY DEF Set
<1> HIDE DEF x
<1>4. rs[i] = runs[i] \/ rs[i] = x
  BY <1>1, <1>3
<1> QED BY <1>1, <1>2, <1>4

LEMMA DeclineIs ==
    ASSUME TypeOK, NEW i \in Ids, NEW rs, ~runs[i].handled,
           rs = runs \/ rs = Set(i, "halt", "status-mismatch"),
           runs' = Note(rs, i, "unrecovered")
    PROVE  Kept
<1> DEFINE y == [runs[i] EXCEPT !.halt = "status-mismatch", !.notes = @ \cup {"unrecovered"}]
<1>1. CASE rs = runs
  BY <1>1, NoteIs DEF Remarks
<1>2. CASE rs = Set(i, "halt", "status-mismatch")
  <2>1. runs[i] \in RunRows /\ i \in DOMAIN runs
    BY RunsAre
  <2>2. y \in RunRows
    BY <2>1 DEF RunRows, Reasons, Remarks
  <2>3. y.stop = runs[i].stop /\ y.worker = runs[i].worker /\ y.origin = runs[i].origin
        /\ y.parent = runs[i].parent /\ y.review = runs[i].review
        /\ (y.handled = runs[i].handled) /\ y.notes = runs[i].notes \cup {"unrecovered"}
    BY <2>1 DEF RunRows
  <2>4. RowKept(runs[i], y)
    BY <2>3 DEF RowKept, RowHolds
  <2>5. runs' = [runs EXCEPT ![i] = y]
    BY <1>2, <2>1 DEF Set, Note
  <2> QED BY <2>2, <2>4, <2>5, OneRow
<1> QED BY <1>1, <1>2

LEMMA RemedyIs ==
    ASSUME TypeOK, NEW i \in Ids, NEW rs, rs[i] \in RunRows, Remedy(rs, i) # "none"
    PROVE  /\ Cardinality(AutoRetried) < AutoBudget
           /\ Remedy(rs, i) = "retry" \/ (Remedy(rs, i) = "skip" /\ rs[i].worker = "docs")
<1> DEFINE D == {j \in AutoRetried : rs[j].depth = rs[i].depth}
           rung == 1 + Cardinality(D)
           worker == rs[i].worker
<1>1. D \subseteq AutoRetried /\ IsFiniteSet(AutoRetried)
  BY Finite
<1>2. Cardinality(D) \in Nat
  BY <1>1, FS_Subset, FS_CardinalityType
<1> HIDE DEF D
<1>3. rung \in Nat /\ rung >= 1
  BY <1>2
<1>4. /\ Cardinality(AutoRetried) < AutoBudget
      /\ rung <= Len(Ladder(worker))
      /\ \/ Ladder(worker)[rung] = "retry" /\ Remedy(rs, i) = "retry"
         \/ Ladder(worker)[rung] = "skip" /\ Remedy(rs, i) = "skip"
  BY DEF Remedy, D
<1> HIDE DEF rung
<1>5. Ladder(worker) \in {<<"retry">>, <<"skip">>, <<>>}
      /\ (Ladder(worker) = <<"skip">> => worker = "docs")
  BY DEF Ladder
<1>6. Ladder(worker) # <<>>
  BY <1>3, <1>4
<1>7. CASE Ladder(worker) = <<"retry">>
  <2>1. rung = 1
    BY <1>3, <1>4, <1>7
  <2>2. Ladder(worker)[rung] = "retry"
    BY <1>7, <2>1
  <2> QED BY <1>4, <2>2
<1>8. CASE Ladder(worker) = <<"skip">>
  <2>1. rung = 1
    BY <1>3, <1>4, <1>8
  <2>2. Ladder(worker)[rung] = "skip"
    BY <1>8, <2>1
  <2> QED BY <1>4, <1>5, <1>8, <2>2
<1> QED BY <1>5, <1>6, <1>7, <1>8

LEMMA OfTheDaemon ==
    ASSUME NEW r \in RunRows, NEW by \in {"daemon", "operator"}
    PROVE  /\ RetryOf(r, by) \in Acts /\ RetryOf(r, by).by = by
           /\ Edge[r.worker] # "none" => SkipOf(r, by) \in Acts
           /\ SkipOf(r, by).by = by
<1>1. r.worker \in Workers /\ r.depth \in Nat /\ r.max \in Nat
  BY DEF RunRows
<1>2. Edge[r.worker] # "none" => Edge[r.worker] \in Workers
  BY <1>1 DEF Edge, Workers
<1> QED BY <1>1, <1>2 DEF RetryOf, SkipOf, Act, Acts

LEMMA RecoverKeeps ==
    ASSUME IInv, ready # <<>>, ~OfAnswer(Head(ready)), NEW i \in Steps, NEW rs,
           rs = runs \/ rs = Set(i, "halt", "status-mismatch"), Recover(rs, i)
    PROVE  Kept /\ QueueFits'
<1>1. TypeOK /\ QueueFits /\ i \in Ids /\ i \in Nat
  BY RunsAre DEF IInv, Steps
<1>2. /\ rs[i] \in RunRows /\ rs[i].worker = runs[i].worker
      /\ (rs[i].handled = runs[i].handled) /\ rs[i].notes = runs[i].notes
  BY <1>1, RowsAlike
<1>3. CASE ~Open(rs[i])
  <2>1. runs' = rs /\ Drop
    BY <1>3 DEF Recover
  <2>2. Kept
    BY <1>1, <2>1, SameIsKept, HaltIs DEF Reasons
  <2> QED BY <1>1, <2>1, <2>2, DropFits DEF Kept
<1>4. CASE Open(rs[i]) /\ Remedy(rs, i) # "none"
  <2>1. PICK act \in Acts :
          /\ act.by = "daemon"
          /\ runs' = [rs EXCEPT ![i].handled = TRUE] /\ Front(<<Insert(i, act)>>)
    <3>1. RetryOf(rs[i], "daemon") \in Acts /\ RetryOf(rs[i], "daemon").by = "daemon"
          /\ (Edge[rs[i].worker] # "none" => SkipOf(rs[i], "daemon") \in Acts)
          /\ SkipOf(rs[i], "daemon").by = "daemon"
      BY <1>2, OfTheDaemon
    <3>2. Remedy(rs, i) = "retry" \/ (Remedy(rs, i) = "skip" /\ Edge[rs[i].worker] # "none")
      BY <1>1, <1>2, <1>4, RemedyIs DEF Edge
    <3> QED BY <1>4, <3>1, <3>2 DEF Recover
  <2>2. ~runs[i].handled /\ "auto" \notin runs[i].notes /\ "unrecovered" \notin runs[i].notes
    BY <1>2, <1>4 DEF Open
  <2>3. Claims(i)
    BY <1>1, <2>1, ClaimIs DEF Reasons
  <2>4. Cardinality(AutoRetried) < AutoBudget
    BY <1>1, <1>2, <1>4, RemedyIs
  <2>5. InsertFits(i, act)'
    BY <2>1, <2>2, <2>3, <2>4, InsertOk
  <2>6. PICK t \in Tasks : t = Insert(i, act) /\ t.op = "insert" /\ t.run = i /\ t.act = act
    BY <1>1, InsertIs
  <2>7. TaskFits(t)'
    BY <1>1, <2>3, <2>5, <2>6 DEF TaskFits, Claims, Kept
  <2> QED BY <1>1, <2>1, <2>3, <2>6, <2>7, FrontFits DEF Claims
<1>5. CASE Open(rs[i]) /\ Remedy(rs, i) = "none"
  <2>1. runs' = Note(rs, i, "unrecovered") /\ Back(<<Task("request", i)>>)
    BY <1>5 DEF Recover
  <2>2. Kept
    BY <1>1, <1>2, <1>5, <2>1, DeclineIs DEF Open
  <2>3. PICK t \in Tasks : t = Task("request", i) /\ t.op = "request" /\ t.run = i
    BY <1>1, TaskIs
  <2>4. TaskFits(t)'
    BY <1>1, <2>2, <2>3 DEF TaskFits, Kept
  <2> QED BY <1>1, <2>1, <2>2, <2>3, <2>4, FrontFits
<1> QED BY <1>3, <1>4, <1>5

(* The review that ends a feature is known as such, with or without the    *)
(* event that says so.                                                     *)
LEMMA ReviewIsKnown ==
    ASSUME IInv, NEW i \in Steps, EndsFeature(i)
    PROVE  FeatureReview(i) /\ runs[i].worker = "review"
<1>1. TypeOK /\ i \in Ids /\ RowFits(i) /\ ReviewFits(i)
  BY DEF IInv, LineFits, ReviewsFit, Steps
<1> DEFINE p == runs[i].parent
<1>2. /\ p \in Ids /\ runs[p].worker = "plan" /\ runs[p].stop = "complete" /\ Execute
      /\ runs[i].worker = "review" /\ p # 0
  BY <1>1 DEF RowFits, ReviewFits, EndsFeature, OfPlan
<1>3. ReviewFits(p)
  BY <1>2 DEF IInv, ReviewsFit
<1>4. CASE runs[p].review = 0
  BY <1>2, <1>4 DEF FeatureReview
<1>5. CASE runs[p].review # 0
  <2>1. runs[p].review \in Steps /\ runs[runs[p].review].parent = p
    BY <1>3, <1>5 DEF ReviewFits
  <2>2. runs[p].review = i
    BY <2>1 DEF IInv, LineFits
  <2> QED BY <1>2, <2>2 DEF FeatureReview
<1> QED BY <1>2, <1>4, <1>5

LEMMA ClaimForKeeps ==
    ASSUME IInv, ready # <<>>, ~OfAnswer(Head(ready)), NEW i \in Steps,
           NEW worker \in Workers, NEW max \in Nat, NEW lost \in Reasons,
           ClaimFor(i, worker, max, lost),
           OfPlan(worker, "chain", i) => Execute /\ runs[i].stop = "complete",
           "target" \notin Faults /\ EndsFeature(i) => worker = "gate"
    PROVE  Kept /\ QueueFits'
<1>1. TypeOK /\ QueueFits /\ i \in Ids /\ i \in Nat
  BY RunsAre DEF IInv, Steps
<1>2. CASE ~Claimable(i)
  <2>1. (runs' = runs \/ runs' = Set(i, "halt", lost)) /\ Drop
    BY <1>2 DEF ClaimFor
  <2>2. Kept
    BY <1>1, <2>1, SameIsKept, HaltIs
  <2> QED BY <1>1, <2>1, <2>2, DropFits DEF Kept
<1>3. CASE Claimable(i)
  <2>1. PICK act \in Acts : act = Act("chain", worker, runs[i].depth + 1, max)
    <3>1. runs[i].depth \in Nat
      BY <1>1, RunsAre DEF RunRows
    <3>2. Act("chain", worker, runs[i].depth + 1, max) \in Acts
      BY <3>1 DEF Act, Acts
    <3> QED BY <3>2
  <2>2. act.by = "chain" /\ act.worker = worker
    BY <2>1 DEF Act
  <2>3. runs' = Claimed(i) /\ Front(<<Insert(i, act)>>)
    BY <1>3, <2>1 DEF ClaimFor
  <2>4. Claims(i)
    BY <1>1, <2>3, ClaimIs DEF Reasons
  <2>5. InsertFits(i, act)'
    BY <1>3, <2>2, <2>4, InsertOk DEF Claimable
  <2>6. PICK t \in Tasks : t = Insert(i, act) /\ t.op = "insert" /\ t.run = i /\ t.act = act
    BY <1>1, InsertIs
  <2>7. TaskFits(t)'
    BY <1>1, <2>4, <2>5, <2>6 DEF TaskFits, Claims, Kept
  <2> QED BY <1>1, <2>3, <2>4, <2>6, <2>7, FrontFits DEF Claims
<1> QED BY <1>2, <1>3

LEMMA SkipKeeps ==
    ASSUME IInv, ready # <<>>, NEW i \in Steps, NEW reason \in Reasons, Skip(i, reason)
    PROVE  Kept /\ QueueFits'
<1>1. TypeOK /\ QueueFits /\ i \in Ids
  BY DEF IInv, Steps
<1>2. Kept
  BY <1>1, HaltIs DEF Skip
<1> QED BY <1>1, <1>2, DropFits DEF Skip, Kept

LEMMA SameKeeps ==
    ASSUME IInv, ready # <<>>, runs' = runs, Drop
    PROVE  Kept /\ QueueFits'
<1>1. Kept
  BY SameIsKept DEF IInv
<1> QED BY <1>1, DropFits DEF IInv, Kept

LEMMA FollowKeeps ==
    ASSUME IInv, ready # <<>>, ~OfAnswer(Head(ready)), NEW i \in Steps, Follow(i),
           FeatureEnd(i) = "none" \/ "target" \in Faults
    PROVE  Kept /\ QueueFits'
<1> DEFINE next == IF ThenNext(runs[i]) THEN "tail" ELSE Onward(runs[i].worker)
           max  == IF ThenNext(runs[i]) THEN runs[i].depth + 1 + MaxDepth ELSE runs[i].max
<1>1. TypeOK /\ i \in Ids /\ runs[i] \in RunRows
  BY RunsAre DEF IInv, Steps
<1>2. runs[i].worker \in Workers /\ max \in Nat
  BY <1>1, ChainAssumption DEF RunRows
<1>3. next \in Workers \cup {"none"}
  BY <1>2 DEF Onward, Edge, Workers
<1>4. CASE next = "none"
  <2>1. runs' = runs /\ Drop
    BY <1>4 DEF Follow
  <2> QED BY <2>1, SameKeeps
<1>5. CASE next # "none" /\ runs[i].stop # "none" /\ ~ThenNext(runs[i])
  <2>1. Skip(i, "stopped")
    BY <1>5 DEF Follow
  <2> QED BY <2>1, SkipKeeps DEF Reasons
<1>6. CASE next # "none" /\ (runs[i].stop = "none" \/ ThenNext(runs[i])) /\ runs[i].depth >= max
  <2>1. Skip(i, "max-depth")
    BY <1>6 DEF Follow
  <2> QED BY <2>1, SkipKeeps DEF Reasons
<1>7. CASE /\ next # "none" /\ (runs[i].stop = "none" \/ ThenNext(runs[i]))
           /\ ~(runs[i].depth >= max)
  <2>1. \/ ClaimFor(i, next, max, "already-chained")
        \/ Skip(i, "unresolved")
    BY <1>7 DEF Follow
  <2>2. CASE Skip(i, "unresolved")
    BY <2>2, SkipKeeps DEF Reasons
  <2>3. CASE ClaimFor(i, next, max, "already-chained")
    <3>1. PICK w \in Workers, m \in Nat : w = next /\ m = max
      BY <1>2, <1>3, <1>7
    <3>2. ClaimFor(i, w, m, "already-chained")
      BY <2>3, <3>1
    <3>3. ~OfPlan(w, "chain", i)
      BY <1>2, <3>1 DEF OfPlan, Onward, Edge, Workers
    <3>4. ASSUME "target" \notin Faults, EndsFeature(i) PROVE FALSE
      <4>1. FeatureReview(i) /\ runs[i].worker = "review"
        BY <3>4, ReviewIsKnown
      <4>2. runs[i].stop # "none"
        BY <3>4, <4>1 DEF FeatureEnd
      <4> QED BY <1>7, <4>1, <4>2 DEF ThenNext
    <3> QED BY <3>2, <3>3, <3>4, ClaimForKeeps DEF Reasons
  <2> QED BY <2>1, <2>2, <2>3
<1> QED BY <1>4, <1>5, <1>6, <1>7

LEMMA TransitionKeeps ==
    ASSUME IInv, ready # <<>>, ~OfAnswer(Head(ready)), NEW i \in Steps, Transition(i)
    PROVE  Kept /\ QueueFits'
<1>1. TypeOK /\ i \in Ids /\ runs[i] \in RunRows
  BY RunsAre DEF IInv, Steps
<1>2. CASE /\ FeatureEnd(i) # "none"
           /\ ClaimFor(i, FeatureEnd(i), Larger(runs[i].max, runs[i].depth + 1), "none")
  <2>1. PICK w \in Workers, m \in Nat :
          w = FeatureEnd(i) /\ m = Larger(runs[i].max, runs[i].depth + 1)
    <3>1. FeatureEnd(i) \in Workers
      BY <1>2 DEF FeatureEnd, Workers, Edge
    <3>2. Larger(runs[i].max, runs[i].depth + 1) \in Nat
      BY <1>1 DEF Larger, RunRows
    <3> QED BY <3>1, <3>2
  <2>2. ClaimFor(i, w, m, "none")
    BY <1>2, <2>1
  <2>3. OfPlan(w, "chain", i) => Execute /\ runs[i].stop = "complete"
    BY <2>1 DEF OfPlan, FeatureEnd
  <2>4. EndsFeature(i) => w = "gate"
    BY <1>2, <2>1, ReviewIsKnown DEF FeatureEnd
  <2> QED BY <2>2, <2>3, <2>4, ClaimForKeeps DEF Reasons
<1>3. CASE (FeatureEnd(i) = "none" \/ "target" \in Faults) /\ Follow(i)
  BY <1>3, FollowKeeps
<1> QED BY <1>2, <1>3 DEF Transition

LEMMA NoteKeeps ==
    ASSUME IInv, ready # <<>>, NEW i \in Ids, NEW what \in {"requested", "skipped", "failed"},
           runs' = Note(runs, i, what), Drop
    PROVE  Kept /\ QueueFits'
<1>1. Kept
  BY NoteIs DEF IInv, Remarks
<1> QED BY <1>1, DropFits DEF IInv, Kept

(* A continuation that asks for another one: nothing else is behind it.    *)
LEMMA GoesOn ==
    ASSUME IInv, ready # <<>>, ~OfAnswer(Head(ready)), Kept, NEW i \in Ids,
           NEW op \in {"request", "advise", "reopen", "cancel", "close"},
           Front(<<Task(op, i)>>)
    PROVE  QueueFits'
<1>1. i \in Nat
  BY RunsAre DEF IInv
<1>2. PICK t \in Tasks : t = Task(op, i) /\ t.op = op /\ t.run = i
  BY <1>1, TaskIs
<1>3. TaskFits(t)'
  BY <1>2 DEF TaskFits, Kept
<1> QED BY <1>2, <1>3, FrontFits DEF IInv

LEMMA ParentOfAdvisory ==
    ASSUME IInv, NEW a \in Ids, runs[a].origin = "discovery"
    PROVE  runs[a].parent \in Ids
BY DEF IInv, LineFits, RowFits

LEMMA ReconcileKeeps ==
    ASSUME IInv, ready # <<>>, NEW a \in Ids, runs[a].origin = "discovery", Reconcile(a)
    PROVE  Kept /\ QueueFits'
<1>1. PICK p \in Ids : p = runs[a].parent
  BY ParentOfAdvisory
<1>2. (runs' = runs \/ runs' = Note(runs, p, "failed")) /\ Drop
  BY <1>1 DEF Reconcile
<1> QED BY <1>2, NoteKeeps, SameKeeps

LEMMA AdvisoryKeeps ==
    ASSUME IInv, ready # <<>>, ~OfAnswer(Head(ready)), NEW a \in Ids, NEW status,
           runs[a].origin = "discovery", AdvisoryTerminal(a, status)
    PROVE  Kept /\ QueueFits'
<1>1. PICK p \in Ids : p = runs[a].parent
  BY ParentOfAdvisory
<1>2. CASE UNCHANGED runs /\ Drop
  BY <1>2, SameKeeps
<1>3. CASE Reconcile(a)
  BY <1>3, ReconcileKeeps
<1>4. CASE Present(a)
  <2>1. TypeOK /\ runs[a] \in RunRows
    BY RunsAre DEF IInv
  <2>2. \/ UNCHANGED runs /\ Drop
        \/ UNCHANGED runs /\ Front(<<Task("reopen", a)>>)
        \/ runs' = Set(a, "card", "pending") /\ Front(<<Task("reopen", a)>>)
        \/ runs' = Note(runs, p, "failed") /\ Drop
    BY <1>1, <1>4, <2>1 DEF Present, RunRows
  <2>3. CASE UNCHANGED runs /\ Front(<<Task("reopen", a)>>)
    BY <2>1, <2>3, SameIsKept, GoesOn
  <2>4. CASE runs' = Set(a, "card", "pending") /\ Front(<<Task("reopen", a)>>)
    BY <2>1, <2>4, CardIs, GoesOn
  <2> QED BY <1>2, <2>2, <2>3, <2>4, NoteKeeps
<1> QED BY <1>2, <1>3, <1>4 DEF AdvisoryTerminal

LEMMA TerminalKeeps ==
    ASSUME IInv, Terminal
    PROVE  Kept /\ QueueFits'
<1>1. PICK i \in Ids : i = Head(ready).run
  BY HeadIs DEF Terminal
<1>2. ready # <<>> /\ ~OfAnswer(Head(ready))
  BY HeadIs DEF Terminal
<1>3. CASE runs[i].origin = "discovery"
  BY <1>1, <1>2, <1>3, AdvisoryKeeps DEF Terminal
<1>4. CASE runs[i].origin # "discovery"
  <2>1. i \in Steps
    BY <1>4 DEF Steps
  <2>2. \/ Transition(i)
        \/ Recover(Set(i, "halt", "status-mismatch"), i)
        \/ UNCHANGED runs /\ Drop
    BY <1>1, <1>4 DEF Terminal, StepTerminal
  <2> QED BY <1>2, <2>1, <2>2, TransitionKeeps, RecoverKeeps, SameKeeps
<1> QED BY <1>3, <1>4

LEMMA RecoverHaltKeeps ==
    ASSUME IInv, RecoverHalt
    PROVE  Kept /\ QueueFits'
<1>1. PICK i \in Steps : i = Head(ready).run
  BY HeadIs DEF RecoverHalt, TaskFits
<1>2. ready # <<>> /\ ~OfAnswer(Head(ready))
  BY HeadIs DEF RecoverHalt
<1> QED BY <1>1, <1>2, RecoverKeeps DEF RecoverHalt

LEMMA RequestKeeps ==
    ASSUME IInv, RequestDiscovery
    PROVE  Kept /\ QueueFits'
<1>1. PICK i \in Ids : i = Head(ready).run
  BY HeadIs DEF RequestDiscovery
<1>2. ready # <<>> /\ ~OfAnswer(Head(ready)) /\ TypeOK
  BY HeadIs DEF RequestDiscovery, IInv
<1>3. \/ runs' = runs /\ Drop
      \/ runs' = Note(runs, i, "skipped") /\ Drop
      \/ runs' = Note(runs, i, "requested") /\ Drop
      \/ runs' = Note(runs, i, "requested") /\ Front(<<Task("advise", i)>>)
  BY <1>1 DEF RequestDiscovery, Request
<1>4. CASE runs' = Note(runs, i, "requested") /\ Front(<<Task("advise", i)>>)
  <2>1. Kept
    BY <1>2, <1>4, NoteIs DEF Remarks
  <2> QED BY <1>2, <1>4, <2>1, GoesOn
<1> QED BY <1>2, <1>3, <1>4, NoteKeeps, SameKeeps

LEMMA SpawnKeeps ==
    ASSUME IInv, ready # <<>>, ~OfAnswer(Head(ready)), NEW i \in Ids, Spawn(i)
    PROVE  Kept /\ QueueFits'
<1>1. TypeOK /\ QueueFits /\ i \in Nat
  BY RunsAre DEF IInv
<1>2. CASE MayAdvise(i) /\ Front(<<Advise(i)>>) /\ UNCHANGED runs
  <2>1. Kept
    BY <1>1, <1>2, SameIsKept
  <2>2. PICK act \in Acts :
          act = Act("discovery", "advisor", runs[i].depth, runs[i].max)
    <3>1. runs[i] \in RunRows
      BY <1>1, RunsAre
    <3>2. Act("discovery", "advisor", runs[i].depth, runs[i].max) \in Acts
      BY <3>1 DEF RunRows, Act, Acts, Workers, Edge
    <3> QED BY <3>2
  <2>3. act.by = "discovery" /\ Front(<<Insert(i, act)>>)
    BY <1>2, <2>2 DEF Act, Advise
  <2>4. (Advisories(i))' = {}
    BY <1>1, <1>2, <2>1, KeptSets DEF MayAdvise
  <2>5. PICK t \in Tasks : t = Insert(i, act) /\ t.op = "insert" /\ t.run = i /\ t.act = act
    BY <1>1, InsertIs
  <2>6. TaskFits(t)'
    BY <2>1, <2>3, <2>4, <2>5 DEF TaskFits, InsertFits, Kept
  <2> QED BY <1>1, <2>1, <2>3, <2>5, <2>6, FrontFits
<1>3. CASE UNCHANGED runs /\ Drop
  BY <1>3, SameKeeps
<1>4. CASE runs' = Note(runs, i, "failed") /\ Drop
  BY <1>4, NoteKeeps
<1> QED BY <1>2, <1>3, <1>4 DEF Spawn

LEMMA RevisitKeeps ==
    ASSUME IInv, Revisit
    PROVE  Kept /\ QueueFits'
<1>1. PICK i \in Ids : i = Head(ready).run
  BY HeadIs DEF Revisit
<1>2. ready # <<>> /\ ~OfAnswer(Head(ready))
  BY HeadIs DEF Revisit
<1>3. CASE Advisories(i) = {}
  <2>1. Spawn(i)
    BY <1>1, <1>3 DEF Revisit
  <2> QED BY <1>2, <2>1, SpawnKeeps
<1>4. CASE Advisories(i) # {}
  <2> DEFINE a == CHOOSE b \in Advisories(i) : Authoritative(b)
  <2>1. PICK b \in Ids : b \in Advisories(i)
    BY <1>4 DEF Advisories
  <2>2. Authoritative(b)
    <3>1. \A c \in Advisories(i) : b <= c
      BY <2>1, RunsAre DEF IInv, OneAdvisory, Advisories
    <3> QED BY <2>1, <3>1 DEF Authoritative, Advisories
  <2>3. a \in Advisories(i)
    BY <2>1, <2>2
  <2>4. PICK c \in Ids : c = a /\ runs[c].origin = "discovery"
    BY <2>3 DEF Advisories
  <2>5. Reconcile(c)
    BY <1>1, <1>4, <2>4 DEF Revisit
  <2> QED BY <1>2, <2>4, <2>5, ReconcileKeeps
<1> QED BY <1>3, <1>4

LEMMA ReopenKeeps ==
    ASSUME IInv, Reopen
    PROVE  Kept /\ QueueFits'
<1>1. PICK i \in Ids : i = Head(ready).run
  BY HeadIs DEF Reopen
<1>2. ready # <<>> /\ TypeOK /\ QueueFits
  BY HeadIs DEF Reopen, IInv
<1>3. Kept
  BY <1>1, <1>2, StatusIs DEF Reopen, Statuses
<1> QED BY <1>2, <1>3, DropFits DEF Reopen, Kept

LEMMA MarkKeeps ==
    ASSUME IInv, Mark
    PROVE  Kept /\ QueueFits'
<1>1. PICK i \in Steps : i = Head(ready).run /\ runs[i].handled
  BY HeadIs DEF Mark, TaskFits
<1>2. ready # <<>> /\ TypeOK /\ QueueFits /\ i \in Ids /\ i \in Nat
  BY HeadIs, RunsAre DEF Mark, IInv, Steps
<1>3. Kept
  BY <1>1, <1>2, StopIs, SameIsKept DEF Mark
<1>4. CASE Drop
  BY <1>2, <1>3, <1>4, DropFits DEF Kept
<1>5. CASE Front(<<Task("cancel", i)>>)
  <2>1. PICK t \in Tasks : t = Task("cancel", i) /\ t.op = "cancel" /\ t.run = i
    BY <1>2, TaskIs
  <2>2. TaskFits(t)' /\ OfAnswer(t)
    BY <1>2, <1>3, <2>1 DEF TaskFits, OfAnswer, Kept
  <2> QED BY <1>2, <1>3, <1>5, <2>1, <2>2, AnswerFits DEF Kept
<1> QED BY <1>1, <1>4, <1>5 DEF Mark

LEMMA CancelKeeps ==
    ASSUME IInv, Cancel
    PROVE  Kept /\ QueueFits'
<1>1. PICK i \in Ids : i = Head(ready).run
  BY HeadIs DEF Cancel
<1>2. ready # <<>> /\ TypeOK /\ QueueFits
  BY HeadIs DEF Cancel, IInv
<1>3. Kept
  BY <1>1, <1>2, StatusIs, SameIsKept DEF Cancel, Statuses
<1> QED BY <1>2, <1>3, DropFits DEF Cancel, Kept

LEMMA CloseKeeps ==
    ASSUME IInv, Close
    PROVE  Kept /\ QueueFits'
<1>1. PICK i \in Ids : i = Head(ready).run
  BY HeadIs DEF Close
<1>2. ready # <<>> /\ ~OfAnswer(Head(ready)) /\ TypeOK /\ QueueFits /\ i \in Nat
  BY <1>1, HeadIs, RunsAre DEF Close, IInv
<1>3. CASE UNCHANGED runs /\ Drop
  BY <1>2, <1>3, SameKeeps
<1>4. CASE /\ runs' = Set(i, "status", "completed")
           /\ Back(<<[op |-> "terminal", run |-> i, status |-> "completed"]>>)
  <2>1. Kept
    BY <1>2, <1>4, StatusIs DEF Statuses
  <2>2. PICK t \in Tasks : t = [op |-> "terminal", run |-> i, status |-> "completed"]
    BY <1>2 DEF Tasks, Statuses
  <2>3. TaskFits(t)'
    BY <2>1, <2>2 DEF TaskFits, Kept
  <2> QED BY <1>2, <1>4, <2>1, <2>2, <2>3, FrontFits
<1> QED BY <1>1, <1>3, <1>4 DEF Close

-----------------------------------------------------------------------------
(* A run is added *)

Adds(n, i, act) == n = Len(runs) + 1 /\ runs' = Append(runs, NewRun(act, i))

LEMMA AddIs ==
    ASSUME TypeOK, NEW i \in Ids, NEW act \in Acts, NEW n, Adds(n, i, act)
    PROVE  /\ runs' \in Seq(RunRows) /\ n \in Nat /\ n \notin Ids
           /\ Ids' = Ids \cup {n}
           /\ \A j \in Ids : runs'[j] = runs[j] /\ j < n
           /\ runs'[n].worker = act.worker /\ runs'[n].origin = act.by
           /\ runs'[n].parent = i /\ runs'[n].stop = "none"
           /\ ~runs'[n].handled /\ runs'[n].notes = {} /\ runs'[n].review = 0
<1> DEFINE x == NewRun(act, i)
<1>1. i \in Nat /\ runs \in Seq(RunRows) /\ Len(runs) \in Nat
  BY RunsAre DEF TypeOK
<1>2. x \in RunRows
  BY <1>1 DEF NewRun, RunRows, Acts, Statuses, Reasons, Remarks
<1>3. /\ x.worker = act.worker /\ x.origin = act.by /\ x.parent = i /\ x.stop = "none"
      /\ ~x.handled /\ x.notes = {} /\ x.review = 0
  BY DEF NewRun
<1> HIDE DEF x
<1>4. runs' = Append(runs, x)
  BY DEF Adds, x
<1>5. /\ runs' \in Seq(RunRows) /\ Len(runs') = Len(runs) + 1
      /\ \A j \in 1..Len(runs) : runs'[j] = runs[j]
      /\ runs'[Len(runs) + 1] = x
  BY <1>1, <1>2, <1>4, AppendProperties
<1>6. Ids' = Ids \cup {n} /\ n \in Nat /\ n \notin Ids
  BY <1>1, <1>5 DEF Ids, Adds
<1>7. \A j \in Ids : runs'[j] = runs[j] /\ j < n
  BY <1>1, <1>5 DEF Ids, Adds
<1> QED BY <1>3, <1>5, <1>6, <1>7 DEF Adds

LEMMA StepsAdded ==
    ASSUME TypeOK, NEW i \in Ids, NEW act \in Acts, NEW n, Adds(n, i, act)
    PROVE  /\ Steps \subseteq Ids /\ Steps \subseteq Steps'
           /\ act.by = "discovery" => Steps' = Steps
           /\ act.by # "discovery" => Steps' = Steps \cup {n}
<1>1. \A j \in Ids : runs'[j] = runs[j]
  BY AddIs
<1>2. Ids' = Ids \cup {n} /\ runs'[n].origin = act.by
  BY AddIs
<1> QED BY <1>1, <1>2 DEF Steps

LEMMA LineFitsAdded ==
    ASSUME IInv, NEW i \in Ids, NEW act \in Acts, InsertFits(i, act),
           NEW n, Adds(n, i, act)
    PROVE  LineFits'
<1>1. TypeOK /\ LineFits /\ Steps \subseteq Ids /\ Ids \subseteq Nat \ {0}
  BY RunsAre DEF IInv, Steps
<1>2. /\ n \in Nat /\ n \notin Ids /\ Ids' = Ids \cup {n}
      /\ \A j \in Ids : runs'[j] = runs[j] /\ j < n
      /\ runs'[n].parent = i /\ runs'[n].stop = "none"
  BY <1>1, AddIs
<1>3. \A j \in Ids' : RowFits(j)'
  <2>1. ASSUME NEW j \in Ids PROVE RowFits(j)'
    <3>1. RowFits(j) /\ runs'[j] = runs[j]
      BY <1>1, <1>2 DEF LineFits
    <3> QED BY <1>2, <3>1 DEF RowFits
  <2>2. RowFits(n)'
    <3>1. runs'[n].parent = i /\ runs'[n].stop = "none" /\ i < n /\ i # 0 /\ i \in Ids'
      BY <1>1, <1>2
    <3> QED BY <3>1 DEF RowFits
  <2> QED BY <1>2, <2>1, <2>2
<1>4. CASE act.by = "discovery"
  <2>1. Steps' = Steps
    BY <1>1, <1>4, StepsAdded
  <2>2. \A j \in Steps : runs'[j] = runs[j]
    BY <1>1, <1>2
  <2>3. (\E j \in Steps : IsNewest(j))'
    BY <1>1, <2>1 DEF LineFits, IsNewest
  <2>4. \A j, k \in Steps : j < k => runs'[j].handled
    BY <1>1, <2>2 DEF LineFits
  <2>5. \A j, k \in Steps : runs'[j].parent = runs'[k].parent => j = k
    BY <1>1, <2>2 DEF LineFits
  <2> QED BY <1>3, <2>1, <2>3, <2>4, <2>5 DEF LineFits
<1>5. CASE act.by # "discovery"
  <2>1. i \in Steps /\ runs[i].handled /\ IsNewest(i)
    BY <1>5 DEF InsertFits
  <2>2. Steps' = Steps \cup {n}
    BY <1>1, <1>5, StepsAdded
  <2>3. \A j \in Steps : runs'[j] = runs[j] /\ j <= i /\ j < n
    BY <1>1, <1>2, <2>1 DEF IsNewest
  <2>4. n \in Nat
    BY <1>2
  <2>5. (\E j \in Steps : IsNewest(j))'
    <3>1. n \in Steps' /\ \A j \in Steps' : j <= n
      BY <2>2, <2>3, <2>4, <1>1
    <3> QED BY <3>1 DEF IsNewest
  <2>6. \A j, k \in Steps' : j < k => runs'[j].handled
    <3> SUFFICES ASSUME NEW j \in Steps', NEW k \in Steps', j < k PROVE runs'[j].handled
      OBVIOUS
    <3>1. j \in Steps
      BY <1>1, <2>2, <2>3, <2>4
    <3>2. CASE j = i
      BY <2>1, <2>3, <3>2
    <3>3. CASE j # i
      <4>1. j < i
        BY <1>1, <2>3, <3>1, <3>3
      <4> QED BY <1>1, <2>1, <2>3, <3>1, <4>1 DEF LineFits
    <3> QED BY <3>2, <3>3
  <2>7. \A j \in Steps : runs'[j].parent # i
    <3> SUFFICES ASSUME NEW j \in Steps PROVE runs[j].parent # i
      BY <2>3
    <3>1. RowFits(j) /\ j <= i /\ j \in Nat /\ i \in Nat
      BY <1>1, <2>3 DEF LineFits
    <3>2. runs[j].parent < j
      BY <3>1 DEF RowFits
    <3>3. runs[j].parent \in Nat
      BY <1>1, RunsAre DEF RunRows
    <3> QED BY <3>1, <3>2, <3>3
  <2>8. \A j, k \in Steps' : runs'[j].parent = runs'[k].parent => j = k
    <3>1. \A j, k \in Steps : runs'[j].parent = runs'[k].parent => j = k
      BY <1>1, <2>3 DEF LineFits
    <3>2. \A j \in Steps : runs'[j].parent # runs'[n].parent
      BY <1>2, <2>7
    <3> QED BY <2>2, <3>1, <3>2
  <2> QED BY <1>3, <2>5, <2>6, <2>8 DEF LineFits
<1> QED BY <1>4, <1>5

LEMMA OfPlanAdded ==
    ASSUME IInv, NEW i \in Ids, NEW act \in Acts, NEW n, Adds(n, i, act)
    PROVE  /\ \A j \in Ids : (EndsFeature(j)' = EndsFeature(j))
           /\ (EndsFeature(n)' = OfPlan(act.worker, act.by, i))
<1>1. TypeOK /\ LineFits /\ Ids \subseteq Nat \ {0}
  BY RunsAre DEF IInv
<1>2. \A j \in Ids : runs'[j] = runs[j]
  BY <1>1, AddIs
<1>3. ASSUME NEW j \in Ids PROVE (EndsFeature(j)' = EndsFeature(j))
  <2>1. runs[j].parent \in Ids \cup {0} /\ runs'[j] = runs[j]
    BY <1>1, <1>2 DEF LineFits, RowFits
  <2>2. runs[j].parent # 0 => runs'[runs[j].parent] = runs[runs[j].parent]
    BY <1>2, <2>1
  <2> QED BY <2>1, <2>2 DEF EndsFeature, OfPlan
<1>4. runs'[n].worker = act.worker /\ runs'[n].origin = act.by /\ runs'[n].parent = i
  BY <1>1, AddIs
<1>5. runs'[i] = runs[i]
  BY <1>2
<1>6. (EndsFeature(n)' = OfPlan(act.worker, act.by, i))
  BY <1>4, <1>5 DEF EndsFeature, OfPlan
<1> QED BY <1>3, <1>6

LEMMA ReviewsFitAdded ==
    ASSUME IInv, NEW i \in Ids, NEW act \in Acts, InsertFits(i, act), NEW n, Adds(n, i, act)
    PROVE  ReviewsFit'
<1>1. TypeOK /\ LineFits /\ ReviewsFit /\ Ids \subseteq Nat \ {0}
  BY RunsAre DEF IInv
<1>2. /\ Ids' = Ids \cup {n} /\ \A j \in Ids : runs'[j] = runs[j]
      /\ runs'[n].parent = i /\ runs'[n].review = 0
  <2>1. TypeOK
    BY <1>1
  <2>2. Ids' = Ids \cup {n} /\ runs'[n].parent = i
    BY <2>1, AddIs
  <2>3. runs'[n].review = 0
    BY <2>1, AddIs
  <2>4. \A j \in Ids : runs'[j] = runs[j]
    BY <2>1, AddIs
  <2> QED BY <2>2, <2>3, <2>4
<1>3. Steps \subseteq Ids /\ Steps \subseteq Steps'
  BY <1>1, StepsAdded
<1>4. ASSUME NEW j \in Ids PROVE ReviewFits(j)'
  <2>1. ReviewFits(j) /\ RowFits(j) /\ runs'[j] = runs[j]
    BY <1>1, <1>2 DEF ReviewsFit, LineFits
  <2>2. EndsFeature(j)' => Execute /\ runs'[runs'[j].parent].stop = "complete"
    <3> SUFFICES ASSUME EndsFeature(j)
                 PROVE  Execute /\ runs'[runs[j].parent].stop = "complete"
      BY <1>1, <2>1, OfPlanAdded
    <3>1. runs[j].parent \in Ids
      BY <2>1 DEF RowFits, EndsFeature, OfPlan
    <3> QED BY <1>2, <2>1, <3>1 DEF ReviewFits
  <2>3. runs'[j].review # 0 => runs'[j].review \in Steps' /\ runs'[runs'[j].review].parent = j
    BY <1>2, <1>3, <2>1 DEF ReviewFits
  <2> QED BY <2>2, <2>3 DEF ReviewFits
<1>5. ReviewFits(n)'
  <2>1. EndsFeature(n)' => Execute /\ runs'[runs'[n].parent].stop = "complete"
    <3> SUFFICES ASSUME OfPlan(act.worker, act.by, i)
                 PROVE  Execute /\ runs'[i].stop = "complete"
      BY <1>2, OfPlanAdded
    <3>1. act.by = "chain" /\ OfPlan(act.worker, "chain", i)
      BY DEF OfPlan
    <3> QED BY <1>2, <3>1 DEF InsertFits
  <2> QED BY <1>2, <2>1 DEF ReviewFits
<1> QED BY <1>2, <1>4, <1>5 DEF ReviewsFit

LEMMA GatedAdded ==
    ASSUME IInv, NEW i \in Ids, NEW act \in Acts, InsertFits(i, act), NEW n, Adds(n, i, act)
    PROVE  GatedHere'
<1>1. TypeOK /\ LineFits
  BY DEF IInv
<1>2. /\ Ids' = Ids \cup {n} /\ \A j \in Ids : runs'[j] = runs[j]
      /\ runs'[n].parent = i /\ runs'[n].origin = act.by /\ runs'[n].worker = act.worker
  BY <1>1, AddIs
<1> SUFFICES ASSUME "target" \notin Faults, NEW j \in Ids',
                    (/\ runs[j].origin = "chain" /\ runs[j].parent # 0
                     /\ EndsFeature(runs[j].parent))'
             PROVE  runs'[j].worker = "gate"
  BY DEF GatedHere, Gated
<1>3. CASE j = n
  <2>1. EndsFeature(i)'
    <3>1. (runs[j].parent)' = i
      BY <1>2, <1>3
    <3> QED BY <3>1
  <2>2. EndsFeature(i)
    BY <2>1, OfPlanAdded
  <2> QED BY <1>2, <1>3, <2>2 DEF InsertFits
<1>4. CASE j \in Ids
  <2>1. runs'[j] = runs[j] /\ RowFits(j)
    BY <1>1, <1>2, <1>4 DEF LineFits
  <2>2. PICK p \in Ids : p = runs[j].parent
    BY <2>1 DEF RowFits
  <2>3. EndsFeature(p)'
    <3>1. (runs[j].parent)' = p
      BY <2>1, <2>2
    <3> QED BY <3>1
  <2>4. EndsFeature(p)
    BY <2>3, OfPlanAdded
  <2> QED BY <1>4, <2>1, <2>2, <2>4 DEF IInv, GatedHere, Gated
<1> QED BY <1>2, <1>3, <1>4

LEMMA DeclinesFitAdded ==
    ASSUME IInv, NEW i \in Ids, NEW act \in Acts, InsertFits(i, act), NEW n, Adds(n, i, act)
    PROVE  DeclinesFit' /\ OneAdvisory'
<1>1. TypeOK /\ LineFits
  BY DEF IInv
<1>2. /\ Ids' = Ids \cup {n} /\ \A j \in Ids : runs'[j] = runs[j]
      /\ runs'[n].parent = i /\ runs'[n].origin = act.by
  BY <1>1, AddIs
<1>3. DeclinesFit'
  <2> SUFFICES ASSUME NEW j \in Ids', runs'[j].origin = "daemon"
               PROVE  /\ runs'[runs'[j].parent].handled
                      /\ "unrecovered" \notin runs'[runs'[j].parent].notes
    BY DEF DeclinesFit
  <2>1. CASE j = n
    BY <1>2, <2>1 DEF InsertFits
  <2>2. CASE j \in Ids
    <3>1. runs'[j] = runs[j] /\ runs[j].parent \in Ids
      BY <1>1, <1>2, <2>2 DEF LineFits, RowFits
    <3> QED BY <1>2, <2>2, <3>1 DEF IInv, DeclinesFit
  <2> QED BY <1>2, <2>1, <2>2
<1>4. OneAdvisory'
  <2>1. act.by = "discovery" => \A j \in Ids : ~(runs[j].origin = "discovery" /\ runs[j].parent = i)
    BY DEF InsertFits, Advisories
  <2> QED BY <1>2, <2>1 DEF IInv, OneAdvisory
<1> QED BY <1>3, <1>4

(* Of the decisions, only the daemon's need a record within the budget.    *)
LEMMA InsertKeeps ==
    ASSUME IInv, NEW i \in Ids, NEW act \in Acts, InsertFits(i, act), NEW n, Adds(n, i, act),
           ~Recording, ready # <<>>, Quiet,
           IF Recorded(i, act)
           THEN ready' = <<[op |-> "record", run |-> i, child |-> n]>> ELSE Drop
    PROVE  IInv'
<1>1. TypeOK /\ LineFits /\ QueueFits /\ Ids \subseteq Nat \ {0}
  BY RunsAre DEF IInv
<1>2. /\ runs' \in Seq(RunRows) /\ n \in Nat /\ n \notin Ids
      /\ Ids' = Ids \cup {n} /\ \A j \in Ids : runs'[j] = runs[j]
      /\ runs'[n].parent = i /\ runs'[n].origin = act.by /\ runs'[n].notes = {}
  BY <1>1, AddIs
<1>3. Steps \subseteq Steps' /\ (act.by # "discovery" => n \in Steps')
  BY <1>1, StepsAdded
<1>4. AutoRetried' = AutoRetried
  BY <1>2 DEF AutoRetried
<1>5. QueueFits'
  <2>1. CASE Recorded(i, act)
    <3> DEFINE r == [op |-> "record", run |-> i, child |-> n]
    <3>0. r \in Tasks /\ r.op = "record" /\ r.run = i /\ r.child = n
      BY <1>1, <1>2 DEF Tasks, Records
    <3>1. PICK t \in Tasks : t = r /\ t.op = "record" /\ t.run = i /\ t.child = n
      BY <3>0
    <3>2. act.by # "discovery"
      BY <2>1 DEF Recorded
    <3>3. Cardinality(AutoRetried') = Cardinality(AutoRetried)
      BY <1>4
    <3>4. RecordFits(i, n)'
      BY <1>2, <1>3, <3>2, <3>3 DEF RecordFits, InsertFits
    <3>5. TaskFits(t)'
      BY <1>2, <3>1, <3>4 DEF TaskFits
    <3> QED BY <2>1, <3>1, <3>5, StartFits
  <2>2. CASE ~Recorded(i, act)
    BY <1>1, <1>2, <2>2, DropFits
  <2> QED BY <2>1, <2>2
<1>6. WaitFits' /\ BootFits'
  BY <1>2, <1>3 DEF IInv, WaitFits, BootFits, Quiet
<1>7. BudgetFits'
  <2>1. Cardinality(AutoRetried') = Cardinality(AutoRetried)
    BY <1>4
  <2>2. spent' = spent /\ spent.crashes \in Nat
    BY DEF Quiet, IInv, TypeOK
  <2>3. Cardinality(Daemons) <= Cardinality(AutoRetried) + spent.crashes
        /\ Cardinality(AutoRetried) <= AutoBudget
    BY <1>1, <2>2, Finite DEF IInv, BudgetFits
  <2>4. CASE act.by = "daemon"
    <3>1. Daemons' = Daemons \cup {n} /\ n \notin Daemons
      BY <1>2, <2>4 DEF Daemons
    <3>2. Cardinality(Daemons') = Cardinality(Daemons) + 1
      BY <1>1, <3>1, Finite, FS_AddElement
    <3>3. Recording'
      <4>1. ready' = <<[op |-> "record", run |-> i, child |-> n]>>
        BY <2>4 DEF Recorded
      <4>2. ready' # <<>> /\ Head(ready') = [op |-> "record", run |-> i, child |-> n]
        BY <4>1, Pairs
      <4>3. Head(ready').op = "record" /\ runs'[Head(ready').child].origin = "daemon"
        BY <1>2, <2>4, <4>2
      <4> QED BY <4>2, <4>3 DEF Recording
    <3>4. Cardinality(Daemons) + 1
            <= Cardinality(AutoRetried) + spent.crashes + (IF Recording' THEN 1 ELSE 0)
      BY <1>1, <2>2, <2>3, <3>3, Finite
    <3> QED BY <2>1, <2>2, <2>3, <3>2, <3>4 DEF BudgetFits
  <2>5. CASE act.by # "daemon"
    <3>1. Daemons' = Daemons
      BY <1>2, <2>5 DEF Daemons
    <3>2. Cardinality(Daemons') = Cardinality(Daemons)
      BY <3>1
    <3>3. Cardinality(Daemons)
            <= Cardinality(AutoRetried) + spent.crashes + (IF Recording' THEN 1 ELSE 0)
      BY <1>1, <2>2, <2>3, Finite
    <3> QED BY <2>1, <2>2, <2>3, <3>2, <3>3 DEF BudgetFits
  <2> QED BY <2>4, <2>5
<1>8. TypeOK'
  BY <1>1, <1>2 DEF TypeOK, Quiet
<1> QED BY <1>5, <1>6, <1>7, <1>8, LineFitsAdded, ReviewsFitAdded, GatedAdded,
           DeclinesFitAdded DEF IInv

LEMMA InsertRunKeeps ==
    ASSUME IInv, InsertRun
    PROVE  /\ IInv'
           /\ \/ Kept
              \/ \E i \in Ids, act \in Acts, n \in Nat : InsertFits(i, act) /\ Adds(n, i, act)
<1>1. /\ ready # <<>> /\ Head(ready) \in Tasks /\ Head(ready).op = "insert"
      /\ TaskFits(Head(ready)) /\ Head(ready).run \in Ids /\ ~Recording
  BY HeadIs DEF InsertRun
<1>2. Head(ready) \in Inserts
  BY <1>1 DEF Tasks, Records
<1>3. PICK i \in Ids, act \in Acts : i = Head(ready).run /\ act = Head(ready).act
  BY <1>1, <1>2 DEF Inserts
<1>4. InsertFits(i, act) /\ TypeOK /\ QueueFits
  BY <1>1, <1>3 DEF TaskFits, IInv
<1>5. PICK n \in Nat : n = Len(runs) + 1
  BY <1>4, RunsAre
<1>6. CASE /\ runs' = Append(runs, NewRun(act, i))
           /\ IF Recorded(i, act)
              THEN Back(<<[op |-> "record", run |-> i, child |-> Len(runs) + 1]>>)
              ELSE Drop
  <2>1. Adds(n, i, act)
    BY <1>5, <1>6 DEF Adds
  <2>2. Recorded(i, act) => Tail(ready) = <<>>
    BY <1>1, <1>3, <1>4 DEF Recorded, QueueFits, OfAnswer
  <2>3. Recorded(i, act) => ready' = <<[op |-> "record", run |-> i, child |-> n]>>
    BY <1>5, <1>6, <2>2, Pairs DEF Back
  <2>4. IInv'
    BY <1>1, <1>4, <1>6, <2>1, <2>3, InsertKeeps DEF InsertRun
  <2> QED BY <1>4, <2>1, <2>4
<1>7. CASE /\ runs' = CASE act.by = "chain" -> Set(i, "halt", "enqueue-failed")
                        [] act.by = "discovery" -> Note(runs, i, "failed")
                        [] OTHER -> runs
           /\ Drop
  <2>1. \/ runs' = Set(i, "halt", "enqueue-failed")
        \/ runs' = Note(runs, i, "failed")
        \/ runs' = runs
    BY <1>7
  <2>2. Kept
    BY <1>4, <2>1, HaltIs, NoteIs, SameIsKept DEF Reasons, Remarks
  <2>3. QueueFits'
    BY <1>1, <1>4, <1>7, <2>2, DropFits DEF Kept
  <2> QED BY <1>1, <2>2, <2>3, QuietKeeps DEF InsertRun
<1> QED BY <1>3, <1>6, <1>7 DEF InsertRun

-----------------------------------------------------------------------------
(* What was added is recorded *)

LEMMA RecordKeeps ==
    ASSUME IInv, Record
    PROVE  IInv' /\ Holds
<1>1. /\ ready # <<>> /\ Head(ready) \in Tasks /\ Head(ready).op = "record"
      /\ TaskFits(Head(ready)) /\ Head(ready).run \in Ids /\ ~OfAnswer(Head(ready))
  BY HeadIs DEF Record
<1>2. PICK i \in Ids : i = Head(ready).run
  BY <1>1
<1>3. PICK child \in Steps : child = Head(ready).child
  BY <1>1 DEF TaskFits, RecordFits
<1>4. /\ TypeOK /\ LineFits /\ QueueFits /\ child \in Ids /\ Ids \subseteq Nat \ {0}
      /\ RecordFits(i, child) /\ ready' = <<>> /\ Quiet
  BY <1>1, <1>2, <1>3, RunsAre DEF IInv, QueueFits, TaskFits, Steps, Record, Drop
<1>5. runs[i] \in RunRows /\ i \in DOMAIN runs
  BY <1>4, RunsAre
<1> DEFINE x == [runs[i] EXCEPT !.notes = @ \cup {"auto"}]
           y == [runs[i] EXCEPT !.review = child]
           z == IF runs[child].origin = "daemon" THEN x ELSE y
<1>6. /\ x \in RunRows /\ y \in RunRows
      /\ x.notes = runs[i].notes \cup {"auto"} /\ x.review = runs[i].review
      /\ y.notes = runs[i].notes /\ y.review = child
  BY <1>4, <1>5 DEF RunRows, Remarks
<1>7. ASSUME NEW w \in {x, y}
      PROVE  /\ w.worker = runs[i].worker /\ w.origin = runs[i].origin
             /\ w.parent = runs[i].parent /\ w.stop = runs[i].stop
             /\ (w.handled = runs[i].handled)
             /\ "unrecovered" \in w.notes => "unrecovered" \in runs[i].notes
  BY <1>5, <1>7 DEF RunRows
<1>8. runs' = [runs EXCEPT ![i] = z]
  BY <1>2, <1>3 DEF Record, Note, Set
<1> HIDE DEF x, y
<1>9. z \in RunRows /\ RowHolds(runs[i], z)
  BY <1>6, <1>7 DEF RowHolds
<1> HIDE DEF z
<1>10. /\ runs' \in Seq(RunRows) /\ Len(runs') = Len(runs) /\ runs'[i] = z
       /\ \A j \in Ids : j # i => runs'[j] = runs[j]
  <2>1. runs \in Seq(RunRows) /\ i \in 1..Len(runs)
    BY <1>4 DEF TypeOK, Ids
  <2> QED BY <1>8, <1>9, <2>1, ExceptSeq DEF Ids
<1>11. Holds
  <2>1. Ids' = Ids
    BY <1>10 DEF Ids
  <2>2. ASSUME NEW j \in Ids PROVE RowHolds(runs[j], runs'[j])
    <3>1. CASE j = i
      BY <1>9, <1>10, <3>1
    <3>2. CASE j # i
      BY <1>10, <3>2 DEF RowHolds
    <3> QED BY <3>1, <3>2
  <2> QED BY <1>10, <2>1, <2>2 DEF Holds
<1>12. Steps' = Steps /\ Ids' = Ids
  BY <1>4, <1>11, HoldsSteps DEF Holds
<1>13. LineFits' /\ GatedHere' /\ DeclinesFit' /\ OneAdvisory'
  BY <1>11, LineFitsKept, GatedKept, DeclinesFitKept, OneAdvisoryKept DEF IInv
<1>14. ReviewsFit'
  <2> SUFFICES ASSUME NEW j \in Ids PROVE ReviewFits(j)'
    BY <1>12 DEF ReviewsFit
  <2>1. ReviewFits(j) /\ RowFits(j) /\ RowHolds(runs[j], runs'[j])
    BY <1>4, <1>11 DEF IInv, ReviewsFit, LineFits, Holds
  <2>2. EndsFeature(j)' => Execute /\ runs'[runs'[j].parent].stop = "complete"
    <3> SUFFICES ASSUME EndsFeature(j) PROVE Execute /\ runs'[runs'[j].parent].stop = "complete"
      BY <1>4, <1>11, EndsFeatureKept
    <3>1. runs[j].parent \in Ids /\ Execute /\ runs[runs[j].parent].stop = "complete"
      BY <2>1 DEF RowFits, ReviewFits, EndsFeature, OfPlan
    <3>2. RowHolds(runs[runs[j].parent], runs'[runs[j].parent])
      BY <1>11, <3>1 DEF Holds
    <3> QED BY <2>1, <3>1, <3>2 DEF RowHolds
  <2>3. runs'[j].review = runs[j].review \/ (j = i /\ runs'[j].review = child)
    BY <1>6, <1>10 DEF z
  <2>4. \A k \in Steps : runs'[k].parent = runs[k].parent
    BY <1>11 DEF Holds, RowHolds, Steps
  <2>5. runs'[j].review # 0 =>
          runs'[j].review \in Steps' /\ runs'[runs'[j].review].parent = j
    BY <1>3, <1>4, <1>12, <2>1, <2>3, <2>4 DEF ReviewFits, RecordFits
  <2> QED BY <2>2, <2>5 DEF ReviewFits
<1>15. QueueFits'
  BY <1>4 DEF QueueFits
<1>16. WaitFits' /\ BootFits'
  BY <1>4, <1>12 DEF IInv, WaitFits, BootFits, Quiet
<1>17. BudgetFits'
  <2>1. Daemons' = Daemons
    BY <1>11 DEF Daemons, Holds, RowHolds
  <2>2. Cardinality(Daemons') = Cardinality(Daemons)
    BY <2>1
  <2>3. spent' = spent /\ spent.crashes \in Nat /\ AutoBudget \in Nat
    BY <1>4, ChainAssumption DEF Quiet, TypeOK
  <2>4. ~Recording'
    BY <1>4 DEF Recording
  <2>5. CASE runs[child].origin = "daemon"
    <3>1. AutoRetried' = AutoRetried \cup {i} /\ i \notin AutoRetried
      <4>1. "auto" \in runs'[i].notes /\ "auto" \notin runs[i].notes
        BY <1>4, <1>6, <1>10, <2>5 DEF z, RecordFits
      <4> QED BY <1>10, <1>12, <4>1 DEF AutoRetried
    <3>2. Cardinality(AutoRetried') = Cardinality(AutoRetried) + 1
      BY <1>4, <3>1, Finite, FS_AddElement
    <3>3. Cardinality(AutoRetried) < AutoBudget
      BY <1>4, <2>5 DEF RecordFits
    <3>4. Cardinality(Daemons) <= Cardinality(AutoRetried) + spent.crashes + 1
      BY <1>4, <2>3, Finite DEF IInv, BudgetFits
    <3>5. Cardinality(AutoRetried) + 1 <= AutoBudget
          /\ Cardinality(Daemons) <= Cardinality(AutoRetried) + 1 + spent.crashes + 0
      BY <1>4, <2>3, <3>3, <3>4, Finite
    <3> QED BY <2>2, <2>3, <2>4, <3>2, <3>5 DEF BudgetFits
  <2>6. CASE runs[child].origin # "daemon"
    <3>1. AutoRetried' = AutoRetried
      BY <1>6, <1>10, <1>12, <2>6 DEF z, AutoRetried
    <3>2. Cardinality(AutoRetried') = Cardinality(AutoRetried)
      BY <3>1
    <3>3. ~Recording
      BY <1>3, <2>6 DEF Recording
    <3> QED BY <2>2, <2>3, <2>4, <3>2, <3>3 DEF IInv, BudgetFits
  <2> QED BY <2>5, <2>6
<1>18. TypeOK'
  BY <1>4, <1>10 DEF TypeOK, Quiet
<1> QED BY <1>11, <1>13, <1>14, <1>15, <1>16, <1>17, <1>18 DEF IInv

LEMMA ContinueKeeps ==
    ASSUME IInv, Continue
    PROVE  /\ IInv'
           /\ \/ Holds
              \/ \E i \in Ids, act \in Acts, n \in Nat : InsertFits(i, act) /\ Adds(n, i, act)
<1>1. CASE InsertRun
  BY <1>1, InsertRunKeeps, KeptHolds
<1>2. CASE Record
  BY <1>2, RecordKeeps
<1>3. CASE Terminal \/ RecoverHalt \/ RequestDiscovery \/ SpawnAdvisory \/ Revisit
           \/ Reopen \/ Mark \/ Cancel \/ Close
  <2>1. ~Recording /\ Quiet
    BY <1>3, HeadIs DEF Terminal, RecoverHalt, RequestDiscovery, SpawnAdvisory, Revisit,
                        Reopen, Mark, Cancel, Close
  <2>2. ASSUME SpawnAdvisory PROVE Kept /\ QueueFits'
    BY <2>2, HeadIs, SpawnKeeps DEF SpawnAdvisory
  <2>3. Kept /\ QueueFits'
    BY <1>3, <2>2, TerminalKeeps, RecoverHaltKeeps, RequestKeeps, RevisitKeeps, ReopenKeeps,
       MarkKeeps, CancelKeeps, CloseKeeps
  <2> QED BY <2>1, <2>3, QuietKeeps, KeptHolds
<1> QED BY <1>1, <1>2, <1>3 DEF Continue

-----------------------------------------------------------------------------
(* Runs that end, and the requests of the operator *)

LEMMA IdleKeeps ==
    ASSUME IInv, Idle, Kept, QueueFits', waiting' \subseteq Inserts, WaitFits',
           UNCHANGED boot, spent' = spent \/ spent' = [spent EXCEPT !.ops = @ + 1]
    PROVE  IInv'
<1>1. ~Recording
  BY DEF Idle, Recording
<1>2. spent' \in [ops : Nat, crashes : Nat] /\ spent'.crashes >= spent.crashes
  BY DEF IInv, TypeOK
<1> QED BY <1>1, <1>2, KeptKeeps, BootKept DEF IInv

LEMMA RestKeeps ==
    ASSUME IInv, Idle, Kept, QueueFits', UNCHANGED waiting,
           UNCHANGED boot, spent' = spent \/ spent' = [spent EXCEPT !.ops = @ + 1]
    PROVE  IInv'
BY IdleKeeps, WaitKept DEF IInv

LEMMA NoneFits ==
    ASSUME Idle, UNCHANGED ready
    PROVE  QueueFits'
BY DEF Idle, QueueFits

LEMMA RunsKeep ==
    ASSUME IInv, Runs
    PROVE  IInv' /\ Kept
<1>1. ASSUME NEW i \in Ids, NEW status \in {"completed", "failed", "cancelled"},
             RunEnds(i, status)
      PROVE  IInv' /\ Kept
  <2>1. TypeOK /\ i \in Nat /\ runs[i] \in RunRows
    BY RunsAre DEF IInv
  <2>2. PICK safe \in BOOLEAN : runs' = [runs EXCEPT ![i].status = status, ![i].safe = safe]
    BY <1>1, <2>1 DEF RunEnds, RunRows
  <2> DEFINE x == [runs[i] EXCEPT !.status = status, !.safe = safe]
  <2>3. x \in RunRows /\ RowKept(runs[i], x)
    BY <2>1 DEF RunRows, RowKept, RowHolds, Statuses
  <2>4. runs' = [runs EXCEPT ![i] = x]
    BY <2>2
  <2> HIDE DEF x
  <2>5. Kept
    BY <2>1, <2>3, <2>4, OneRow
  <2> DEFINE r == [op |-> "terminal", run |-> i, status |-> status]
  <2>6. r \in Tasks /\ r.op = "terminal" /\ r.run = i
    BY <2>1 DEF Tasks, Statuses
  <2>7. PICK t \in Tasks : t = r /\ t.op = "terminal" /\ t.run = i
    BY <2>6
  <2>8. TaskFits(t)'
    BY <2>5, <2>7 DEF TaskFits, Kept
  <2>9. ready' = <<t>> \/ ready' = <<>>
    BY <1>1, <2>7 DEF RunEnds
  <2>10. QueueFits'
    BY <2>8, <2>9, StartFits DEF QueueFits
  <2> QED BY <1>1, <2>5, <2>10, RestKeeps DEF RunEnds, Quiet
<1>2. ASSUME NEW i \in Ids, NEW kind \in StopKinds, Stop(i, kind)
      PROVE  IInv' /\ Kept
  <2>1. Kept
    BY <1>2, StopIs, ChainAssumption DEF Stop, IInv
  <2> QED BY <1>2, <2>1, NoneFits, RestKeeps DEF Stop
<1> QED BY <1>1, <1>2 DEF Runs

LEMMA DecidedIs ==
    ASSUME TypeOK, NEW i \in Ids, NEW action \in {"retry", "skip"}, Eligible(i, action)
    PROVE  \E act \in Acts : act = Decided(i, action) /\ act.by = "operator"
<1>1. runs[i] \in RunRows
  BY RunsAre
<1>2. Decided(i, action) \in Acts /\ Decided(i, action).by = "operator"
  BY <1>1, OfTheDaemon DEF Decided, Eligible
<1> QED BY <1>2

(* The claim of an escalation, and what it leads to                        *)
LEMMA EscalationFits ==
    ASSUME IInv, NEW i \in Steps, NEW action \in {"retry", "skip", "abort"},
           Eligible(i, action), Claims(i)
    PROVE  \E t \in Tasks :
              /\ t = IF action = "abort" THEN Task("mark", i) ELSE Insert(i, Decided(i, action))
              /\ TaskFits(t)' /\ OfAnswer(t)
<1>1. TypeOK /\ i \in Ids /\ i \in Nat
  BY RunsAre DEF IInv, Steps
<1>2. Steps' = Steps /\ Ids' = Ids
  BY <1>1, KeptSets DEF Claims, Kept
<1>3. CASE action = "abort"
  <2>1. PICK t \in Tasks : t = Task("mark", i) /\ t.op = "mark" /\ t.run = i
    BY <1>1, TaskIs
  <2>2. TaskFits(t)' /\ OfAnswer(t)
    BY <1>1, <1>2, <2>1 DEF TaskFits, OfAnswer, Claims
  <2> QED BY <1>3, <2>1, <2>2
<1>4. CASE action # "abort"
  <2>1. PICK act \in Acts : act = Decided(i, action) /\ act.by = "operator"
    BY <1>1, <1>4, DecidedIs
  <2>2. PICK t \in Tasks : t = Insert(i, act) /\ t.op = "insert" /\ t.run = i /\ t.act = act
    BY <1>1, InsertIs
  <2>3. InsertFits(i, act)'
    BY <2>1, InsertOk DEF Eligible
  <2>4. TaskFits(t)' /\ OfAnswer(t)
    BY <1>1, <1>2, <2>1, <2>2, <2>3 DEF TaskFits, OfAnswer
  <2> QED BY <1>4, <2>1, <2>2, <2>4
<1> QED BY <1>3, <1>4

LEMMA FollowUpKeeps ==
    ASSUME IInv, NEW i \in Ids, FollowUp(i) \/ Extend(i) \/ Promote(i)
    PROVE  IInv' /\ Kept
<1>1. TypeOK /\ runs[i] \in RunRows
  BY RunsAre DEF IInv
<1> DEFINE x == [runs[i] EXCEPT !.max = @ + 1, !.extended = TRUE]
           y == [runs[i] EXCEPT !.card = "settled", !.status = "completed"]
<1>2. x \in RunRows /\ RowKept(runs[i], x)
  <2>1. x \in RunRows
    <3>1. runs[i].max + 1 \in Nat
      BY <1>1 DEF RunRows
    <3> QED BY <1>1, <3>1 DEF RunRows
  <2>2. /\ x.worker = runs[i].worker /\ x.origin = runs[i].origin
        /\ x.parent = runs[i].parent /\ x.review = runs[i].review
        /\ x.stop = runs[i].stop /\ x.notes = runs[i].notes
        /\ (x.handled = runs[i].handled)
    BY <1>1 DEF RunRows
  <2> QED BY <2>1, <2>2 DEF RowKept, RowHolds
<1>3. y \in RunRows /\ RowKept(runs[i], y)
  BY <1>1 DEF RunRows, RowKept, RowHolds, Statuses
<1>4. \/ runs' = Set(i, "status", "active")
      \/ runs' = [runs EXCEPT ![i] = x]
      \/ runs' = [runs EXCEPT ![i] = y]
  BY DEF FollowUp, Extend, Promote
<1> HIDE DEF x, y
<1>5. Kept
  BY <1>1, <1>2, <1>3, <1>4, OneRow, StatusIs DEF Statuses
<1>6. /\ Idle /\ UNCHANGED <<ready, waiting, boot>>
      /\ spent' = [spent EXCEPT !.ops = @ + 1]
  BY DEF FollowUp, Extend, Promote, Asked
<1> QED BY <1>5, <1>6, NoneFits, RestKeeps

LEMMA EscalateKeeps ==
    ASSUME IInv, NEW i \in Ids, NEW action \in {"retry", "skip", "abort"}, Escalate(i, action)
    PROVE  IInv' /\ Kept
<1>1. /\ TypeOK /\ Idle /\ UNCHANGED <<waiting, boot>> /\ Eligible(i, action) /\ i \in Steps
      /\ spent' = [spent EXCEPT !.ops = @ + 1]
  BY DEF IInv, Escalate, Asked, Eligible
<1>2. /\ runs' = Claimed(i)
      /\ ready' = (IF action = "abort" THEN <<Task("mark", i)>>
                   ELSE <<Insert(i, Decided(i, action))>>) \o <<>>
  BY <1>1 DEF Escalate, EscalateRun
<1>3. Claims(i)
  BY <1>1, <1>2, ClaimIs DEF Reasons
<1>4. PICK t \in Tasks :
        /\ t = IF action = "abort" THEN Task("mark", i) ELSE Insert(i, Decided(i, action))
        /\ TaskFits(t)' /\ OfAnswer(t)
  BY <1>1, <1>3, EscalationFits
<1>5. ready' = <<t>>
  BY <1>2, <1>4, Pairs
<1> QED BY <1>1, <1>3, <1>4, <1>5, StartFits, RestKeeps DEF Claims

LEMMA EscalateWithRolesKeeps ==
    ASSUME IInv, NEW i \in Ids, NEW action \in {"retry", "skip"}, EscalateWithRoles(i, action)
    PROVE  IInv' /\ Kept
<1>1. /\ TypeOK /\ Idle /\ UNCHANGED <<ready, runs, boot>> /\ Eligible(i, action)
      /\ i \in Steps /\ spent' = [spent EXCEPT !.ops = @ + 1] /\ i \in Nat
  BY RunsAre DEF IInv, EscalateWithRoles, Asked, Eligible
<1>2. PICK act \in Acts : act = Decided(i, action) /\ act.by = "operator"
  BY <1>1, DecidedIs
<1>3. PICK w \in Inserts : w = Insert(i, act) /\ w.run = i /\ w.act = act
  BY <1>1, InsertIs
<1>4. waiting' = waiting \cup {w}
  BY <1>2, <1>3 DEF EscalateWithRoles
<1>5. Kept
  BY <1>1, SameIsKept
<1>6. Steps' = Steps
  BY <1>1, <1>5, KeptSets
<1>7. waiting' \subseteq Inserts /\ WaitFits'
  BY <1>1, <1>2, <1>3, <1>4, <1>6 DEF IInv, TypeOK, WaitFits
<1> QED BY <1>1, <1>5, <1>7, NoneFits, IdleKeeps

LEMMA ResumesKeeps ==
    ASSUME IInv, NEW w \in waiting, EscalateResumes(w)
    PROVE  IInv' /\ Kept
<1>1. /\ TypeOK /\ Idle /\ UNCHANGED <<boot, spent>> /\ waiting' = waiting \ {w}
      /\ w \in Inserts /\ w \in Tasks /\ w.run \in Steps /\ w.act.by = "operator"
      /\ w.op = "insert" /\ w.act \in Acts
  BY DEF IInv, EscalateResumes, TypeOK, WaitFits, Inserts, Tasks
<1>2. PICK i \in Steps : i = w.run /\ i \in Ids
  BY <1>1 DEF Steps
<1>3. Kept /\ QueueFits'
  <2>1. CASE Claimable(i)
    <3>1. runs' = Claimed(i) /\ ready' = <<w>>
      BY <1>2, <2>1 DEF EscalateResumes
    <3>2. Claims(i)
      BY <1>1, <1>2, <3>1, ClaimIs DEF Reasons
    <3>3. InsertFits(i, w.act)'
      BY <1>1, <2>1, <3>2, InsertOk DEF Claimable
    <3>4. TaskFits(w)'
      BY <1>1, <1>2, <3>2, <3>3 DEF TaskFits, Claims, Kept
    <3> QED BY <1>1, <3>1, <3>2, <3>4, StartFits DEF Claims
  <2>2. CASE ~Claimable(i)
    <3>1. UNCHANGED <<runs, ready>>
      BY <1>2, <2>2 DEF EscalateResumes
    <3> QED BY <1>1, <3>1, SameIsKept, NoneFits
  <2> QED BY <2>1, <2>2
<1>4. waiting' \subseteq Inserts /\ WaitFits'
  BY <1>1, <1>3, KeptSets DEF IInv, TypeOK, WaitFits
<1> QED BY <1>1, <1>3, <1>4, IdleKeeps

LEMMA AnswerKeeps ==
    ASSUME IInv, NEW a \in Ids, NEW action \in {"retry", "skip", "abort"}, Answer(a, action)
    PROVE  IInv' /\ Kept
<1>1. /\ TypeOK /\ Idle /\ UNCHANGED <<waiting, boot>> /\ runs[a].origin = "discovery"
      /\ spent' = [spent EXCEPT !.ops = @ + 1] /\ a \in Nat /\ runs[a] \in RunRows
  BY RunsAre DEF IInv, Answer, Asked, Authoritative
<1>2. PICK i \in Ids : i = runs[a].parent
  BY <1>1, ParentOfAdvisory
<1>3. CASE ~Eligible(i, action)
  <2>1. runs' = Set(a, "card", "settled") /\ ready' = <<Task("close", a)>>
    BY <1>2, <1>3 DEF Answer, Set
  <2>2. Kept
    BY <1>1, <2>1, CardIs
  <2>3. PICK t \in Tasks : t = Task("close", a) /\ t.op = "close" /\ t.run = a
    BY <1>1, TaskIs
  <2>4. TaskFits(t)'
    BY <2>2, <2>3 DEF TaskFits, Kept
  <2> QED BY <1>1, <2>1, <2>2, <2>3, <2>4, StartFits, RestKeeps
<1>4. CASE Eligible(i, action)
  <2> DEFINE x == [runs[a] EXCEPT !.card = "settled"]
             y == [runs[i] EXCEPT !.handled = TRUE]
             rs == [runs EXCEPT ![a] = x]
  <2>1. runs' = [rs EXCEPT ![i].handled = TRUE]
    BY <1>2, <1>4 DEF Answer
  <2>2. ready' = IF action = "abort" THEN <<Task("mark", i), Task("close", a)>>
                 ELSE <<Insert(i, Decided(i, action)), Task("close", a)>>
    BY <1>2, <1>4 DEF Answer
  <2>3. i \in Steps /\ i # a /\ runs[i] \in RunRows /\ i \in Nat
    BY <1>1, <1>2, <1>4, RunsAre DEF Eligible, Steps
  <2>4. x \in RunRows /\ RowKept(runs[a], x)
    BY <1>1 DEF RunRows, RowKept, RowHolds
  <2>5. /\ y \in RunRows /\ RowKept(runs[i], y)
        /\ y.handled /\ y.stop = runs[i].stop /\ y.notes = runs[i].notes
    BY <2>3 DEF RunRows, RowKept, RowHolds
  <2>6. runs \in Seq(RunRows) /\ a \in 1..Len(runs) /\ i \in 1..Len(runs)
    BY <1>1, <2>3 DEF TypeOK, Ids, Steps
  <2>7. /\ rs \in Seq(RunRows) /\ Len(rs) = Len(runs)
        /\ \A j \in 1..Len(runs) : rs[j] = IF j = a THEN x ELSE runs[j]
    BY <2>4, <2>6, ExceptSeq
  <2>8. runs' = [rs EXCEPT ![i] = y]
    <3>1. rs[i] = runs[i]
      BY <2>3, <2>6, <2>7
    <3> QED BY <2>1, <3>1
  <2> HIDE DEF x, y, rs
  <2>9. /\ runs' \in Seq(RunRows) /\ Len(runs') = Len(rs)
        /\ \A j \in 1..Len(rs) : runs'[j] = IF j = i THEN y ELSE rs[j]
    BY <2>5, <2>6, <2>7, <2>8, ExceptSeq
  <2>10. Kept
    <3>1. Ids' = Ids
      BY <2>7, <2>9 DEF Ids
    <3>2. ASSUME NEW j \in Ids PROVE RowKept(runs[j], runs'[j])
      <4>1. runs'[j] = IF j = i THEN y ELSE IF j = a THEN x ELSE runs[j]
        BY <2>7, <2>9 DEF Ids
      <4>2. RowKept(runs[j], runs[j])
        BY DEF RowKept, RowHolds
      <4> QED BY <2>4, <2>5, <4>1, <4>2
    <3> QED BY <2>9, <3>1, <3>2 DEF Kept
  <2>11. Claims(i)
    BY <2>5, <2>6, <2>7, <2>9, <2>10 DEF Claims
  <2>12. PICK t \in Tasks :
          /\ t = IF action = "abort" THEN Task("mark", i) ELSE Insert(i, Decided(i, action))
          /\ TaskFits(t)' /\ OfAnswer(t)
    BY <1>4, <2>3, <2>11, EscalationFits
  <2>13. ready' = <<t, Task("close", a)>>
    BY <2>2, <2>12
  <2>14. QueueFits'
    BY <1>1, <2>10, <2>12, <2>13, StartWithClose DEF Kept
  <2> QED BY <1>1, <2>10, <2>14, RestKeeps
<1> QED BY <1>3, <1>4

LEMMA OperatorKeeps ==
    ASSUME IInv, Operator
    PROVE  IInv' /\ Kept
BY FollowUpKeeps, EscalateKeeps, EscalateWithRolesKeeps, AnswerKeeps DEF Operator

-----------------------------------------------------------------------------
(* A crash, the sweeps and the beginning *)

LEMMA CrashKeeps ==
    ASSUME IInv, Crash
    PROVE  IInv' /\ Kept
<1>1. /\ TypeOK /\ spent.crashes \in Nat /\ spent' = [spent EXCEPT !.crashes = @ + 1]
      /\ ready' = <<>> /\ waiting' = {} /\ boot' = [phase |-> "start", left |-> {}]
      /\ UNCHANGED runs
  BY DEF IInv, TypeOK, Crash
<1>2. Kept
  BY <1>1, SameIsKept
<1>3. TypeOK'
  BY <1>1 DEF TypeOK
<1>4. QueueFits' /\ WaitFits' /\ BootFits'
  BY <1>1 DEF QueueFits, WaitFits, BootFits
<1>5. BudgetFits'
  <2>1. AutoRetried' = AutoRetried /\ Daemons' = Daemons
    BY <1>1, <1>2, KeptSets
  <2>2. Cardinality(AutoRetried') = Cardinality(AutoRetried)
        /\ Cardinality(Daemons') = Cardinality(Daemons)
    BY <2>1
  <2>3. spent'.crashes = spent.crashes + 1 /\ ~Recording'
    BY <1>1 DEF TypeOK, Recording
  <2>4. Cardinality(Daemons) <= Cardinality(AutoRetried) + (spent.crashes + 1)
        /\ Cardinality(AutoRetried) <= AutoBudget
    BY <1>1, Finite DEF IInv, BudgetFits
  <2>5. Cardinality(Daemons) <= Cardinality(AutoRetried) + (spent.crashes + 1) + 0
    BY <1>1, <2>4, Finite
  <2> QED BY <2>2, <2>3, <2>4, <2>5 DEF BudgetFits
<1> QED BY <1>1, <1>2, <1>3, <1>4, <1>5, KeptHolds, LineFitsKept, ReviewsFitKept, GatedKept,
           DeclinesFitKept, OneAdvisoryKept DEF IInv

LEMMA AfterIs ==
    ASSUME NEW phase \in {"start", "waves", "transitions", "halts", "discovery", "advisories"}
    PROVE  After(phase) \in {"waves", "transitions", "halts", "discovery", "advisories", "done"}
<1> DEFINE n == CHOOSE k \in DOMAIN Stages : Stages[k] = phase
<1>1. \E k \in DOMAIN Stages : Stages[k] = phase
  <2>1. DOMAIN Stages = 1..7
    BY DEF Stages
  <2>2. /\ Stages[1] = "start" /\ Stages[2] = "waves" /\ Stages[3] = "transitions"
        /\ Stages[4] = "halts" /\ Stages[5] = "discovery" /\ Stages[6] = "advisories"
    BY DEF Stages
  <2>3. 1 \in 1..7 /\ 2 \in 1..7 /\ 3 \in 1..7 /\ 4 \in 1..7 /\ 5 \in 1..7 /\ 6 \in 1..7
    OBVIOUS
  <2> QED BY <2>1, <2>2, <2>3
<1>2. n \in DOMAIN Stages /\ Stages[n] = phase
  BY <1>1
<1> HIDE DEF n
<1>3. n \in 1..6
  BY <1>2 DEF Stages
<1>4. Stages[1 + n] \in {"waves", "transitions", "halts", "discovery", "advisories", "done"}
  BY <1>3 DEF Stages
<1> QED BY <1>4 DEF After, n

LEMMA BootKeeps ==
    ASSUME IInv, NextSweep \/ SweepOne
    PROVE  IInv' /\ Kept
<1>1. TypeOK /\ UNCHANGED <<runs, waiting, spent>> /\ ready = <<>> /\ Ids \subseteq Nat
      /\ spent \in [ops : Nat, crashes : Nat]
  BY RunsAre DEF IInv, NextSweep, SweepOne, TypeOK
<1>2. Kept /\ ~Recording
  BY <1>1, SameIsKept DEF Recording
<1>3. Ids' = Ids /\ Steps' = Steps /\ Steps \subseteq Ids
  BY <1>1, <1>2, KeptSets DEF Kept, Steps
<1> DEFINE Phases == {"start", "waves", "transitions", "halts", "discovery", "advisories",
                      "done"}
<1>4. CASE NextSweep
  <2>1. PICK next \in {"waves", "transitions", "halts", "discovery", "advisories", "done"} :
          next = After(boot.phase)
    <3>1. boot.phase \in Phases /\ boot.phase # "done"
      BY <1>1, <1>4 DEF TypeOK, NextSweep
    <3> QED BY <3>1, AfterIs
  <2> DEFINE S == IF next \in DOMAIN Candidates THEN Candidates[next] ELSE {}
  <2>0. /\ S \in SUBSET Ids /\ (next = "halts" => S \subseteq Steps)
        /\ (S # {} => next \in {"transitions", "halts", "discovery", "advisories"})
    <3>1. DOMAIN Candidates = {"transitions", "halts", "discovery", "advisories"}
      BY DEF Candidates
    <3>2. /\ Candidates["transitions"] \subseteq Ids /\ Candidates["halts"] \subseteq Steps
          /\ Candidates["discovery"] \subseteq Steps /\ Candidates["advisories"] \subseteq Steps
      BY DEF Candidates
    <3> QED BY <1>3, <3>1, <3>2
  <2>11. boot' = [phase |-> next, left |-> S]
    BY <1>4, <2>1 DEF NextSweep
  <2> HIDE DEF S
  <2>2. PICK left \in SUBSET Ids :
          /\ left = S /\ (next = "halts" => left \subseteq Steps)
          /\ (left # {} => next \in {"transitions", "halts", "discovery", "advisories"})
    BY <2>0
  <2>3. boot' = [phase |-> next, left |-> left] /\ ready' = <<>>
    BY <1>1, <1>4, <2>11, <2>2 DEF NextSweep
  <2>4. boot' \in [phase : Phases, left : SUBSET Nat]
    BY <1>1, <2>1, <2>2, <2>3
  <2>5. BootFits'
    BY <1>3, <2>2, <2>3 DEF BootFits, Sweep
  <2>6. QueueFits'
    BY <2>3 DEF QueueFits
  <2> QED BY <1>1, <1>2, <2>4, <2>5, <2>6, KeptKeeps, WaitKept DEF IInv
<1>5. CASE SweepOne
  <2>1. PICK i \in boot.left :
          /\ boot' = [boot EXCEPT !.left = @ \ {i}]
          /\ ready' = <<[op |-> Sweep[boot.phase], run |-> i, status |-> "completed"]>>
    BY <1>5 DEF SweepOne
  <2>2. /\ i \in Ids /\ boot.phase \in DOMAIN Sweep
        /\ (boot.phase = "halts" => i \in Steps)
    BY <2>1 DEF IInv, BootFits
  <2>3. /\ Sweep[boot.phase] \in {"terminal", "recover", "request", "revisit"}
        /\ (Sweep[boot.phase] = "recover" => boot.phase = "halts")
    BY <2>2 DEF Sweep
  <2>4. PICK op \in {"terminal", "recover", "request", "revisit"} :
          op = Sweep[boot.phase] /\ (op = "recover" => i \in Steps)
    BY <2>2, <2>3
  <2> DEFINE r == [op |-> op, run |-> i, status |-> "completed"]
  <2>5. r \in Tasks /\ r.op = op /\ r.run = i
    BY <1>1, <2>2, <2>4 DEF Tasks, Statuses
  <2>6. PICK t \in Tasks : t = r /\ t.op = op /\ t.run = i
    BY <2>5
  <2>7. TaskFits(t)'
    BY <1>3, <2>2, <2>4, <2>6 DEF TaskFits
  <2>8. QueueFits'
    BY <2>1, <2>4, <2>6, <2>7, StartFits
  <2>9. boot' \in [phase : Phases, left : SUBSET Nat]
    BY <1>1, <2>1 DEF TypeOK
  <2>10. BootFits'
    BY <1>1, <1>3, <2>1 DEF IInv, BootFits, TypeOK
  <2> QED BY <1>1, <1>2, <2>8, <2>9, <2>10, KeptKeeps, WaitKept DEF IInv
<1> QED BY <1>4, <1>5

LEMMA BeginIs ==
    ASSUME Init
    PROVE  /\ TypeOK /\ Ids = {1, 2} /\ Steps = {1, 2} /\ ~runs[2].handled /\ runs[1].handled
           /\ runs[1].parent = 0 /\ runs[2].parent = 1 /\ runs[1].worker = "start"
           /\ ready = <<>> /\ waiting = {} /\ boot.left = {} /\ boot.phase = "done"
           /\ \A i \in Ids : /\ runs[i].stop = "none" /\ runs[i].origin = "chain"
                             /\ runs[i].notes = {} /\ runs[i].review = 0
<1>1. PICK worker \in Starts :
        LET root == NewRun(Act("chain", "start", 0, MaxDepth), 0)
        IN runs = <<[root EXCEPT !.status = "completed", !.handled = TRUE],
                    NewRun(Act("chain", worker, 1, MaxDepth), 1)>>
  BY DEF Init
<1> DEFINE root == [NewRun(Act("chain", "start", 0, MaxDepth), 0)
                       EXCEPT !.status = "completed", !.handled = TRUE]
           first == NewRun(Act("chain", worker, 1, MaxDepth), 1)
<1>2. worker \in Workers /\ MaxDepth \in Nat /\ "start" \in Workers
  BY ChainAssumption DEF Workers, Edge
<1>3. /\ root \in RunRows /\ root.handled /\ root.parent = 0 /\ root.worker = "start"
      /\ root.stop = "none" /\ root.origin = "chain" /\ root.notes = {} /\ root.review = 0
  BY <1>2 DEF NewRun, Act, RunRows, Statuses, Reasons
<1>4. /\ first \in RunRows /\ ~first.handled /\ first.parent = 1
      /\ first.stop = "none" /\ first.origin = "chain" /\ first.notes = {}
      /\ first.review = 0
  BY <1>2 DEF NewRun, Act, RunRows, Statuses, Reasons
<1>5. runs = <<root, first>>
  BY <1>1
<1> HIDE DEF root, first
<1>6. runs \in Seq(RunRows) /\ Len(runs) = 2 /\ runs[1] = root /\ runs[2] = first
  BY <1>3, <1>4, <1>5
<1>7. Ids = {1, 2}
  BY <1>6 DEF Ids
<1>8. Steps = {1, 2}
  BY <1>3, <1>4, <1>6, <1>7 DEF Steps
<1>9. TypeOK
  BY <1>6 DEF Init, TypeOK
<1> QED BY <1>3, <1>4, <1>6, <1>7, <1>8, <1>9 DEF Init

LEMMA Begins ==
    ASSUME Init
    PROVE  IInv
<1>1. LineFits
  <2>1. \E i \in Steps : IsNewest(i)
    <3>1. Steps = {1, 2}
      BY BeginIs
    <3>2. 2 \in Steps /\ \A j \in Steps : j <= 2
      BY <3>1
    <3> QED BY <3>2 DEF IsNewest
  <2>2. \A i, j \in Steps : i < j => runs[i].handled
    BY BeginIs
  <2>3. \A i, j \in Steps : runs[i].parent = runs[j].parent => i = j
    BY BeginIs
  <2>4. RowFits(1) /\ RowFits(2)
    BY BeginIs DEF RowFits
  <2> QED BY <2>1, <2>2, <2>3, <2>4, BeginIs DEF LineFits
<1>2. ~EndsFeature(1) /\ ~EndsFeature(2)
  BY BeginIs DEF EndsFeature, OfPlan
<1>3. ReviewsFit
  BY <1>2, BeginIs DEF ReviewsFit, ReviewFits
<1>4. GatedHere
  BY <1>2, BeginIs DEF GatedHere, Gated
<1>5. DeclinesFit /\ OneAdvisory
  BY BeginIs DEF DeclinesFit, OneAdvisory
<1>6. QueueFits /\ WaitFits /\ BootFits
  BY BeginIs DEF QueueFits, WaitFits, BootFits
<1>7. BudgetFits
  <2>1. AutoRetried = {} /\ Daemons = {} /\ ~Recording
    BY BeginIs DEF AutoRetried, Daemons, Recording
  <2>2. Cardinality(AutoRetried) = 0 /\ Cardinality(Daemons) = 0
    BY <2>1, FS_EmptySet
  <2>3. spent.crashes = 0 /\ AutoBudget \in Nat
    BY ChainAssumption DEF Init
  <2> QED BY <2>1, <2>2, <2>3 DEF BudgetFits
<1> QED BY <1>1, <1>3, <1>4, <1>5, <1>6, <1>7, BeginIs DEF IInv

LEMMA NextKeeps ==
    ASSUME IInv, Next
    PROVE  /\ IInv'
           /\ \/ Holds
              \/ \E i \in Ids, act \in Acts, n \in Nat : InsertFits(i, act) /\ Adds(n, i, act)
BY ContinueKeeps, RunsKeep, OperatorKeeps, BootKeeps, CrashKeeps, ResumesKeeps, KeptHolds
   DEF Next, Boot

LEMMA Inductive ==
    ASSUME IInv, [Next]_vars
    PROVE  IInv'
<1>1. CASE Next
  BY <1>1, NextKeeps
<1>2. CASE UNCHANGED vars
  <2> USE <1>2 DEF vars, IInv
  <2>1. TypeOK' /\ OneAdvisory'
    BY DEF TypeOK, OneAdvisory, Ids
  <2>2. LineFits'
    BY DEF LineFits, IsNewest, RowFits, Steps, Ids
  <2>3. ReviewsFit' /\ GatedHere'
    BY DEF ReviewsFit, ReviewFits, EndsFeature, OfPlan, Steps, Ids, GatedHere, Gated
  <2>4. DeclinesFit' /\ WaitFits' /\ BootFits'
    BY DEF DeclinesFit, WaitFits, BootFits, Steps, Ids
  <2>5. QueueFits'
    BY DEF QueueFits, OfAnswer, TaskFits, InsertFits, RecordFits, AutoRetried, Advisories,
       IsNewest, EndsFeature, OfPlan, Steps, Ids
  <2>6. BudgetFits'
    BY DEF BudgetFits, Recording, Daemons, AutoRetried, Ids
  <2> QED BY <2>1, <2>2, <2>3, <2>4, <2>5, <2>6
<1> QED BY <1>1, <1>2

(* The inductive invariant, which includes the type of every variable.     *)
THEOREM IInvHolds == Spec => []IInv
<1>1. Init => IInv
  BY Begins
<1>2. IInv /\ [Next]_vars => IInv'
  BY Inductive
<1> QED BY <1>1, <1>2, PTL DEF Spec

-----------------------------------------------------------------------------
(* The properties *)

(* What the daemon has declined to recover it never recovers later,        *)
(* whichever of the live path, the sweeps and the operator comes first.    *)
THEOREM ADeclineIsFinal == Spec => []DeclineIsFinal
<1>1. IInv => DeclineIsFinal
  BY DEF IInv, DeclinesFit, DeclineIsFinal
<1> QED BY <1>1, IInvHolds, PTL

(* A halt gets one advisory, live, by a sweep, or after any crash.         *)
THEOREM OnlyOneAdvisory == Spec => []OneAdvisory
<1>1. IInv => OneAdvisory
  BY DEF IInv
<1> QED BY <1>1, IInvHolds, PTL

(* The daemon's own retries and skips stay within the budget of the        *)
(* pipeline, and a crash that loses the record of one costs one more: the  *)
(* recovery that is inserted and not recorded is still within it.          *)
THEOREM TheBudgetBounds == Spec => []RecoveryBudget
<1>1. IInv => RecoveryBudget
  <2> SUFFICES ASSUME IInv PROVE RecoveryBudget
    OBVIOUS
  <2>1. TypeOK /\ BudgetFits /\ spent.crashes \in Nat /\ AutoBudget \in Nat
    BY ChainAssumption DEF IInv, TypeOK
  <2>2. Cardinality(AutoRetried) \in Nat /\ Cardinality(Daemons) \in Nat
    BY <2>1, Finite
  <2>3. Recording => Cardinality(AutoRetried) < AutoBudget
    BY DEF IInv, Recording, QueueFits, TaskFits, RecordFits
  <2>4. Cardinality(Daemons) <= AutoBudget + spent.crashes
    <3>1. CASE Recording
      <4>1. Cardinality(Daemons) <= Cardinality(AutoRetried) + spent.crashes + 1
        BY <2>1, <3>1 DEF BudgetFits
      <4> QED BY <2>1, <2>2, <2>3, <3>1, <4>1
    <3>2. CASE ~Recording
      <4>1. Cardinality(Daemons) <= Cardinality(AutoRetried) + spent.crashes + 0
            /\ Cardinality(AutoRetried) <= AutoBudget
        BY <2>1, <3>2 DEF BudgetFits
      <4> QED BY <2>1, <2>2, <4>1
    <3> QED BY <3>1, <3>2
  <2> QED BY <2>4 DEF RecoveryBudget, Daemons
<1> QED BY <1>1, IInvHolds, PTL

(* The review of a finished feature leads to the final gate and never back *)
(* to planning, also when a crash lost the event that marks it.  Where the *)
(* gate does not resolve (a "target" fault) the code falls through to the  *)
(* plain transition, and does go back to planning.                         *)
THEOREM AReviewedFeatureIsGated ==
    ASSUME "target" \notin Faults
    PROVE  Spec => []ReviewedFeatureIsGated
<1>1. IInv => ReviewedFeatureIsGated
  BY DEF IInv, GatedHere, Gated, EndsFeature, OfPlan, ReviewedFeatureIsGated
<1> QED BY <1>1, IInvHolds, PTL

-----------------------------------------------------------------------------
(* The line of steps *)

LEMMA Largest ==
    ASSUME NEW S, S \subseteq Nat, NEW n \in S, \A j \in S : j <= n
    PROVE  (CHOOSE i \in S : \A j \in S : j <= i) = n
<1> DEFINE m == CHOOSE i \in S : \A j \in S : j <= i
<1>1. m \in S /\ \A j \in S : j <= m
  OBVIOUS
<1>2. m <= n /\ n <= m /\ m \in Nat /\ n \in Nat
  BY <1>1
<1> HIDE DEF m
<1>3. m = n
  BY <1>2
<1> QED BY <1>3 DEF m

LEMMA NewestIs ==
    ASSUME IInv
    PROVE  Newest \in Steps /\ \A j \in Steps : j <= Newest
<1>1. PICK n \in Steps : \A j \in Steps : j <= n
  BY DEF IInv, LineFits, IsNewest
<1> QED BY <1>1 DEF Newest

(* A step that adds no run decides the newest step, aborts it, or does     *)
(* nothing to the line.                                                    *)
LEMMA HoldsRefines ==
    ASSUME IInv, Holds
    PROVE  [OneLine!Next]_<<Steps, Phase>>
<1>1. TypeOK /\ LineFits /\ Steps \subseteq Ids /\ Steps \subseteq Nat
  BY RunsAre DEF IInv, Steps
<1>2. Steps' = Steps
  BY <1>1, HoldsSteps
<1>3. PICK n \in Steps : n = Newest /\ \A j \in Steps : j <= n
  BY NewestIs
<1>4. Newest' = n
  <2>1. n \in Steps' /\ Steps' \subseteq Nat /\ \A j \in Steps' : j <= n
    BY <1>1, <1>2, <1>3
  <2> QED BY <2>1, Largest DEF Newest
<1>5. RowHolds(runs[n], runs'[n]) /\ RowFits(n)
  BY <1>1 DEF LineFits, Holds
<1>6. Phase = IF ~runs[n].handled THEN "open"
              ELSE IF runs[n].stop = "abort" THEN "aborted" ELSE "decided"
  BY <1>3 DEF Phase
<1>7. Phase' = IF ~runs'[n].handled THEN "open"
               ELSE IF runs'[n].stop = "abort" THEN "aborted" ELSE "decided"
  BY <1>4 DEF Phase
<1>8. CASE ~runs[n].handled
  <2>1. Phase = "open" /\ Phase' \in {"open", "decided"}
    BY <1>5, <1>6, <1>7, <1>8 DEF RowHolds, RowFits
  <2> QED BY <1>2, <2>1 DEF OneLine!Next, OneLine!Decide
<1>9. CASE runs[n].handled /\ runs[n].stop = "abort"
  <2>1. Phase = "aborted" /\ Phase' = "aborted"
    BY <1>5, <1>6, <1>7, <1>9 DEF RowHolds
  <2> QED BY <1>2, <2>1
<1>10. CASE runs[n].handled /\ runs[n].stop # "abort"
  <2>1. Phase = "decided" /\ Phase' \in {"decided", "aborted"}
    BY <1>5, <1>6, <1>7, <1>10 DEF RowHolds
  <2> QED BY <1>2, <2>1 DEF OneLine!Next, OneLine!Abort
<1> QED BY <1>8, <1>9, <1>10

(* A run that is added grows the line, or is an advisory beside it.        *)
LEMMA AddsRefines ==
    ASSUME IInv, NEW i \in Ids, NEW act \in Acts, NEW n \in Nat, InsertFits(i, act),
           Adds(n, i, act)
    PROVE  [OneLine!Next]_<<Steps, Phase>>
<1>1. TypeOK /\ LineFits /\ Steps \subseteq Ids /\ Steps \subseteq Nat
  BY RunsAre DEF IInv, Steps
<1>2. /\ \A j \in Ids : runs'[j] = runs[j] /\ j < n
      /\ ~runs'[n].handled
  BY <1>1, AddIs
<1>3. CASE act.by = "discovery"
  <2>1. Steps' = Steps
    BY <1>1, <1>3, StepsAdded
  <2>2. PICK m \in Steps : m = Newest /\ \A j \in Steps : j <= m
    BY NewestIs
  <2>3. Newest' = m
    <3>1. m \in Steps' /\ Steps' \subseteq Nat /\ \A j \in Steps' : j <= m
      BY <1>1, <2>1, <2>2
    <3> QED BY <3>1, Largest DEF Newest
  <2>4. runs'[m] = runs[m]
    BY <1>1, <1>2
  <2>5. Phase' = Phase
    BY <2>2, <2>3, <2>4 DEF Phase
  <2> QED BY <2>1, <2>5
<1>4. CASE act.by # "discovery"
  <2>1. i \in Steps /\ runs[i].handled /\ IsNewest(i) /\ runs[i].stop # "abort"
    BY <1>4 DEF InsertFits
  <2>2. Steps' = Steps \cup {n}
    BY <1>1, <1>4, StepsAdded
  <2>3. Newest = i
    BY <1>1, <2>1, Largest DEF Newest, IsNewest
  <2>4. Phase = "decided"
    BY <2>1, <2>3 DEF Phase
  <2>5. \A j \in Steps : j < n
    BY <1>1, <1>2
  <2>6. Newest' = n
    <3>1. n \in Steps' /\ Steps' \subseteq Nat /\ \A j \in Steps' : j <= n
      BY <1>1, <2>2, <2>5
    <3> QED BY <3>1, Largest DEF Newest
  <2>7. Phase' = "open"
    BY <1>2, <2>6 DEF Phase
  <2> QED BY <2>2, <2>4, <2>5, <2>7 DEF OneLine!Next, OneLine!Grow
<1> QED BY <1>3, <1>4

(* The steps of a pipeline form one line, whoever extends it: the live     *)
(* transition, its replay at boot, the daemon's recovery, the operator, an *)
(* answered briefing; and nothing follows an aborted step.                 *)
THEOREM StepsFormOneLine == Spec => ImplementsLineage
<1>1. Init => OneLine!Init
  <2> SUFFICES ASSUME Init PROVE OneLine!Init
    OBVIOUS
  <2>1. Steps = {1, 2} /\ ~runs[2].handled
    BY BeginIs
  <2>2. Newest = 2
    <3>1. {1, 2} \subseteq Nat /\ 2 \in {1, 2} /\ \A j \in {1, 2} : j <= 2
      OBVIOUS
    <3> QED BY <2>1, <3>1, Largest DEF Newest
  <2>3. Phase = "open"
    BY <2>1, <2>2 DEF Phase
  <2> QED BY <2>1, <2>3 DEF OneLine!Init
<1>2. IInv /\ [Next]_vars => [OneLine!Next]_<<Steps, Phase>>
  <2> SUFFICES ASSUME IInv, [Next]_vars PROVE [OneLine!Next]_<<Steps, Phase>>
    OBVIOUS
  <2>1. CASE Next
    BY <2>1, NextKeeps, HoldsRefines, AddsRefines
  <2>2. CASE UNCHANGED vars
    <3>1. Kept
      BY <2>2, SameIsKept DEF vars, IInv
    <3> QED BY <3>1, KeptHolds, HoldsRefines
  <2> QED BY <2>1, <2>2
<1>3. Spec => OneLine!Spec
  BY <1>1, <1>2, IInvHolds, PTL DEF Spec, OneLine!Spec
<1> QED BY <1>3 DEF ImplementsLineage
=============================================================================
