------------------------- MODULE FeatureQueue_proof -------------------------
(***************************************************************************)
(* Proofs about FeatureQueue, for every number of features, entries,       *)
(* requests and crashes, and every order the pipelines may take.           *)
(*                                                                         *)
(* Two relations carry most of it.  Evolves says what a step may make of   *)
(* the entries: which edges of the state diagram there are, and that an    *)
(* entry keeps its feature, its dependencies and its origin.  Onward says  *)
(* what it may make of the pipelines until a crash: one that has come to   *)
(* rest stays at rest.                                                     *)
(***************************************************************************)
EXTENDS FeatureQueue, FiniteSetTheorems, SequenceTheorems, WellFoundedInduction, TLAPS

States  == {"queued", "running", "done", "failed", "blocked", "cancelled"}
Reasons == [kind : {"none", "failed", "blocked", "cancelled"}, on : Features \cup {"none"}]
Row     == [feature : Features, after : Seq(Features), pos : Nat, state : States,
            run : Nat, cause : Reasons, origin : {"queue", "direct"}]
Pipe    == [kind : {"root", "step", "gate", "tail"},
            status : {"live", "completed", "failed", "cancelled"},
            flight : BOOLEAN, decided : BOOLEAN, bad : BOOLEAN,
            gate : {"none", "complete", "blocked"}, mark : {"none", "complete", "halt"}]
Tasks   == [pc : {"settle", "resume", "start", "again", "record", "trigger"}, root : Nat,
            completed : BOOLEAN, entry : Nat, left : Nat]

TypeOK ==
    /\ rows \in Seq(Row)
    /\ pipes \in Seq(Pipe)
    /\ ready = <<>> \/ \E t \in Tasks : ready = <<t>>
    /\ preflight \subseteq Tasks
    /\ boot \in [stage : {"up", "waves", "missed", "halts"}, owed : SUBSET Nat, at : Nat]
    /\ used \in [ops : Nat, other : Nat, crashes : Nat]

(* What the next continuation of the runner is at: pc is none of "trigger" *)
At(pc) == ready # <<>> /\ Head(ready).pc = pc

(* An entry that waits has never been started.                             *)
WaitingIsNew ==
    \A i \in In(rows, {"queued", "blocked"}) : rows[i].origin = "queue" /\ rows[i].run = NoRun

RunsExist == \A i \in Entries : rows[i].run \in {NoRun} \cup Roots

(* One entry of the queue is running, and a kickoff that awaits its        *)
(* preflight is that of this entry.                                        *)
Ours(rs) == {i \in In(rs, {"running"}) : rs[i].origin = "queue"}

OneRuns == \A i, j \in Ours(rows) : i = j

Claimed(t) == t.entry \in Ours(rows) /\ rows[t.entry].run = NoRun

KickoffsFit ==
    /\ \A t \in preflight : Claimed(t)
    /\ \A t, u \in preflight : t = u
    /\ At("again") => Ours(rows) = {}
    /\ At("again") \/ At("record") => preflight = {}
    /\ At("record") =>
          /\ Head(ready).entry \in Entries
          /\ Head(ready).root \in Roots
          /\ pipes[Head(ready).root].status = "live"

(* What has been started had its dependencies done, and they stay done.    *)
Met(rs, i) == \A d \in Range(rs[i].after) : \E j \in In(rs, {"done"}) : rs[j].feature = d

StartedIsMet == \A i \in In(rows, {"running", "done", "failed"}) : Met(rows, i)

(* A verdict nobody has read yet is on its way to be read.                 *)
Unread(rs, ps) ==
    {i \in In(rs, {"running"}) : rs[i].run # NoRun /\ Verdict(ps[rs[i].run]) # "running"}

VerdictsAreRead ==
    Unread(rows, pipes) # {} =>
        Blocked(pipes) \/ boot.stage # "up" \/ At("settle") \/ At("resume")

(* Until a crash, a pipeline at rest is one the chain runner decided about *)
RestIsDecided ==
    used.crashes = 0 =>
        boot.stage = "up" /\ \A r \in Roots : Active(pipes[r]) \/ pipes[r].decided

IInv ==
    /\ TypeOK
    /\ WaitingIsNew
    /\ RunsExist
    /\ OneRuns
    /\ KickoffsFit
    /\ StartedIsMet
    /\ VerdictsAreRead
    /\ RestIsDecided

(* Entries of the queue whose pipeline goes on                             *)
Going(rs, ps) ==
    {i \in DOMAIN rs : rs[i].origin = "queue" /\ rs[i].run # NoRun /\ Active(ps[rs[i].run])}

(* Until a crash, and without retries of the operator, one of them does,   *)
(* and none while a kickoff is under way.                                  *)
OneGoes ==
    used.crashes = 0 =>
        /\ \A i, j \in Going(rows, pipes) : i = j
        /\ preflight # {} \/ At("again") \/ At("record") => Going(rows, pipes) = {}

(* Unless kickoffs fail or entries are moved, an entry that could start    *)
(* while nothing is running is about to be looked at.                      *)
Startable(rs) == {i \in In(rs, {"queued"}) : Eligible(rs, i)}

Coming ==
    \/ Blocked(pipes) \/ boot.stage # "up"
    \/ At("settle") \/ At("resume") \/ At("start")

StartsComing ==
    /\ ~At("again")
    /\ Startable(rows) # {} /\ In(rows, {"running"}) = {} => Coming

-----------------------------------------------------------------------------
(* Sequences of entries *)

(* A set of numbers has a least one. *)
LEMMA LeastOf ==
    ASSUME NEW T, T \subseteq Nat, T # {}
    PROVE  \E x \in T : \A y \in T : x <= y
<1> DEFINE R == OpToRel(<, Nat)
<1>1. \A x, y \in Nat : y < x => <<y, x>> \in R
  BY DEF OpToRel
<1>2. IsWellFoundedOn(R, Nat)
  BY NatLessThanWellFounded
<1> HIDE DEF R
<1>3. PICK x \in T : \A y \in T : ~ (<<y, x>> \in R)
  BY <1>2, WFMin
<1>4. ASSUME NEW y \in T PROVE x <= y
  <2>1. ~(y < x)
    BY <1>1, <1>3
  <2> QED BY <2>1
<1> QED BY <1>4

(* The members of a sequence are numbered from 1. *)
LEMMA EntriesOf ==
    ASSUME NEW S, NEW rs \in Seq(S)
    PROVE  /\ DOMAIN rs = 1..Len(rs) /\ Len(rs) \in Nat
           /\ \A i \in DOMAIN rs : rs[i] \in S
BY LenProperties, ElementOfSeq

(* The first of some entries is one of them. *)
LEMMA FirstIs ==
    ASSUME NEW rs \in Seq(Row), NEW S, S \subseteq DOMAIN rs, S # {}
    PROVE  First(rs, S) \in S
<1> DEFINE T == {rs[i].pos : i \in S}
<1>1. \A i \in S : rs[i].pos \in Nat
  <2>1. \A i \in DOMAIN rs : rs[i] \in Row
    BY EntriesOf
  <2> QED BY <2>1 DEF Row
<1>2. T \subseteq Nat /\ T # {}
  BY <1>1
<1>3. PICK x \in T : \A y \in T : x <= y
  BY <1>2, LeastOf
<1>4. PICK i \in S : rs[i].pos = x
  OBVIOUS
<1>5. \A j \in S : rs[i].pos <= rs[j].pos
  BY <1>3, <1>4
<1> QED BY <1>5 DEF First

(* Entries that are rewritten one by one *)
LEMMA Rewritten ==
    ASSUME NEW S, NEW rs \in Seq(S), NEW f,
           f = [i \in DOMAIN rs |-> f[i]],
           \A i \in DOMAIN rs : f[i] \in S
    PROVE  f \in Seq(S) /\ DOMAIN f = DOMAIN rs
<1>1. DOMAIN rs = 1..Len(rs) /\ Len(rs) \in Nat
  BY EntriesOf
<1>2. f \in [1..Len(rs) -> S]
  BY <1>1
<1> QED BY <1>1, <1>2, SeqDef

LEMMA Appended ==
    ASSUME NEW S, NEW rs \in Seq(S), NEW x \in S
    PROVE  /\ Append(rs, x) \in Seq(S)
           /\ DOMAIN Append(rs, x) = DOMAIN rs \cup {Len(rs) + 1}
           /\ \A i \in DOMAIN rs : Append(rs, x)[i] = rs[i]
           /\ Append(rs, x)[Len(rs) + 1] = x
           /\ Len(rs) + 1 \notin DOMAIN rs
<1>1. DOMAIN rs = 1..Len(rs) /\ Len(rs) \in Nat
  BY EntriesOf
<1>2. /\ Append(rs, x) \in Seq(S) /\ Len(Append(rs, x)) = Len(rs) + 1
      /\ \A i \in 1..Len(rs) : Append(rs, x)[i] = rs[i]
      /\ Append(rs, x)[Len(rs) + 1] = x
  BY AppendProperties
<1>3. DOMAIN Append(rs, x) = 1..(Len(rs) + 1)
  BY <1>2, EntriesOf
<1> QED BY <1>1, <1>2, <1>3

-----------------------------------------------------------------------------
(* What a step may make of the entries *)

(* An entry keeps what it is *)
Kept(o, n) == n.feature = o.feature /\ n.after = o.after /\ n.origin = o.origin

(* The edges of the state of an entry *)
Edge(o, n) ==
    \/ n.state = o.state /\ n.cause = o.cause
    \/ o.state = "queued" /\ n.state \in {"running", "blocked", "cancelled"}
    \/ o.state = "blocked" /\ n.state = "cancelled"
    \/ /\ o.state = "blocked" /\ o.cause.kind \in {"failed", "blocked"}
       /\ n.state \in {"queued", "blocked"}
    \/ o.state = "running" /\ n.state \in {"done", "failed"}
    \/ o.state = "failed" /\ n.state = "done"

Evolves(rs, new) ==
    /\ new \in Seq(Row)
    /\ DOMAIN rs \subseteq DOMAIN new
    /\ \A i \in DOMAIN rs : Kept(rs[i], new[i]) /\ Edge(rs[i], new[i])

(* The same entries, none of which is started or gets a run *)
NoneStarts(rs, new) ==
    /\ Evolves(rs, new)
    /\ DOMAIN new = DOMAIN rs
    /\ \A i \in DOMAIN rs : /\ new[i].run = rs[i].run
                            /\ new[i].state = "running" => rs[i].state = "running"

LEMMA NoneStartsTwice ==
    ASSUME NEW rs, NEW mid, NEW new, NoneStarts(rs, mid), NoneStarts(mid, new),
           \A i \in DOMAIN rs : mid[i] = rs[i] \/ new[i] = mid[i] \/ Edge(rs[i], new[i])
    PROVE  NoneStarts(rs, new)
BY DEF NoneStarts, Evolves, Kept

LEMMA ParkIs ==
    ASSUME NEW row \in Row, NEW c \in Reasons
    PROVE  /\ Park(row, c) \in Row /\ Kept(row, Park(row, c))
           /\ Park(row, c).state = "blocked" /\ Park(row, c).run = row.run
           /\ Park(row, c).cause = c /\ Park(row, c).pos = row.pos
BY DEF Park, Row, Kept, States

(* settleEntry and parkDependents *)
LEMMA SettledIs ==
    ASSUME NEW rs \in Seq(Row), NEW outcome,
           DOMAIN outcome \subseteq In(rs, {"running"}),
           \A i \in DOMAIN outcome : outcome[i] \in {"done", "failed"}
    PROVE  /\ NoneStarts(rs, Settled(rs, outcome))
           /\ \A i \in DOMAIN rs :
                 IF i \in DOMAIN outcome THEN Settled(rs, outcome)[i].state = outcome[i]
                 ELSE \/ Settled(rs, outcome)[i] = rs[i]
                      \/ rs[i].state = "queued" /\ Settled(rs, outcome)[i].state = "blocked"
<1> DEFINE blamed(i) == {j \in DOMAIN outcome : /\ outcome[j] = "failed"
                                               /\ rs[j].feature \in Range(rs[i].after)}
           parks(i)  == i \notin DOMAIN outcome /\ rs[i].state = "queued" /\ blamed(i) # {}
           cause(i)  == [kind |-> "failed", on |-> rs[First(rs, blamed(i))].feature]
           new       == Settled(rs, outcome)
<1>1. /\ new = [i \in DOMAIN rs |-> new[i]]
      /\ \A i \in DOMAIN rs :
            new[i] = IF i \in DOMAIN outcome THEN [rs[i] EXCEPT !.state = outcome[i]]
                     ELSE IF parks(i) THEN Park(rs[i], cause(i)) ELSE rs[i]
  BY DEF Settled
<1>2. \A i \in DOMAIN rs : rs[i] \in Row
  BY EntriesOf
<1>3. \A i \in DOMAIN outcome : i \in DOMAIN rs /\ rs[i].state = "running"
  BY DEF In
<1> HIDE DEF new
<1>4. ASSUME NEW i \in DOMAIN rs, i \in DOMAIN outcome
      PROVE  /\ new[i] \in Row /\ Kept(rs[i], new[i]) /\ new[i].run = rs[i].run
             /\ new[i].state = outcome[i]
  <2>1. new[i] = [rs[i] EXCEPT !.state = outcome[i]] /\ rs[i] \in Row
    BY <1>1, <1>2, <1>4
  <2>2. outcome[i] \in States
    BY <1>4 DEF States
  <2> QED BY <2>1, <2>2 DEF Row, Kept
<1>5. ASSUME NEW i \in DOMAIN rs, parks(i)
      PROVE  /\ new[i] \in Row /\ Kept(rs[i], new[i]) /\ new[i].run = rs[i].run
             /\ new[i].state = "blocked"
  <2>1. blamed(i) \subseteq DOMAIN rs /\ blamed(i) # {}
    BY <1>3, <1>5
  <2>2. First(rs, blamed(i)) \in DOMAIN rs
    <3> HIDE DEF blamed
    <3> QED BY <2>1, FirstIs
  <2>3. cause(i) \in Reasons
    <3>1. rs[First(rs, blamed(i))].feature \in Features
      BY <1>2, <2>2 DEF Row
    <3> HIDE DEF blamed
    <3> QED BY <3>1 DEF Reasons
  <2>4. new[i] = Park(rs[i], cause(i))
    BY <1>1, <1>5
  <2> HIDE DEF cause
  <2> QED BY <1>2, <2>3, <2>4, ParkIs
<1>6. ASSUME NEW i \in DOMAIN rs, i \notin DOMAIN outcome, ~parks(i)
      PROVE  new[i] = rs[i]
  BY <1>1, <1>6
<1>7. \A i \in DOMAIN rs :
         /\ new[i] \in Row /\ Kept(rs[i], new[i]) /\ new[i].run = rs[i].run
         /\ IF i \in DOMAIN outcome THEN new[i].state = outcome[i]
            ELSE \/ new[i] = rs[i]
                 \/ rs[i].state = "queued" /\ new[i].state = "blocked"
  BY <1>2, <1>4, <1>5, <1>6 DEF Kept
<1>8. new \in Seq(Row) /\ DOMAIN new = DOMAIN rs
  BY <1>1, <1>7, Rewritten
<1>9. NoneStarts(rs, new)
  BY <1>3, <1>7, <1>8 DEF NoneStarts, Evolves, Edge
<1> QED BY <1>7, <1>9 DEF new

-----------------------------------------------------------------------------
(* The pipelines as the runner reads them *)

LEMMA VerdictIs ==
    ASSUME NEW p \in Pipe
    PROVE  /\ Verdict(p) \in {"running", "done", "failed"}
           /\ p.status = "live" => Verdict(p) = "running"
BY DEF Verdict, Pipe

LEMMA UnreadIs ==
    ASSUME NEW rs, NEW ps \in Seq(Pipe),
           \A i \in DOMAIN rs : rs[i].run \in {NoRun} \cup DOMAIN ps,
           NEW i \in Unread(rs, ps)
    PROVE  Verdict(ps[rs[i].run]) \in {"done", "failed"}
<1>1. i \in DOMAIN rs /\ rs[i].run # NoRun /\ Verdict(ps[rs[i].run]) # "running"
  BY DEF Unread, In
<1>2. ps[rs[i].run] \in Pipe
  BY <1>1, EntriesOf
<1> QED BY <1>1, <1>2, VerdictIs

(* classifyRunningEntry reads every verdict there is. *)
LEMMA ClassifiedIs ==
    ASSUME NEW rs \in Seq(Row), NEW ps \in Seq(Pipe),
           \A i \in DOMAIN rs : rs[i].run \in {NoRun} \cup DOMAIN ps
    PROVE  /\ NoneStarts(rs, Classified(rs, ps))
           /\ \A i \in DOMAIN rs :
                 IF i \in Unread(rs, ps)
                 THEN Classified(rs, ps)[i].state = Verdict(ps[rs[i].run])
                 ELSE \/ Classified(rs, ps)[i] = rs[i]
                      \/ rs[i].state = "queued" /\ Classified(rs, ps)[i].state = "blocked"
           /\ Unread(Classified(rs, ps), ps) = {}
<1> DEFINE outcome == [i \in Unread(rs, ps) |-> Verdict(ps[rs[i].run])]
           new     == Classified(rs, ps)
<1>1. new = Settled(rs, outcome)
  BY DEF Classified, Unread
<1>2. \A i \in Unread(rs, ps) : Verdict(ps[rs[i].run]) \in {"done", "failed"}
  BY UnreadIs
<1>3. Unread(rs, ps) \subseteq In(rs, {"running"})
  BY DEF Unread
<1>4. /\ DOMAIN outcome = Unread(rs, ps)
      /\ \A i \in Unread(rs, ps) : outcome[i] = Verdict(ps[rs[i].run])
  OBVIOUS
<1> HIDE DEF outcome, new
<1>5. /\ NoneStarts(rs, new)
      /\ \A i \in DOMAIN rs :
            IF i \in Unread(rs, ps) THEN new[i].state = outcome[i]
            ELSE \/ new[i] = rs[i]
                 \/ rs[i].state = "queued" /\ new[i].state = "blocked"
  BY <1>1, <1>2, <1>3, <1>4, SettledIs
<1>6. ASSUME NEW i \in Unread(new, ps) PROVE FALSE
  <2>1. /\ i \in DOMAIN new /\ new[i].state = "running"
        /\ new[i].run # NoRun /\ Verdict(ps[new[i].run]) # "running"
    BY DEF Unread, In
  <2>2. i \in DOMAIN rs /\ rs[i].state = "running" /\ new[i].run = rs[i].run
    BY <1>5, <2>1 DEF NoneStarts
  <2>3. i \in Unread(rs, ps)
    BY <2>1, <2>2 DEF Unread, In
  <2> QED BY <1>2, <1>4, <1>5, <2>1, <2>2, <2>3
<1> QED BY <1>4, <1>5, <1>6 DEF new

(* requeueBlockedDependents *)
LEMMA RequeuedIs ==
    ASSUME NEW rs \in Seq(Row), NEW f
    PROVE  /\ NoneStarts(rs, Requeued(rs, f))
           /\ \A i \in DOMAIN rs :
                 \/ Requeued(rs, f)[i] = rs[i]
                 \/ /\ rs[i].state = "blocked" /\ rs[i].cause.kind \in {"failed", "blocked"}
                    /\ Requeued(rs, f)[i].state = "queued"
<1> DEFINE new == Requeued(rs, f)
           back(i) == i \in Parked(rs) /\ rs[i].cause.on \in Reached(rs, f)
<1>1. /\ new = [i \in DOMAIN rs |-> new[i]]
      /\ \A i \in DOMAIN rs :
            new[i] = IF back(i) THEN [rs[i] EXCEPT !.state = "queued", !.cause = NoCause]
                     ELSE rs[i]
  BY DEF Requeued
<1>2. \A i \in DOMAIN rs : rs[i] \in Row
  BY EntriesOf
<1>3. \A i : back(i) => /\ i \in DOMAIN rs
                        /\ rs[i].state = "blocked" /\ rs[i].cause.kind \in {"failed", "blocked"}
  BY DEF Parked, In
<1> HIDE DEF new, back
<1>4. ASSUME NEW i \in DOMAIN rs
      PROVE  /\ new[i] \in Row /\ Kept(rs[i], new[i]) /\ new[i].run = rs[i].run
             /\ \/ new[i] = rs[i]
                \/ /\ rs[i].state = "blocked" /\ rs[i].cause.kind \in {"failed", "blocked"}
                   /\ new[i].state = "queued"
  <2>1. CASE back(i)
    <3>1. new[i] = [rs[i] EXCEPT !.state = "queued", !.cause = NoCause] /\ rs[i] \in Row
      BY <1>1, <1>2, <2>1
    <3>2. NoCause \in Reasons /\ "queued" \in States
      BY DEF NoCause, Reasons, States
    <3>3. new[i] \in Row /\ new[i].state = "queued" /\ new[i].run = rs[i].run
          /\ Kept(rs[i], new[i])
      BY <3>1, <3>2 DEF Row, Kept
    <3> QED BY <1>3, <2>1, <3>3
  <2>2. CASE ~back(i)
    BY <1>1, <1>2, <2>2 DEF Kept
  <2> QED BY <2>1, <2>2
<1>5. new \in Seq(Row) /\ DOMAIN new = DOMAIN rs
  BY <1>1, <1>4, Rewritten
<1>6. NoneStarts(rs, new)
  BY <1>4, <1>5 DEF NoneStarts, Evolves, Edge
<1> QED BY <1>4, <1>6 DEF new

(* recoverFailedEntry: the entry is done, some of its dependents wait anew *)
LEMMA RecoveredIs ==
    ASSUME NEW rs \in Seq(Row), NEW i \in In(rs, {"failed"})
    PROVE  /\ NoneStarts(rs, Recovered(rs, i))
           /\ \A j \in DOMAIN rs :
                 \/ Recovered(rs, i)[j] = rs[j]
                 \/ rs[j].state \in {"failed", "blocked"} /\ Edge(rs[j], Recovered(rs, i)[j])
<1> DEFINE mid == [rs EXCEPT ![i].state = "done"]
           new == Recovered(rs, i)
<1>1. i \in DOMAIN rs /\ rs[i].state = "failed"
  BY DEF In
<1>2. \A j \in DOMAIN rs : rs[j] \in Row
  BY EntriesOf
<1>3. /\ mid = [j \in DOMAIN rs |-> mid[j]]
      /\ \A j \in DOMAIN rs : j # i => mid[j] = rs[j]
      /\ mid[i] = [rs[i] EXCEPT !.state = "done"]
  BY <1>1
<1>4. new = Requeued(mid, rs[i].feature)
  BY DEF Recovered
<1> HIDE DEF mid, new
<1>5. mid[i] \in Row /\ Kept(rs[i], mid[i]) /\ mid[i].state = "done" /\ mid[i].run = rs[i].run
  BY <1>1, <1>2, <1>3 DEF Row, Kept, States
<1>6. mid \in Seq(Row) /\ DOMAIN mid = DOMAIN rs
  BY <1>2, <1>3, <1>5, Rewritten
<1>7. NoneStarts(rs, mid)
  <2>1. \A j \in DOMAIN rs : Kept(rs[j], mid[j]) /\ Edge(rs[j], mid[j]) /\ mid[j].run = rs[j].run
        /\ (mid[j].state = "running" => rs[j].state = "running")
    BY <1>1, <1>3, <1>5 DEF Kept, Edge
  <2> QED BY <1>6, <2>1 DEF NoneStarts, Evolves
<1>8. /\ NoneStarts(mid, new)
      /\ \A j \in DOMAIN mid :
            \/ new[j] = mid[j]
            \/ /\ mid[j].state = "blocked" /\ mid[j].cause.kind \in {"failed", "blocked"}
               /\ new[j].state = "queued"
  BY <1>4, <1>6, RequeuedIs
<1>9. \A j \in DOMAIN rs :
         \/ new[j] = rs[j]
         \/ rs[j].state \in {"failed", "blocked"} /\ Edge(rs[j], new[j])
  BY <1>1, <1>3, <1>5, <1>6, <1>8 DEF Edge
<1>10. NoneStarts(rs, new)
  <2>1. \A j \in DOMAIN rs : mid[j] = rs[j] \/ new[j] = mid[j]
    BY <1>1, <1>3, <1>5, <1>6, <1>8
  <2> QED BY <1>7, <1>8, <2>1, NoneStartsTwice
<1> QED BY <1>9, <1>10 DEF new

(* What a search leaves of the rows it passes over *)
LEMMA SearchedIs ==
    ASSUME NEW rs \in Seq(Row), NEW passed, passed \subseteq In(rs, {"queued"}),
           NEW new \in Searched(rs, passed)
    PROVE  /\ NoneStarts(rs, new)
           /\ \A i \in DOMAIN rs :
                 \/ new[i] = rs[i]
                 \/ i \in passed /\ new[i].state = "blocked" /\ new[i].pos = rs[i].pos
<1>1. PICK B \in SUBSET passed :
         /\ B = {i \in passed : Causes(rs, B, i) # {}}
         /\ new = [i \in DOMAIN rs |-> IF i \in B
                                       THEN Park(rs[i], CHOOSE c \in Causes(rs, B, i) : TRUE)
                                       ELSE rs[i]]
  BY DEF Searched
<1>2. \A i \in DOMAIN rs : rs[i] \in Row
  BY EntriesOf
<1>3. ASSUME NEW i \in B
      PROVE  /\ i \in DOMAIN rs /\ i \in passed /\ rs[i].state = "queued"
             /\ new[i] \in Row /\ Kept(rs[i], new[i]) /\ new[i].run = rs[i].run
             /\ new[i].state = "blocked" /\ new[i].pos = rs[i].pos
  <2> DEFINE c == CHOOSE x \in Causes(rs, B, i) : TRUE
  <2>1. i \in DOMAIN rs /\ i \in passed /\ rs[i].state = "queued"
    BY <1>1 DEF In
  <2>2. c \in Causes(rs, B, i)
    BY <1>1
  <2>3. new[i] = Park(rs[i], c)
    BY <1>1, <2>1
  <2> HIDE DEF c
  <2>4. c \in [kind : {"failed", "blocked", "cancelled"}, on : Range(rs[i].after)]
    BY <2>2 DEF Causes
  <2>5. Range(rs[i].after) \subseteq Features
    <3>1. rs[i].after \in Seq(Features)
      BY <1>2, <2>1 DEF Row
    <3>2. \A k \in DOMAIN rs[i].after : rs[i].after[k] \in Features
      BY <3>1, EntriesOf
    <3> QED BY <3>2 DEF Range
  <2>6. c \in Reasons
    BY <2>4, <2>5 DEF Reasons
  <2> QED BY <1>2, <2>1, <2>3, <2>6, ParkIs
<1>4. \A i \in DOMAIN rs : i \notin B => new[i] = rs[i]
  BY <1>1
<1>5. new = [i \in DOMAIN rs |-> new[i]]
  BY <1>1
<1>6. \A i \in DOMAIN rs : /\ new[i] \in Row /\ Kept(rs[i], new[i]) /\ Edge(rs[i], new[i])
                           /\ new[i].run = rs[i].run
                           /\ new[i].state = "running" => rs[i].state = "running"
                           /\ \/ new[i] = rs[i]
                              \/ /\ i \in passed /\ new[i].state = "blocked"
                                 /\ new[i].pos = rs[i].pos
  BY <1>2, <1>3, <1>4 DEF Kept, Edge
<1>7. new \in Seq(Row) /\ DOMAIN new = DOMAIN rs
  BY <1>5, <1>6, Rewritten
<1> QED BY <1>6, <1>7 DEF NoneStarts, Evolves

-----------------------------------------------------------------------------
(* What a step may make of the queue *)

(* An entry gets a run when it is running, and one that is started has its *)
(* dependencies done; a new entry waits, or is a kickoff of the operator's *)
(* that waits for nothing.                                                 *)
RowsStep ==
    /\ Evolves(rows, rows')
    /\ \A i \in DOMAIN rows :
          /\ \/ rows'[i].run = rows[i].run
             \/ rows[i].state = "running" /\ rows'[i].state = "running"
                /\ rows'[i].run \in DOMAIN pipes'
          /\ rows[i].state = "queued" /\ rows'[i].state = "running" => Eligible(rows, i)
    /\ \A i \in DOMAIN rows' \ DOMAIN rows :
          \/ /\ rows'[i].state = "queued" /\ rows'[i].run = NoRun
             /\ rows'[i].origin = "queue"
          \/ /\ rows'[i].state = "running" /\ rows'[i].run \in DOMAIN pipes'
             /\ rows'[i].origin = "direct" /\ rows'[i].after = <<>>

LEMMA OfNoneStarts ==
    ASSUME NoneStarts(rows, rows')
    PROVE  RowsStep
BY DEF NoneStarts, RowsStep, Evolves

LEMMA OfSame ==
    ASSUME rows \in Seq(Row), rows' = rows
    PROVE  NoneStarts(rows, rows')
BY DEF NoneStarts, Evolves, Kept, Edge

(* One turn of tryStartNext *)
Claims(i, left) ==
    /\ i \in Startable(rows)
    /\ Evolves(rows, rows')
    /\ DOMAIN rows' = DOMAIN rows
    /\ \A j \in DOMAIN rows :
          /\ rows'[j].run = rows[j].run
          /\ rows'[j].state = "running" <=> (j = i \/ rows[j].state = "running")
    /\ preflight' = preflight \cup {Task("trigger", NoRun, i, left - 1)}

LEMMA AttemptIs ==
    ASSUME rows \in Seq(Row), NEW left \in Nat, Attempt(left)
    PROVE  \/ /\ UNCHANGED preflight /\ NoneStarts(rows, rows')
              /\ \A j \in DOMAIN rows : \/ rows'[j] = rows[j]
                                        \/ /\ rows[j].state = "queued"
                                           /\ rows'[j].state = "blocked"
                                           /\ rows'[j].pos = rows[j].pos
              /\ left # 0 => Startable(rows) = {}
           \/ left # 0 /\ \E i \in DOMAIN rows : Claims(i, left)
<1> DEFINE able   == Startable(rows)
           passed == {i \in In(rows, {"queued"}) : \A j \in able : Before(rows, i, j)}
<1>1. passed \subseteq In(rows, {"queued"})
  OBVIOUS
<1>2. \A j \in passed : rows[j].state = "queued"
  BY DEF In
<1>3. CASE left = 0 /\ UNCHANGED <<rows, preflight>>
  BY <1>3, OfSame
<1>4. CASE left # 0 /\ able = {} /\ rows' \in Searched(rows, passed) /\ UNCHANGED preflight
  <2> HIDE DEF passed
  <2>1. /\ NoneStarts(rows, rows')
        /\ \A j \in DOMAIN rows :
              \/ rows'[j] = rows[j]
              \/ j \in passed /\ rows'[j].state = "blocked" /\ rows'[j].pos = rows[j].pos
    BY <1>1, <1>4, SearchedIs
  <2> QED BY <1>2, <1>4, <2>1
<1>5. ASSUME left # 0, NEW rs \in Searched(rows, passed), NEW i \in able,
             \A j \in able : rows[i].pos <= rows[j].pos,
             rows' = [rs EXCEPT ![i].state = "running"],
             preflight' = preflight \cup {Task("trigger", NoRun, i, left - 1)}
      PROVE  i \in DOMAIN rows /\ Claims(i, left)
  <2>1. i \in DOMAIN rows /\ rows[i].state = "queued"
    BY DEF Startable, In
  <2>2. i \notin passed
    <3>1. rows[i] \in Row
      BY <2>1, EntriesOf
    <3>2. ~Before(rows, i, i)
      BY <3>1 DEF Before, Row
    <3> QED BY <3>2
  <2>3. /\ NoneStarts(rows, rs)
        /\ \A j \in DOMAIN rows :
              \/ rs[j] = rows[j]
              \/ j \in passed /\ rs[j].state = "blocked"
    <3> HIDE DEF passed
    <3> QED BY <1>1, SearchedIs
  <2>4. rs[i] = rows[i] /\ rs \in Seq(Row) /\ DOMAIN rs = DOMAIN rows
    BY <2>1, <2>2, <2>3 DEF NoneStarts, Evolves
  <2>5. \A j \in DOMAIN rs : rs[j] \in Row
    BY <2>4, EntriesOf
  <2>6. /\ rows' = [j \in DOMAIN rs |-> rows'[j]]
        /\ \A j \in DOMAIN rs : j # i => rows'[j] = rs[j]
        /\ rows'[i] = [rows[i] EXCEPT !.state = "running"]
    BY <1>5, <2>1, <2>4
  <2>7. /\ rows'[i] \in Row /\ Kept(rows[i], rows'[i]) /\ rows'[i].state = "running"
        /\ rows'[i].run = rows[i].run
    <3>1. rows[i] \in Row /\ "running" \in States
      BY <2>1, <2>4, <2>5 DEF States
    <3> QED BY <2>6, <3>1 DEF Row, Kept
  <2>8. rows' \in Seq(Row) /\ DOMAIN rows' = DOMAIN rows
    <3>1. \A j \in DOMAIN rs : rows'[j] \in Row
      BY <2>5, <2>6, <2>7
    <3> QED BY <2>4, <2>6, <3>1, Rewritten
  <2>9. \A j \in DOMAIN rows :
           /\ Kept(rows[j], rows'[j]) /\ Edge(rows[j], rows'[j])
           /\ rows'[j].run = rows[j].run
           /\ rows'[j].state = "running" <=> (j = i \/ rows[j].state = "running")
    <3>1. ASSUME NEW j \in DOMAIN rows, j # i
          PROVE  /\ Kept(rows[j], rs[j]) /\ Edge(rows[j], rs[j]) /\ rs[j].run = rows[j].run
                 /\ rs[j].state = "running" <=> rows[j].state = "running"
      BY <1>2, <2>3 DEF NoneStarts, Evolves
    <3>2. \A j \in DOMAIN rows : j # i => rows'[j] = rs[j]
      BY <2>4, <2>6
    <3>3. Edge(rows[i], rows'[i])
      BY <2>1, <2>7 DEF Edge
    <3> QED BY <2>7, <3>1, <3>2, <3>3
  <2> QED BY <1>5, <2>1, <2>8, <2>9 DEF Claims, Evolves
<1> HIDE DEF passed
<1>6. \/ left = 0 /\ UNCHANGED <<rows, preflight>>
      \/ left # 0 /\ able = {} /\ rows' \in Searched(rows, passed) /\ UNCHANGED preflight
      \/ left # 0 /\ \E rs \in Searched(rows, passed), i \in able :
                        /\ \A j \in able : rows[i].pos <= rows[j].pos
                        /\ rows' = [rs EXCEPT ![i].state = "running"]
                        /\ preflight' = preflight \cup {Task("trigger", NoRun, i, left - 1)}
  BY DEF Attempt, Startable, passed
<1> QED BY <1>3, <1>4, <1>5, <1>6

LEMMA ClaimSteps ==
    ASSUME NEW i, NEW left, Claims(i, left)
    PROVE  RowsStep
BY DEF Claims, RowsStep, Startable, In

-----------------------------------------------------------------------------
(* What a step may make of the pipelines *)

Turned(r, x) ==
    /\ r \in Roots /\ x \in Pipe
    /\ pipes' = [pipes EXCEPT ![r] = x]

LEMMA TurnedIs ==
    ASSUME pipes \in Seq(Pipe), NEW r, NEW x, Turned(r, x)
    PROVE  /\ pipes' \in Seq(Pipe) /\ DOMAIN pipes' = Roots
           /\ pipes'[r] = x /\ \A q \in Roots : q # r => pipes'[q] = pipes[q]
<1>1. r \in Roots /\ x \in Pipe /\ Roots = DOMAIN pipes /\ \A q \in Roots : pipes[q] \in Pipe
  BY EntriesOf DEF Turned, Roots
<1>2. /\ pipes' = [q \in DOMAIN pipes |-> pipes'[q]]
      /\ pipes'[r] = x /\ \A q \in Roots : q # r => pipes'[q] = pipes[q]
  BY <1>1 DEF Turned
<1>3. \A q \in DOMAIN pipes : pipes'[q] \in Pipe
  BY <1>1, <1>2
<1> QED BY <1>1, <1>2, <1>3, Rewritten

LEMMA EndedIs ==
    ASSUME NEW p \in Pipe, NEW status \in {"completed", "failed", "cancelled"},
           NEW mark \in {"none", "complete", "halt"}
    PROVE  /\ Ended(p, status, mark) \in Pipe
           /\ Ended(p, status, mark).status = status
           /\ Ended(p, status, mark).flight = p.flight
<1> DEFINE first == p.gate = "none" /\ p.kind = "gate" /\ status = "completed"
           gate  == IF mark = "complete" THEN "complete" ELSE "blocked"
           g     == IF first THEN gate ELSE p.gate
           b     == ~first /\ (p.bad \/ status # "completed")
           e     == Ended(p, status, mark)
<1>1. e = [p EXCEPT !.status = status, !.mark = mark, !.gate = g, !.bad = b]
  BY DEF Ended
<1>2. g \in {"none", "complete", "blocked"} /\ b \in BOOLEAN
  BY DEF Pipe
<1> HIDE DEF g, b, e
<1>3. /\ e.kind = p.kind /\ e.status = status /\ e.flight = p.flight /\ e.decided = p.decided
      /\ e.bad = b /\ e.gate = g /\ e.mark = mark
  BY <1>1 DEF Pipe
<1>4. e \in Pipe
  BY <1>1, <1>2 DEF Pipe
<1> QED BY <1>3, <1>4 DEF e

LEMMA SpawnedIs ==
    ASSUME NEW p \in Pipe, NEW kind \in {"root", "step", "gate", "tail"}
    PROVE  /\ Spawned(p, kind) \in Pipe
           /\ Spawned(p, kind).status = "live" /\ Spawned(p, kind).flight = p.flight
BY DEF Spawned, Pipe

LEMMA NewPipeIs == NewPipe \in Pipe /\ NewPipe.status = "live"
BY DEF NewPipe, Pipe

LEMMA PipeAppended ==
    ASSUME pipes \in Seq(Pipe), pipes' = Append(pipes, NewPipe)
    PROVE  /\ pipes' \in Seq(Pipe)
           /\ DOMAIN pipes' = Roots \cup {Len(pipes) + 1}
           /\ \A r \in Roots : pipes'[r] = pipes[r]
           /\ pipes'[Len(pipes) + 1].status = "live"
BY Appended, NewPipeIs DEF Roots

LEMMA CancelRunIs ==
    ASSUME pipes \in Seq(Pipe), NEW r \in Roots, CancelRun(r)
    PROVE  \E x : Turned(r, x) /\ x.decided /\ x.status # "live" /\ x.flight = pipes[r].flight
<1> DEFINE e == Ended(pipes[r], "cancelled", "none")
           x == [e EXCEPT !.decided = TRUE]
<1>1. pipes[r] \in Pipe
  BY EntriesOf DEF Roots
<1>2. e \in Pipe /\ e.status = "cancelled" /\ e.flight = pipes[r].flight
  BY <1>1, EndedIs
<1>3. pipes' = [pipes EXCEPT ![r] = x]
  BY DEF CancelRun
<1> HIDE DEF e
<1>4. x \in Pipe /\ x.decided /\ x.status = "cancelled" /\ x.flight = e.flight
  BY <1>2 DEF Pipe
<1> QED BY <1>2, <1>3, <1>4 DEF Turned

LEMMA EscalateIs ==
    ASSUME pipes \in Seq(Pipe), NEW r \in Roots, Escalate(r)
    PROVE  \E x : Turned(r, x) /\ x.status = "live"
<1>1. pipes[r] \in Pipe
  BY EntriesOf DEF Roots
<1>2. PICK kind \in {"root", "step", "gate", "tail"} :
         pipes' = [pipes EXCEPT ![r] = Spawned(pipes[r], kind)]
  BY DEF Escalate
<1> QED BY <1>1, <1>2, SpawnedIs DEF Turned

LEMMA RunEndsIs ==
    ASSUME pipes \in Seq(Pipe), NEW r \in Roots, RunEnds(r)
    PROVE  pipes[r].status = "live" /\ \E x : Turned(r, x) /\ x.flight
<1>1. pipes[r] \in Pipe
  BY EntriesOf DEF Roots
<1>2. PICK status \in {"completed", "failed"}, mark \in Marks \cup {"none"} :
         pipes' = [pipes EXCEPT ![r] = [Ended(pipes[r], status, mark) EXCEPT !.flight = TRUE]]
  BY DEF RunEnds
<1> DEFINE e == Ended(pipes[r], status, mark)
           x == [e EXCEPT !.flight = TRUE]
<1>3. e \in Pipe
  BY <1>1, EndedIs, ShapeAssumption
<1> HIDE DEF e
<1>4. x \in Pipe /\ x.flight
  BY <1>3 DEF Pipe
<1>5. pipes' = [pipes EXCEPT ![r] = x]
  BY <1>2 DEF e
<1>6. pipes[r].status = "live"
  BY DEF RunEnds
<1> QED BY <1>4, <1>5, <1>6 DEF Turned

LEMMA TransitionEndsIs ==
    ASSUME pipes \in Seq(Pipe), NEW r \in Roots, TransitionEnds(r)
    PROVE  pipes[r].flight /\ \E x : Turned(r, x) /\ (x.status = "live" \/ x.decided)
<1> DEFINE next == [pipes[r] EXCEPT !.flight = FALSE]
<1>1. pipes[r] \in Pipe /\ pipes[r].flight
  BY EntriesOf DEF Roots, TransitionEnds
<1>2. next \in Pipe /\ next.status = pipes[r].status
  BY <1>1 DEF Pipe
<1>3. \/ pipes[r].status = "live" /\ pipes' = [pipes EXCEPT ![r] = next]
      \/ \E kind \in Successors(pipes[r]) : pipes' = [pipes EXCEPT ![r] = Spawned(next, kind)]
      \/ pipes' = [pipes EXCEPT ![r] = [next EXCEPT !.decided = TRUE]]
  BY DEF TransitionEnds
<1> HIDE DEF next
<1>4. CASE pipes[r].status = "live" /\ pipes' = [pipes EXCEPT ![r] = next]
  BY <1>1, <1>2, <1>4 DEF Turned
<1>5. ASSUME NEW kind \in Successors(pipes[r]),
             pipes' = [pipes EXCEPT ![r] = Spawned(next, kind)]
      PROVE  \E x : Turned(r, x) /\ x.status = "live"
  <2>1. kind \in {"root", "step", "gate", "tail"}
    BY <1>1 DEF Successors, Pipe
  <2> QED BY <1>2, <1>5, <2>1, SpawnedIs DEF Turned
<1>6. CASE pipes' = [pipes EXCEPT ![r] = [next EXCEPT !.decided = TRUE]]
  <2> DEFINE x == [next EXCEPT !.decided = TRUE]
  <2>1. x \in Pipe /\ x.decided
    BY <1>2 DEF Pipe
  <2>2. pipes' = [pipes EXCEPT ![r] = x]
    BY <1>6
  <2> HIDE DEF x
  <2> QED BY <1>1, <2>1, <2>2 DEF Turned
<1> QED BY <1>1, <1>3, <1>4, <1>5, <1>6

LEMMA BootReplayIs ==
    ASSUME pipes \in Seq(Pipe), NEW r \in Roots, BootReplay(r)
    PROVE  pipes' = pipes \/ \E x : Turned(r, x)
<1> DEFINE x == [pipes[r] EXCEPT !.flight = TRUE, !.decided = FALSE]
<1>1. pipes[r] \in Pipe
  BY EntriesOf DEF Roots
<1>2. x \in Pipe
  BY <1>1 DEF Pipe
<1>3. pipes' = pipes \/ pipes' = [pipes EXCEPT ![r] = x]
  BY DEF BootReplay, Roots
<1> QED BY <1>2, <1>3 DEF Turned

LEMMA BootRecoverIs ==
    ASSUME pipes \in Seq(Pipe), NEW r \in Roots, BootRecover(r)
    PROVE  pipes' = pipes \/ \E x : Turned(r, x)
<1> DEFINE x == [pipes[r] EXCEPT !.decided = TRUE]
           y == Spawned(pipes[r], pipes[r].kind)
<1>1. pipes[r] \in Pipe
  BY EntriesOf DEF Roots
<1>2. x \in Pipe /\ pipes[r].kind \in {"root", "step", "gate", "tail"}
  BY <1>1 DEF Pipe
<1>3. y \in Pipe
  BY <1>1, <1>2, SpawnedIs
<1>4. \/ pipes' = pipes
      \/ pipes' = [pipes EXCEPT ![r] = x]
      \/ pipes' = [pipes EXCEPT ![r] = y]
  BY DEF BootRecover, Roots
<1> QED BY <1>2, <1>3, <1>4 DEF Turned

LEMMA CrashIs ==
    ASSUME pipes \in Seq(Pipe), Crash
    PROVE  pipes' \in Seq(Pipe) /\ DOMAIN pipes' = Roots
<1>1. \A r \in Roots : pipes[r] \in Pipe
  BY EntriesOf DEF Roots
<1>2. /\ pipes' = [r \in DOMAIN pipes |-> pipes'[r]]
      /\ \A r \in DOMAIN pipes : pipes'[r] = [pipes[r] EXCEPT !.flight = FALSE]
  BY DEF Crash, Roots
<1>3. ASSUME NEW p \in Pipe PROVE [p EXCEPT !.flight = FALSE] \in Pipe
  BY DEF Pipe
<1>4. \A r \in DOMAIN pipes : pipes'[r] \in Pipe
  BY <1>1, <1>2, <1>3 DEF Roots
<1> QED BY <1>2, <1>4, Rewritten DEF Roots

-----------------------------------------------------------------------------
(* The parts of the invariant over a step of the queue *)

LEMMA WaitingKept ==
    ASSUME WaitingIsNew, RowsStep
    PROVE  WaitingIsNew'
<1> SUFFICES ASSUME NEW i \in DOMAIN rows', rows'[i].state \in {"queued", "blocked"}
             PROVE  rows'[i].origin = "queue" /\ rows'[i].run = NoRun
  BY DEF WaitingIsNew, In
<1>1. CASE i \in DOMAIN rows
  <2>1. Kept(rows[i], rows'[i]) /\ Edge(rows[i], rows'[i]) /\ rows'[i].run = rows[i].run
    BY <1>1 DEF RowsStep, Evolves
  <2>2. rows[i].state \in {"queued", "blocked"}
    BY <2>1 DEF Edge
  <2> QED BY <1>1, <2>1, <2>2 DEF WaitingIsNew, In, Kept
<1>2. CASE i \notin DOMAIN rows
  BY <1>2 DEF RowsStep
<1> QED BY <1>1, <1>2

LEMMA RunsKept ==
    ASSUME RunsExist, RowsStep, Roots \subseteq DOMAIN pipes'
    PROVE  RunsExist'
BY DEF RunsExist, RowsStep, Entries, Roots

(* A feature that is done stays done. *)
LEMMA DoneStays ==
    ASSUME NEW rs, NEW new, Evolves(rs, new), NEW i \in In(rs, {"done"})
    PROVE  i \in In(new, {"done"}) /\ new[i].feature = rs[i].feature
BY DEF Evolves, In, Kept, Edge

LEMMA StartedKept ==
    ASSUME StartedIsMet, RowsStep
    PROVE  StartedIsMet'
<1> SUFFICES ASSUME NEW i \in DOMAIN rows', rows'[i].state \in {"running", "done", "failed"},
                    NEW d \in Range(rows'[i].after)
             PROVE  \E j \in In(rows', {"done"}) : rows'[j].feature = d
  BY DEF StartedIsMet, Met, In
<1>1. Evolves(rows, rows')
  BY DEF RowsStep
<1>2. ASSUME NEW j \in In(rows, {"done"}), rows[j].feature = d
      PROVE  \E k \in In(rows', {"done"}) : rows'[k].feature = d
  BY <1>1, <1>2, DoneStays
<1>3. CASE i \in DOMAIN rows
  <2>1. rows'[i].after = rows[i].after /\ Edge(rows[i], rows'[i])
    BY <1>1, <1>3 DEF Evolves, Kept
  <2>2. CASE rows[i].state \in {"running", "done", "failed"}
    <3>1. i \in In(rows, {"running", "done", "failed"})
      BY <1>3, <2>2 DEF In
    <3>2. PICK j \in In(rows, {"done"}) : rows[j].feature = d
      BY <2>1, <3>1 DEF StartedIsMet, Met
    <3> QED BY <1>2, <3>2
  <2>3. CASE rows[i].state \notin {"running", "done", "failed"}
    <3>1. rows[i].state = "queued" /\ rows'[i].state = "running"
      BY <2>1, <2>3 DEF Edge
    <3>2. Eligible(rows, i)
      BY <1>3, <3>1 DEF RowsStep
    <3>3. PICK j \in Newest(rows, d) : rows[j].state = "done"
      BY <2>1, <3>2 DEF Eligible, IsDone
    <3>4. j \in In(rows, {"done"}) /\ rows[j].feature = d
      BY <3>3 DEF Newest, In
    <3> QED BY <1>2, <3>4
  <2> QED BY <2>2, <2>3
<1>4. CASE i \notin DOMAIN rows
  <2>1. rows'[i].after = <<>>
    BY <1>4 DEF RowsStep
  <2> QED BY <2>1 DEF Range
<1> QED BY <1>3, <1>4

(* Only a search of the runner adds to the running entries of the queue.   *)
LEMMA OursShrinks ==
    ASSUME RowsStep,
           \A i \in DOMAIN rows : rows'[i].state = "running" => rows[i].state = "running"
    PROVE  Ours(rows') \subseteq Ours(rows)
<1> SUFFICES ASSUME NEW i \in Ours(rows') PROVE i \in Ours(rows)
  OBVIOUS
<1>1. i \in DOMAIN rows' /\ rows'[i].state = "running" /\ rows'[i].origin = "queue"
  BY DEF Ours, In
<1>2. i \in DOMAIN rows
  BY <1>1 DEF RowsStep
<1> QED BY <1>1, <1>2 DEF RowsStep, Evolves, Kept, Ours, In

(* A running entry whose kickoff awaits its preflight is left alone. *)
Holds(rs, new) ==
    \A i \in DOMAIN rs : rs[i].state = "running" /\ rs[i].run = NoRun =>
                         new[i].state = "running" /\ new[i].run = NoRun

LEMMA KickoffsKept ==
    ASSUME KickoffsFit, Evolves(rows, rows'), Holds(rows, rows'), UNCHANGED preflight,
           ~At("again")', ~At("record")'
    PROVE  KickoffsFit'
<1>1. ASSUME NEW t \in preflight PROVE Claimed(t)'
  <2>1. t.entry \in DOMAIN rows /\ rows[t.entry].state = "running"
        /\ rows[t.entry].origin = "queue" /\ rows[t.entry].run = NoRun
    BY DEF KickoffsFit, Claimed, Ours, In
  <2>2. t.entry \in DOMAIN rows' /\ rows'[t.entry].state = "running"
        /\ rows'[t.entry].origin = "queue" /\ rows'[t.entry].run = NoRun
    BY <2>1 DEF Evolves, Holds, Kept
  <2> QED BY <2>2 DEF Claimed, Ours, In
<1> QED BY <1>1 DEF KickoffsFit

(* What is left of VerdictsAreRead where the pipelines that there are do   *)
(* not change                                                              *)
PipesGrow ==
    /\ Roots \subseteq DOMAIN pipes'
    /\ \A r \in Roots : pipes'[r] = pipes[r]

LEMMA BlockedGrows ==
    ASSUME PipesGrow, Blocked(pipes)
    PROVE  Blocked(pipes')
BY DEF PipesGrow, Blocked, Active, Roots

LEMMA UnreadShrinks ==
    ASSUME RunsExist, RowsStep, PipesGrow, pipes \in Seq(Pipe), pipes' \in Seq(Pipe),
           \A i \in DOMAIN rows : rows'[i].state = "running" =>
                  \/ rows[i].state = "running" /\ rows'[i].run = rows[i].run
                  \/ rows'[i].run = NoRun
                  \/ pipes'[rows'[i].run].status = "live",
           \A i \in DOMAIN rows' \ DOMAIN rows :
                  rows'[i].run # NoRun => pipes'[rows'[i].run].status = "live"
    PROVE  Unread(rows', pipes') \subseteq Unread(rows, pipes)
<1> SUFFICES ASSUME NEW i \in Unread(rows', pipes') PROVE i \in Unread(rows, pipes)
  OBVIOUS
<1>1. /\ i \in DOMAIN rows' /\ rows'[i].state = "running" /\ rows'[i].run # NoRun
      /\ Verdict(pipes'[rows'[i].run]) # "running"
  BY DEF Unread, In
<1>2. rows'[i].run \in DOMAIN pipes'
  BY <1>1, RunsKept DEF PipesGrow, RunsExist, Entries, Roots
<1>3. pipes'[rows'[i].run] \in Pipe
  BY <1>2, EntriesOf
<1>4. pipes'[rows'[i].run].status # "live"
  BY <1>1, <1>3, VerdictIs
<1>5. i \in DOMAIN rows /\ rows[i].state = "running" /\ rows'[i].run = rows[i].run
  BY <1>1, <1>4
<1>6. rows[i].run \in Roots
  BY <1>1, <1>5 DEF RunsExist, Entries
<1> QED BY <1>1, <1>5, <1>6 DEF Unread, In, PipesGrow

LEMMA VerdictsKept ==
    ASSUME VerdictsAreRead, PipesGrow, Unread(rows', pipes') \subseteq Unread(rows, pipes),
           boot'.stage = boot.stage, ~At("settle"), ~At("resume")
    PROVE  VerdictsAreRead'
BY BlockedGrows DEF VerdictsAreRead

-----------------------------------------------------------------------------
(* The runner's steps *)

LEMMA ThenIs ==
    ASSUME TypeOK, NEW pc, Pop(pc)
    PROVE  /\ Head(ready) \in Tasks /\ Head(ready).pc = pc
           /\ ready = <<Head(ready)>>
           /\ Then(<<>>) => ready' = <<>>
           /\ \A t : Then(<<t>>) => ready' = <<t>>
<1>1. PICK t \in Tasks : ready = <<t>>
  BY DEF TypeOK, Pop
<1>2. Head(ready) = t /\ Tail(ready) = <<>>
  BY <1>1
<1>3. <<>> \o <<>> = <<>> /\ \A x : <<>> \o <<x>> = <<x>>
  OBVIOUS
<1> QED BY <1>1, <1>2, <1>3 DEF Pop, Then

LEMMA SettleIs ==
    ASSUME NEW root \in Nat, NEW completed \in BOOLEAN
    PROVE  Settle(root, completed) \in Tasks /\ Settle(root, completed).pc = "settle"
BY DEF Settle, Tasks

StartTask == Task("start", NoRun, 0, 0)

LEMMA StartTaskIs == StartTask \in Tasks /\ StartTask.pc = "start"
BY DEF StartTask, Task, Tasks, NoRun

(* No running entry is judged but on a verdict that was there to read.     *)
Judged(rs, ps) == \A i \in DOMAIN rows :
    rows[i].state = "running" /\ rs[i].state # "running" =>
        ~Blocked(ps) /\ i \in Unread(rows, ps)

LEMMA ClassifiedHolds ==
    ASSUME NEW rs \in Seq(Row), NEW ps \in Seq(Pipe),
           \A i \in DOMAIN rs : rs[i].run \in {NoRun} \cup DOMAIN ps
    PROVE  Holds(rs, Classified(rs, ps))
<1> SUFFICES ASSUME NEW i \in DOMAIN rs, rs[i].state = "running", rs[i].run = NoRun
             PROVE  Classified(rs, ps)[i] = rs[i]
  BY DEF Holds
<1>1. i \notin Unread(rs, ps)
  BY DEF Unread
<1> QED BY <1>1, ClassifiedIs

LEMMA HandleSettleIs ==
    ASSUME TypeOK, RunsExist, HandleSettle
    PROVE  /\ NoneStarts(rows, rows') /\ Holds(rows, rows') /\ Judged(rows', pipes)
           /\ \/ ready' = <<StartTask>> /\ ~Blocked(pipes) /\ Unread(rows', pipes) = {}
              \/ ready' = <<>> /\ Blocked(pipes)
              \/ ready' = <<>> /\ rows' = rows /\ In(rows, {"queued", "running", "blocked"}) = {}
<1> DEFINE t         == Head(ready)
           found     == IF t.completed /\ t.root # NoRun
                        THEN Recoverable(rows, pipes, t.root) ELSE {}
           recovered == IF found = {} THEN rows
                        ELSE Recovered(rows, CHOOSE i \in found : TRUE)
           goesOn    == /\ found # {} \/ In(rows, {"queued", "running", "blocked"}) # {}
                        /\ ~Blocked(pipes)
<1>1. /\ rows' = IF goesOn THEN Classified(recovered, pipes) ELSE recovered
      /\ Then(IF goesOn THEN <<StartTask>> ELSE <<>>)
      /\ Pop("settle")
  BY DEF HandleSettle, StartTask
<1>2. rows \in Seq(Row) /\ pipes \in Seq(Pipe)
      /\ \A i \in DOMAIN rows : rows[i].run \in {NoRun} \cup DOMAIN pipes
  BY DEF TypeOK, RunsExist, Entries, Roots
<1>3. found \subseteq In(rows, {"failed"})
  BY DEF Recoverable
<1> HIDE DEF found
<1>4. /\ NoneStarts(rows, recovered)
      /\ \A j \in DOMAIN rows :
            \/ recovered[j] = rows[j]
            \/ rows[j].state \in {"failed", "blocked"} /\ Edge(rows[j], recovered[j])
  <2>1. CASE found = {}
    BY <1>2, <2>1 DEF NoneStarts, Evolves, Kept, Edge
  <2>2. CASE found # {}
    BY <1>2, <1>3, <2>2, RecoveredIs
  <2> QED BY <2>1, <2>2
<1>5. found = {} => recovered = rows
  OBVIOUS
<1> HIDE DEF recovered
<1>6. recovered \in Seq(Row) /\ DOMAIN recovered = DOMAIN rows
      /\ \A i \in DOMAIN recovered : recovered[i].run \in {NoRun} \cup DOMAIN pipes
  BY <1>2, <1>4 DEF NoneStarts, Evolves
<1>7. \A i \in DOMAIN rows : rows[i].state = "running" => recovered[i] = rows[i]
  BY <1>4
<1>8. CASE goesOn
  <2>1. rows' = Classified(recovered, pipes) /\ ready' = <<StartTask>> /\ ~Blocked(pipes)
    BY <1>1, <1>8, ThenIs
  <2>2. /\ NoneStarts(recovered, rows')
        /\ \A i \in DOMAIN recovered :
              IF i \in Unread(recovered, pipes)
              THEN rows'[i].state = Verdict(pipes[recovered[i].run])
              ELSE \/ rows'[i] = recovered[i]
                   \/ recovered[i].state = "queued" /\ rows'[i].state = "blocked"
        /\ Unread(rows', pipes) = {}
        /\ Holds(recovered, rows')
    BY <1>2, <1>6, <2>1, ClassifiedIs, ClassifiedHolds
  <2>3. Holds(rows, rows')
    BY <1>6, <1>7, <2>2 DEF Holds
  <2>4. Judged(rows', pipes)
    <3> SUFFICES ASSUME NEW i \in DOMAIN rows, rows[i].state = "running",
                        rows'[i].state # "running"
                 PROVE  i \in Unread(rows, pipes)
      BY <2>1 DEF Judged
    <3>1. recovered[i] = rows[i] /\ i \in Unread(recovered, pipes)
      BY <1>6, <1>7, <2>2
    <3> QED BY <1>6, <3>1 DEF Unread, In
  <2>5. NoneStarts(rows, rows')
    <3>1. ASSUME NEW i \in DOMAIN rows
          PROVE  recovered[i] = rows[i] \/ rows'[i] = recovered[i] \/ Edge(rows[i], rows'[i])
      <4>1. CASE rows'[i] = recovered[i] \/ recovered[i] = rows[i]
        BY <4>1
      <4>2. CASE recovered[i] # rows[i] /\ i \in Unread(recovered, pipes)
        <5>1. recovered[i].state = "running"
          BY <4>2 DEF Unread, In
        <5>2. rows[i].state = "running"
          BY <1>4, <5>1 DEF NoneStarts
        <5> QED BY <1>7, <4>2, <5>2
      <4>3. CASE /\ recovered[i] # rows[i]
                 /\ recovered[i].state = "queued" /\ rows'[i].state = "blocked"
        <5>1. rows[i].state = "blocked" /\ rows[i].cause.kind \in {"failed", "blocked"}
          BY <1>4, <4>3 DEF Edge
        <5> QED BY <5>1, <4>3 DEF Edge
      <4> QED BY <1>6, <2>2, <4>1, <4>2, <4>3
    <3> QED BY <1>4, <2>2, <3>1, NoneStartsTwice
  <2> QED BY <2>1, <2>2, <2>3, <2>4, <2>5
<1>9. CASE ~goesOn
  <2>1. rows' = recovered /\ ready' = <<>>
    BY <1>1, <1>9, ThenIs
  <2>2. \/ Blocked(pipes)
        \/ rows' = rows /\ In(rows, {"queued", "running", "blocked"}) = {}
    BY <1>5, <1>9, <2>1
  <2>3. Holds(rows, rows') /\ Judged(rows', pipes)
    BY <1>7, <2>1 DEF Holds, Judged
  <2> QED BY <1>4, <2>1, <2>2, <2>3
<1> QED BY <1>8, <1>9

LEMMA ResumeQueueIs ==
    ASSUME TypeOK, RunsExist, ResumeQueue
    PROVE  /\ NoneStarts(rows, rows') /\ Holds(rows, rows') /\ Judged(rows', pipes)
           /\ ready' = <<StartTask>>
           /\ Blocked(pipes) \/ Unread(rows', pipes) = {}
<1>1. rows \in Seq(Row) /\ pipes \in Seq(Pipe)
      /\ \A i \in DOMAIN rows : rows[i].run \in {NoRun} \cup DOMAIN pipes
  BY DEF TypeOK, RunsExist, Entries, Roots
<1>2. ready' = <<StartTask>>
  BY ThenIs DEF ResumeQueue, StartTask
<1>3. CASE Blocked(pipes)
  <2>1. rows' = rows
    BY <1>3 DEF ResumeQueue
  <2> QED BY <1>1, <1>2, <1>3, <2>1, OfSame DEF Holds, Judged
<1>4. CASE ~Blocked(pipes)
  <2>1. rows' = Classified(rows, pipes)
    BY <1>4 DEF ResumeQueue
  <2>2. NoneStarts(rows, rows') /\ Holds(rows, rows') /\ Unread(rows', pipes) = {}
    BY <1>1, <2>1, ClassifiedIs, ClassifiedHolds
  <2>3. \A i \in DOMAIN rows :
           \/ i \in Unread(rows, pipes) \/ rows'[i] = rows[i]
           \/ rows[i].state = "queued"
    BY <1>1, <2>1, ClassifiedIs
  <2>4. Judged(rows', pipes)
    BY <1>4, <2>3 DEF Judged
  <2> QED BY <1>2, <2>2, <2>4
<1> QED BY <1>3, <1>4

-----------------------------------------------------------------------------
(* The invariant is inductive *)

LEMMA AtNext ==
    ASSUME NEW t, ready' = <<t>>
    PROVE  \A pc : At(pc)' <=> t.pc = pc
BY DEF At

LEMMA AtNone ==
    ASSUME ready' = <<>>
    PROVE  \A pc : ~At(pc)'
BY DEF At

LEMMA AtIdle ==
    ASSUME Idle
    PROVE  \A pc : ~At(pc)
BY DEF At, Idle

LEMMA AtPopped ==
    ASSUME NEW pc, Pop(pc)
    PROVE  \A q : At(q) <=> q = pc
BY DEF At, Pop

LEMMA StartIsNext ==
    ASSUME ready' = <<StartTask>>
    PROVE  /\ \A pc : At(pc)' <=> pc = "start"
           /\ \E t \in Tasks : ready' = <<t>>
BY AtNext, StartTaskIs

LEMMA FromRows ==
    ASSUME IInv, RowsStep, Roots \subseteq DOMAIN pipes'
    PROVE  WaitingIsNew' /\ RunsExist' /\ StartedIsMet' /\ rows' \in Seq(Row)
BY WaitingKept, RunsKept, StartedKept DEF IInv, RowsStep, Evolves

LEMMA FromHolds ==
    ASSUME IInv, RowsStep, Holds(rows, rows'), UNCHANGED preflight,
           \A i \in DOMAIN rows : rows'[i].state = "running" => rows[i].state = "running",
           ~At("again")', ~At("record")'
    PROVE  OneRuns' /\ KickoffsFit'
<1>1. Ours(rows') \subseteq Ours(rows)
  BY OursShrinks
<1>2. OneRuns'
  BY <1>1 DEF IInv, OneRuns
<1>3. KickoffsFit'
  BY KickoffsKept DEF IInv, RowsStep
<1> QED BY <1>2, <1>3

LEMMA RestKept ==
    ASSUME RestIsDecided, PipesGrow, boot' = boot, used'.crashes = used.crashes,
           \A r \in DOMAIN pipes' \ Roots : pipes'[r].status = "live"
    PROVE  RestIsDecided'
BY DEF RestIsDecided, PipesGrow, Active, Roots

LEMMA SamePipes ==
    ASSUME pipes' = pipes
    PROVE  PipesGrow /\ Roots \subseteq DOMAIN pipes' /\ DOMAIN pipes' \ Roots = {}
BY DEF PipesGrow, Roots

LEMMA NewPipes ==
    ASSUME pipes \in Seq(Pipe), pipes' = Append(pipes, NewPipe)
    PROVE  /\ PipesGrow /\ Blocked(pipes') /\ pipes' \in Seq(Pipe)
           /\ \A r \in DOMAIN pipes' \ Roots : pipes'[r].status = "live"
BY PipeAppended DEF PipesGrow, Blocked, Active

(* Steps that change entries only *)
LEMMA FromSameRuns ==
    ASSUME IInv, NoneStarts(rows, rows'), PipesGrow, pipes' \in Seq(Pipe),
           boot'.stage = boot.stage, ~At("settle"), ~At("resume")
    PROVE  VerdictsAreRead'
<1>1. RowsStep
  BY OfNoneStarts
<1>2. /\ \A i \in DOMAIN rows : rows'[i].state = "running" =>
                                rows[i].state = "running" /\ rows'[i].run = rows[i].run
      /\ DOMAIN rows' \ DOMAIN rows = {}
  BY DEF NoneStarts
<1>3. Unread(rows', pipes') \subseteq Unread(rows, pipes)
  BY <1>1, <1>2, UnreadShrinks DEF IInv, TypeOK
<1> QED BY <1>3, VerdictsKept DEF IInv

LEMMA HandleSettleKeeps ==
    ASSUME IInv, HandleSettle
    PROVE  IInv'
<1>1. /\ NoneStarts(rows, rows') /\ Holds(rows, rows')
      /\ \/ ready' = <<StartTask>> /\ ~Blocked(pipes) /\ Unread(rows', pipes) = {}
         \/ ready' = <<>> /\ Blocked(pipes)
         \/ ready' = <<>> /\ rows' = rows /\ In(rows, {"queued", "running", "blocked"}) = {}
  BY HandleSettleIs DEF IInv
<1>2. UNCHANGED <<pipes, preflight, boot, used>>
  BY DEF HandleSettle
<1>3. RowsStep
  BY <1>1, OfNoneStarts
<1>4. WaitingIsNew' /\ RunsExist' /\ StartedIsMet' /\ rows' \in Seq(Row)
  BY <1>2, <1>3, SamePipes, FromRows
<1>5. ready' = <<>> \/ \E t \in Tasks : ready' = <<t>>
  BY <1>1, StartIsNext
<1>6. ~At("again")' /\ ~At("record")'
  BY <1>1, StartIsNext, AtNone
<1>7. OneRuns' /\ KickoffsFit'
  BY <1>1, <1>2, <1>3, <1>6, FromHolds DEF NoneStarts
<1>8. VerdictsAreRead'
  <2>1. CASE Unread(rows', pipes) = {}
    BY <1>2, <2>1 DEF VerdictsAreRead
  <2>2. CASE Blocked(pipes)
    BY <1>2, <2>2 DEF VerdictsAreRead
  <2>3. CASE rows' = rows /\ In(rows, {"queued", "running", "blocked"}) = {}
    BY <1>2, <2>1, <2>3 DEF Unread, In
  <2> QED BY <1>1, <2>1, <2>2, <2>3
<1>9. RestIsDecided'
  BY <1>2, SamePipes, RestKept DEF IInv
<1>10. TypeOK'
  BY <1>2, <1>4, <1>5 DEF IInv, TypeOK
<1> QED BY <1>4, <1>7, <1>8, <1>9, <1>10 DEF IInv

LEMMA ResumeQueueKeeps ==
    ASSUME IInv, ResumeQueue
    PROVE  IInv'
<1>1. /\ NoneStarts(rows, rows') /\ Holds(rows, rows')
      /\ ready' = <<StartTask>>
      /\ Blocked(pipes) \/ Unread(rows', pipes) = {}
  BY ResumeQueueIs DEF IInv
<1>2. UNCHANGED <<pipes, preflight, boot, used>>
  BY DEF ResumeQueue
<1>3. RowsStep
  BY <1>1, OfNoneStarts
<1>4. WaitingIsNew' /\ RunsExist' /\ StartedIsMet' /\ rows' \in Seq(Row)
  BY <1>2, <1>3, SamePipes, FromRows
<1>5. OneRuns' /\ KickoffsFit'
  BY <1>1, <1>2, <1>3, StartIsNext, FromHolds DEF NoneStarts
<1>6. VerdictsAreRead'
  BY <1>1, <1>2 DEF VerdictsAreRead
<1>7. RestIsDecided'
  BY <1>2, SamePipes, RestKept DEF IInv
<1>8. TypeOK'
  BY <1>1, <1>2, <1>4, StartIsNext DEF IInv, TypeOK
<1> QED BY <1>4, <1>5, <1>6, <1>7, <1>8 DEF IInv

(* One turn of tryStartNext, when no entry of the queue is running *)
LEMMA AttemptKeeps ==
    ASSUME IInv, NEW left \in Nat, Attempt(left), Ours(rows) = {}, ready' = <<>>,
           UNCHANGED <<pipes, boot, used>>, ~At("settle"), ~At("resume")
    PROVE  IInv'
<1>1. preflight = {}
  BY DEF IInv, KickoffsFit, Claimed
<1>2. rows \in Seq(Row) /\ pipes \in Seq(Pipe)
  BY DEF IInv, TypeOK
<1>3. RestIsDecided'
  BY SamePipes, RestKept DEF IInv
<1>4. \A pc : ~At(pc)'
  BY AtNone
<1>5. CASE UNCHANGED preflight /\ NoneStarts(rows, rows')
  <2>1. RowsStep
    BY <1>5, OfNoneStarts
  <2>2. WaitingIsNew' /\ RunsExist' /\ StartedIsMet' /\ rows' \in Seq(Row)
    BY <2>1, SamePipes, FromRows
  <2>3. VerdictsAreRead'
    BY <1>2, <1>5, SamePipes, FromSameRuns
  <2>4. Ours(rows') = {}
    BY <1>5, <2>1, OursShrinks DEF NoneStarts
  <2>5. OneRuns' /\ KickoffsFit'
    BY <1>1, <1>4, <1>5, <2>4 DEF OneRuns, KickoffsFit
  <2>6. TypeOK'
    BY <1>5, <2>2 DEF IInv, TypeOK
  <2> QED BY <1>3, <2>2, <2>3, <2>5, <2>6 DEF IInv
<1>6. ASSUME left # 0, NEW i \in DOMAIN rows, Claims(i, left)
      PROVE  IInv'
  <2>1. RowsStep /\ DOMAIN rows' = DOMAIN rows
    BY <1>6, ClaimSteps DEF Claims
  <2>2. WaitingIsNew' /\ RunsExist' /\ StartedIsMet' /\ rows' \in Seq(Row)
    BY <2>1, SamePipes, FromRows
  <2>3. /\ \A j \in DOMAIN rows :
              /\ rows'[j].run = rows[j].run /\ rows'[j].origin = rows[j].origin
              /\ rows'[j].state = "running" <=> (j = i \/ rows[j].state = "running")
        /\ preflight' = {Task("trigger", NoRun, i, left - 1)}
        /\ rows[i].origin = "queue" /\ rows[i].run = NoRun
    BY <1>1, <1>6 DEF Claims, Evolves, Kept, IInv, WaitingIsNew, Startable, In
  <2>4. Ours(rows') = {i}
    BY <2>1, <2>3 DEF Ours, In
  <2>5. i \in Nat /\ left - 1 \in Nat
    BY <1>2, <1>6, EntriesOf
  <2>6. preflight' \subseteq Tasks /\ \A t \in preflight' : t.entry = i
    <3> DEFINE k == Task("trigger", NoRun, i, left - 1)
    <3>1. NoRun \in Nat
      BY DEF NoRun
    <3>2. k \in Tasks /\ k.entry = i
      BY <2>5, <3>1 DEF Task, Tasks
    <3> HIDE DEF k
    <3>3. preflight' = {k}
      BY <2>3 DEF k
    <3> QED BY <3>2, <3>3
  <2>7. \A t \in preflight' : Claimed(t)'
    BY <2>3, <2>4, <2>6 DEF Claimed
  <2>8. OneRuns' /\ KickoffsFit'
    BY <1>4, <2>3, <2>4, <2>7 DEF OneRuns, KickoffsFit
  <2>9. VerdictsAreRead'
    <3>1. \A j \in DOMAIN rows : rows'[j].state = "running" =>
              \/ rows[j].state = "running" /\ rows'[j].run = rows[j].run
              \/ rows'[j].run = NoRun
      BY <2>3
    <3>2. Unread(rows', pipes') \subseteq Unread(rows, pipes)
      BY <1>2, <2>1, <3>1, SamePipes, UnreadShrinks DEF IInv
    <3> QED BY <3>2, SamePipes, VerdictsKept DEF IInv
  <2>10. TypeOK'
    BY <2>2, <2>6 DEF IInv, TypeOK
  <2> QED BY <1>3, <2>2, <2>8, <2>9, <2>10 DEF IInv
<1> QED BY <1>2, <1>5, <1>6, AttemptIs

LEMMA CountIs ==
    ASSUME NEW rs \in Seq(Row), NEW states
    PROVE  /\ Cardinality(In(rs, states)) \in Nat
           /\ Cardinality(In(rs, states)) = 0 => In(rs, states) = {}
<1>1. IsFiniteSet(DOMAIN rs)
  BY EntriesOf, FS_Interval
<1>2. In(rs, states) \subseteq DOMAIN rs
  BY DEF In
<1>3. IsFiniteSet(In(rs, states))
  BY <1>1, <1>2, FS_Subset
<1> QED BY <1>3, FS_CardinalityType, FS_EmptySet

LEMMA TryStartNextKeeps ==
    ASSUME IInv, TryStartNext
    PROVE  IInv'
<1>1. Pop("start") /\ ready' = <<>> /\ UNCHANGED <<pipes, boot, used>>
  BY ThenIs DEF TryStartNext, IInv
<1>2. ~At("settle") /\ ~At("resume")
  BY <1>1, AtPopped
<1>3. CASE MayStart
  <2>1. Ours(rows) = {}
    BY <1>3 DEF MayStart, Ours
  <2>2. Attempt(Cardinality(In(rows, {"queued"})))
    BY <1>3 DEF TryStartNext
  <2>3. Cardinality(In(rows, {"queued"})) \in Nat
    BY CountIs DEF IInv, TypeOK
  <2> QED BY <1>1, <1>2, <2>1, <2>2, <2>3, AttemptKeeps
<1>4. CASE ~MayStart
  <2>1. UNCHANGED <<rows, preflight>>
    BY <1>4 DEF TryStartNext
  <2>2. RowsStep /\ NoneStarts(rows, rows')
    BY <2>1, OfSame, OfNoneStarts DEF IInv, TypeOK
  <2>3. WaitingIsNew' /\ RunsExist' /\ StartedIsMet' /\ rows' \in Seq(Row)
    BY <1>1, <2>2, SamePipes, FromRows
  <2>4. VerdictsAreRead' /\ RestIsDecided'
    BY <1>1, <1>2, <2>2, SamePipes, FromSameRuns, RestKept DEF IInv, TypeOK
  <2>5. OneRuns' /\ KickoffsFit'
    BY <1>1, <2>1, <2>2, AtNone, FromHolds DEF Holds
  <2>6. TypeOK'
    BY <1>1, <2>1 DEF IInv, TypeOK
  <2> QED BY <2>3, <2>4, <2>5, <2>6 DEF IInv
<1> QED BY <1>3, <1>4

LEMMA TryAnotherKeeps ==
    ASSUME IInv, TryAnother
    PROVE  IInv'
<1>1. Pop("again") /\ ready' = <<>> /\ UNCHANGED <<pipes, boot, used>>
  BY ThenIs DEF TryAnother, IInv
<1>2. At("again") /\ ~At("settle") /\ ~At("resume")
  BY <1>1, AtPopped
<1>3. Ours(rows) = {}
  BY <1>2 DEF IInv, KickoffsFit
<1>4. Attempt(Head(ready).left) /\ Head(ready).left \in Nat
  <2>1. Head(ready) \in Tasks
    BY <1>1, ThenIs DEF IInv
  <2> QED BY <2>1 DEF TryAnother, Tasks
<1> QED BY <1>1, <1>2, <1>3, <1>4, AttemptKeeps

LEMMA RecordStartKeeps ==
    ASSUME IInv, RecordStart
    PROVE  /\ IInv' /\ RowsStep
           /\ \A i \in DOMAIN rows : rows'[i].state = rows[i].state
<1> DEFINE t == Head(ready)
<1>1. Pop("record") /\ ready' = <<>> /\ UNCHANGED <<pipes, preflight, boot, used>>
  BY ThenIs DEF RecordStart, IInv
<1>2. /\ At("record") /\ ~At("settle") /\ ~At("resume")
      /\ \A pc : ~At(pc)'
  BY <1>1, AtPopped, AtNone
<1>3. /\ t.entry \in DOMAIN rows /\ t.root \in Roots /\ pipes[t.root].status = "live"
      /\ preflight = {}
  BY <1>2 DEF IInv, KickoffsFit, Entries
<1>4. /\ rows \in Seq(Row) /\ pipes \in Seq(Pipe) /\ t.root \in Nat
      /\ \A i \in DOMAIN rows : rows[i] \in Row
  <2>1. t \in Tasks
    BY <1>1, ThenIs DEF IInv
  <2> QED BY <2>1, EntriesOf DEF IInv, TypeOK, Tasks
<1>5. rows' = IF rows[t.entry].state = "running"
              THEN [rows EXCEPT ![t.entry].run = t.root] ELSE rows
  BY DEF RecordStart
<1> HIDE DEF t
<1>6. /\ rows' = [i \in DOMAIN rows |-> rows'[i]]
      /\ \A i \in DOMAIN rows :
            \/ rows'[i] = rows[i]
            \/ rows[i].state = "running" /\ rows'[i] = [rows[i] EXCEPT !.run = t.root]
  <2>1. CASE rows[t.entry].state = "running"
    BY <1>3, <1>5, <2>1
  <2>2. CASE rows[t.entry].state # "running"
    BY <1>4, <1>5, <2>2, EntriesOf
  <2> QED BY <2>1, <2>2
<1>7. ASSUME NEW i \in DOMAIN rows
      PROVE  /\ rows'[i] \in Row /\ Kept(rows[i], rows'[i]) /\ Edge(rows[i], rows'[i])
             /\ rows'[i].state = rows[i].state
             /\ \/ rows'[i].run = rows[i].run
                \/ rows[i].state = "running" /\ rows'[i].run = t.root
  <2>1. CASE rows'[i] = rows[i]
    BY <1>4, <2>1 DEF Kept, Edge
  <2>2. CASE rows[i].state = "running" /\ rows'[i] = [rows[i] EXCEPT !.run = t.root]
    BY <1>4, <2>2 DEF Row, Kept, Edge
  <2> QED BY <1>6, <2>1, <2>2
<1>8. rows' \in Seq(Row) /\ DOMAIN rows' = DOMAIN rows
  BY <1>4, <1>6, <1>7, Rewritten
<1>9. RowsStep
  BY <1>1, <1>3, <1>7, <1>8 DEF RowsStep, Evolves, Roots
<1>10. WaitingIsNew' /\ RunsExist' /\ StartedIsMet' /\ rows' \in Seq(Row)
  BY <1>1, <1>9, SamePipes, FromRows
<1>11. OneRuns' /\ KickoffsFit'
  <2>1. Ours(rows') \subseteq Ours(rows)
    BY <1>7, <1>9, OursShrinks
  <2>2. OneRuns'
    BY <2>1 DEF IInv, OneRuns
  <2>3. KickoffsFit'
    BY <1>1, <1>2, <1>3 DEF KickoffsFit
  <2> QED BY <2>2, <2>3
<1>12. VerdictsAreRead'
  <2>1. \A i \in DOMAIN rows : rows'[i].state = "running" =>
            \/ rows[i].state = "running" /\ rows'[i].run = rows[i].run
            \/ pipes'[rows'[i].run].status = "live"
    BY <1>1, <1>3, <1>7
  <2>2. Unread(rows', pipes') \subseteq Unread(rows, pipes)
    BY <1>1, <1>4, <1>8, <1>9, <2>1, SamePipes, UnreadShrinks DEF IInv
  <2> QED BY <1>1, <1>2, <2>2, SamePipes, VerdictsKept DEF IInv
<1>13. RestIsDecided' /\ TypeOK'
  BY <1>1, <1>10, SamePipes, RestKept DEF IInv, TypeOK
<1> QED BY <1>7, <1>9, <1>10, <1>11, <1>12, <1>13 DEF IInv

(* Steps that leave the entries alone *)
LEMMA FromSameRows ==
    ASSUME IInv, rows' = rows, Roots \subseteq DOMAIN pipes'
    PROVE  /\ WaitingIsNew' /\ RunsExist' /\ StartedIsMet' /\ OneRuns'
           /\ rows' \in Seq(Row) /\ Holds(rows, rows') /\ Evolves(rows, rows')
<1>1. NoneStarts(rows, rows') /\ RowsStep
  BY OfSame, OfNoneStarts DEF IInv, TypeOK
<1>2. OneRuns'
  BY DEF IInv, OneRuns
<1> QED BY <1>1, <1>2, FromRows DEF Holds, NoneStarts

LEMMA KickoffKeeps ==
    ASSUME IInv, NEW t \in preflight, Kickoff(t)
    PROVE  IInv'
<1> DEFINE k == Task("record", Len(pipes) + 1, t.entry, 0)
<1>1. /\ pipes' = Append(pipes, NewPipe) /\ preflight' = preflight \ {t}
      /\ ready' = <<k>> /\ UNCHANGED <<rows, boot, used>>
  BY DEF Kickoff
<1>2. /\ pipes \in Seq(Pipe) /\ Len(pipes) \in Nat /\ t \in Tasks
      /\ t.entry \in Entries /\ t.entry \in Nat
  BY EntriesOf DEF IInv, TypeOK, KickoffsFit, Claimed, Ours, In, Entries, Tasks
<1>3. k \in Tasks /\ k.pc = "record" /\ k.root = Len(pipes) + 1 /\ k.entry = t.entry
  BY <1>2 DEF Task, Tasks
<1> HIDE DEF k
<1>4. /\ PipesGrow /\ Blocked(pipes') /\ pipes' \in Seq(Pipe)
      /\ \A r \in DOMAIN pipes' \ Roots : pipes'[r].status = "live"
      /\ Len(pipes) + 1 \in DOMAIN pipes' /\ pipes'[Len(pipes) + 1].status = "live"
  BY <1>1, <1>2, NewPipes, PipeAppended
<1>5. /\ WaitingIsNew' /\ RunsExist' /\ StartedIsMet' /\ OneRuns' /\ rows' \in Seq(Row)
  BY <1>1, <1>4, FromSameRows DEF PipesGrow
<1>6. preflight' = {}
  BY <1>1 DEF IInv, KickoffsFit
<1>7. KickoffsFit'
  <2>1. \A pc : At(pc)' <=> pc = "record"
    BY <1>1, <1>3, AtNext
  <2>2. Head(ready)' = k
    BY <1>1
  <2>3. t.entry \in Entries' /\ Len(pipes) + 1 \in Roots'
    BY <1>1, <1>2, <1>4 DEF Entries, Roots
  <2> QED BY <1>3, <1>4, <1>6, <2>1, <2>2, <2>3 DEF KickoffsFit
<1>8. VerdictsAreRead'
  BY <1>4 DEF VerdictsAreRead
<1>9. RestIsDecided'
  BY <1>1, <1>4, RestKept DEF IInv
<1>10. TypeOK'
  BY <1>1, <1>3, <1>4, <1>5, <1>6 DEF IInv, TypeOK
<1> QED BY <1>5, <1>7, <1>8, <1>9, <1>10 DEF IInv

(* The kickoff that failed was that of the one running entry. *)
LEMMA KickoffFailsIs ==
    ASSUME IInv, NEW t \in preflight, KickoffFails(t)
    PROVE  /\ NoneStarts(rows, rows')
           /\ t.entry \in DOMAIN rows
           /\ rows[t.entry].run = NoRun /\ rows'[t.entry].state = "failed"
           /\ \A i \in DOMAIN rows \ {t.entry} :
                 \/ rows'[i] = rows[i]
                 \/ rows[i].state = "queued" /\ rows'[i].state = "blocked"
<1> DEFINE outcome == [i \in {t.entry} |-> "failed"]
<1>1. /\ rows' = Settled(rows, outcome) /\ rows \in Seq(Row)
      /\ t.entry \in In(rows, {"running"}) /\ rows[t.entry].run = NoRun
  BY DEF KickoffFails, IInv, TypeOK, KickoffsFit, Claimed, Ours
<1>2. DOMAIN outcome = {t.entry} /\ outcome[t.entry] = "failed"
  OBVIOUS
<1> HIDE DEF outcome
<1>3. /\ NoneStarts(rows, rows')
      /\ \A i \in DOMAIN rows :
            IF i \in DOMAIN outcome THEN rows'[i].state = outcome[i]
            ELSE \/ rows'[i] = rows[i]
                 \/ rows[i].state = "queued" /\ rows'[i].state = "blocked"
  BY <1>1, <1>2, SettledIs
<1> QED BY <1>1, <1>2, <1>3 DEF In

LEMMA KickoffFailsKeeps ==
    ASSUME IInv, NEW t \in preflight, KickoffFails(t)
    PROVE  IInv'
<1> DEFINE k == Task("again", NoRun, 0, t.left)
<1>1. /\ pipes' = pipes \/ pipes' = Append(pipes, NewPipe)
      /\ preflight' = preflight \ {t} /\ ready' = <<k>>
      /\ UNCHANGED <<boot, used>> /\ Idle
  BY DEF KickoffFails
<1>2. /\ NoneStarts(rows, rows')
      /\ t.entry \in DOMAIN rows
      /\ rows[t.entry].run = NoRun /\ rows'[t.entry].state = "failed"
  BY KickoffFailsIs
<1>3. k \in Tasks /\ k.pc = "again"
  <2>1. t \in Tasks
    BY DEF IInv, TypeOK
  <2> QED BY <2>1 DEF Task, Tasks, NoRun
<1> HIDE DEF k
<1>4. /\ PipesGrow /\ pipes' \in Seq(Pipe)
      /\ \A r \in DOMAIN pipes' \ Roots : pipes'[r].status = "live"
  BY <1>1, NewPipes, SamePipes DEF IInv, TypeOK
<1>5. RowsStep
  BY <1>2, OfNoneStarts
<1>6. WaitingIsNew' /\ RunsExist' /\ StartedIsMet' /\ rows' \in Seq(Row)
  BY <1>4, <1>5, FromRows DEF PipesGrow
<1>7. preflight' = {} /\ t.entry \in Ours(rows)
  BY <1>1 DEF IInv, KickoffsFit, Claimed
<1>8. Ours(rows') = {}
  <2>1. Ours(rows') \subseteq Ours(rows)
    BY <1>2, <1>5, OursShrinks DEF NoneStarts
  <2>2. t.entry \notin Ours(rows')
    BY <1>2 DEF Ours, In
  <2> QED BY <1>7, <2>1, <2>2 DEF IInv, OneRuns
<1>9. OneRuns' /\ KickoffsFit'
  <2>1. \A pc : At(pc)' <=> pc = "again"
    BY <1>1, <1>3, AtNext
  <2> QED BY <1>7, <1>8, <2>1 DEF OneRuns, KickoffsFit
<1>10. VerdictsAreRead' /\ RestIsDecided'
  BY <1>1, <1>2, <1>4, AtIdle, FromSameRuns, RestKept DEF IInv
<1>11. TypeOK'
  BY <1>1, <1>3, <1>4, <1>6, <1>7 DEF IInv, TypeOK
<1> QED BY <1>6, <1>9, <1>10, <1>11 DEF IInv

-----------------------------------------------------------------------------
(* Requests *)

LEMMA SpendIs ==
    ASSUME used \in [ops : Nat, other : Nat, crashes : Nat],
           NEW what \in {"ops", "other", "crashes"}, Spend(what)
    PROVE  /\ used' \in [ops : Nat, other : Nat, crashes : Nat]
           /\ IF what = "crashes" THEN used'.crashes # 0 ELSE used'.crashes = used.crashes
<1>1. used' = [used EXCEPT ![what] = used[what] + 1]
  BY DEF Spend
<1>2. CASE what = "ops"
  BY <1>1, <1>2
<1>3. CASE what = "other"
  BY <1>1, <1>3
<1>4. CASE what = "crashes"
  BY <1>1, <1>4
<1> QED BY <1>2, <1>3, <1>4

LEMMA RequestIs ==
    ASSUME IInv, NEW op, Request(op)
    PROVE  /\ used' \in [ops : Nat, other : Nat, crashes : Nat]
           /\ used'.crashes = used.crashes /\ op \in Ops
           /\ \A pc : ~At(pc)
           /\ ready = <<>>
BY SpendIs, AtIdle DEF Request, IInv, TypeOK, Idle

(* An entry is added, and nothing else changes but for new pipelines.      *)
LEMMA AppendKeeps ==
    ASSUME IInv, NEW row \in Row, rows' = Append(rows, row), UNCHANGED <<preflight, boot>>,
           \/ row.state = "queued" /\ row.run = NoRun /\ row.origin = "queue"
           \/ /\ row.state = "running" /\ row.run \in DOMAIN pipes'
              /\ row.origin = "direct" /\ row.after = <<>>
              /\ pipes'[row.run].status = "live",
           PipesGrow, pipes' \in Seq(Pipe),
           \A r \in DOMAIN pipes' \ Roots : pipes'[r].status = "live",
           \A pc : ~At(pc),
           ready' = <<>> \/ ready' = <<StartTask>>,
           used' \in [ops : Nat, other : Nat, crashes : Nat], used'.crashes = used.crashes
    PROVE  IInv' /\ RowsStep /\ \A i \in DOMAIN rows : rows'[i] = rows[i]
<1>1. /\ rows' \in Seq(Row)
      /\ DOMAIN rows' = DOMAIN rows \cup {Len(rows) + 1}
      /\ \A i \in DOMAIN rows : rows'[i] = rows[i]
      /\ rows'[Len(rows) + 1] = row
  BY Appended DEF IInv, TypeOK
<1>2. RowsStep
  BY <1>1 DEF RowsStep, Evolves, Kept, Edge
<1>3. WaitingIsNew' /\ RunsExist' /\ StartedIsMet'
  BY <1>2, FromRows DEF PipesGrow
<1>4. \A pc : At(pc)' => pc = "start"
  BY StartIsNext, AtNone
<1>5. OneRuns' /\ KickoffsFit'
  <2>1. Holds(rows, rows')
    BY <1>1 DEF Holds
  <2> QED BY <1>1, <1>2, <1>4, <2>1, FromHolds
<1>6. VerdictsAreRead'
  <2>1. Unread(rows', pipes') \subseteq Unread(rows, pipes)
    BY <1>1, <1>2, UnreadShrinks DEF IInv, TypeOK
  <2> QED BY <2>1, VerdictsKept DEF IInv
<1>7. RestIsDecided'
  BY RestKept DEF IInv
<1>8. TypeOK'
  BY <1>1, StartIsNext DEF IInv, TypeOK
<1> QED BY <1>1, <1>2, <1>3, <1>5, <1>6, <1>7, <1>8 DEF IInv

LEMMA NewRowIs ==
    ASSUME NEW f \in Features, NEW after \in Seq(Features), NEW state \in States,
           NEW run \in Nat, NEW origin \in {"queue", "direct"}, NEW pos \in Nat
    PROVE  /\ NewRow(f, after, state, run, origin, pos) \in Row
           /\ NewRow(f, after, state, run, origin, pos).state = state
           /\ NewRow(f, after, state, run, origin, pos).run = run
           /\ NewRow(f, after, state, run, origin, pos).origin = origin
           /\ NewRow(f, after, state, run, origin, pos).after = after
<1>1. NoCause \in Reasons
  BY DEF NoCause, Reasons
<1> QED BY <1>1 DEF NewRow, Row

LEMMA EnqueueKeeps ==
    ASSUME IInv, NEW f \in Features, NEW after \in AfterLists, Enqueue(f, after)
    PROVE  IInv' /\ RowsStep /\ \A i \in DOMAIN rows : rows'[i] = rows[i]
<1> DEFINE row == NewRow(f, after, "queued", NoRun, "queue", NextPos)
<1>1. /\ rows' = Append(rows, row) /\ ready' = <<StartTask>>
      /\ UNCHANGED <<pipes, preflight, boot, used>> /\ Idle
  BY DEF Enqueue, StartTask
<1>2. NextPos \in Nat /\ NoRun \in Nat
  BY EntriesOf DEF IInv, TypeOK, NextPos, NoRun
<1>3. after \in Seq(Features)
  BY AfterAssumption
<1>4. "queued" \in States
  BY DEF States
<1>5. row \in Row /\ row.state = "queued" /\ row.run = NoRun /\ row.origin = "queue"
  BY <1>2, <1>3, <1>4, NewRowIs
<1> HIDE DEF row
<1> QED BY <1>1, <1>5, AtIdle, SamePipes, AppendKeeps DEF IInv, TypeOK

LEMMA DirectKickoffKeeps ==
    ASSUME IInv, NEW f \in Features, DirectKickoff(f)
    PROVE  IInv' /\ RowsStep /\ \A i \in DOMAIN rows : rows'[i] = rows[i]
<1> DEFINE row == NewRow(f, <<>>, "running", Len(pipes) + 1, "direct", NextPos)
<1>1. /\ pipes' = Append(pipes, NewPipe)
      /\ rows' = rows \/ rows' = Append(rows, row)
      /\ UNCHANGED <<ready, preflight, boot>> /\ Request("kickoff")
  BY DEF DirectKickoff
<1>2. NextPos \in Nat /\ Len(pipes) + 1 \in Nat /\ pipes \in Seq(Pipe) /\ rows \in Seq(Row)
  BY EntriesOf DEF IInv, TypeOK, NextPos
<1>3. "running" \in States /\ <<>> \in Seq(Features) /\ NoCause \in Reasons
  BY DEF States, NoCause, Reasons
<1>4. /\ row \in Row /\ row.state = "running" /\ row.run = Len(pipes) + 1
      /\ row.origin = "direct" /\ row.after = <<>>
  BY <1>2, <1>3 DEF NewRow, Row
<1> HIDE DEF row
<1>5. /\ PipesGrow /\ Blocked(pipes') /\ pipes' \in Seq(Pipe)
      /\ \A r \in DOMAIN pipes' \ Roots : pipes'[r].status = "live"
      /\ Len(pipes) + 1 \in DOMAIN pipes' /\ pipes'[Len(pipes) + 1].status = "live"
  BY <1>1, <1>2, NewPipes, PipeAppended
<1>6. /\ used' \in [ops : Nat, other : Nat, crashes : Nat] /\ used'.crashes = used.crashes
      /\ \A pc : ~At(pc)
      /\ ready = <<>>
  BY <1>1, RequestIs
<1>7. CASE rows' = Append(rows, row)
  BY <1>1, <1>4, <1>5, <1>6, <1>7, AppendKeeps
<1>8. CASE rows' = rows
  <2>1. /\ WaitingIsNew' /\ RunsExist' /\ StartedIsMet' /\ OneRuns' /\ rows' \in Seq(Row)
        /\ Holds(rows, rows') /\ Evolves(rows, rows')
    BY <1>5, <1>8, FromSameRows DEF PipesGrow
  <2>2. \A pc : ~At(pc)'
    BY <1>1, <1>6, AtNone
  <2>3. KickoffsFit'
    BY <1>1, <2>1, <2>2, KickoffsKept DEF IInv
  <2>4. VerdictsAreRead' /\ RestIsDecided'
    BY <1>1, <1>5, <1>6, RestKept DEF VerdictsAreRead, IInv
  <2>5. TypeOK'
    BY <1>1, <1>5, <1>6, <2>1 DEF IInv, TypeOK
  <2>6. RowsStep
    BY <1>2, <1>8, OfSame, OfNoneStarts
  <2>7. \A i \in DOMAIN rows : rows'[i] = rows[i]
    BY <1>8
  <2>8. IInv'
    BY <2>1, <2>3, <2>4, <2>5 DEF IInv
  <2> QED BY <2>6, <2>7, <2>8
<1> QED BY <1>1, <1>7, <1>8

(* Requests that rewrite waiting entries *)
LEMMA RewriteKeeps ==
    ASSUME IInv, NEW op, Request(op), NoneStarts(rows, rows'),
           \A j \in DOMAIN rows : rows[j].state = "running" => rows'[j] = rows[j],
           UNCHANGED <<pipes, ready, preflight, boot>>
    PROVE  IInv'
<1>1. /\ used' \in [ops : Nat, other : Nat, crashes : Nat] /\ used'.crashes = used.crashes
      /\ \A pc : ~At(pc)
      /\ ready = <<>>
  BY RequestIs
<1>2. RowsStep /\ \A pc : ~At(pc)'
  BY <1>1, OfNoneStarts, AtNone
<1>3. WaitingIsNew' /\ RunsExist' /\ StartedIsMet' /\ rows' \in Seq(Row)
  BY <1>2, SamePipes, FromRows
<1>4. OneRuns' /\ KickoffsFit'
  <2>1. Holds(rows, rows')
    BY DEF Holds
  <2> QED BY <1>2, <2>1, FromHolds DEF NoneStarts
<1>5. VerdictsAreRead' /\ RestIsDecided'
  BY <1>1, SamePipes, FromSameRuns, RestKept DEF IInv, TypeOK
<1>6. TypeOK'
  BY <1>1, <1>3 DEF IInv, TypeOK
<1> QED BY <1>3, <1>4, <1>5, <1>6 DEF IInv

LEMMA CancelEntryIs ==
    ASSUME rows \in Seq(Row), NEW i \in Entries, CancelEntry(i)
    PROVE  /\ NoneStarts(rows, rows')
           /\ rows[i].state \in {"queued", "blocked"} /\ rows'[i].state = "cancelled"
           /\ rows'[i].pos = rows[i].pos
           /\ \A j \in DOMAIN rows \ {i} : rows'[j] = rows[j]
<1>1. /\ i \in DOMAIN rows /\ rows[i].state \in {"queued", "blocked"}
      /\ rows' = [rows EXCEPT ![i].state = "cancelled"]
      /\ \A j \in DOMAIN rows : rows[j] \in Row
  BY EntriesOf DEF CancelEntry, Entries
<1>2. /\ rows' = [j \in DOMAIN rows |-> rows'[j]]
      /\ \A j \in DOMAIN rows \ {i} : rows'[j] = rows[j]
      /\ rows'[i] = [rows[i] EXCEPT !.state = "cancelled"]
  BY <1>1
<1>3. /\ rows'[i] \in Row /\ Kept(rows[i], rows'[i]) /\ rows'[i].state = "cancelled"
      /\ rows'[i].run = rows[i].run /\ rows'[i].pos = rows[i].pos
  <2>1. rows[i] \in Row /\ "cancelled" \in States
    BY <1>1 DEF States
  <2> QED BY <1>2, <2>1 DEF Row, Kept
<1>4. \A j \in DOMAIN rows :
         /\ rows'[j] \in Row /\ Kept(rows[j], rows'[j]) /\ Edge(rows[j], rows'[j])
         /\ rows'[j].run = rows[j].run
         /\ rows'[j].state = "running" => rows[j].state = "running"
  BY <1>1, <1>2, <1>3 DEF Kept, Edge
<1>5. rows' \in Seq(Row) /\ DOMAIN rows' = DOMAIN rows
  BY <1>2, <1>4, Rewritten
<1> QED BY <1>1, <1>2, <1>3, <1>4, <1>5 DEF NoneStarts, Evolves

LEMMA MoveEntryIs ==
    ASSUME rows \in Seq(Row), NEW i \in Entries, MoveEntry(i)
    PROVE  /\ NoneStarts(rows, rows')
           /\ \A j \in DOMAIN rows : /\ rows'[j].state = rows[j].state
                                     /\ rows[j].state = "running" => rows'[j] = rows[j]
<1> DEFINE movable == In(rows, {"queued", "blocked"})
<1>1. PICK pos \in [movable -> {rows[j].pos : j \in movable}] :
         rows' = [j \in Entries |-> IF j \in movable THEN [rows[j] EXCEPT !.pos = pos[j]]
                                    ELSE rows[j]]
  BY DEF MoveEntry
<1>2. /\ \A j \in DOMAIN rows : rows[j] \in Row
      /\ \A j \in movable : j \in DOMAIN rows /\ rows[j].state # "running"
  BY EntriesOf DEF In
<1>3. \A j \in movable : pos[j] \in Nat
  <2>1. \A j \in movable : rows[j].pos \in Nat
    BY <1>2 DEF Row
  <2> HIDE DEF movable
  <2>2. \A j \in movable : \E l \in movable : pos[j] = rows[l].pos
    BY <1>1
  <2> QED BY <2>1, <2>2
<1> HIDE DEF movable
<1>4. /\ rows' = [j \in DOMAIN rows |-> rows'[j]]
      /\ \A j \in DOMAIN rows : \/ rows'[j] = rows[j]
                                \/ j \in movable /\ rows'[j] = [rows[j] EXCEPT !.pos = pos[j]]
  BY <1>1 DEF Entries
<1>5. ASSUME NEW j \in DOMAIN rows
      PROVE  /\ rows'[j] \in Row /\ Kept(rows[j], rows'[j]) /\ Edge(rows[j], rows'[j])
             /\ rows'[j].run = rows[j].run /\ rows'[j].state = rows[j].state
             /\ rows[j].state = "running" => rows'[j] = rows[j]
  <2>1. CASE rows'[j] = rows[j]
    BY <1>2, <2>1 DEF Kept, Edge
  <2>2. CASE j \in movable /\ rows'[j] = [rows[j] EXCEPT !.pos = pos[j]]
    BY <1>2, <1>3, <2>2 DEF Row, Kept, Edge
  <2> QED BY <1>4, <2>1, <2>2
<1>6. rows' \in Seq(Row) /\ DOMAIN rows' = DOMAIN rows
  BY <1>4, <1>5, Rewritten
<1> QED BY <1>5, <1>6 DEF NoneStarts, Evolves

LEMMA CancelEntryKeeps ==
    ASSUME IInv, NEW i \in Entries, CancelEntry(i)
    PROVE  IInv'
<1>1. /\ NoneStarts(rows, rows')
      /\ \A j \in DOMAIN rows : rows[j].state = "running" => rows'[j] = rows[j]
  BY CancelEntryIs DEF IInv, TypeOK
<1>2. Request("remove") /\ UNCHANGED <<pipes, ready, preflight, boot>>
  BY DEF CancelEntry
<1> QED BY <1>1, <1>2, RewriteKeeps

LEMMA MoveEntryKeeps ==
    ASSUME IInv, NEW i \in Entries, MoveEntry(i)
    PROVE  IInv'
<1>1. /\ NoneStarts(rows, rows')
      /\ \A j \in DOMAIN rows : rows[j].state = "running" => rows'[j] = rows[j]
  BY MoveEntryIs DEF IInv, TypeOK
<1>2. Request("move") /\ UNCHANGED <<pipes, ready, preflight, boot>>
  BY DEF MoveEntry
<1> QED BY <1>1, <1>2, RewriteKeeps

-----------------------------------------------------------------------------
(* Pipelines, crashes and the sweep *)

(* A step of the pipelines between two continuations of the runner         *)
LEMMA PipesKeep ==
    ASSUME IInv, UNCHANGED <<rows, preflight>>, Roots \subseteq DOMAIN pipes',
           pipes' \in Seq(Pipe),
           ready' = <<>> \/ \E t \in Tasks : ready' = <<t>>,
           ~At("again")', ~At("record")',
           boot' \in [stage : {"up", "waves", "missed", "halts"}, owed : SUBSET Nat, at : Nat],
           used' \in [ops : Nat, other : Nat, crashes : Nat],
           VerdictsAreRead', RestIsDecided'
    PROVE  IInv'
<1>1. /\ WaitingIsNew' /\ RunsExist' /\ StartedIsMet' /\ OneRuns' /\ rows' \in Seq(Row)
      /\ Holds(rows, rows') /\ Evolves(rows, rows')
  BY FromSameRows
<1>2. KickoffsFit'
  BY <1>1, KickoffsKept DEF IInv
<1>3. TypeOK'
  BY <1>1 DEF IInv, TypeOK
<1> QED BY <1>1, <1>2, <1>3 DEF IInv

LEMMA TurnedBlocks ==
    ASSUME pipes \in Seq(Pipe), NEW r, NEW x, Turned(r, x), x.status = "live" \/ x.flight
    PROVE  Blocked(pipes')
BY TurnedIs DEF Blocked, Active, Turned

LEMMA TurnedRests ==
    ASSUME pipes \in Seq(Pipe), RestIsDecided, NEW r, NEW x, Turned(r, x),
           x.status = "live" \/ x.flight \/ x.decided,
           boot'.stage = boot.stage, used'.crashes = used.crashes
    PROVE  RestIsDecided'
BY TurnedIs DEF RestIsDecided, Active, Roots

LEMMA CancelRunKeeps ==
    ASSUME IInv, NEW r \in Roots, CancelRun(r)
    PROVE  IInv'
<1>1. pipes \in Seq(Pipe) /\ r \in Nat
  BY EntriesOf DEF IInv, TypeOK, Roots
<1>2. PICK x : Turned(r, x) /\ x.decided
  BY <1>1, CancelRunIs
<1>3. /\ used' \in [ops : Nat, other : Nat, crashes : Nat] /\ used'.crashes = used.crashes
      /\ ready' = <<Settle(r, FALSE)>> /\ UNCHANGED <<rows, preflight, boot>>
  BY RequestIs DEF CancelRun
<1> DEFINE s == Settle(r, FALSE)
<1>4. s \in Tasks /\ s.pc = "settle"
  BY <1>1 DEF Settle, Tasks
<1>5. ready' = <<s>>
  BY <1>3
<1> HIDE DEF s
<1>6. \A pc : At(pc)' <=> pc = "settle"
  BY <1>4, <1>5, AtNext
<1>7. VerdictsAreRead' /\ RestIsDecided'
  BY <1>1, <1>2, <1>3, <1>6, TurnedRests DEF VerdictsAreRead, IInv
<1>8. pipes' \in Seq(Pipe) /\ DOMAIN pipes' = Roots
  BY <1>1, <1>2, TurnedIs
<1> QED BY <1>3, <1>4, <1>5, <1>6, <1>7, <1>8, PipesKeep DEF IInv, TypeOK

LEMMA EscalateKeeps ==
    ASSUME IInv, NEW r \in Roots, Escalate(r)
    PROVE  IInv'
<1>1. pipes \in Seq(Pipe)
  BY DEF IInv, TypeOK
<1>2. PICK x : Turned(r, x) /\ x.status = "live"
  BY <1>1, EscalateIs
<1>3. /\ used' \in [ops : Nat, other : Nat, crashes : Nat] /\ used'.crashes = used.crashes
      /\ ready' = <<>> /\ UNCHANGED <<rows, preflight, boot>>
  BY RequestIs DEF Escalate
<1>4. VerdictsAreRead' /\ RestIsDecided'
  BY <1>1, <1>2, <1>3, TurnedBlocks, TurnedRests DEF VerdictsAreRead, IInv
<1> QED BY <1>1, <1>2, <1>3, <1>4, AtNone, TurnedIs, PipesKeep DEF IInv, TypeOK

LEMMA RunEndsKeeps ==
    ASSUME IInv, NEW r \in Roots, RunEnds(r)
    PROVE  IInv'
<1>1. pipes \in Seq(Pipe)
  BY DEF IInv, TypeOK
<1>2. PICK x : Turned(r, x) /\ x.flight
  BY <1>1, RunEndsIs
<1>3. ready' = <<>> /\ UNCHANGED <<rows, preflight, boot, used>>
  BY DEF RunEnds, Idle
<1>4. VerdictsAreRead' /\ RestIsDecided'
  BY <1>1, <1>2, <1>3, TurnedBlocks, TurnedRests DEF VerdictsAreRead, IInv
<1> QED BY <1>1, <1>2, <1>3, <1>4, AtNone, TurnedIs, PipesKeep DEF IInv, TypeOK

LEMMA TransitionEndsKeeps ==
    ASSUME IInv, NEW r \in Roots, TransitionEnds(r)
    PROVE  IInv'
<1> DEFINE s == Settle(r, pipes[r].status = "completed")
<1>1. pipes \in Seq(Pipe) /\ r \in Nat
  BY EntriesOf DEF IInv, TypeOK, Roots
<1>2. PICK x : Turned(r, x) /\ (x.status = "live" \/ x.decided)
  BY <1>1, TransitionEndsIs
<1>3. /\ ready' = <<s>> /\ UNCHANGED <<rows, preflight, used>>
      /\ boot' = [boot EXCEPT !.at = IF boot.at = r THEN NoRun ELSE boot.at]
  BY DEF TransitionEnds
<1>4. s \in Tasks /\ s.pc = "settle"
  BY <1>1, SettleIs
<1> HIDE DEF s
<1>5. \A pc : At(pc)' <=> pc = "settle"
  BY <1>3, <1>4, AtNext
<1>6. /\ boot' \in [stage : {"up", "waves", "missed", "halts"}, owed : SUBSET Nat, at : Nat]
      /\ boot'.stage = boot.stage
  BY <1>3 DEF IInv, TypeOK, NoRun
<1>7. VerdictsAreRead' /\ RestIsDecided'
  BY <1>1, <1>2, <1>3, <1>5, <1>6, TurnedRests DEF VerdictsAreRead, IInv
<1>8. pipes' \in Seq(Pipe) /\ DOMAIN pipes' = Roots
  BY <1>1, <1>2, TurnedIs
<1> QED BY <1>3, <1>4, <1>5, <1>6, <1>7, <1>8, PipesKeep DEF IInv, TypeOK

LEMMA OtherSettlesKeeps ==
    ASSUME IInv, OtherSettles
    PROVE  IInv'
<1>1. /\ ready' = <<Settle(NoRun, TRUE)>> /\ UNCHANGED <<rows, pipes, preflight, boot>>
      /\ used' \in [ops : Nat, other : Nat, crashes : Nat] /\ used'.crashes = used.crashes
  BY SpendIs DEF OtherSettles, IInv, TypeOK
<1> DEFINE s == Settle(NoRun, TRUE)
<1>2. s \in Tasks /\ s.pc = "settle"
  BY DEF Settle, Tasks, NoRun
<1>3. ready' = <<s>>
  BY <1>1
<1> HIDE DEF s
<1>4. \A pc : At(pc)' <=> pc = "settle"
  BY <1>2, <1>3, AtNext
<1>5. VerdictsAreRead' /\ RestIsDecided'
  BY <1>1, <1>4, SamePipes, RestKept DEF VerdictsAreRead, IInv
<1> QED BY <1>1, <1>2, <1>3, <1>4, <1>5, SamePipes, PipesKeep DEF IInv, TypeOK

LEMMA CrashKeeps ==
    ASSUME IInv, Crash
    PROVE  IInv'
<1>1. /\ used' \in [ops : Nat, other : Nat, crashes : Nat] /\ used'.crashes # 0
      /\ ready' = <<>> /\ preflight' = {} /\ rows' = rows
      /\ boot' = [stage |-> "waves", owed |-> {}, at |-> NoRun]
  BY SpendIs DEF Crash, IInv, TypeOK
<1>2. pipes' \in Seq(Pipe) /\ DOMAIN pipes' = Roots
  BY CrashIs DEF IInv, TypeOK
<1>3. /\ WaitingIsNew' /\ RunsExist' /\ StartedIsMet' /\ OneRuns' /\ rows' \in Seq(Row)
  BY <1>1, <1>2, FromSameRows
<1>4. KickoffsFit'
  BY <1>1, AtNone DEF KickoffsFit
<1>5. VerdictsAreRead' /\ RestIsDecided'
  BY <1>1 DEF VerdictsAreRead, RestIsDecided
<1>6. TypeOK'
  BY <1>1, <1>2, <1>3 DEF IInv, TypeOK, NoRun
<1> QED BY <1>3, <1>4, <1>5, <1>6 DEF IInv

(* The sweep runs after a crash only. *)
LEMMA SweepKeeps ==
    ASSUME IInv, boot.stage # "up", boot'.stage # "up",
           boot' \in [stage : {"up", "waves", "missed", "halts"}, owed : SUBSET Nat, at : Nat],
           UNCHANGED <<rows, preflight, used>>, Idle,
           ready' = <<>> \/ \E t \in Tasks : t.pc = "settle" /\ ready' = <<t>>,
           pipes' = pipes \/ \E r \in Roots : \E x : Turned(r, x)
    PROVE  IInv'
<1>1. pipes' \in Seq(Pipe) /\ DOMAIN pipes' = Roots
  BY TurnedIs DEF IInv, TypeOK, Roots
<1>2. ~At("again")' /\ ~At("record")'
  BY AtNone, AtNext
<1>3. VerdictsAreRead' /\ RestIsDecided'
  BY DEF VerdictsAreRead, RestIsDecided, IInv
<1> QED BY <1>1, <1>2, <1>3, PipesKeep DEF IInv, TypeOK

LEMMA BootKeeps ==
    ASSUME IInv, Boot
    PROVE  IInv'
<1>1. boot \in [stage : {"up", "waves", "missed", "halts"}, owed : SUBSET Nat, at : Nat]
      /\ pipes \in Seq(Pipe) /\ Roots \subseteq Nat
  BY EntriesOf DEF IInv, TypeOK, Roots
<1>2. CASE BootTransitions
  <2> DEFINE owed == {r \in Roots : pipes[r].status = "completed" /\ pipes[r].mark = "none"}
  <2>1. /\ boot.stage = "waves" /\ boot' = [boot EXCEPT !.stage = "missed", !.owed = owed]
        /\ UNCHANGED <<rows, pipes, ready, preflight, used>> /\ Idle
    BY <1>2 DEF BootTransitions
  <2>2. owed \in SUBSET Nat
    BY <1>1
  <2> HIDE DEF owed
  <2> QED BY <1>1, <2>1, <2>2, SweepKeeps DEF Idle
<1>3. CASE BootHalts
  <2> DEFINE owed == {r \in Roots : pipes[r].status = "failed" /\ ~pipes[r].decided}
  <2>1. /\ boot.stage = "missed" /\ boot' = [boot EXCEPT !.stage = "halts", !.owed = owed]
        /\ UNCHANGED <<rows, pipes, ready, preflight, used>> /\ Idle
    BY <1>3 DEF BootHalts
  <2>2. owed \in SUBSET Nat
    BY <1>1
  <2> HIDE DEF owed
  <2> QED BY <1>1, <2>1, <2>2, SweepKeeps DEF Idle
<1>4. ASSUME NEW r \in Roots, BootReplay(r) PROVE IInv'
  <2>1. pipes' = pipes \/ \E x : Turned(r, x)
    BY <1>1, <1>4, BootReplayIs
  <2>2. /\ boot.stage = "missed" /\ Idle /\ UNCHANGED <<rows, preflight, used>>
        /\ \/ boot' = [boot EXCEPT !.owed = boot.owed \ {r}, !.at = r] /\ ready' = ready
           \/ boot' = [boot EXCEPT !.owed = boot.owed \ {r}] /\ ready' = <<Settle(r, TRUE)>>
    BY <1>4 DEF BootReplay
  <2>3. /\ boot' \in [stage : {"up", "waves", "missed", "halts"}, owed : SUBSET Nat, at : Nat]
        /\ boot'.stage = "missed"
    BY <1>1, <2>2
  <2>4. ready' = <<>> \/ \E t \in Tasks : t.pc = "settle" /\ ready' = <<t>>
    BY <1>1, <2>2, SettleIs DEF Idle
  <2> QED BY <2>1, <2>2, <2>3, <2>4, SweepKeeps
<1>5. ASSUME NEW r \in Roots, BootRecover(r) PROVE IInv'
  <2>1. pipes' = pipes \/ \E x : Turned(r, x)
    BY <1>1, <1>5, BootRecoverIs
  <2>2. /\ boot.stage = "halts" /\ Idle /\ UNCHANGED <<rows, ready, preflight, used>>
        /\ boot' = [boot EXCEPT !.owed = boot.owed \ {r}]
    BY <1>5 DEF BootRecover
  <2>3. /\ boot' \in [stage : {"up", "waves", "missed", "halts"}, owed : SUBSET Nat, at : Nat]
        /\ boot'.stage = "halts"
    BY <1>1, <2>2
  <2> QED BY <2>1, <2>2, <2>3, SweepKeeps DEF Idle
<1>6. CASE BootQueue
  <2> DEFINE k == Task("resume", NoRun, 0, 0)
  <2>1. /\ boot.stage = "halts" /\ boot' = [boot EXCEPT !.stage = "up"]
        /\ ready' = IF In(rows, {"running", "queued"}) = {} THEN <<>> ELSE <<k>>
        /\ UNCHANGED <<rows, pipes, preflight, used>>
    BY <1>6 DEF BootQueue
  <2>2. k \in Tasks /\ k.pc = "resume"
    BY DEF Task, Tasks, NoRun
  <2> HIDE DEF k
  <2>3. boot' \in [stage : {"up", "waves", "missed", "halts"}, owed : SUBSET Nat, at : Nat]
    BY <1>1, <2>1
  <2>4. /\ ready' = <<>> \/ \E t \in Tasks : ready' = <<t>>
        /\ ~At("again")' /\ ~At("record")'
    BY <2>1, <2>2, AtNone, AtNext
  <2>5. RestIsDecided'
    BY <2>1 DEF IInv, RestIsDecided
  <2>6. VerdictsAreRead'
    <3>1. CASE In(rows, {"running", "queued"}) = {}
      <4>1. In(rows, {"running"}) = {}
        BY <3>1 DEF In
      <4> QED BY <2>1, <4>1 DEF VerdictsAreRead, Unread
    <3>2. CASE In(rows, {"running", "queued"}) # {}
      BY <2>1, <2>2, <3>2, AtNext DEF VerdictsAreRead
    <3> QED BY <3>1, <3>2
  <2> QED BY <1>1, <2>1, <2>3, <2>4, <2>5, <2>6, SamePipes, PipesKeep DEF IInv, TypeOK
<1> QED BY <1>2, <1>3, <1>4, <1>5, <1>6 DEF Boot

LEMMA Starts == Init => IInv
<1> SUFFICES ASSUME Init PROVE IInv
  OBVIOUS
<1>1. /\ rows = <<>> /\ pipes = <<>> /\ ready = <<>> /\ preflight = {}
      /\ boot = [stage |-> "up", owed |-> {}, at |-> 0]
      /\ used = [ops |-> 0, other |-> 0, crashes |-> 0]
  BY DEF Init, NoRun
<1>2. DOMAIN rows = {} /\ DOMAIN pipes = {} /\ \A pc : ~At(pc)
  BY <1>1 DEF At
<1>3. TypeOK
  BY <1>1 DEF TypeOK
<1>4. In(rows, {"running"}) = {} /\ Ours(rows) = {}
  BY <1>2 DEF In, Ours
<1>5. WaitingIsNew /\ RunsExist /\ StartedIsMet
  BY <1>2 DEF WaitingIsNew, RunsExist, StartedIsMet, In, Entries
<1>6. OneRuns /\ KickoffsFit
  BY <1>1, <1>2, <1>4 DEF OneRuns, KickoffsFit
<1>7. VerdictsAreRead /\ RestIsDecided
  BY <1>1, <1>2, <1>4 DEF VerdictsAreRead, RestIsDecided, Unread, Roots
<1> QED BY <1>3, <1>5, <1>6, <1>7 DEF IInv

LEMMA Inductive == IInv /\ [Next]_vars => IInv'
<1> SUFFICES ASSUME IInv, [Next]_vars PROVE IInv'
  OBVIOUS
<1>1. CASE Runner
  BY <1>1, HandleSettleKeeps, ResumeQueueKeeps, TryStartNextKeeps, TryAnotherKeeps,
     RecordStartKeeps, KickoffKeeps, KickoffFailsKeeps DEF Runner
<1>2. CASE Operator
  BY <1>2, EnqueueKeeps, CancelEntryKeeps, MoveEntryKeeps, DirectKickoffKeeps,
     CancelRunKeeps, EscalateKeeps DEF Operator
<1>3. CASE Pipelines
  BY <1>3, RunEndsKeeps, TransitionEndsKeeps, OtherSettlesKeeps DEF Pipelines
<1>4. CASE Boot
  BY <1>4, BootKeeps
<1>5. CASE Crash
  BY <1>5, CrashKeeps
<1>6. CASE UNCHANGED vars
  BY <1>6 DEF vars, IInv, TypeOK, WaitingIsNew, RunsExist, OneRuns, KickoffsFit,
     StartedIsMet, VerdictsAreRead, RestIsDecided, Claimed, At, Met, Entries, Roots
<1> QED BY <1>1, <1>2, <1>3, <1>4, <1>5, <1>6 DEF Next

THEOREM IInvHolds == Spec => []IInv
<1> QED BY Starts, Inductive, PTL DEF Spec

-----------------------------------------------------------------------------
(* The properties *)

LEMMA AtMostOne ==
    ASSUME NEW S, \A i, j \in S : i = j
    PROVE  Cardinality(S) <= 1
<1>1. CASE S = {}
  <2>1. Cardinality(S) = 0
    BY <1>1, FS_EmptySet
  <2> QED BY <2>1
<1>2. ASSUME NEW i \in S PROVE Cardinality(S) <= 1
  <2>1. S = {i}
    BY <1>2
  <2>2. Cardinality(S) = 1
    BY <2>1, FS_Singleton
  <2> QED BY <2>2
<1> QED BY <1>1, <1>2

(* One entry of the queue runs at a time: between the claim of an entry    *)
(* and the insert of its root run, and whatever looks at the queue then.   *)
THEOREM TheSlotIsOne == Spec => []SlotOfOne
<1>1. ASSUME IInv PROVE SlotOfOne
  <2>1. \A i, j \in Ours(rows) : i = j
    BY <1>1 DEF IInv, OneRuns
  <2>2. Cardinality(Ours(rows)) <= 1
    BY <2>1, AtMostOne
  <2> QED BY <2>2 DEF Ours, SlotOfOne
<1> QED BY <1>1, IInvHolds, PTL

(* What runs or has run had every feature it waits for done, however the   *)
(* entries are moved, parked, requeued and enqueued anew.                  *)
THEOREM DependenciesComeFirst == Spec => []DependenciesDone
<1>1. ASSUME IInv PROVE DependenciesDone
  <2>1. \A i \in In(rows, {"running", "done"}) : i \in In(rows, {"running", "done", "failed"})
    BY DEF In
  <2> QED BY <1>1, <2>1 DEF IInv, StartedIsMet, Met, DependenciesDone
<1> QED BY <1>1, IInvHolds, PTL

(* At rest no running entry has a pipeline with a verdict: the settle of   *)
(* every pipeline is read, also after a crash and beside other pipelines.  *)
THEOREM EverySettleIsRead == Spec => []ClassifiedInTime
<1>1. ASSUME IInv, Quiet PROVE Unread(rows, pipes) = {}
  BY <1>1, AtIdle DEF IInv, VerdictsAreRead, Quiet
<1>2. IInv => ClassifiedInTime
  BY <1>1 DEF ClassifiedInTime, Unread
<1> QED BY <1>2, IInvHolds, PTL

(* What every step makes of the entries, and when it may fail one          *)
LEMMA StepIs ==
    ASSUME IInv, Next
    PROVE  /\ Evolves(rows, rows')
           /\ \A i \in DOMAIN rows :
                 rows[i].state = "running" /\ rows'[i].state = "failed" /\ rows[i].run # NoRun
                 => ~Blocked(pipes)
<1>1. rows \in Seq(Row) /\ TypeOK /\ RunsExist
  BY DEF IInv, TypeOK
<1>2. CASE HandleSettle \/ ResumeQueue
  <2>1. NoneStarts(rows, rows') /\ Judged(rows', pipes)
    BY <1>1, <1>2, HandleSettleIs, ResumeQueueIs
  <2> QED BY <2>1 DEF NoneStarts, Judged
<1>3. ASSUME NEW left \in Nat, Attempt(left)
      PROVE  Evolves(rows, rows') /\ \A i \in DOMAIN rows : rows[i].state = "running" =>
                                                            rows'[i].state = "running"
  BY <1>1, <1>3, AttemptIs DEF NoneStarts, Claims
<1>4. CASE TryStartNext \/ TryAnother
  <2>1. rows' = rows \/ \E left \in Nat : Attempt(left)
    <3>1. Cardinality(In(rows, {"queued"})) \in Nat
      BY <1>1, CountIs
    <3>2. Pop("again") => Head(ready).left \in Nat
      <4>1. Pop("again") => Head(ready) \in Tasks
        BY <1>1, ThenIs
      <4> QED BY <4>1 DEF Tasks
    <3> QED BY <1>4, <3>1, <3>2 DEF TryStartNext, TryAnother
  <2>2. CASE rows' = rows
    BY <1>1, <2>2, OfSame DEF NoneStarts
  <2> QED BY <1>3, <2>1, <2>2
<1>5. CASE RecordStart
  BY <1>5, RecordStartKeeps DEF RowsStep
<1>6. ASSUME NEW t \in preflight, KickoffFails(t)
      PROVE  /\ Evolves(rows, rows')
             /\ \A i \in DOMAIN rows : rows[i].state = "running" /\ rows'[i].state = "failed" =>
                                       rows[i].run = NoRun
  BY <1>6, KickoffFailsIs DEF NoneStarts
<1>7. ASSUME NEW f \in Features, NEW after \in AfterLists, Enqueue(f, after)
      PROVE  Evolves(rows, rows') /\ \A i \in DOMAIN rows : rows'[i] = rows[i]
  BY <1>7, EnqueueKeeps DEF RowsStep
<1>8. ASSUME NEW f \in Features, DirectKickoff(f)
      PROVE  Evolves(rows, rows') /\ \A i \in DOMAIN rows : rows'[i] = rows[i]
  BY <1>8, DirectKickoffKeeps DEF RowsStep
<1>9. ASSUME NEW i \in Entries, CancelEntry(i) \/ MoveEntry(i)
      PROVE  /\ Evolves(rows, rows')
             /\ \A j \in DOMAIN rows : rows[j].state = "running" => rows'[j] = rows[j]
  BY <1>1, <1>9, CancelEntryIs, MoveEntryIs DEF NoneStarts
<1>10. CASE rows' = rows
  BY <1>1, <1>10, OfSame DEF NoneStarts
<1>11. CASE Runner
  BY <1>2, <1>4, <1>5, <1>6, <1>10, <1>11 DEF Runner, Kickoff
<1>12. CASE Operator
  BY <1>7, <1>8, <1>9, <1>10, <1>12 DEF Operator, CancelRun, Escalate
<1>13. CASE Pipelines \/ Boot \/ Crash
  BY <1>10, <1>13 DEF Pipelines, RunEnds, TransitionEnds, OtherSettles, Boot, BootTransitions,
     BootReplay, BootHalts, BootRecover, BootQueue, Crash
<1> QED BY <1>11, <1>12, <1>13 DEF Next

(* A cancelled entry stays so, and so does one that is parked behind a     *)
(* cancelled one, whatever is recovered, classified or searched.           *)
THEOREM CancelledIsFinal == Spec => NeverRevived
<1> DEFINE Final == \A i \in Entries :
              /\ rows[i].state = "cancelled" => rows'[i].state = "cancelled"
              /\ rows[i].state = "blocked" /\ rows[i].cause.kind = "cancelled"
                 => rows'[i].state \in {"blocked", "cancelled"}
<1>1. ASSUME IInv, [Next]_vars PROVE [Final]_vars
  <2>1. CASE Next
    <3>1. \A i \in Entries : Edge(rows[i], rows'[i])
      BY <1>1, <2>1, StepIs DEF Evolves, Entries
    <3> QED BY <3>1 DEF Edge
  <2> QED BY <1>1, <2>1
<1>2. [][Final]_vars <=> NeverRevived
  BY PTL DEF NeverRevived
<1> HIDE DEF Final
<1> QED BY <1>1, <1>2, IInvHolds, PTL DEF Spec

(* Until a crash, an entry fails for its pipeline only when the pipeline   *)
(* has come to rest and the chain runner has decided about it.             *)
THEOREM JudgedAfterTheDecision == Spec => EvaluatesDecided
<1> DEFINE Decided == \A i \in Entries :
              /\ used.crashes = 0
              /\ rows[i].state = "running" /\ rows'[i].state = "failed"
              /\ rows[i].run # NoRun
              => pipes[rows[i].run].decided /\ ~pipes[rows[i].run].flight
<1>1. ASSUME IInv, [Next]_vars PROVE [Decided]_vars
  <2>1. CASE Next
    <3> SUFFICES ASSUME NEW i \in Entries, used.crashes = 0, rows[i].state = "running",
                        rows'[i].state = "failed", rows[i].run # NoRun
                 PROVE  pipes[rows[i].run].decided /\ ~pipes[rows[i].run].flight
      OBVIOUS
    <3>1. ~Blocked(pipes)
      BY <1>1, <2>1, StepIs DEF Entries
    <3>2. rows[i].run \in Roots
      BY <1>1 DEF IInv, RunsExist
    <3>3. ~Active(pipes[rows[i].run])
      BY <3>1, <3>2 DEF Blocked, Roots
    <3> QED BY <1>1, <3>2, <3>3 DEF IInv, RestIsDecided, Active
  <2> QED BY <1>1, <2>1
<1>2. [][Decided]_vars <=> EvaluatesDecided
  BY PTL DEF EvaluatesDecided
<1> HIDE DEF Decided
<1> QED BY <1>1, <1>2, IInvHolds, PTL DEF Spec

-----------------------------------------------------------------------------
(* One pipeline of the queue at a time *)

(* A pipeline that has come to rest stays at rest. *)
Onward ==
    /\ Roots \subseteq DOMAIN pipes'
    /\ \A r \in Roots : Active(pipes'[r]) => Active(pipes[r])

LEMMA OnwardGrows ==
    ASSUME PipesGrow
    PROVE  Onward
BY DEF PipesGrow, Onward

LEMMA OnwardTurned ==
    ASSUME pipes \in Seq(Pipe), NEW r, NEW x, Turned(r, x), Active(x) => Active(pipes[r])
    PROVE  Onward
<1>1. \A q \in Roots : q # r => pipes'[q] = pipes[q]
  BY TurnedIs
<1>2. pipes'[r] = x /\ DOMAIN pipes' = Roots
  BY TurnedIs
<1> QED BY <1>1, <1>2 DEF Onward

(* What RowsStep leaves open: no entry of the queue gets a run             *)
NoRunIsGiven ==
    /\ Evolves(rows, rows')
    /\ \A i \in DOMAIN rows : rows'[i].run = rows[i].run
    /\ \A i \in DOMAIN rows' \ DOMAIN rows :
          rows'[i].run = NoRun \/ rows'[i].origin = "direct"

LEMMA GoingShrinks ==
    ASSUME RunsExist, NoRunIsGiven, Onward
    PROVE  Going(rows', pipes') \subseteq Going(rows, pipes)
<1> SUFFICES ASSUME NEW i \in Going(rows', pipes') PROVE i \in Going(rows, pipes)
  OBVIOUS
<1>1. /\ i \in DOMAIN rows' /\ rows'[i].origin = "queue" /\ rows'[i].run # NoRun
      /\ Active(pipes'[rows'[i].run])
  BY DEF Going
<1>2. i \in DOMAIN rows /\ rows[i].origin = "queue" /\ rows'[i].run = rows[i].run
  BY <1>1 DEF NoRunIsGiven, Evolves, Kept
<1>3. rows[i].run \in Roots
  BY <1>1, <1>2 DEF RunsExist, Entries
<1> QED BY <1>1, <1>2, <1>3 DEF Onward, Going

Pending == preflight # {} \/ At("again") \/ At("record")

LEMMA OneGoesKept ==
    ASSUME IInv, OneGoes, NoRunIsGiven, Onward,
           used'.crashes = used.crashes, Pending' => Pending \/ Going(rows, pipes) = {}
    PROVE  OneGoes'
<1>1. Going(rows', pipes') \subseteq Going(rows, pipes)
  BY GoingShrinks DEF IInv
<1>2. ASSUME used'.crashes = 0
      PROVE  /\ \A i, j \in Going(rows', pipes') : i = j
             /\ Pending' => Going(rows', pipes') = {}
  BY <1>1, <1>2 DEF OneGoes, Pending
<1> QED BY <1>2 DEF OneGoes, Pending

LEMMA NoneStartsGives ==
    ASSUME NoneStarts(rows, rows')
    PROVE  NoRunIsGiven
BY DEF NoneStarts, NoRunIsGiven

LEMMA RestIsFree ==
    ASSUME RunsExist, ~Blocked(pipes)
    PROVE  Going(rows, pipes) = {}
BY DEF Going, RunsExist, Blocked, Entries, Roots

LEMMA RunnerOneGoes ==
    ASSUME IInv, OneGoes, Runner
    PROVE  OneGoes'
<1>1. /\ TypeOK /\ RunsExist /\ KickoffsFit
      /\ rows \in Seq(Row) /\ pipes \in Seq(Pipe)
  BY DEF IInv, TypeOK
<1>2. CASE HandleSettle \/ ResumeQueue
  <2>1. NoneStarts(rows, rows') /\ (ready' = <<StartTask>> \/ ready' = <<>>)
    BY <1>1, <1>2, HandleSettleIs, ResumeQueueIs
  <2>2. ~At("again")' /\ ~At("record")'
    BY <2>1, StartIsNext, AtNone
  <2>3. UNCHANGED <<pipes, preflight, boot, used>>
    BY <1>2 DEF HandleSettle, ResumeQueue
  <2> QED BY <2>1, <2>2, <2>3, NoneStartsGives, SamePipes, OnwardGrows, OneGoesKept
          DEF Pending
<1>3. ASSUME NEW left \in Nat, Attempt(left), UNCHANGED <<pipes, used>>,
             used.crashes = 0 => Going(rows, pipes) = {}
      PROVE  OneGoes'
  <2>1. NoRunIsGiven
    BY <1>1, <1>3, AttemptIs, NoneStartsGives DEF Claims, NoRunIsGiven
  <2>2. Going(rows', pipes') \subseteq Going(rows, pipes)
    BY <1>1, <1>3, <2>1, SamePipes, OnwardGrows, GoingShrinks
  <2> QED BY <1>3, <2>2 DEF OneGoes
<1>4. CASE TryStartNext
  <2>1. Pop("start") /\ ready' = <<>> /\ UNCHANGED <<pipes, boot, used>>
    BY <1>1, <1>4, ThenIs DEF TryStartNext
  <2>2. CASE MayStart
    <3>1. Attempt(Cardinality(In(rows, {"queued"}))) /\ ~Blocked(pipes)
      BY <1>4, <2>2 DEF TryStartNext, MayStart
    <3>2. Cardinality(In(rows, {"queued"})) \in Nat
      BY <1>1, CountIs
    <3> QED BY <1>1, <1>3, <2>1, <3>1, <3>2, RestIsFree
  <2>3. CASE ~MayStart
    <3>1. UNCHANGED <<rows, preflight>>
      BY <1>4, <2>3 DEF TryStartNext
    <3>2. NoRunIsGiven /\ \A pc : ~At(pc)'
      BY <1>1, <2>1, <3>1, OfSame, NoneStartsGives, AtNone
    <3> QED BY <2>1, <3>1, <3>2, SamePipes, OnwardGrows, OneGoesKept DEF Pending
  <2> QED BY <2>2, <2>3
<1>5. CASE TryAnother
  <2>1. /\ Pop("again") /\ Attempt(Head(ready).left) /\ UNCHANGED <<pipes, used>>
        /\ Head(ready) \in Tasks
    BY <1>1, <1>5, ThenIs DEF TryAnother
  <2>2. Head(ready).left \in Nat /\ At("again")
    BY <2>1, AtPopped DEF Tasks
  <2> QED BY <1>3, <2>1, <2>2 DEF OneGoes
<1>6. CASE RecordStart
  <2> DEFINE t == Head(ready)
  <2>1. /\ Pop("record") /\ ready' = <<>> /\ UNCHANGED <<pipes, preflight, boot, used>>
        /\ rows' = IF rows[t.entry].state = "running"
                   THEN [rows EXCEPT ![t.entry].run = t.root] ELSE rows
    BY <1>1, <1>6, ThenIs DEF RecordStart
  <2>2. At("record") /\ preflight = {} /\ t.entry \in DOMAIN rows
    BY <1>1, <2>1, AtPopped DEF KickoffsFit, Entries
  <2> HIDE DEF t
  <2>3. DOMAIN rows' = DOMAIN rows /\ \A i \in DOMAIN rows : i # t.entry => rows'[i] = rows[i]
    BY <2>1, <2>2
  <2>4. ASSUME used.crashes = 0, NEW i \in Going(rows', pipes') PROVE i = t.entry
    <3>1. i \in DOMAIN rows' /\ (i # t.entry => i \in Going(rows, pipes))
      BY <2>1, <2>3 DEF Going
    <3>2. Going(rows, pipes) = {}
      BY <2>2, <2>4 DEF OneGoes
    <3> QED BY <3>1, <3>2
  <2>5. ~Pending'
    BY <2>1, <2>2, AtNone DEF Pending
  <2> QED BY <2>1, <2>4, <2>5 DEF OneGoes, Pending
<1>7. ASSUME NEW t \in preflight, Kickoff(t) \/ KickoffFails(t) PROVE OneGoes'
  <2>1. UNCHANGED used /\ Pending
    BY <1>7 DEF Kickoff, KickoffFails, Pending
  <2>2. PipesGrow
    <3>1. pipes' = pipes \/ pipes' = Append(pipes, NewPipe)
      BY <1>7 DEF Kickoff, KickoffFails
    <3> QED BY <1>1, <3>1, NewPipes, SamePipes
  <2>3. NoneStarts(rows, rows')
    BY <1>1, <1>7, KickoffFailsIs, OfSame DEF Kickoff
  <2> QED BY <2>1, <2>2, <2>3, NoneStartsGives, OnwardGrows, OneGoesKept
<1> QED BY <1>2, <1>4, <1>5, <1>6, <1>7 DEF Runner

LEMMA OperatorOneGoes ==
    ASSUME IInv, OneGoes, Operator, "escalate" \notin Ops
    PROVE  OneGoes'
<1>1. /\ TypeOK /\ RunsExist
      /\ rows \in Seq(Row) /\ pipes \in Seq(Pipe)
  BY DEF IInv, TypeOK
<1>2. ASSUME NEW f \in Features, NEW after \in AfterLists, Enqueue(f, after)
      PROVE  OneGoes'
  <2>1. /\ RowsStep /\ \A i \in DOMAIN rows : rows'[i] = rows[i]
        /\ ready' = <<StartTask>> /\ UNCHANGED <<pipes, preflight, boot, used>>
    BY <1>2, EnqueueKeeps DEF Enqueue, StartTask
  <2>2. NoRunIsGiven
    BY <2>1 DEF RowsStep, NoRunIsGiven
  <2> QED BY <2>1, <2>2, StartIsNext, SamePipes, OnwardGrows, OneGoesKept DEF Pending
<1>3. ASSUME NEW f \in Features, DirectKickoff(f)
      PROVE  OneGoes'
  <2>1. /\ RowsStep /\ \A i \in DOMAIN rows : rows'[i] = rows[i]
        /\ pipes' = Append(pipes, NewPipe) /\ UNCHANGED <<ready, preflight, boot>>
        /\ used'.crashes = used.crashes /\ ready = <<>>
    BY <1>3, DirectKickoffKeeps, RequestIs DEF DirectKickoff
  <2>2. NoRunIsGiven /\ \A pc : ~At(pc)'
    BY <2>1, AtNone DEF RowsStep, NoRunIsGiven
  <2> QED BY <1>1, <2>1, <2>2, NewPipes, OnwardGrows, OneGoesKept DEF Pending
<1>4. ASSUME NEW i \in Entries, CancelEntry(i) \/ MoveEntry(i)
      PROVE  OneGoes'
  <2>1. NoneStarts(rows, rows')
    BY <1>1, <1>4, CancelEntryIs, MoveEntryIs
  <2>2. /\ UNCHANGED <<pipes, ready, preflight, boot>>
        /\ used'.crashes = used.crashes /\ ready = <<>>
    BY <1>4, RequestIs DEF CancelEntry, MoveEntry
  <2> QED BY <2>1, <2>2, AtNone, NoneStartsGives, SamePipes, OnwardGrows, OneGoesKept
          DEF Pending
<1>5. ASSUME NEW r \in Roots, CancelRun(r)
      PROVE  OneGoes'
  <2>1. /\ UNCHANGED <<rows, preflight, boot>> /\ used'.crashes = used.crashes
        /\ ready' = <<Settle(r, FALSE)>>
    BY <1>5, RequestIs DEF CancelRun
  <2>2. ~At("again")' /\ ~At("record")'
    BY <2>1, AtNext DEF Settle
  <2>3. PICK x : Turned(r, x) /\ x.status # "live" /\ x.flight = pipes[r].flight
    BY <1>1, <1>5, CancelRunIs
  <2>4. Onward
    BY <1>1, <2>3, OnwardTurned DEF Active
  <2> QED BY <1>1, <2>1, <2>2, <2>4, OfSame, NoneStartsGives, OneGoesKept DEF Pending
<1>6. ASSUME NEW r \in Roots PROVE ~Escalate(r)
  BY DEF Escalate, Request
<1> QED BY <1>2, <1>3, <1>4, <1>5, <1>6 DEF Operator

LEMMA OneGoesHolds ==
    ASSUME "escalate" \notin Ops, IInv, OneGoes, [Next]_vars
    PROVE  OneGoes'
<1>1. /\ TypeOK /\ RunsExist
      /\ rows \in Seq(Row) /\ pipes \in Seq(Pipe)
  BY DEF IInv, TypeOK
<1>2. CASE Runner
  BY <1>2, RunnerOneGoes
<1>3. CASE Operator
  BY <1>3, OperatorOneGoes
<1>4. ASSUME UNCHANGED <<rows, preflight>>, used'.crashes = used.crashes,
             ~At("again")', ~At("record")', Onward
      PROVE  OneGoes'
  BY <1>1, <1>4, OfSame, NoneStartsGives, OneGoesKept DEF Pending
<1>5. ASSUME NEW r \in Roots, RunEnds(r) PROVE OneGoes'
  <2>1. ready' = <<>> /\ UNCHANGED <<rows, preflight, used>>
    BY <1>5 DEF RunEnds, Idle
  <2>2. PICK x : Turned(r, x) /\ Active(pipes[r])
    BY <1>1, <1>5, RunEndsIs DEF Active
  <2> QED BY <1>1, <1>4, <2>1, <2>2, AtNone, OnwardTurned
<1>6. ASSUME NEW r \in Roots, TransitionEnds(r) PROVE OneGoes'
  <2> DEFINE s == Settle(r, pipes[r].status = "completed")
  <2>1. ready' = <<s>> /\ UNCHANGED <<rows, preflight, used>>
    BY <1>6 DEF TransitionEnds
  <2>2. s.pc = "settle"
    BY DEF Settle
  <2> HIDE DEF s
  <2>3. PICK x : Turned(r, x) /\ Active(pipes[r])
    BY <1>1, <1>6, TransitionEndsIs DEF Active
  <2> QED BY <1>1, <1>4, <2>1, <2>2, <2>3, AtNext, OnwardTurned
<1>7. CASE OtherSettles
  <2> DEFINE s == Settle(NoRun, TRUE)
  <2>1. ready' = <<s>> /\ UNCHANGED <<rows, pipes, preflight>> /\ used'.crashes = used.crashes
    BY <1>1, <1>7, SpendIs DEF OtherSettles, TypeOK
  <2>2. s.pc = "settle"
    BY DEF Settle
  <2> HIDE DEF s
  <2> QED BY <1>4, <2>1, <2>2, AtNext, SamePipes, OnwardGrows
<1>8. CASE Boot
  <2>1. boot.stage # "up" /\ UNCHANGED used
    BY <1>8 DEF Boot, BootTransitions, BootReplay, BootHalts, BootRecover, BootQueue
  <2> QED BY <2>1 DEF IInv, RestIsDecided, OneGoes
<1>9. CASE Crash
  <2>1. used'.crashes # 0
    BY <1>1, <1>9, SpendIs DEF Crash, TypeOK
  <2> QED BY <2>1 DEF OneGoes
<1>10. CASE UNCHANGED vars
  BY <1>10 DEF vars, OneGoes, At
<1> QED BY <1>2, <1>3, <1>5, <1>6, <1>7, <1>8, <1>9, <1>10 DEF Next, Pipelines

(* Unless the operator retries halted pipelines, one of the queue's        *)
(* pipelines is live at a time: none is started while another goes on, and *)
(* none that was judged goes on.  A crash may break this: the sweep retries *)
(* what a settle event has judged meanwhile.                               *)
THEOREM OnePipelineAtATime ==
    ASSUME "escalate" \notin Ops
    PROVE  Spec => []OnePipeline
<1>1. Init => OneGoes
  BY DEF Init, OneGoes, Going, At
<1>2. IInv /\ OneGoes /\ [Next]_vars => OneGoes'
  BY OneGoesHolds
<1>3. ASSUME OneGoes PROVE OnePipeline
  <2> DEFINE live == {i \in Entries : /\ rows[i].origin = "queue" /\ rows[i].run # NoRun
                                      /\ pipes[rows[i].run].status = "live"}
  <2>1. live \subseteq Going(rows, pipes)
    BY DEF Going, Entries, Active
  <2> HIDE DEF live
  <2>2. ASSUME used.crashes = 0 PROVE Cardinality(live) <= 1
    BY <1>3, <2>1, <2>2, AtMostOne DEF OneGoes
  <2> QED BY <2>2 DEF live, OnePipeline
<1> QED BY <1>1, <1>2, <1>3, IInvHolds, PTL DEF Spec

-----------------------------------------------------------------------------
(* The queue does not fall asleep *)

(* A step that only parks and cancels makes no entry eligible. *)
Dwindles ==
    /\ DOMAIN rows' = DOMAIN rows
    /\ \A i \in DOMAIN rows :
          \/ rows'[i] = rows[i]
          \/ /\ rows[i].state \in {"queued", "blocked"}
             /\ rows'[i].state \in {"blocked", "cancelled"}
             /\ rows'[i].feature = rows[i].feature /\ rows'[i].pos = rows[i].pos

LEMMA NewestStays ==
    ASSUME Dwindles, NEW d
    PROVE  Newest(rows', d) = Newest(rows, d)
<1>1. \A i \in DOMAIN rows : rows'[i].feature = rows[i].feature /\ rows'[i].pos = rows[i].pos
  BY DEF Dwindles
<1>2. DOMAIN rows' = DOMAIN rows
  BY DEF Dwindles
<1> QED BY <1>1, <1>2 DEF Newest

LEMMA StartableShrinks ==
    ASSUME Dwindles
    PROVE  Startable(rows') \subseteq Startable(rows)
<1> SUFFICES ASSUME NEW i \in Startable(rows') PROVE i \in Startable(rows)
  OBVIOUS
<1>1. i \in DOMAIN rows' /\ rows'[i].state = "queued" /\ Eligible(rows', i)
  BY DEF Startable, In
<1>2. i \in DOMAIN rows /\ rows'[i] = rows[i]
  BY <1>1 DEF Dwindles
<1>3. ASSUME NEW d, IsDone(rows', d) PROVE IsDone(rows, d)
  <2>1. PICK j \in Newest(rows', d) : rows'[j].state = "done"
    BY <1>3 DEF IsDone
  <2>2. j \in Newest(rows, d) /\ j \in DOMAIN rows
    BY NewestStays, <2>1 DEF Newest
  <2>3. rows'[j] = rows[j]
    BY <2>1, <2>2 DEF Dwindles
  <2> QED BY <2>1, <2>2, <2>3 DEF IsDone
<1>4. Eligible(rows, i)
  BY <1>1, <1>2, <1>3 DEF Eligible
<1> QED BY <1>1, <1>2, <1>4 DEF Startable, In

LEMMA NoneQueued ==
    ASSUME NEW rs, In(rs, {"queued"}) = {}
    PROVE  Startable(rs) = {}
BY DEF Startable

LEMMA TryStartNextComes ==
    ASSUME IInv, StartsComing, TryStartNext
    PROVE  StartsComing'
<1>1. /\ TypeOK /\ rows \in Seq(Row)
      /\ Pop("start") /\ ready' = <<>> /\ UNCHANGED <<pipes, boot, used>>
  BY ThenIs DEF IInv, TypeOK, TryStartNext
<1>2. ~At("again")'
  BY <1>1, AtNone
<1>3. CASE ~MayStart
  <2>1. rows' = rows
    BY <1>3 DEF TryStartNext
  <2>2. Blocked(pipes) \/ In(rows, {"running"}) # {}
    BY <1>3 DEF MayStart
  <2>3. Blocked(pipes)' \/ In(rows', {"running"}) # {}
    BY <1>1, <2>1, <2>2
  <2> QED BY <1>2, <2>3 DEF StartsComing, Coming
<1>4. CASE MayStart
  <2> DEFINE left == Cardinality(In(rows, {"queued"}))
  <2>1. left \in Nat /\ (left = 0 => In(rows, {"queued"}) = {})
    BY <1>1, CountIs
  <2>2. Attempt(left)
    BY <1>4 DEF TryStartNext
  <2> HIDE DEF left
  <2>3. CASE \E i \in DOMAIN rows : Claims(i, left)
    <3>1. PICK i \in DOMAIN rows : Claims(i, left)
      BY <2>3
    <3>2. i \in DOMAIN rows' /\ rows'[i].state = "running"
      BY <3>1 DEF Claims
    <3>3. i \in In(rows', {"running"})
      BY <3>2 DEF In
    <3> QED BY <1>2, <3>3 DEF StartsComing
  <2>4. CASE /\ NoneStarts(rows, rows')
             /\ \A j \in DOMAIN rows : \/ rows'[j] = rows[j]
                                       \/ /\ rows[j].state = "queued"
                                          /\ rows'[j].state = "blocked"
                                          /\ rows'[j].pos = rows[j].pos
             /\ left # 0 => Startable(rows) = {}
    <3>1. Dwindles
      BY <2>4 DEF Dwindles, NoneStarts, Evolves, Kept
    <3>2. Startable(rows) = {}
      BY <2>1, <2>4, NoneQueued
    <3>3. Startable(rows') = {}
      BY <3>1, <3>2, StartableShrinks
    <3> QED BY <1>2, <3>3 DEF StartsComing
  <2> QED BY <1>1, <2>1, <2>2, <2>3, <2>4, AttemptIs
<1> QED BY <1>3, <1>4

LEMMA RunnerComes ==
    ASSUME IInv, StartsComing, Runner, "reject" \notin Faults, "throw" \notin Faults
    PROVE  StartsComing'
<1>1. /\ TypeOK /\ RunsExist /\ KickoffsFit
      /\ rows \in Seq(Row) /\ pipes \in Seq(Pipe)
  BY DEF IInv, TypeOK
<1>2. CASE HandleSettle
  <2>1. UNCHANGED pipes
    BY <1>2 DEF HandleSettle
  <2>2. CASE ready' = <<StartTask>>
    BY <2>2, StartIsNext DEF StartsComing, Coming
  <2>3. CASE ready' = <<>> /\ Blocked(pipes)
    BY <2>1, <2>3, AtNone DEF StartsComing, Coming
  <2>4. CASE ready' = <<>> /\ rows' = rows /\ In(rows, {"queued", "running", "blocked"}) = {}
    <3>1. In(rows', {"queued"}) = {}
      BY <2>4 DEF In
    <3> QED BY <2>4, <3>1, AtNone, NoneQueued DEF StartsComing
  <2> QED BY <1>1, <1>2, <2>2, <2>3, <2>4, HandleSettleIs
<1>3. CASE ResumeQueue
  BY <1>1, <1>3, ResumeQueueIs, StartIsNext DEF StartsComing, Coming
<1>4. CASE TryStartNext
  BY <1>4, TryStartNextComes
<1>5. CASE TryAnother
  BY <1>5, AtPopped DEF TryAnother, StartsComing
<1>6. CASE RecordStart
  <2>1. Pop("record") /\ ready' = <<>> /\ UNCHANGED pipes
    BY <1>1, <1>6, ThenIs DEF RecordStart
  <2>2. Head(ready).root \in Roots /\ pipes[Head(ready).root].status = "live"
    BY <1>1, <2>1, AtPopped DEF KickoffsFit
  <2>3. Blocked(pipes)
    BY <2>2 DEF Blocked, Active, Roots
  <2> QED BY <2>1, <2>3, AtNone DEF StartsComing, Coming
<1>7. ASSUME NEW t \in preflight, Kickoff(t) PROVE StartsComing'
  <2> DEFINE u == Task("record", Len(pipes) + 1, t.entry, 0)
  <2>1. ready' = <<u>> /\ pipes' = Append(pipes, NewPipe)
    BY <1>7 DEF Kickoff
  <2>2. u.pc = "record"
    BY DEF Task
  <2> HIDE DEF u
  <2> QED BY <1>1, <2>1, <2>2, NewPipes, AtNext DEF StartsComing, Coming
<1>8. ASSUME NEW t \in preflight PROVE ~KickoffFails(t)
  BY DEF KickoffFails
<1> QED BY <1>2, <1>3, <1>4, <1>5, <1>6, <1>7, <1>8 DEF Runner

LEMMA OperatorComes ==
    ASSUME IInv, StartsComing, Operator, "move" \notin Ops
    PROVE  StartsComing'
<1>1. rows \in Seq(Row) /\ pipes \in Seq(Pipe)
  BY DEF IInv, TypeOK
<1>2. ASSUME NEW f \in Features, NEW after \in AfterLists, Enqueue(f, after)
      PROVE  StartsComing'
  <2>1. ready' = <<StartTask>>
    BY <1>2 DEF Enqueue, StartTask
  <2> QED BY <2>1, StartIsNext DEF StartsComing, Coming
<1>3. ASSUME NEW i \in Entries, CancelEntry(i) PROVE StartsComing'
  <2>1. UNCHANGED <<pipes, boot>> /\ ready' = <<>> /\ \A pc : ~At(pc)
    BY <1>3, RequestIs DEF CancelEntry
  <2>2. /\ NoneStarts(rows, rows')
        /\ rows[i].state \in {"queued", "blocked"} /\ rows'[i].state = "cancelled"
        /\ rows'[i].pos = rows[i].pos
        /\ \A j \in DOMAIN rows \ {i} : rows'[j] = rows[j]
    BY <1>1, <1>3, CancelEntryIs
  <2>3. Dwindles
    BY <2>2 DEF Dwindles, NoneStarts, Evolves, Kept
  <2>4. In(rows', {"running"}) = {} => In(rows, {"running"}) = {}
    BY <2>2 DEF In, NoneStarts
  <2>5. Coming => Coming'
    BY <2>1, AtNone DEF Coming
  <2>6. ~At("again")'
    BY <2>1, AtNone
  <2> QED BY <2>3, <2>4, <2>5, <2>6, StartableShrinks DEF StartsComing
<1>4. ASSUME NEW i \in Entries PROVE ~MoveEntry(i)
  BY DEF MoveEntry, Request
<1>5. ASSUME NEW f \in Features, DirectKickoff(f) PROVE StartsComing'
  <2>1. ready' = <<>> /\ pipes' = Append(pipes, NewPipe)
    BY <1>5, RequestIs DEF DirectKickoff
  <2> QED BY <1>1, <2>1, NewPipes, AtNone DEF StartsComing, Coming
<1>6. ASSUME NEW r \in Roots, CancelRun(r) PROVE StartsComing'
  <2> DEFINE s == Settle(r, FALSE)
  <2>1. ready' = <<s>>
    BY <1>6 DEF CancelRun
  <2>2. s.pc = "settle"
    BY DEF Settle
  <2> HIDE DEF s
  <2> QED BY <2>1, <2>2, AtNext DEF StartsComing, Coming
<1>7. ASSUME NEW r \in Roots, Escalate(r) PROVE StartsComing'
  <2>1. ready' = <<>>
    BY <1>7, RequestIs DEF Escalate
  <2>2. PICK x : Turned(r, x) /\ x.status = "live"
    BY <1>1, <1>7, EscalateIs
  <2>3. Blocked(pipes')
    BY <1>1, <2>2, TurnedBlocks
  <2> QED BY <2>1, <2>3, AtNone DEF StartsComing, Coming
<1> QED BY <1>2, <1>3, <1>4, <1>5, <1>6, <1>7 DEF Operator

LEMMA BootComes ==
    ASSUME TypeOK, StartsComing, Boot
    PROVE  StartsComing'
<1>1. boot \in [stage : {"up", "waves", "missed", "halts"}, owed : SUBSET Nat, at : Nat]
  BY DEF TypeOK
<1>2. ASSUME ~At("again")', boot'.stage # "up" PROVE StartsComing'
  BY <1>2 DEF StartsComing, Coming
<1>3. CASE BootTransitions
  <2>1. ready' = <<>> /\ boot'.stage = "missed"
    BY <1>1, <1>3 DEF BootTransitions, Idle
  <2> QED BY <1>2, <2>1, AtNone
<1>4. CASE BootHalts
  <2>1. ready' = <<>> /\ boot'.stage = "halts"
    BY <1>1, <1>4 DEF BootHalts, Idle
  <2> QED BY <1>2, <2>1, AtNone
<1>5. ASSUME NEW r \in Roots, BootReplay(r) PROVE StartsComing'
  <2> DEFINE s == Settle(r, TRUE)
  <2>1. /\ boot.stage = "missed" /\ ready = <<>>
        /\ \/ boot' = [boot EXCEPT !.owed = boot.owed \ {r}, !.at = r] /\ ready' = ready
           \/ boot' = [boot EXCEPT !.owed = boot.owed \ {r}] /\ ready' = <<s>>
    BY <1>5 DEF BootReplay, Idle
  <2>2. s.pc = "settle"
    BY DEF Settle
  <2> HIDE DEF s
  <2>3. boot'.stage = "missed"
    BY <1>1, <2>1
  <2>4. ~At("again")'
    BY <2>1, <2>2, AtNone, AtNext
  <2> QED BY <1>2, <2>3, <2>4
<1>6. ASSUME NEW r \in Roots, BootRecover(r) PROVE StartsComing'
  <2>1. /\ boot.stage = "halts" /\ ready' = <<>>
        /\ boot' = [boot EXCEPT !.owed = boot.owed \ {r}]
    BY <1>6 DEF BootRecover, Idle
  <2>2. boot'.stage = "halts"
    BY <1>1, <2>1
  <2> QED BY <1>2, <2>1, <2>2, AtNone
<1>7. CASE BootQueue
  <2> DEFINE k == Task("resume", NoRun, 0, 0)
  <2>1. /\ ready' = IF In(rows, {"running", "queued"}) = {} THEN <<>> ELSE <<k>>
        /\ UNCHANGED rows
    BY <1>7 DEF BootQueue
  <2>2. k.pc = "resume"
    BY DEF Task
  <2> HIDE DEF k
  <2>3. CASE In(rows, {"running", "queued"}) = {}
    <3>1. In(rows', {"queued"}) = {}
      BY <2>1, <2>3 DEF In
    <3> QED BY <2>1, <2>3, <3>1, AtNone, NoneQueued DEF StartsComing
  <2>4. CASE In(rows, {"running", "queued"}) # {}
    BY <2>1, <2>2, <2>4, AtNext DEF StartsComing, Coming
  <2> QED BY <2>3, <2>4
<1> QED BY <1>3, <1>4, <1>5, <1>6, <1>7 DEF Boot

LEMMA StartsComingHolds ==
    ASSUME "move" \notin Ops, "reject" \notin Faults, "throw" \notin Faults,
           IInv, StartsComing, [Next]_vars
    PROVE  StartsComing'
<1>1. TypeOK /\ pipes \in Seq(Pipe)
  BY DEF IInv, TypeOK
<1>2. CASE Runner
  BY <1>2, RunnerComes
<1>3. CASE Operator
  BY <1>3, OperatorComes
<1>4. ASSUME NEW r \in Roots, RunEnds(r) PROVE StartsComing'
  <2>1. ready' = <<>>
    BY <1>4 DEF RunEnds, Idle
  <2>2. PICK x : Turned(r, x) /\ x.flight
    BY <1>1, <1>4, RunEndsIs
  <2>3. Blocked(pipes')
    BY <1>1, <2>2, TurnedBlocks
  <2> QED BY <2>1, <2>3, AtNone DEF StartsComing, Coming
<1>5. ASSUME NEW root, NEW completed, ready' = <<Settle(root, completed)>>
      PROVE  StartsComing'
  <2> DEFINE s == Settle(root, completed)
  <2>1. ready' = <<s>>
    BY <1>5
  <2>2. s.pc = "settle"
    BY DEF Settle
  <2> HIDE DEF s
  <2> QED BY <2>1, <2>2, AtNext DEF StartsComing, Coming
<1>6. ASSUME NEW r \in Roots, TransitionEnds(r) PROVE StartsComing'
  <2>1. ready' = <<Settle(r, pipes[r].status = "completed")>>
    BY <1>6 DEF TransitionEnds
  <2> QED BY <1>5, <2>1
<1>7. CASE OtherSettles
  <2>1. ready' = <<Settle(NoRun, TRUE)>>
    BY <1>7 DEF OtherSettles
  <2> QED BY <1>5, <2>1
<1>8. CASE Boot
  BY <1>1, <1>8, BootComes
<1>9. CASE Crash
  <2>1. ready' = <<>> /\ boot'.stage = "waves"
    BY <1>9 DEF Crash
  <2> QED BY <2>1, AtNone DEF StartsComing, Coming
<1>10. CASE UNCHANGED vars
  BY <1>10 DEF vars, StartsComing, Coming, At
<1> QED BY <1>2, <1>3, <1>4, <1>6, <1>7, <1>8, <1>9, <1>10 DEF Next, Pipelines

(* Unless kickoffs fail or entries are moved, an entry that could start    *)
(* does not wait beside an idle workspace: whatever frees the slot or      *)
(* fulfils a dependency, a crash included, looks at the queue again.  The  *)
(* loop counts its attempts before the preflight, so one that fails may    *)
(* leave an entry that came in meanwhile; a move does not look at all.     *)
THEOREM TheQueueWorks ==
    ASSUME "move" \notin Ops, "reject" \notin Faults, "throw" \notin Faults
    PROVE  Spec => []QueueWorks
<1>1. Init => StartsComing
  BY DEF Init, StartsComing, Startable, In, At
<1>2. IInv /\ StartsComing /\ [Next]_vars => StartsComing'
  BY StartsComingHolds
<1>3. StartsComing => QueueWorks
  <2> SUFFICES ASSUME StartsComing, Quiet, In(rows, {"running"}) = {},
                      NEW i \in In(rows, {"queued"})
               PROVE  ~Eligible(rows, i)
    BY DEF QueueWorks
  <2>1. ~Coming
    BY AtIdle DEF Quiet, Coming
  <2> QED BY <2>1 DEF StartsComing, Startable
<1> QED BY <1>1, <1>2, <1>3, IInvHolds, PTL DEF Spec

=============================================================================
