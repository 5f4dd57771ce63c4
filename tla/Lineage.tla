------------------------------ MODULE Lineage ------------------------------
(***************************************************************************)
(* What the chain runner and the escalations together promise of one       *)
(* pipeline: its steps form a single line.  A step is decided at most once *)
(* (runs.chain_handled_at), only the newest step can be decided, and one   *)
(* decision adds at most one step.  An abort is a decision that adds none. *)
(***************************************************************************)
EXTENDS Naturals

VARIABLES
    steps,  \* the steps, numbered in the order they are added
    phase   \* of the newest step: "open", "decided" or "aborted"

Init ==
    /\ steps \subseteq Nat
    /\ steps # {}
    /\ phase = "open"

Decide == phase = "open" /\ phase' = "decided" /\ UNCHANGED steps

Abort == phase = "decided" /\ phase' = "aborted" /\ UNCHANGED steps

(* One step is added, and it is the newest.                                *)
Grow ==
    /\ phase = "decided" /\ phase' = "open"
    /\ \E n \in steps' : steps' = steps \cup {n} /\ \A s \in steps : s < n

Next == Decide \/ Abort \/ Grow

Spec == Init /\ [][Next]_<<steps, phase>>
=============================================================================
