--------------------------- MODULE MCUpdateApply ---------------------------
(***************************************************************************)
(* UpdateApply for model checking: its instances are the cfg files         *)
(* UpdateApply_*.cfg.                                                      *)
(***************************************************************************)
EXTENDS UpdateApply

(* Two test builds of the first release and one of the second. *)
ThreeBundles ==
    {[base |-> 1, test |-> "a"], [base |-> 1, test |-> "b"], [base |-> 2, test |-> "a"]}
=============================================================================
