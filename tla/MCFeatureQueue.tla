--------------------------- MODULE MCFeatureQueue ---------------------------
(***************************************************************************)
(* FeatureQueue for model checking: its instances are the cfg files        *)
(* FeatureQueue_*.cfg.                                                     *)
(***************************************************************************)
EXTENDS FeatureQueue

(* Entries that depend on nothing or on the first feature. *)
AfterFirst == {<<>>, <<"f1">>}
=============================================================================
