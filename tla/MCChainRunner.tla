--------------------------- MODULE MCChainRunner ---------------------------
(***************************************************************************)
(* ChainRunner for model checking: its instances are the cfg files         *)
(* ChainRunner_*.cfg.                                                      *)
(***************************************************************************)
EXTENDS ChainRunner
=============================================================================
