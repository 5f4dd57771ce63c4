--------------------------- MODULE MCPipelineWave ---------------------------
(***************************************************************************)
(* PipelineWave for model checking: its instances are the cfg files        *)
(* PipelineWave_*.cfg.                                                     *)
(***************************************************************************)
EXTENDS PipelineWave
=============================================================================
