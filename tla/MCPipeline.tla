------------------------------ MODULE MCPipeline ------------------------------
(* The pipeline with small sets of sorts of instruction: each run mixes      *)
(* those whose units meet in writeback.                                      *)
EXTENDS Pipeline

Units   == {"load", "ca", "cr", "trap", "wait", "br"}
FpLoads == {"load", "fp"}
FpTraps == {"fptrap", "fpill", "sort", "mulo", "slow"}
Behind  == {"load", "fptrap"}
Sorts   == {"load", "sort"}
=============================================================================
