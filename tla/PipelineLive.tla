----------------------------- MODULE PipelineLive -----------------------------
(* The pipeline with a clock that is seen to tick, to say what must happen   *)
(* in the end: a pipeline that is stuck changes nothing but clk.             *)
EXTENDS MCPipeline

VARIABLE clk

Edge == Next /\ clk' = ~clk

(* The clock ticks, and the cache, the MMU and the FPU end what they have    *)
(* begun, in the end.                                                        *)
Ticks == []<><<TRUE>>_clk
Ends  == /\ []<>(dc.slow = LS!None)
         /\ []<>(mmu.phase # "walk")
         /\ []<>(fpu.state # "EXEC")

LiveInit == Init /\ clk = FALSE
FairSpec == LiveInit /\ [][Edge]_<<vars, clk>> /\ Ticks /\ Ends

(* An instruction that execute1 has been given is completed or flushed in    *)
(* the end: the stalls that loadstore1, the FPU and execute1 impose on one   *)
(* another (busy_out, l2stall, f2stall) never block the pipeline for good.   *)
Drains == inflight # <<>> ~> (complete_out.valid \/ flush_out \/ inflight = <<>>)
=============================================================================
