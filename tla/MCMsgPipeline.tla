---------------------------- MODULE MCMsgPipeline ----------------------------
(***************************************************************************)
(* MsgPipeline for TLC: threads and addresses are interchangeable.         *)
(***************************************************************************)
EXTENDS MsgPipeline, TLC

PipelineSymmetry == Permutations(Threads) \cup Permutations(Blocks)
===============================================================================
