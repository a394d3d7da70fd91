---------------------------- MODULE MCPcmWorker ----------------------------
(* PcmWorker on small instances.                                           *)
EXTENDS PcmWorker
=============================================================================
