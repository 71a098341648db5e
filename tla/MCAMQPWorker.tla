---------------------------- MODULE MCAMQPWorker ----------------------------
(* Two jobs for one slot, delayed by whole, broken and negative seconds. *)
EXTENDS AMQPWorker

MCDelays == {-1500, -500, 1500}
=============================================================================
