------------------------------ MODULE MCSyncLoops ------------------------------
(***************************************************************************)
(* The loop that is notified and retries its call, and the one that does   *)
(* neither; the mempool loop is in between, and the proofs have any number *)
(* of each.  One message in ZeroMQ's queue and one in the listener's hands *)
(* are enough for it to block on a busy loop while the next one is lost.   *)
(***************************************************************************)
EXTENDS SyncLoops

MCLoop == {"index", "state"}
MCNotified == {"index"}
MCInputs == <<"index", "state">>
=============================================================================
