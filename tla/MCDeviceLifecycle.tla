-------------------------- MODULE MCDeviceLifecycle --------------------------
(* Requests for both queues. *)
EXTENDS DeviceLifecycle, TLC
CONSTANTS r1, r2

BothQueues == r1 :> 0 @@ r2 :> 1
=============================================================================
