---------------------------- MODULE MCDeviceSlot ----------------------------
(* TLC instance of DeviceSlot. *)
EXTENDS DeviceSlot, TLC

RpcSymmetry == Permutations(Rpcs)
=============================================================================
