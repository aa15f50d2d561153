---------------------------- MODULE MCDeviceAuth ----------------------------
(* DeviceAuth for TLC: codes, device ids and browsers are interchangeable. *)
EXTENDS DeviceAuth, TLC

Symmetry == Permutations(Code) \cup Permutations(Device) \cup Permutations(Browser)
=============================================================================
