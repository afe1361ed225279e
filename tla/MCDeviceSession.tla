--------------------------- MODULE MCDeviceSession ---------------------------
(* DeviceSession for TLC: sockets and displays are interchangeable.        *)
EXTENDS DeviceSession, TLC

Symmetric == Permutations(Device) \cup Permutations(Socket)
=============================================================================
