-------------------------- MODULE MCDeviceControl --------------------------
(* DeviceControl for TLC.  Processes are interchangeable: an entry takes    *)
(* any unused one.                                                          *)
EXTENDS DeviceControl, TLC

MCSymmetry == Permutations(Procs)
=============================================================================
