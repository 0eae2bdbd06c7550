---------------------------- MODULE MCSegmentLock ----------------------------
(* Small instances of SegmentLock.                                          *)
EXTENDS SegmentLock
=============================================================================
