---------------------------- MODULE MCMessageLog ----------------------------
(* Thresholds for TLC, in blocks.                                           *)
EXTENDS MessageLog

Thresholds(m, s) ==
    [l \in Logs |-> CASE l = "msg" -> m [] l = "msg_save" -> s
                      [] l = "err" -> 1 [] l = "err_save" -> 0]

TwoProfiles == {Thresholds(1, 1), Thresholds(1, 0)}
=============================================================================
