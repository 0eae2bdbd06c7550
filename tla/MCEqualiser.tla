---------------------------- MODULE MCEqualiser ----------------------------
(* The equaliser for TLC: a pattern of two bits that is shuffled for half   *)
(* the time and then has both bits set.                                     *)
EXTENDS Equaliser

MCConfig == [d \in Devices |->
    [util_pattern |-> "RANDOM", pattern_length |-> 2,
     utilization_sequence |-> <<50, 100>>, bits |-> {}]]
=============================================================================
