------------------------------ MODULE MCCoord ------------------------------
(* Coord for TLC.  Host A has the servers a1 and a2, host B has b1.  Three  *)
(* tests: both hosts with a server each, without faults; two servers of a   *)
(* host in a one-system test; and two hosts, each with a one-system test,   *)
(* on the same network; the latter two with one fault.                      *)
EXTENDS Coord

CONSTANTS A, B, a1, a2, b1

MCHostOf == [s \in Servers |-> IF s = b1 THEN B ELSE A]
MCExerNo == [s \in Servers |-> IF s = a2 THEN 2 ELSE 1]

Test(one, started, n) == [OneSysFlag |-> one, servers |-> started, faults |-> n]
MCTests == {Test(FALSE, {a1, b1}, 0), Test(TRUE, {a1, a2}, 1), Test(TRUE, {a1, b1}, 1)}
=============================================================================
