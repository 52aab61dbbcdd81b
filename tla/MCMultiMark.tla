---------------------------- MODULE MCMultiMark ----------------------------
(* Two partitions of one topic and one of another, with the same number.   *)
EXTENDS MultiMark

MCPartitionOf == [c \in Claims |-> IF c = "t/1" THEN 1 ELSE 0]
=============================================================================
