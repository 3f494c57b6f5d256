--------------------------- MODULE MCEphemeralRun ---------------------------
(* Two runs at once, over two downloads of one basename from different      *)
(* buckets, a third download, a local dump and a live database.             *)
EXTENDS EphemeralRun

CONSTANTS a1, a2, b1, l1

MCName == [d \in {a1, a2, b1, l1} |-> IF d = b1 THEN "b" ELSE "a"]

Pair(x, y) == [s \in Side |-> IF s = "base" THEN x ELSE y]

MCSources == {Pair(a1, b1), Pair(a2, a1), Pair(b1, a2), Pair(l1, a2), Pair(Live, a1), Pair(Live, Live)}
=============================================================================
