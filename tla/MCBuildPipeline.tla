--------------------------- MODULE MCBuildPipeline ---------------------------
(* Instances of BuildPipeline for TLC: two files in the archive, three     *)
(* patches, of which the second adds a file and the third builds on both   *)
(* the first and the second; the series of the next pin is another one.    *)
EXTENDS BuildPipeline

CONSTANTS a, b, added, p1, p2, p3

Changed == [p \in {p1, p2, p3} |->
              IF p = p1 THEN {a} ELSE IF p = p2 THEN {b} ELSE {a, added}]

Added == [p \in {p1, p2, p3} |-> IF p = p2 THEN {added} ELSE {}]

AllSeries == [v \in {1, 2} |-> IF v = 1 THEN <<p1, p2, p3>> ELSE <<p2, p1>>]
OneSeries == [v \in {1} |-> <<p1, p2, p3>>]
=============================================================================
