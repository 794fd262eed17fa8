---------------------------- MODULE MCIdentify ----------------------------
(***************************************************************************)
(* Instances of Identify for TLC: four builds of two versions.  a2 is a    *)
(* later build of version v1 than a1, with other offsets; s1 is a1 without *)
(* its BuildID; b1 is of version v2 and differs from a1 in one anchor; x   *)
(* is in no package and exports few anchors.                               *)
(***************************************************************************)
EXTENDS Identify, TLC

CONSTANTS a1, a2, s1, b1, x, v1, v2, v3

AllBuilds == {a1, a2, s1, b1, x}
Ids   == {a1, a2, b1, x}
IdOf  == [b \in AllBuilds |-> IF b = s1 THEN NoID ELSE b]
OffsetsOf == [b \in AllBuilds |->
    IF b = x THEN [k \in 1 .. 2 |-> k]
    ELSE IF b = a2 THEN [k \in 1 .. 7 |-> k + 1]
    ELSE IF b = b1 THEN [k \in 1 .. 7 |-> IF k = 7 THEN 0 ELSE k]
    ELSE [k \in 1 .. 6 |-> k]]

\* The mirrors differ on v1; v3 is stripped.
TwoBuilds == [v \in {v1, v2, v3} |-> IF v = v1 THEN {a1, a2} ELSE IF v = v2 THEN {b1} ELSE {s1}]

AllCommands == {"identify", "patch", "search"}
=============================================================================
