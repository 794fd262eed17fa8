------------------------------ MODULE MCStore ------------------------------
(***************************************************************************)
(* Instances of Store for TLC.  Processes d1 and d2 download, i            *)
(* identifies, p1 and p2 patch.                                            *)
(***************************************************************************)
EXTENDS Store, TLC

CONSTANTS d1, d2, i, p1, p2, v1, v2

\* Which process runs which command.
Roles == [p \in Procs |-> IF p \in {d1, d2} THEN "download"
                          ELSE IF p = i THEN "identify" ELSE "patch"]

\* Every process at work on v1; or d2 and p2 on v2.
OneVersion  == [p \in Procs |-> v1]
TwoVersions == [p \in Procs |-> IF p \in {d2, p2} THEN v2 ELSE v1]

\* Build A's files have two blocks, build B's one.
Lengths == [b \in Builds |-> IF b = "A" THEN 2 ELSE 1]
=============================================================================
