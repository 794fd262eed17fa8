------------------------------ MODULE MCBundle ------------------------------
(***************************************************************************)
(* Instances of Bundle for TLC: a directory with the manifest, a loader,   *)
(* a libc and the link that leads to it.                                   *)
(***************************************************************************)
EXTENDS Bundle, TLC

Sorted == <<"PROVENANCE.json", "ld-2.31.so", "libc-2.31.so", "libc.so.6">>

\* Two builds of the version: the first one's manifest is longer, the second
\* one's libc.
Blocks == [b \in Builds |-> [n \in {"PROVENANCE.json", "ld-2.31.so", "libc-2.31.so"} |->
              IF n = (IF b = "B" THEN "libc-2.31.so" ELSE "PROVENANCE.json") THEN 2 ELSE 1]]

\* bundle.go: "Export writes every file under libsDir": what was carried over
\* with no download under way is all there.
EveryFileArrives ==
    ipc = "done" /\ epc = "done" /\ dpc = "idle" =>
        \A n \in ToSet(Names) : src[n] # None => dst[n] # None
=============================================================================
