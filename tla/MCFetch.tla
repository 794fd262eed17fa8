------------------------------ MODULE MCFetch ------------------------------
(***************************************************************************)
(* Instances of Fetch for TLC.                                             *)
(***************************************************************************)
EXTENDS Fetch, TLC

CONSTANTS Fallback  \* the candidates whose mirror is a fallback

\* config.go: "Fallback mirrors are only tried after all non-fallback mirrors
\* fail": no fallback candidate's request starts before every other candidate
\* has failed.
FallbackLast ==
    [][\A f \in Fallback :
         pc[f] # "inflight" /\ pc'[f] = "inflight" =>
            \A c \in Cands \ Fallback : result[c] \in {"err", "http4xx"}]_vars
=============================================================================
