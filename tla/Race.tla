-------------------------------- MODULE Race --------------------------------
(***************************************************************************)
(* What DownloadFileRacing of internal/fetch promises its caller, without  *)
(* goroutines, retries, contexts or a channel: every candidate settles     *)
(* once, the first to succeed is the only one whose bytes may reach the    *)
(* destination, success is reported for a complete copy, and failure for   *)
(* want of a mirror only when every candidate failed.                      *)
(***************************************************************************)
EXTENDS Naturals

CONSTANTS Cands, Framed, BodySize, None

VARIABLES
    outcome,  \* outcome[c]: "pending", "ok" or "err"
    first,    \* the first candidate to succeed
    sink,     \* the destination: whose bytes, and how many chunks
    answer    \* "pending", "ok" or "failed"

rvars == <<outcome, first, sink, answer>>

RInit ==
    /\ outcome = [c \in Cands |-> "pending"]
    /\ first = None
    /\ sink = [src |-> None, len |-> 0]
    /\ answer = "pending"

Settled == \A c \in Cands : outcome[c] # "pending"

Settle(c, o) ==
    /\ outcome[c] = "pending" /\ answer = "pending"
    /\ outcome' = [outcome EXCEPT ![c] = o]
    /\ first' = IF o = "ok" /\ first = None THEN c ELSE first
    /\ UNCHANGED <<sink, answer>>

\* Every mirror failed: nothing is written.
AllFailed ==
    /\ Settled /\ first = None /\ answer = "pending"
    /\ answer' = "failed"
    /\ UNCHANGED <<outcome, first, sink>>

Create ==
    /\ Settled /\ first # None /\ sink.src = None /\ answer = "pending"
    /\ sink' = [src |-> first, len |-> 0]
    /\ UNCHANGED <<outcome, first, answer>>

More == sink.src # None /\ sink.len < BodySize /\ sink' = [sink EXCEPT !.len = @ + 1]

Copy ==
    /\ More /\ answer = "pending"
    /\ UNCHANGED <<outcome, first, answer>>

\* Success: the whole body, unless the response did not say where it ends.
Deliver ==
    /\ sink.src # None /\ answer = "pending"
    /\ sink.len = BodySize \/ first \notin Framed
    /\ answer' = "ok"
    /\ UNCHANGED <<outcome, first, sink>>

\* The copy fails, perhaps with one more chunk written.
Abort ==
    /\ Settled /\ first # None /\ answer = "pending"
    /\ More \/ UNCHANGED sink
    /\ answer' = "failed"
    /\ UNCHANGED <<outcome, first>>

RNext ==
    \/ \E c \in Cands, o \in {"ok", "err"} : Settle(c, o)
    \/ AllFailed \/ Create \/ Copy \/ Deliver \/ Abort

\* What a step may do ...
RSafety == RInit /\ [][RNext]_rvars

\* ... and once every candidate has settled the call goes on to an answer.
RSpec == RSafety /\ WF_rvars(AllFailed \/ Create \/ Copy \/ Deliver \/ Abort)
=============================================================================
