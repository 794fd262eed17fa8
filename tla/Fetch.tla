------------------------------- MODULE Fetch -------------------------------
(***************************************************************************)
(* DownloadFileRacing and GetWithRetry of internal/fetch: one goroutine    *)
(* per mirror retries a GET under its own context, a buffered channel      *)
(* carries each goroutine's one outcome, and the collector takes the first *)
(* success as the winner, disposes of every other outcome, and copies the  *)
(* winner's body to the destination file.                                  *)
(*                                                                         *)
(* A context that has a deadline is "live" until its timer fires           *)
(* ("expired") or its cancel function runs ("cancelled").  A body is a     *)
(* number of chunks, BodySize of them when it arrives whole.               *)
(***************************************************************************)
EXTENDS Integers, Sequences, FiniteSets

CONSTANTS Cands,       \* the candidates: one mirror's URL each
          BadURL,      \* the candidates whose URL http.NewRequest rejects
          Framed,      \* those whose responses say where they end
                       \* (Content-Length or chunked encoding)
          MaxRetries,  \* Options.MaxRetries as the caller gives it
          BodySize,    \* the chunks of a whole body
          None         \* no candidate

ASSUME CandsAssumption   == /\ IsFiniteSet(Cands) /\ Cands # {}
                            /\ BadURL \subseteq Cands /\ Framed \subseteq Cands
                            /\ None \notin Cands
ASSUME RetriesAssumption == MaxRetries \in Int
ASSUME SizeAssumption    == BodySize \in Nat

VARIABLES
    pc,       \* pc[c]: where goroutine c stands
    attempt,  \* attempt[c]: GetWithRetry's loop variable
    result,   \* result[c]: what GetWithRetry returned
    rctx,     \* rctx[c]: the context of c's current request
    cctx,     \* cctx[c]: the child context DownloadFileRacing gave c
    body,     \* body[c]: the body of the response c returned
    parent,   \* the caller's context
    results,  \* what was sent on the channel, oldest first
    i,        \* the collector's loop variable: outcomes received
    cpc,      \* where the collector stands
    winner,   \* the collector's winner, None while found is false
    file,     \* the destination: whose bytes, how many chunks
    hashed    \* the chunks the SHA-256 has seen

goroutine == <<pc, attempt, result>>
contexts  == <<rctx, cctx, parent>>
collector == <<i, cpc, winner>>
dest      == <<file, hashed>>
vars      == <<goroutine, contexts, body, results, collector, dest>>

(***************************************************************************)
(* Options.withDefaults: a non-positive MaxRetries means three.            *)
(***************************************************************************)
Retries == IF MaxRetries <= 0 THEN 3 ELSE MaxRetries

(***************************************************************************)
(* A context is done when it, or one it derives from, expired or was       *)
(* cancelled.                                                              *)
(***************************************************************************)
ChildDone(c)   == parent = "expired" \/ cctx[c] = "cancelled"

\* Mutant: requests are made under the child context, without the timeout.
RequestDoneNoTimeout(c) == ChildDone(c)
RequestDone(c) == ChildDone(c) \/ rctx[c] # "live"

Sent     == {results[k] : k \in 1 .. Len(results)}
Received == {results[k] : k \in 1 .. i}
Found    == winner # None
Returned == cpc \in {"ok", "failed"}

Init ==
    /\ pc = [c \in Cands |-> "request"]
    /\ attempt = [c \in Cands |-> 0]
    /\ result = [c \in Cands |-> "none"]
    /\ rctx = [c \in Cands |-> "none"]
    /\ cctx = [c \in Cands |-> "live"]
    /\ body = [c \in Cands |-> "none"]
    /\ parent = "live"
    /\ results = <<>>
    /\ i = 0
    /\ cpc = "collect"
    /\ winner = None
    /\ file = [src |-> None, len |-> 0]
    /\ hashed = 0
-----------------------------------------------------------------------------
(***************************************************************************)
(* GetWithRetry, in goroutine c.                                           *)
(***************************************************************************)

\* The goroutine leaves GetWithRetry with outcome r and goes on to send it.
Finish(c, r) ==
    /\ pc' = [pc EXCEPT ![c] = "send"]
    /\ result' = [result EXCEPT ![c] = r]
    /\ UNCHANGED attempt

\* Mutant: the loop makes one attempt too many.
ContinueOneMore(c) ==
    \/ /\ attempt[c] <= Retries
       /\ pc' = [pc EXCEPT ![c] = "backoff"]
       /\ attempt' = [attempt EXCEPT ![c] = @ + 1]
       /\ UNCHANGED result
    \/ /\ attempt[c] > Retries
       /\ Finish(c, "err")

\* The loop's continue: back off before the next attempt, or give up.
Continue(c) ==
    \/ /\ attempt[c] < Retries
       /\ pc' = [pc EXCEPT ![c] = "backoff"]
       /\ attempt' = [attempt EXCEPT ![c] = @ + 1]
       /\ UNCHANGED result
    \/ /\ attempt[c] >= Retries
       /\ Finish(c, "err")

\* context.WithTimeout, then Do is called.
StartRequest(c) ==
    /\ pc[c] = "request" /\ c \notin BadURL
    /\ pc' = [pc EXCEPT ![c] = "inflight"]
    /\ rctx' = [rctx EXCEPT ![c] = "live"]
    /\ UNCHANGED <<attempt, result, cctx, parent, body, results, collector, dest>>

\* context.WithTimeout, then NewRequestWithContext fails.
RejectURL(c) ==
    /\ pc[c] = "request" /\ c \in BadURL
    /\ rctx' = [rctx EXCEPT ![c] = "cancelled"]
    /\ Finish(c, "err")
    /\ UNCHANGED <<cctx, parent, body, results, collector, dest>>

\* Do returns an error: a network failure, or the context is done.
RequestFails(c) ==
    /\ pc[c] = "inflight"
    /\ rctx' = [rctx EXCEPT ![c] = "cancelled"]
    /\ Continue(c)
    /\ UNCHANGED <<cctx, parent, body, results, collector, dest>>

\* Mutant: the request context is not cancelled on a server error.
ServerErrorNoCancel(c) ==
    /\ pc[c] = "inflight" /\ ~RequestDone(c)
    /\ body' = [body EXCEPT ![c] = "closed"]
    /\ Continue(c)
    /\ UNCHANGED <<contexts, results, collector, dest>>

\* Status 500 and above: the body is closed and the attempt counts as failed.
ServerError(c) ==
    /\ pc[c] = "inflight" /\ ~RequestDone(c)
    /\ rctx' = [rctx EXCEPT ![c] = "cancelled"]
    /\ body' = [body EXCEPT ![c] = "closed"]
    /\ Continue(c)
    /\ UNCHANGED <<cctx, parent, results, collector, dest>>

\* Status 400 to 499: permanent.  The response is returned with its body open
\* beside the error, its request context cancelled.
ClientError(c) ==
    /\ pc[c] = "inflight" /\ ~RequestDone(c)
    /\ rctx' = [rctx EXCEPT ![c] = "cancelled"]
    /\ body' = [body EXCEPT ![c] = "open"]
    /\ Finish(c, "http4xx")
    /\ UNCHANGED <<cctx, parent, results, collector, dest>>

\* Success: the body, wrapped to cancel the request context when it is
\* closed, outlives the call and so does the context's timer.
Respond(c) ==
    /\ pc[c] = "inflight" /\ ~RequestDone(c)
    /\ body' = [body EXCEPT ![c] = "open"]
    /\ Finish(c, "ok")
    /\ UNCHANGED <<contexts, results, collector, dest>>

\* The backoff timer of the select fires.
Wake(c) ==
    /\ pc[c] = "backoff"
    /\ pc' = [pc EXCEPT ![c] = "request"]
    /\ UNCHANGED <<attempt, result, contexts, body, results, collector, dest>>

\* The select sees the child context done.
StopBackoff(c) ==
    /\ pc[c] = "backoff" /\ ChildDone(c)
    /\ Finish(c, "err")
    /\ UNCHANGED <<contexts, body, results, collector, dest>>

\* results <- outcome: the buffer holds every candidate's, so no send blocks.
Send(c) ==
    /\ pc[c] = "send"
    /\ pc' = [pc EXCEPT ![c] = "sent"]
    /\ results' = Append(results, c)
    /\ UNCHANGED <<attempt, result, contexts, body, collector, dest>>
-----------------------------------------------------------------------------
(***************************************************************************)
(* Timers.                                                                 *)
(***************************************************************************)
ExpireRequest(c) ==
    /\ rctx[c] = "live"
    /\ rctx' = [rctx EXCEPT ![c] = "expired"]
    /\ UNCHANGED <<goroutine, cctx, parent, body, results, collector, dest>>

ExpireParent ==
    /\ parent = "live" /\ ~Returned
    /\ parent' = "expired"
    /\ UNCHANGED <<goroutine, rctx, cctx, body, results, collector, dest>>
-----------------------------------------------------------------------------
(***************************************************************************)
(* The collector.                                                          *)
(***************************************************************************)
Next_r == results[i + 1]

\* The first success becomes the winner; its context stays alive.
ReceiveWinner ==
    /\ cpc = "collect" /\ i < Len(results)
    /\ result[Next_r] = "ok" /\ ~Found
    /\ winner' = Next_r
    /\ i' = i + 1
    /\ UNCHANGED <<cpc, goroutine, contexts, body, results, dest>>

\* Mutant: a later success is cancelled but its body is not closed.
ReceiveLoserNoClose ==
    /\ cpc = "collect" /\ i < Len(results)
    /\ result[Next_r] = "ok" /\ Found
    /\ cctx' = [cctx EXCEPT ![Next_r] = "cancelled"]
    /\ i' = i + 1
    /\ UNCHANGED <<cpc, winner, goroutine, rctx, parent, body, results, dest>>

\* Mutant: a later success replaces the winner.
ReceiveLoserTakesOver ==
    /\ cpc = "collect" /\ i < Len(results)
    /\ result[Next_r] = "ok" /\ Found
    /\ body' = [body EXCEPT ![winner] = "closed"]
    /\ rctx' = [rctx EXCEPT ![winner] = "cancelled"]
    /\ cctx' = [cctx EXCEPT ![winner] = "cancelled"]
    /\ winner' = Next_r
    /\ i' = i + 1
    /\ UNCHANGED <<cpc, goroutine, parent, results, dest>>

\* A later success: its body is closed, which cancels its request context.
ReceiveLoser ==
    /\ cpc = "collect" /\ i < Len(results)
    /\ result[Next_r] = "ok" /\ Found
    /\ body' = [body EXCEPT ![Next_r] = "closed"]
    /\ rctx' = [rctx EXCEPT ![Next_r] = "cancelled"]
    /\ cctx' = [cctx EXCEPT ![Next_r] = "cancelled"]
    /\ i' = i + 1
    /\ UNCHANGED <<cpc, winner, goroutine, parent, results, dest>>

\* Mutant: the candidates share one context, which an error cancels.
ReceiveErrorShared ==
    /\ cpc = "collect" /\ i < Len(results)
    /\ result[Next_r] # "ok"
    /\ cctx' = [c \in Cands |-> "cancelled"]
    /\ i' = i + 1
    /\ UNCHANGED <<cpc, winner, goroutine, rctx, parent, body, results, dest>>

\* An error is recorded; a 4xx response's body is not closed here either.
ReceiveError ==
    /\ cpc = "collect" /\ i < Len(results)
    /\ result[Next_r] # "ok"
    /\ cctx' = [cctx EXCEPT ![Next_r] = "cancelled"]
    /\ i' = i + 1
    /\ UNCHANGED <<cpc, winner, goroutine, rctx, parent, body, results, dest>>

\* Mutant: the first error ends the race.
GiveUpEarly ==
    /\ cpc = "collect" /\ i > 0 /\ ~Found
    /\ cpc' = "failed"
    /\ UNCHANGED <<i, winner, goroutine, contexts, body, results, dest>>

\* "all mirrors failed".
GiveUp ==
    /\ cpc = "collect" /\ i = Cardinality(Cands) /\ ~Found
    /\ cpc' = "failed"
    /\ UNCHANGED <<i, winner, goroutine, contexts, body, results, dest>>

\* The deferred calls of a return: the body is closed, which cancels its
\* request context, and the winner's child context is cancelled.
Return(how) ==
    /\ cpc' = how
    /\ body' = [body EXCEPT ![winner] = "closed"]
    /\ rctx' = [rctx EXCEPT ![winner] = "cancelled"]
    /\ cctx' = [cctx EXCEPT ![winner] = "cancelled"]
    /\ UNCHANGED <<i, winner, parent, goroutine, results>>

\* os.Create truncates the destination.
CreateDest ==
    /\ cpc = "collect" /\ i = Cardinality(Cands) /\ Found
    /\ cpc' = "copy"
    /\ file' = [src |-> winner, len |-> 0]
    /\ UNCHANGED <<i, winner, goroutine, contexts, body, results, hashed>>

CreateFails ==
    /\ cpc = "collect" /\ i = Cardinality(Cands) /\ Found
    /\ Return("failed")
    /\ UNCHANGED dest

\* One chunk of the body reaches the file and then the hash.
CopyChunk ==
    /\ cpc = "copy" /\ file.len < BodySize
    /\ file' = [file EXCEPT !.len = @ + 1]
    /\ hashed' = hashed + 1
    /\ UNCHANGED <<goroutine, contexts, body, results, collector>>

\* End of the body.  A response without framing may end early unnoticed.
CopyEnds ==
    /\ cpc = "copy"
    /\ file.len = BodySize \/ winner \notin Framed
    /\ Return("ok")
    /\ UNCHANGED dest

\* Mutant: the error of io.Copy is ignored.
CopyFailsUnnoticed ==
    /\ cpc = "copy"
    /\ \/ UNCHANGED file
       \/ file.len < BodySize /\ file' = [file EXCEPT !.len = @ + 1]
    /\ Return("ok")
    /\ UNCHANGED hashed

\* A read fails (the network, or the request context is done), or a write
\* to the file fails after some bytes that the hash does not see.  The file
\* stays as it is.
CopyFails ==
    /\ cpc = "copy"
    /\ \/ UNCHANGED file
       \/ file.len < BodySize /\ file' = [file EXCEPT !.len = @ + 1]
    /\ Return("failed")
    /\ UNCHANGED hashed

\* The call is over.
Done == Returned /\ UNCHANGED vars
-----------------------------------------------------------------------------
Goroutine(c) ==
    \/ StartRequest(c) \/ RejectURL(c) \/ RequestFails(c)
    \/ ServerError(c) \/ ClientError(c) \/ Respond(c)
    \/ Wake(c) \/ StopBackoff(c) \/ Send(c)

Collector ==
    \/ ReceiveWinner \/ ReceiveLoser \/ ReceiveError \/ GiveUp
    \/ CreateDest \/ CreateFails \/ CopyChunk \/ CopyEnds \/ CopyFails

Next ==
    \/ \E c \in Cands : Goroutine(c) \/ ExpireRequest(c)
    \/ ExpireParent
    \/ Collector
    \/ Done

Spec == Init /\ [][Next]_vars

(***************************************************************************)
(* Goroutines are scheduled, request timers fire, and Do or a read returns *)
(* once its context is done.  Nothing is assumed of the network: a mirror  *)
(* may never answer.                                                       *)
(***************************************************************************)
Fairness ==
    /\ \A c \in Cands :
        /\ WF_vars(StartRequest(c) \/ RejectURL(c) \/ Wake(c) \/ Send(c))
        /\ WF_vars(ExpireRequest(c))
        /\ WF_vars(RequestDone(c) /\ RequestFails(c))
    /\ WF_vars(ReceiveWinner \/ ReceiveLoser \/ ReceiveError \/ GiveUp
                \/ CreateDest \/ CreateFails)
    /\ WF_vars(Found /\ RequestDone(winner) /\ CopyFails)

FairSpec == Spec /\ Fairness
-----------------------------------------------------------------------------
(***************************************************************************)
(* Properties.                                                             *)
(***************************************************************************)

\* Type correctness of every variable of the race.
TypeOK ==
    /\ pc \in [Cands -> {"request", "inflight", "backoff", "send", "sent"}]
    /\ attempt \in [Cands -> 0 .. Retries]
    /\ result \in [Cands -> {"none", "ok", "err", "http4xx"}]
    /\ rctx \in [Cands -> {"none", "live", "expired", "cancelled"}]
    /\ cctx \in [Cands -> {"live", "cancelled"}]
    /\ body \in [Cands -> {"none", "open", "closed"}]
    /\ parent \in {"live", "expired"}
    /\ results \in Seq(Cands)
    /\ i \in 0 .. Len(results)
    /\ cpc \in {"collect", "copy", "ok", "failed"}
    /\ winner \in Cands \cup {None}
    /\ file \in [src : Cands \cup {None}, len : 0 .. BodySize]
    /\ hashed \in 0 .. BodySize

\* Disposing of the other outcomes never cancels the winner: until the call
\* returns, its body stays open and neither of its contexts is cancelled
\* (the reason DownloadFileRacing gives each candidate its own context).
WinnerKeptAlive ==
    Found /\ ~Returned =>
        /\ body[winner] = "open"
        /\ cctx[winner] = "live"
        /\ rctx[winner] \in {"live", "expired"}

\* A request context that was not cancelled belongs to a request in flight
\* or to a successful response nobody has disposed of: no retry, error,
\* losing response or return of the call leaks one.
ContextsReleased ==
    \A c \in Cands : rctx[c] \in {"live", "expired"} =>
        \/ pc[c] = "inflight"
        \/ /\ result[c] = "ok" /\ body[c] = "open"
           /\ c \notin Received \/ (c = winner /\ ~Returned)

\* When the call returns no goroutine is left running, every child context is
\* cancelled, and the only bodies never closed are those of 4xx responses.
NothingLeftBehind ==
    Returned => \A c \in Cands :
        /\ pc[c] = "sent"
        /\ cctx[c] = "cancelled"
        /\ body[c] = "open" => result[c] = "http4xx"

\* The winner is the earliest success on the channel.
FirstSuccessWins ==
    Found => \E k \in 1 .. i :
        /\ results[k] = winner /\ result[winner] = "ok"
        /\ \A j \in 1 .. k - 1 : result[results[j]] # "ok"

\* What a successful return says of the file is true: it holds the winner's
\* bytes and no other's, the hash has seen exactly those, and the body is
\* whole when the response said where it ends.
ResultSound ==
    cpc = "ok" =>
        /\ file.src = winner /\ hashed = file.len
        /\ winner \in Framed => file.len = BodySize

\* "all mirrors failed" is said only when every one did, and then the
\* destination was not touched.
FailureIsUnanimous ==
    cpc = "failed" /\ ~Found =>
        /\ \A c \in Cands : result[c] \in {"err", "http4xx"}
        /\ file.src = None

\* The call returns even if no mirror ever answers.
CallReturns == <>Returned
-----------------------------------------------------------------------------
(***************************************************************************)
(* DownloadFileRacing implements Race.                                     *)
(***************************************************************************)
Outcome(c) == IF c \notin Sent THEN "pending"
              ELSE IF result[c] = "ok" THEN "ok" ELSE "err"

IsFirst(c) == \E k \in 1 .. Len(results) :
                /\ results[k] = c /\ result[c] = "ok"
                /\ \A j \in 1 .. k - 1 : result[results[j]] # "ok"

First == IF \E c \in Cands : IsFirst(c)
         THEN CHOOSE c \in Cands : IsFirst(c) ELSE None

Abstract == INSTANCE Race WITH
    outcome <- [c \in Cands |-> Outcome(c)],
    first   <- First,
    sink    <- file,
    answer  <- IF Returned THEN cpc ELSE "pending"

\* The race as its caller sees it: the goroutines, retries, contexts and the
\* channel implement Race.
ImplementsRace == Abstract!RSpec
=============================================================================
