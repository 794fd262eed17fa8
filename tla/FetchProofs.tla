---------------------------- MODULE FetchProofs ----------------------------
(***************************************************************************)
(* Proofs about Fetch: type correctness and the safety invariants, for any *)
(* finite set of candidates, any MaxRetries and any body size.             *)
(***************************************************************************)
EXTENDS Fetch, FiniteSetTheorems, TLAPS

USE CandsAssumption, RetriesAssumption, SizeAssumption

-----------------------------------------------------------------------------
(***************************************************************************)
(* The inductive invariant.                                                *)
(***************************************************************************)

\* The channel carries each candidate at most once: those that were sent.
Order ==
    /\ \A c \in Cands : pc[c] = "sent" <=> c \in Sent
    /\ \A j, k \in 1 .. Len(results) : results[j] = results[k] => j = k

\* GetWithRetry has returned an outcome once it is out of its loop.
Phase ==
    \A c \in Cands :
        result[c] = "none" <=> pc[c] \in {"request", "inflight", "backoff"}

\* The winner is the first success received.
Choice ==
    /\ Found => FirstSuccessWins
    /\ ~Found => \A k \in 1 .. i : result[results[k]] # "ok"

\* A successful response that nobody has disposed of.
Held(c) == result[c] = "ok" /\ (c \notin Received \/ (c = winner /\ ~Returned))

\* Which contexts are alive.
Contexts ==
    \A c \in Cands :
        /\ pc[c] \in {"request", "backoff"} => rctx[c] \in {"none", "cancelled"}
        /\ pc[c] = "inflight" => rctx[c] \in {"live", "expired"}
        /\ pc[c] \in {"send", "sent"} =>
              (Held(c) <=> rctx[c] \in {"live", "expired"})
        /\ cctx[c] = "cancelled" <=> c \in Received /\ (c = winner => Returned)

\* Which bodies are open.
Bodies ==
    \A c \in Cands :
        /\ pc[c] \in {"request", "inflight", "backoff"} => body[c] # "open"
        /\ pc[c] \in {"send", "sent"} =>
              (body[c] = "open" <=> Held(c) \/ result[c] = "http4xx")

\* The collector leaves its loop after one receive for each candidate.
Loop ==
    /\ cpc # "collect" => i = Cardinality(Cands)
    /\ cpc \in {"copy", "ok"} => Found

\* The destination and the hash.
Dest ==
    /\ cpc = "collect" => file = [src |-> None, len |-> 0] /\ hashed = 0
    /\ cpc \in {"copy", "ok"} => file.src = winner /\ hashed = file.len
    /\ cpc = "ok" /\ winner \in Framed => file.len = BodySize
    /\ ~Found => file.src = None

IInv == TypeOK /\ Order /\ Phase /\ Choice /\ Contexts /\ Bodies /\ Loop /\ Dest
-----------------------------------------------------------------------------
(***************************************************************************)
(* Lemmas about the channel.                                               *)
(***************************************************************************)

\* Receiving adds the next outcome to what was received.
LEMMA ReceiveGrows ==
    ASSUME results \in Seq(Cands), i \in 0 .. Len(results), i < Len(results),
           i' = i + 1, results' = results
    PROVE  /\ Received' = Received \cup {Next_r}
           /\ Next_r \in Cands
           /\ Next_r \in Sent
BY DEF Received, Sent, Next_r

\* Sending adds one candidate to what was sent, and nothing to what was
\* received.
LEMMA SendGrows ==
    ASSUME results \in Seq(Cands), i \in 0 .. Len(results), NEW c \in Cands,
           i' = i, results' = Append(results, c)
    PROVE  /\ Sent' = Sent \cup {c}
           /\ Received' = Received
           /\ Len(results') = Len(results) + 1
           /\ results'[Len(results) + 1] = c
           /\ \A k \in 1 .. Len(results) : results'[k] = results[k]
<1>1. /\ Len(results') = Len(results) + 1
      /\ results'[Len(results) + 1] = c
      /\ \A k \in 1 .. Len(results) : results'[k] = results[k]
  OBVIOUS
<1>2. Len(results) \in Nat
  OBVIOUS
<1>3. Sent' = Sent \cup {c}
  BY <1>1, <1>2 DEF Sent
<1>4. Received' = Received
  BY <1>1, <1>2 DEF Received
<1> QED
  BY <1>1, <1>3, <1>4
-----------------------------------------------------------------------------
(***************************************************************************)
(* Type correctness.                                                       *)
(***************************************************************************)

\* The initial states have their types.
LEMMA TypeInit == Init => TypeOK
BY DEF Init, TypeOK, Retries

\* Every step keeps the types.
LEMMA TypeStep == TypeOK /\ Dest /\ [Next]_vars => TypeOK'
<1> SUFFICES ASSUME TypeOK, Dest, [Next]_vars PROVE TypeOK'
  OBVIOUS
<1>a. Retries \in Nat
  BY DEF Retries
<1>b. ASSUME NEW c \in Cands, Continue(c)
      PROVE  /\ pc' \in [Cands -> {"request", "inflight", "backoff", "send", "sent"}]
             /\ attempt' \in [Cands -> 0 .. Retries]
             /\ result' \in [Cands -> {"none", "ok", "err", "http4xx"}]
  <2>1. CASE /\ attempt[c] < Retries
             /\ pc' = [pc EXCEPT ![c] = "backoff"]
             /\ attempt' = [attempt EXCEPT ![c] = @ + 1]
             /\ result' = result
    <3>1. attempt[c] + 1 \in 0 .. Retries
      BY <1>a, <2>1 DEF TypeOK
    <3> QED
      BY <2>1, <3>1 DEF TypeOK
  <2>2. CASE Finish(c, "err")
    BY <2>2 DEF TypeOK, Finish
  <2> QED
    BY <1>b, <2>1, <2>2 DEF Continue
<1> USE DEF TypeOK, goroutine, contexts, collector, dest
<1>1. CASE \E c \in Cands : Goroutine(c)
  <2> PICK c \in Cands : Goroutine(c)
    BY <1>1
  <2>1. CASE StartRequest(c)
    BY <2>1 DEF StartRequest
  <2>2. CASE RejectURL(c)
    BY <2>2 DEF RejectURL, Finish
  <2>3. CASE RequestFails(c)
    BY <2>3, <1>b DEF RequestFails
  <2>4. CASE ServerError(c)
    BY <2>4, <1>b DEF ServerError
  <2>5. CASE ClientError(c)
    BY <2>5 DEF ClientError, Finish
  <2>6. CASE Respond(c)
    BY <2>6 DEF Respond, Finish
  <2>7. CASE Wake(c)
    BY <2>7 DEF Wake
  <2>8. CASE StopBackoff(c)
    BY <2>8 DEF StopBackoff, Finish
  <2>9. CASE Send(c)
    BY <2>9, SendGrows DEF Send
  <2> QED
    BY <2>1, <2>2, <2>3, <2>4, <2>5, <2>6, <2>7, <2>8, <2>9 DEF Goroutine
<1>2. CASE \E c \in Cands : ExpireRequest(c)
  BY <1>2 DEF ExpireRequest
<1>3. CASE ExpireParent
  BY <1>3 DEF ExpireParent
<1>4. CASE Collector
  <2>1. CASE ReceiveWinner
    BY <2>1, ReceiveGrows DEF ReceiveWinner
  <2>2. CASE ReceiveLoser
    BY <2>2, ReceiveGrows DEF ReceiveLoser
  <2>3. CASE ReceiveError
    BY <2>3, ReceiveGrows DEF ReceiveError
  <2>4. CASE GiveUp
    BY <2>4 DEF GiveUp
  <2>5. CASE CreateDest
    BY <2>5 DEF CreateDest
  <2>6. CASE CreateFails
    BY <2>6 DEF CreateFails, Return
  <2>7. CASE CopyChunk
    <3>1. file.len + 1 \in 0 .. BodySize
      BY <2>7 DEF CopyChunk
    <3>2. hashed = file.len
      BY <2>7 DEF CopyChunk, Dest
    <3> QED
      BY <2>7, <3>1, <3>2 DEF CopyChunk
  <2>8. CASE CopyEnds
    BY <2>8 DEF CopyEnds, Return
  <2>9. CASE CopyFails
    <3>1. file' \in [src : Cands \cup {None}, len : 0 .. BodySize]
      BY <2>9 DEF CopyFails
    <3> QED
      BY <2>9, <3>1 DEF CopyFails, Return
  <2> QED
    BY <1>4, <2>1, <2>2, <2>3, <2>4, <2>5, <2>6, <2>7, <2>8, <2>9 DEF Collector
<1>5. CASE Done \/ UNCHANGED vars
  BY <1>5 DEF Done, vars
<1> QED
  BY <1>1, <1>2, <1>3, <1>4, <1>5 DEF Next
-----------------------------------------------------------------------------
(***************************************************************************)
(* The rest of the invariant.                                              *)
(***************************************************************************)
Inv == Order /\ Phase /\ Choice /\ Contexts /\ Bodies /\ Loop /\ Dest

\* Every initial state satisfies the inductive invariant.
LEMMA InvInit == Init => IInv
BY TypeInit DEF Init, IInv, Order, Phase, Choice, Contexts, Bodies, Loop, Dest,
   Sent, Received, Found, Held, Returned

\* A goroutine that has not sent its outcome, and does not send it, changes
\* neither the channel nor the choice of a winner.
LEMMA BeforeSend ==
    ASSUME TypeOK, Order, Choice, NEW c \in Cands, pc[c] # "sent",
           UNCHANGED <<results, i, winner>>,
           NEW p \in {"request", "inflight", "backoff", "send"},
           pc' = [pc EXCEPT ![c] = p],
           \A d \in Cands \ {c} : result'[d] = result[d]
    PROVE  Order' /\ Choice'
<1> USE DEF TypeOK
<1>1. Order'
  BY DEF Order, Sent
<1>2. \A k \in 1 .. Len(results) : results[k] \in Cands \ {c}
  BY DEF Order, Sent
<1>3. \A k \in 1 .. Len(results) : result'[results'[k]] = result[results[k]]
  BY <1>2
<1>4. ASSUME ~Found PROVE Choice'
  BY <1>3, <1>4 DEF Choice, Found
<1>5. ASSUME Found PROVE Choice'
  <2> PICK k \in 1 .. i : /\ results[k] = winner /\ result[winner] = "ok"
                          /\ \A j \in 1 .. k - 1 : result[results[j]] # "ok"
    BY <1>5 DEF Choice, FirstSuccessWins
  <2>1. results'[k] = winner' /\ result'[winner'] = "ok"
    BY <1>3
  <2>2. \A j \in 1 .. k - 1 : j \in 1 .. Len(results)
    <3>1. Len(results) \in Nat
      OBVIOUS
    <3> QED
      BY <3>1
  <2>3. \A j \in 1 .. k - 1 : result'[results'[j]] # "ok"
    BY <1>3, <2>2
  <2> QED
    BY <1>5, <2>1, <2>3 DEF Choice, FirstSuccessWins, Found
<1> QED
  BY <1>1, <1>4, <1>5

\* A step of a candidate's goroutine keeps the rest of the invariant.
LEMMA GoroutineStep ==
    ASSUME IInv, NEW c \in Cands, Goroutine(c) PROVE Inv'
<1> USE DEF IInv, Inv, TypeOK, goroutine, contexts, collector, dest
<1>1. CASE StartRequest(c)
  <2> USE <1>1 DEF StartRequest
  <2>1. Order' /\ Choice'
    BY BeforeSend
  <2>2. Phase'
    BY DEF Phase
  <2>3. Contexts'
    BY DEF Order, Phase, Contexts, Held, Found, Returned, Sent, Received
  <2>4. Bodies'
    BY DEF Order, Phase, Contexts, Bodies, Held, Found, Returned, Sent, Received
  <2>5. Loop' /\ Dest'
    BY DEF Loop, Dest, Found
  <2> QED
    BY <2>1, <2>2, <2>3, <2>4, <2>5
<1>2. CASE RejectURL(c)
  <2> USE <1>2 DEF RejectURL, Finish
  <2>1. Order' /\ Choice'
    BY BeforeSend
  <2>2. Phase'
    BY DEF Phase
  <2>3. Contexts'
    BY DEF Order, Phase, Contexts, Held, Found, Returned, Sent, Received
  <2>4. Bodies'
    BY DEF Order, Phase, Contexts, Bodies, Held, Found, Returned, Sent, Received
  <2>5. Loop' /\ Dest'
    BY DEF Loop, Dest, Found
  <2> QED
    BY <2>1, <2>2, <2>3, <2>4, <2>5
<1>3. CASE RequestFails(c)
  <2> USE <1>3 DEF RequestFails, Continue, Finish
  <2>1. Order' /\ Choice'
    BY BeforeSend
  <2>2. Phase'
    BY DEF Phase
  <2>3. Contexts'
    BY DEF Order, Phase, Contexts, Held, Found, Returned, Sent, Received
  <2>4. Bodies'
    BY DEF Order, Phase, Contexts, Bodies, Held, Found, Returned, Sent, Received
  <2>5. Loop' /\ Dest'
    BY DEF Loop, Dest, Found
  <2> QED
    BY <2>1, <2>2, <2>3, <2>4, <2>5
<1>4. CASE ServerError(c)
  <2> USE <1>4 DEF ServerError, Continue, Finish
  <2>1. Order' /\ Choice'
    BY BeforeSend
  <2>2. Phase'
    BY DEF Phase
  <2>3. Contexts'
    BY DEF Order, Phase, Contexts, Held, Found, Returned, Sent, Received
  <2>4. Bodies'
    BY DEF Order, Phase, Contexts, Bodies, Held, Found, Returned, Sent, Received
  <2>5. Loop' /\ Dest'
    BY DEF Loop, Dest, Found
  <2> QED
    BY <2>1, <2>2, <2>3, <2>4, <2>5
<1>5. CASE ClientError(c)
  <2> USE <1>5 DEF ClientError, Finish
  <2>1. Order' /\ Choice'
    BY BeforeSend
  <2>2. Phase'
    BY DEF Phase
  <2>3. Contexts'
    BY DEF Order, Phase, Contexts, Held, Found, Returned, Sent, Received
  <2>4. Bodies'
    BY DEF Order, Phase, Contexts, Bodies, Held, Found, Returned, Sent, Received
  <2>5. Loop' /\ Dest'
    BY DEF Loop, Dest, Found
  <2> QED
    BY <2>1, <2>2, <2>3, <2>4, <2>5
<1>6. CASE Respond(c)
  <2> USE <1>6 DEF Respond, Finish, RequestDone, ChildDone
  <2>1. Order' /\ Choice'
    BY BeforeSend
  <2>2. Phase'
    BY DEF Phase
  <2>3. Contexts'
    BY DEF Order, Phase, Contexts, Held, Found, Returned, Sent, Received
  <2>4. Bodies'
    BY DEF Order, Phase, Contexts, Bodies, Held, Found, Returned, Sent, Received
  <2>5. Loop' /\ Dest'
    BY DEF Loop, Dest, Found
  <2> QED
    BY <2>1, <2>2, <2>3, <2>4, <2>5
<1>7. CASE Wake(c)
  <2> USE <1>7 DEF Wake
  <2>1. Order' /\ Choice'
    BY BeforeSend
  <2>2. Phase'
    BY DEF Phase
  <2>3. Contexts'
    BY DEF Order, Phase, Contexts, Held, Found, Returned, Sent, Received
  <2>4. Bodies'
    BY DEF Order, Phase, Contexts, Bodies, Held, Found, Returned, Sent, Received
  <2>5. Loop' /\ Dest'
    BY DEF Loop, Dest, Found
  <2> QED
    BY <2>1, <2>2, <2>3, <2>4, <2>5
<1>8. CASE StopBackoff(c)
  <2> USE <1>8 DEF StopBackoff, Finish
  <2>1. Order' /\ Choice'
    BY BeforeSend
  <2>2. Phase'
    BY DEF Phase
  <2>3. Contexts'
    BY DEF Order, Phase, Contexts, Held, Found, Returned, Sent, Received
  <2>4. Bodies'
    BY DEF Order, Phase, Contexts, Bodies, Held, Found, Returned, Sent, Received
  <2>5. Loop' /\ Dest'
    BY DEF Loop, Dest, Found
  <2> QED
    BY <2>1, <2>2, <2>3, <2>4, <2>5
<1>9. CASE Send(c)
  <2> USE <1>9 DEF Send
  <2>1. /\ Sent' = Sent \cup {c} /\ Received' = Received
        /\ Len(results') = Len(results) + 1
        /\ results'[Len(results) + 1] = c
        /\ \A k \in 1 .. Len(results) : results'[k] = results[k]
    BY SendGrows
  <2>2. c \notin Sent
    BY DEF Order
  <2>3. Order'
    <3>1. \A d \in Cands : pc'[d] = "sent" <=> d \in Sent'
      BY <2>1 DEF Order
    <3>2. \A j \in 1 .. Len(results) : results[j] # c
      BY <2>2 DEF Sent
    <3> QED
      BY <2>1, <3>1, <3>2 DEF Order
  <2>4. Phase'
    BY DEF Phase
  <2>5. Choice'
    <3>1. Len(results) \in Nat
      OBVIOUS
    <3>2. \A k \in 1 .. i : /\ results'[k] = results[k]
                             /\ \A j \in 1 .. k - 1 : results'[j] = results[j]
      BY <2>1, <3>1
    <3>3. ASSUME Found PROVE FirstSuccessWins'
      <4> PICK k \in 1 .. i :
                /\ results[k] = winner /\ result[winner] = "ok"
                /\ \A j \in 1 .. k - 1 : result[results[j]] # "ok"
        BY <3>3 DEF Choice, FirstSuccessWins
      <4>0. UNCHANGED <<result, winner, i>>
        OBVIOUS
      <4> HIDE <1>9 DEF Send
      <4>1. results'[k] = winner /\ result'[winner] = "ok"
        BY <3>2, <4>0
      <4>2. ASSUME NEW j \in 1 .. k - 1 PROVE result'[results'[j]] # "ok"
        <5>1. results'[j] = results[j]
          BY <3>2
        <5> QED
          BY <4>0, <5>1
      <4> QED
        BY <4>0, <4>1, <4>2 DEF FirstSuccessWins
    <3> QED
      BY <3>2, <3>3 DEF Choice, Found
  <2>6. Contexts' /\ Bodies'
    BY <2>1 DEF Contexts, Bodies, Held, Found, Returned
  <2>7. Loop' /\ Dest'
    BY DEF Loop, Dest, Found
  <2> QED
    BY <2>3, <2>4, <2>5, <2>6, <2>7
<1> QED
  BY <1>1, <1>2, <1>3, <1>4, <1>5, <1>6, <1>7, <1>8, <1>9 DEF Goroutine

\* The outcome the collector is about to receive is new to it.
LEMMA NextIsNew ==
    ASSUME TypeOK, Order, i < Len(results), i' = i + 1, results' = results
    PROVE  /\ Next_r \in Cands /\ Next_r \notin Received /\ pc[Next_r] = "sent"
           /\ Received' = Received \cup {Next_r}
           /\ i \in Nat
<1>1. Len(results) \in Nat /\ i \in Nat
  BY DEF TypeOK
<1>2. Next_r \in Cands /\ Next_r \in Sent /\ Received' = Received \cup {Next_r}
  BY ReceiveGrows DEF TypeOK
<1>3. ASSUME NEW k \in 1 .. i, results[k] = results[i + 1] PROVE FALSE
  <2>1. k \in 1 .. Len(results) /\ i + 1 \in 1 .. Len(results) /\ k # i + 1
    BY <1>1
  <2> QED
    BY <1>3, <2>1 DEF Order
<1> QED
  BY <1>1, <1>2, <1>3 DEF Order, Received, Next_r

\* The deferred calls of a return release the winner and nothing else.
LEMMA ReturnStep ==
    ASSUME IInv, Found, cpc \in {"collect", "copy"},
           NEW how \in {"ok", "failed"}, Return(how)
    PROVE  Order' /\ Phase' /\ Choice' /\ Contexts' /\ Bodies'
<1>1. /\ UNCHANGED <<pc, result, results, i, winner>>
      /\ Received' = Received /\ Sent' = Sent
  BY DEF Return, goroutine, Received, Sent
<1>2. Order' /\ Phase' /\ Choice'
  BY <1>1 DEF IInv, Order, Phase, Choice, FirstSuccessWins, Found
<1>3. Returned' /\ ~Returned
  BY DEF Returned, Return
<1>4. /\ winner \in Cands /\ winner \in Received
      /\ pc[winner] = "sent" /\ result[winner] = "ok"
  <2>1. winner \in Received /\ result[winner] = "ok"
    BY DEF IInv, Choice, FirstSuccessWins, Received
  <2>2. winner \in Cands /\ winner \in Sent
    BY <2>1 DEF IInv, TypeOK, Received, Sent, Found
  <2> QED
    BY <2>1, <2>2 DEF IInv, Order
<1>5. /\ body'[winner] = "closed" /\ rctx'[winner] = "cancelled"
      /\ cctx'[winner] = "cancelled"
      /\ \A c \in Cands \ {winner} :
            body'[c] = body[c] /\ rctx'[c] = rctx[c] /\ cctx'[c] = cctx[c]
  BY <1>4 DEF Return, IInv, TypeOK
<1>6. ~Held(winner)' /\ \A c \in Cands \ {winner} : Held(c)' <=> Held(c)
  BY <1>1, <1>3, <1>4 DEF Held
<1>7. Contexts'
  BY <1>1, <1>3, <1>4, <1>5, <1>6 DEF IInv, Contexts
<1>8. Bodies'
  BY <1>1, <1>4, <1>5, <1>6 DEF IInv, Bodies
<1> QED
  BY <1>2, <1>7, <1>8

\* The collector's steps that touch only its own position and the file.
LEMMA FileStep ==
    ASSUME IInv, UNCHANGED <<goroutine, contexts, body, results, i, winner>>,
           ~Returned, Returned' => ~Found
    PROVE  Contexts' /\ Bodies'
<1>1. Received' = Received /\ (winner \in Cands => Found)
  BY DEF Received, Found
<1>2. \A c \in Cands : (Held(c)' <=> Held(c)) /\ (c = winner => ~Returned')
  BY <1>1 DEF Held, goroutine
<1> QED
  BY <1>1, <1>2 DEF IInv, Contexts, Bodies, goroutine, contexts

\* A step of DownloadFileRacing itself keeps it.
LEMMA CollectorStep == ASSUME IInv, Collector PROVE Inv'
<1> SUFFICES /\ Order' /\ Phase' /\ Choice'
             /\ Contexts' /\ Bodies' /\ Loop' /\ Dest'
  BY DEF Inv
<1> USE DEF IInv
<1>1. CASE ReceiveWinner
  <2>1. /\ i' = i + 1 /\ winner' = Next_r /\ result[Next_r] = "ok" /\ winner = None
        /\ cpc = "collect" /\ i < Len(results)
        /\ UNCHANGED <<cpc, pc, result, results, rctx, cctx, body, file, hashed>>
    BY <1>1 DEF ReceiveWinner, Found, goroutine, contexts, dest
  <2>2. /\ Next_r \in Cands /\ Next_r \notin Received /\ pc[Next_r] = "sent"
        /\ Received' = Received \cup {Next_r} /\ i \in Nat
    BY <2>1, NextIsNew
  <2>3. Order' /\ Phase'
    BY <2>1 DEF Order, Phase, Sent
  <2>4. Choice'
    <3>1. \A k \in 1 .. i : result[results[k]] # "ok"
      BY <2>1 DEF Choice, Found
    <3>2. /\ i + 1 \in 1 .. i' /\ results'[i + 1] = winner' /\ result'[winner'] = "ok"
          /\ \A j \in 1 .. (i + 1) - 1 : result'[results'[j]] # "ok"
      BY <2>1, <2>2, <3>1 DEF Next_r
    <3>3. Found'
      BY <2>1, <2>2 DEF Found
    <3> QED
      BY <3>2, <3>3 DEF Choice, FirstSuccessWins
  <2>5. \A c \in Cands : (Held(c)' <=> Held(c)) /\ c # winner
    BY <2>1, <2>2 DEF Held, Returned
  <2>6. Contexts' /\ Bodies'
    BY <2>1, <2>2, <2>5 DEF Contexts, Bodies, Returned
  <2>7. Loop' /\ Dest'
    BY <2>1 DEF Loop, Dest
  <2> QED
    BY <2>3, <2>4, <2>6, <2>7
<1>2. CASE ReceiveLoser \/ ReceiveError
  <2>1. /\ i' = i + 1 /\ cpc = "collect" /\ i < Len(results)
        /\ UNCHANGED <<cpc, winner, pc, result, results, file, hashed>>
        /\ result[Next_r] = "ok" => Found
    BY <1>2 DEF ReceiveLoser, ReceiveError, goroutine, dest
  <2>2. /\ Next_r \in Cands /\ Next_r \notin Received /\ pc[Next_r] = "sent"
        /\ Received' = Received \cup {Next_r} /\ i \in Nat
    BY <2>1, NextIsNew
  <2>3. Order' /\ Phase'
    BY <2>1 DEF Order, Phase, Sent
  <2>4. Choice'
    <3>1. CASE Found
      BY <2>1, <2>2, <3>1 DEF Choice, FirstSuccessWins, Found
    <3>2. CASE ~Found
      <4>1. result[results[i + 1]] # "ok"
        BY <2>1, <3>2 DEF Next_r
      <4>2. \A k \in 1 .. i' : k \in 1 .. i \/ k = i + 1
        BY <2>1, <2>2
      <4> QED
        BY <2>1, <3>2, <4>1, <4>2 DEF Choice, Found
    <3> QED
      BY <3>1, <3>2
  <2>5. Next_r # winner
    BY <2>2 DEF Choice, FirstSuccessWins, Found, Received, CandsAssumption
  <2>6. \A c \in Cands : Held(c)' <=> Held(c) /\ c # Next_r
    BY <2>1, <2>2, <2>5 DEF Held, Returned
  <2>7. /\ \A c \in Cands \ {Next_r} :
              body'[c] = body[c] /\ rctx'[c] = rctx[c] /\ cctx'[c] = cctx[c]
        /\ cctx'[Next_r] = "cancelled"
    BY <1>2, <2>2 DEF ReceiveLoser, ReceiveError, TypeOK
  <2>8. /\ rctx'[Next_r] \notin {"live", "expired"}
        /\ body'[Next_r] = "open" <=> result[Next_r] = "http4xx"
    <3>1. CASE ReceiveLoser
      BY <2>2, <3>1 DEF ReceiveLoser, TypeOK
    <3>2. CASE ReceiveError
      <4>1. ~Held(Next_r) /\ UNCHANGED <<rctx, body>>
        BY <3>2 DEF ReceiveError, Held
      <4> QED
        BY <2>2, <4>1 DEF Contexts, Bodies
    <3> QED
      BY <1>2, <3>1, <3>2
  <2>9. Contexts'
    BY <2>1, <2>2, <2>5, <2>6, <2>7, <2>8 DEF Contexts, Returned
  <2>10. Bodies'
    BY <2>1, <2>2, <2>6, <2>7, <2>8 DEF Bodies
  <2>11. Loop' /\ Dest'
    BY <2>1 DEF Loop, Dest, Found
  <2> QED
    BY <2>3, <2>4, <2>9, <2>10, <2>11
<1>3. CASE GiveUp \/ CreateDest \/ CopyChunk
  <2>1. /\ UNCHANGED <<goroutine, contexts, body, results, i, winner>>
        /\ ~Returned /\ (Returned' => ~Found)
    BY <1>3 DEF GiveUp, CreateDest, CopyChunk, collector, dest, Returned
  <2>2. Order' /\ Phase' /\ Choice'
    BY <2>1 DEF goroutine, Order, Phase, Choice, FirstSuccessWins, Found, Sent
  <2>3. Contexts' /\ Bodies'
    BY <2>1, FileStep
  <2>4. Loop'
    BY <1>3 DEF GiveUp, CreateDest, CopyChunk, collector, Loop, Found
  <2>5. Dest'
    BY <1>3 DEF GiveUp, CreateDest, CopyChunk, collector, dest, Dest, Found, TypeOK
  <2> QED
    BY <2>2, <2>3, <2>4, <2>5
<1>4. CASE CreateFails \/ CopyEnds \/ CopyFails
  <2>1. PICK how \in {"ok", "failed"} : Return(how)
    BY <1>4 DEF CreateFails, CopyEnds, CopyFails
  <2>2. Found /\ cpc \in {"collect", "copy"}
    BY <1>4 DEF CreateFails, CopyEnds, CopyFails, Loop
  <2>3. Order' /\ Phase' /\ Choice' /\ Contexts' /\ Bodies'
    BY <2>1, <2>2, ReturnStep
  <2>4. Loop'
    BY <1>4, <2>2 DEF CreateFails, CopyEnds, CopyFails, Return, Loop, Found
  <2>5. Dest'
    BY <1>4, <2>2 DEF CreateFails, CopyEnds, CopyFails, Return, dest, Dest, Found
  <2> QED
    BY <2>3, <2>4, <2>5
<1> QED
  BY <1>1, <1>2, <1>3, <1>4 DEF Collector

\* The invariant is inductive.
LEMMA InvStep == IInv /\ [Next]_vars => IInv'
<1> SUFFICES ASSUME IInv, [Next]_vars PROVE IInv'
  OBVIOUS
<1>1. TypeOK'
  BY TypeStep DEF IInv
<1>2. CASE \E c \in Cands : Goroutine(c)
  BY <1>1, <1>2, GoroutineStep DEF IInv, Inv
<1>3. CASE Collector
  BY <1>1, <1>3, CollectorStep DEF IInv, Inv
<1>4. CASE \E c \in Cands : ExpireRequest(c)
  <2> USE DEF IInv, TypeOK, goroutine, collector, dest, Order, Phase, Choice, FirstSuccessWins,
              Loop, Dest, Held, Found, Returned, Sent, Received
  <2>1. Order' /\ Phase' /\ Choice' /\ Loop' /\ Dest'
    BY <1>4 DEF ExpireRequest
  <2>2. Contexts' /\ Bodies'
    BY <1>4 DEF ExpireRequest, Contexts, Bodies
  <2> QED
    BY <1>1, <2>1, <2>2
<1>5. CASE ExpireParent \/ Done \/ UNCHANGED vars
  BY <1>1, <1>5 DEF ExpireParent, Done, vars, goroutine, contexts, collector, dest,
     IInv, Order, Phase, Choice, FirstSuccessWins, Contexts, Bodies, Loop, Dest,
     Held, Found, Returned, Sent, Received
<1> QED
  BY <1>2, <1>3, <1>4, <1>5 DEF Next-----------------------------------------------------------------------------
(***************************************************************************)
(* What follows from the invariant.                                        *)
(***************************************************************************)

\* One receive for each candidate receives every candidate: an outcome that
\* was sent twice would let the collector leave its loop too early.
LEMMA AllReceived ==
    ASSUME TypeOK, Order, i = Cardinality(Cands) PROVE Received = Cands
<1> DEFINE f == [k \in 1 .. i |-> results[k]]
<1>1. Len(results) \in Nat /\ i \in Nat /\ i <= Len(results)
  BY DEF TypeOK
<1>2. \A k \in 1 .. i : k \in 1 .. Len(results)
  BY <1>1
<1>3. Received \in SUBSET Cands
  BY <1>2 DEF TypeOK, Received
<1>4. f \in [1 .. i -> Received]
  BY DEF Received
<1>5. \A j, k \in 1 .. i : f[j] = f[k] => j = k
  BY <1>2 DEF Order
<1>6. f \in Injection(1 .. i, Received)
  BY <1>4, <1>5 DEF Injection, IsInjective
<1>7. f \in Surjection(1 .. i, Received)
  BY <1>4 DEF Surjection, Received
<1>8. IsFiniteSet(1 .. i) /\ Cardinality(1 .. i) = i
  BY <1>1, FS_Interval
<1>9. Cardinality(Received) = i
  BY <1>6, <1>7, <1>8, FS_Surjection
<1> QED
  BY <1>3, <1>9, FS_Subset

\* Each safety property of Fetch follows from the invariant.
LEMMA Consequences ==
    IInv => /\ WinnerKeptAlive
            /\ ContextsReleased
            /\ NothingLeftBehind
            /\ FirstSuccessWins
            /\ ResultSound
            /\ FailureIsUnanimous
<1> SUFFICES ASSUME IInv
             PROVE  /\ WinnerKeptAlive /\ ContextsReleased /\ NothingLeftBehind
                    /\ FirstSuccessWins /\ ResultSound /\ FailureIsUnanimous
  OBVIOUS
<1> USE DEF IInv
<1>1. Found => winner \in Received /\ result[winner] = "ok" /\ winner \in Cands
  BY DEF Choice, FirstSuccessWins, Received, Found, TypeOK
<1>2. \A c \in Received : c \in Cands /\ c \in Sent
  BY DEF Received, Sent, TypeOK
<1>3. Returned => Received = Cands
  BY AllReceived DEF Returned, Loop
<1>4. WinnerKeptAlive
  <2> SUFFICES ASSUME Found, ~Returned PROVE /\ body[winner] = "open"
                                            /\ cctx[winner] = "live"
                                            /\ rctx[winner] \in {"live", "expired"}
    BY DEF WinnerKeptAlive
  <2>1. pc[winner] = "sent" /\ Held(winner)
    BY <1>1, <1>2 DEF Order, Held
  <2> QED
    BY <1>1, <2>1 DEF Contexts, Bodies, TypeOK
<1>5. ContextsReleased
  <2> SUFFICES ASSUME NEW c \in Cands, rctx[c] \in {"live", "expired"}, pc[c] # "inflight"
               PROVE  /\ result[c] = "ok" /\ body[c] = "open"
                      /\ c \notin Received \/ (c = winner /\ ~Returned)
    BY DEF ContextsReleased
  <2>1. pc[c] \in {"send", "sent"}
    BY DEF Contexts, TypeOK
  <2> QED
    BY <2>1 DEF Contexts, Bodies, Held
<1>6. NothingLeftBehind
  <2> SUFFICES ASSUME Returned, NEW c \in Cands
               PROVE  /\ pc[c] = "sent" /\ cctx[c] = "cancelled"
                      /\ body[c] = "open" => result[c] = "http4xx"
    BY DEF NothingLeftBehind
  <2>1. c \in Received /\ pc[c] = "sent"
    BY <1>2, <1>3 DEF Order
  <2> QED
    BY <2>1 DEF Contexts, Bodies, Held
<1>7. FirstSuccessWins
  BY DEF Choice, FirstSuccessWins
<1>8. ResultSound
  BY DEF ResultSound, Dest
<1>9. FailureIsUnanimous
  <2> SUFFICES ASSUME cpc = "failed", ~Found
               PROVE  /\ \A c \in Cands : result[c] \in {"err", "http4xx"}
                      /\ file.src = None
    BY DEF FailureIsUnanimous
  <2>1. ASSUME NEW c \in Cands PROVE result[c] \in {"err", "http4xx"}
    <3>1. c \in Received /\ pc[c] = "sent"
      BY <1>2, <1>3 DEF Returned, Order
    <3>2. result[c] # "ok"
      BY <3>1 DEF Choice, Received
    <3> QED
      BY <3>1, <3>2 DEF Phase, TypeOK
  <2> QED
    BY <2>1 DEF Dest
<1> QED
  BY <1>4, <1>5, <1>6, <1>7, <1>8, <1>9

\* The invariant holds throughout every behaviour.
THEOREM Invariance == Spec => []IInv
<1>1. Init => IInv
  BY InvInit
<1>2. IInv /\ [Next]_vars => IInv'
  BY InvStep
<1> QED
  BY <1>1, <1>2, PTL DEF Spec

\* The variables of the race keep their types.
THEOREM TypeCorrect == Spec => []TypeOK
<1>1. IInv => TypeOK
  BY DEF IInv
<1> QED
  BY <1>1, Invariance, PTL

\* Whatever the collector does with the other outcomes, the winner's response
\* stays readable by it: its contexts are not cancelled and its body not
\* closed before the call returns.
THEOREM WinnerSurvives == Spec => []WinnerKeptAlive
BY Invariance, Consequences, PTL

\* No request context leaks, on any path through retries, errors, losing
\* responses and returns.
THEOREM NoContextLeak == Spec => []ContextsReleased
BY Invariance, Consequences, PTL

\* No goroutine, child context or successful body outlives the call.
THEOREM NoneOutlivesCall == Spec => []NothingLeftBehind
BY Invariance, Consequences, PTL

\* The winner is the first success the channel delivered.
THEOREM WinnerIsFirst == Spec => []FirstSuccessWins
BY Invariance, Consequences, PTL

\* A successful return describes the destination file truly.
THEOREM SuccessIsSound == Spec => []ResultSound
BY Invariance, Consequences, PTL

\* "all mirrors failed" is returned only when each one did.
THEOREM FailureIsSound == Spec => []FailureIsUnanimous
BY Invariance, Consequences, PTL
-----------------------------------------------------------------------------
(***************************************************************************)
(* Fetch implements Race: each step of the machinery is a step of the      *)
(* abstract race, or changes nothing of it.                                *)
(***************************************************************************)

\* IsFirst and First, of any channel and outcomes.
FirstOn(s, r, c) ==
    \E k \in 1 .. Len(s) : /\ s[k] = c /\ r[c] = "ok"
                           /\ \A j \in 1 .. k - 1 : r[s[j]] # "ok"

LEMMA FirstUnique ==
    ASSUME NEW s, NEW r, Len(s) \in Nat, NEW c, NEW d, FirstOn(s, r, c), FirstOn(s, r, d)
    PROVE  c = d
<1> PICK k \in 1 .. Len(s) : s[k] = c /\ r[c] = "ok" /\ \A j \in 1 .. k - 1 : r[s[j]] # "ok"
  BY DEF FirstOn
<1> PICK n \in 1 .. Len(s) : s[n] = d /\ r[d] = "ok" /\ \A j \in 1 .. n - 1 : r[s[j]] # "ok"
  BY DEF FirstOn
<1>1. ~(k < n)
  <2> SUFFICES ASSUME k < n PROVE FALSE
    OBVIOUS
  <2>1. k \in 1 .. n - 1
    OBVIOUS
  <2> QED BY <2>1
<1>2. ~(n < k)
  <2> SUFFICES ASSUME n < k PROVE FALSE
    OBVIOUS
  <2>1. n \in 1 .. k - 1
    OBVIOUS
  <2> QED BY <2>1
<1> QED BY <1>1, <1>2

\* What First is.
LEMMA FirstIs ==
    ASSUME TypeOK
    PROVE  /\ \A c \in Cands : IsFirst(c) => First = c
           /\ (\A c \in Cands : ~IsFirst(c)) => First = None
           /\ First # None => First \in Cands /\ IsFirst(First)
<1>1. Len(results) \in Nat
  BY DEF TypeOK
<1>2. \A c, d \in Cands : IsFirst(c) /\ IsFirst(d) => c = d
  BY <1>1, FirstUnique DEF IsFirst, FirstOn
<1> QED BY <1>2 DEF First

LEMMA FirstIsNext ==
    ASSUME TypeOK'
    PROVE  /\ \A c \in Cands : IsFirst(c)' => First' = c
           /\ (\A c \in Cands : ~IsFirst(c)') => First' = None
<1>1. Len(results') \in Nat
  BY DEF TypeOK
<1>2. \A c, d \in Cands : IsFirst(c)' /\ IsFirst(d)' => c = d
  BY <1>1, FirstUnique DEF IsFirst, FirstOn
<1> QED BY <1>2 DEF First

\* A success on the channel means that there is a first one.
Earliest == First = None => \A k \in 1 .. Len(results) : result[results[k]] # "ok"

Outcomes == [c \in Cands |-> Outcome(c)]

\* A step that sends nothing, and leaves what was sent alone, settles nothing.
LEMMA NothingSent ==
    ASSUME TypeOK, TypeOK', Earliest, results' = results,
           \A d \in Sent : result'[d] = result[d]
    PROVE  Outcomes' = Outcomes /\ First' = First /\ Earliest'
<1>1. ASSUME NEW k \in 1 .. Len(results)
      PROVE  results[k] \in Cands /\ result'[results[k]] = result[results[k]]
  <2>1. results[k] \in Sent
    BY DEF Sent
  <2> QED BY <2>1 DEF TypeOK
<1>2. Sent' = Sent
  BY DEF Sent
<1>3. Outcomes' = Outcomes
  BY <1>2 DEF Outcomes, Outcome
<1>4. ASSUME NEW c \in Cands PROVE IsFirst(c)' <=> IsFirst(c)
  <2>1. \A k \in 1 .. Len(results) : \A j \in 1 .. k - 1 : j \in 1 .. Len(results)
    <3>1. Len(results) \in Nat
      BY DEF TypeOK
    <3> QED BY <3>1
  <2> QED BY <1>1, <2>1 DEF IsFirst
<1>5. First' = First
  <2>1. CASE \E c \in Cands : IsFirst(c)
    BY <1>4, <2>1, FirstIs, FirstIsNext
  <2>2. CASE \A c \in Cands : ~IsFirst(c)
    BY <1>4, <2>2, FirstIs, FirstIsNext
  <2> QED BY <2>1, <2>2
<1> QED BY <1>1, <1>3, <1>5 DEF Earliest

\* Sending settles the sender, and the first success to be sent is the first.
LEMMA SendSettles ==
    ASSUME IInv, TypeOK', Earliest, NEW c \in Cands, Send(c)
    PROVE  /\ Outcome(c) = "pending" /\ result[c] # "none"
           /\ Outcomes' = [Outcomes EXCEPT ![c] = IF result[c] = "ok" THEN "ok" ELSE "err"]
           /\ First' = IF result[c] = "ok" /\ First = None THEN c ELSE First
           /\ Earliest'
<1> DEFINE n == Len(results)
<1>1. /\ TypeOK /\ pc[c] = "send" /\ results' = Append(results, c) /\ result' = result
      /\ i' = i /\ c \notin Sent /\ result[c] # "none"
  BY DEF Send, goroutine, collector, IInv, Order, Phase
<1>2. /\ Sent' = Sent \cup {c} /\ Len(results') = n + 1 /\ results'[n + 1] = c
      /\ \A k \in 1 .. n : results'[k] = results[k]
  <2>1. results \in Seq(Cands) /\ i \in 0 .. Len(results)
    BY <1>1 DEF TypeOK
  <2>2. results' = Append(results, c) /\ i' = i
    BY <1>1
  <2> QED BY <2>1, <2>2, SendGrows
<1>3. n \in Nat /\ \A k \in 1 .. n : results[k] \in Cands
  BY <1>1 DEF TypeOK
<1>4. /\ Outcome(c) = "pending"
      /\ Outcomes' = [Outcomes EXCEPT ![c] = IF result[c] = "ok" THEN "ok" ELSE "err"]
  BY <1>1, <1>2 DEF Outcomes, Outcome
<1> HIDE DEF n
<1>5. ASSUME NEW d \in Cands, IsFirst(d) PROVE IsFirst(d)'
  <2> PICK k \in 1 .. n : /\ results[k] = d /\ result[d] = "ok"
                          /\ \A j \in 1 .. k - 1 : result[results[j]] # "ok"
    BY <1>5 DEF IsFirst, n
  <2>1. k \in 1 .. n + 1 /\ \A j \in 1 .. k - 1 : j \in 1 .. n
    BY <1>3
  <2> QED BY <1>1, <1>2, <2>1 DEF IsFirst
<1>6. CASE First # None
  <2> PICK d \in Cands : d = First /\ IsFirst(d)
    BY <1>1, <1>6, FirstIs
  <2>1. IsFirst(d)'
    BY <1>5
  <2>2. First' = First
    BY <2>1, FirstIsNext
  <2> QED BY <1>1, <1>4, <1>6, <2>2 DEF Earliest
<1>7. CASE First = None
  <2>1. \A k \in 1 .. n : result'[results'[k]] # "ok"
    BY <1>1, <1>2, <1>7 DEF Earliest, n
  <2>2. CASE result[c] = "ok"
    <3>1. n + 1 \in 1 .. Len(results') /\ results'[n + 1] = c /\ result'[c] = "ok"
      BY <1>1, <1>2, <1>3, <2>2
    <3>2. IsFirst(c)'
      <4>1. \A j \in 1 .. (n + 1) - 1 : result'[results'[j]] # "ok"
        BY <1>3, <2>1
      <4> QED BY <3>1, <4>1 DEF IsFirst
    <3>3. First' = c /\ c # None
      BY <3>2, FirstIsNext
    <3> QED BY <1>1, <1>4, <1>7, <2>2, <3>3 DEF Earliest
  <2>3. CASE result[c] # "ok"
    <3>1. \A k \in 1 .. n + 1 : result'[results'[k]] # "ok"
      <4> SUFFICES ASSUME NEW k \in 1 .. n + 1 PROVE result'[results'[k]] # "ok"
        OBVIOUS
      <4>1. k \in 1 .. n \/ k = n + 1
        BY <1>3
      <4> QED BY <1>1, <1>2, <2>1, <2>3, <4>1
    <3>2. \A d \in Cands : ~IsFirst(d)'
      BY <1>2, <3>1 DEF IsFirst
    <3>3. First' = None
      BY <3>2, FirstIsNext
    <3> QED BY <1>1, <1>2, <1>4, <1>7, <2>3, <3>1, <3>3 DEF Earliest
  <2> QED BY <2>2, <2>3
<1> QED BY <1>6, <1>7

\* The call goes on only when every candidate has been heard.
LEMMA AllHeard ==
    ASSUME IInv, i = Cardinality(Cands)
    PROVE  /\ \A c \in Cands : c \in Sent /\ c \in Received
           /\ Found => First = winner /\ winner # None
           /\ ~Found => First = None
<1>1. TypeOK /\ Order /\ Choice
  BY DEF IInv
<1>2. Received = Cands /\ i \in Nat /\ Len(results) \in Nat /\ i <= Len(results)
  BY <1>1, AllReceived DEF TypeOK
<1>3. \A c \in Cands : c \in Sent
  BY <1>2 DEF Received, Sent
<1>4. ASSUME Found PROVE First = winner
  <2>1. IsFirst(winner) /\ winner \in Cands
    BY <1>1, <1>2, <1>4 DEF Choice, FirstSuccessWins, IsFirst, Found, TypeOK
  <2> QED BY <1>1, <2>1, FirstIs
<1>5. ASSUME ~Found PROVE First = None
  <2>1. \A c \in Cands : result[c] # "ok"
    BY <1>1, <1>2, <1>5 DEF Choice, Received
  <2>2. \A c \in Cands : ~IsFirst(c)
    BY <2>1 DEF IsFirst
  <2> QED BY <1>1, <2>2, FirstIs
<1> QED BY <1>2, <1>3, <1>4, <1>5 DEF Found

\* A goroutine's step, or a timer's, settles its candidate or nothing.
LEMMA GoroutineMaps ==
    ASSUME IInv, TypeOK', Earliest, NEW c \in Cands, Goroutine(c)
    PROVE  [Abstract!RNext]_Abstract!rvars /\ Earliest'
<1>1. TypeOK /\ Order /\ file' = file /\ cpc' = cpc
  BY DEF IInv, Goroutine, StartRequest, RejectURL, RequestFails, ServerError, ClientError,
     Respond, Wake, StopBackoff, Send, goroutine, contexts, collector, dest
<1>2. Returned' = Returned
  BY <1>1 DEF Returned
<1>3. CASE Send(c)
  <2>1. ~Returned
    <3>1. c \notin Sent
      BY <1>3, <1>1 DEF Send, Order
    <3> QED BY <3>1, AllHeard DEF IInv, Loop, Returned
  <2> DEFINE o == IF result[c] = "ok" THEN "ok" ELSE "err"
  <2>2. /\ Outcome(c) = "pending"
        /\ Outcomes' = [Outcomes EXCEPT ![c] = o]
        /\ First' = IF o = "ok" /\ First = None THEN c ELSE First
        /\ Earliest'
    BY <1>3, SendSettles
  <2>3. Abstract!Settle(c, o)
    BY <1>1, <1>2, <2>1, <2>2 DEF Abstract!Settle, Outcomes
  <2> QED BY <2>2, <2>3 DEF Abstract!RNext
<1>4. CASE ~Send(c)
  <2>1. results' = results /\ pc[c] # "sent"
    BY <1>4 DEF Goroutine, StartRequest, RejectURL, RequestFails, ServerError, ClientError,
       Respond, Wake, StopBackoff
  <2>2. \A d \in Cands \ {c} : result'[d] = result[d]
    <3>1. result' = result \/ \E r : result' = [result EXCEPT ![c] = r]
      BY <1>4 DEF Goroutine, StartRequest, RejectURL, RequestFails, ServerError, ClientError,
         Respond, Wake, StopBackoff, Continue, Finish, goroutine
    <3>2. DOMAIN result = Cands
      BY <1>1 DEF TypeOK
    <3> QED BY <3>1, <3>2
  <2>3. \A d \in Sent : result'[d] = result[d]
    <3>1. \A d \in Sent : d \in Cands \ {c}
      BY <1>1, <2>1 DEF Order, Sent, TypeOK
    <3> QED BY <2>2, <3>1
  <2>4. Outcomes' = Outcomes /\ First' = First /\ Earliest'
    BY <1>1, <2>1, <2>3, NothingSent
  <2> QED BY <1>1, <1>2, <2>4 DEF Abstract!rvars, Outcomes
<1> QED BY <1>3, <1>4

\* A step of the collector is one of the abstract call's, or a receive.
LEMMA CollectorMaps ==
    ASSUME IInv, TypeOK', Earliest, Collector
    PROVE  [Abstract!RNext]_Abstract!rvars /\ Earliest'
<1> USE DEF goroutine, contexts, collector, dest
<1>1. TypeOK /\ Loop /\ Dest
  BY DEF IInv
<1>2. results' = results /\ result' = result
  BY DEF Collector, ReceiveWinner, ReceiveLoser, ReceiveError, GiveUp, CreateDest, CreateFails,
     CopyChunk, CopyEnds, CopyFails, Return
<1>3. Outcomes' = Outcomes /\ First' = First /\ Earliest'
  BY <1>1, <1>2, NothingSent
<1>4. CASE ReceiveWinner \/ ReceiveLoser \/ ReceiveError
  <2>1. cpc' = cpc /\ file' = file
    BY <1>4 DEF ReceiveWinner, ReceiveLoser, ReceiveError
  <2> QED BY <1>3, <2>1 DEF Abstract!rvars, Outcomes, Returned
<1>5. ASSUME i = Cardinality(Cands)
      PROVE  /\ Abstract!Settled
             /\ Found => First = winner /\ winner # None
             /\ ~Found => First = None
  BY <1>5, AllHeard DEF Abstract!Settled, Outcome
<1>6. CASE GiveUp
  <2>1. Abstract!AllFailed
    BY <1>3, <1>5, <1>6 DEF GiveUp, Abstract!AllFailed, Outcomes, Returned
  <2> QED BY <1>3, <2>1 DEF Abstract!RNext
<1>7. CASE CreateDest
  <2>1. Abstract!Create
    BY <1>1, <1>3, <1>5, <1>7 DEF CreateDest, Abstract!Create, Outcomes, Returned, Dest
  <2> QED BY <1>3, <2>1 DEF Abstract!RNext
<1>8. CASE CreateFails
  <2>1. Abstract!Abort
    BY <1>3, <1>5, <1>8 DEF CreateFails, Return, Abstract!Abort, Outcomes, Returned
  <2> QED BY <1>3, <2>1 DEF Abstract!RNext
<1>9. ASSUME cpc = "copy"
      PROVE  Abstract!Settled /\ First = winner /\ First # None /\ file.src # None
  BY <1>1, <1>5, <1>9 DEF Loop, Dest
<1>10. CASE CopyChunk
  <2>1. Abstract!Copy
    BY <1>3, <1>9, <1>10 DEF CopyChunk, Abstract!Copy, Abstract!More, Outcomes, Returned
  <2> QED BY <1>3, <2>1 DEF Abstract!RNext
<1>11. CASE CopyEnds
  <2>1. Abstract!Deliver
    BY <1>3, <1>9, <1>11 DEF CopyEnds, Return, Abstract!Deliver, Outcomes, Returned
  <2> QED BY <1>3, <2>1 DEF Abstract!RNext
<1>12. CASE CopyFails
  <2>1. Abstract!Abort
    BY <1>3, <1>9, <1>12 DEF CopyFails, Return, Abstract!Abort, Abstract!More, Outcomes, Returned
  <2> QED BY <1>3, <2>1 DEF Abstract!RNext
<1> QED
  BY <1>4, <1>6, <1>7, <1>8, <1>10, <1>11, <1>12 DEF Collector

LEMMA StepMaps ==
    IInv /\ IInv' /\ Earliest /\ [Next]_vars => [Abstract!RNext]_Abstract!rvars /\ Earliest'
<1> SUFFICES ASSUME IInv, IInv', Earliest, [Next]_vars
             PROVE  [Abstract!RNext]_Abstract!rvars /\ Earliest'
  OBVIOUS
<1>1. TypeOK /\ TypeOK'
  BY DEF IInv
<1>2. ASSUME results' = results, result' = result, cpc' = cpc, file' = file
      PROVE  [Abstract!RNext]_Abstract!rvars /\ Earliest'
  <2>1. Outcomes' = Outcomes /\ First' = First /\ Earliest'
    BY <1>1, <1>2, NothingSent
  <2> QED BY <1>2, <2>1 DEF Abstract!rvars, Outcomes, Returned
<1>3. CASE \E c \in Cands : Goroutine(c)
  BY <1>1, <1>3, GoroutineMaps
<1>4. CASE Collector
  BY <1>1, <1>4, CollectorMaps
<1>5. CASE (\E c \in Cands : ExpireRequest(c)) \/ ExpireParent \/ Done \/ UNCHANGED vars
  <2>1. results' = results /\ result' = result /\ cpc' = cpc /\ file' = file
    BY <1>5 DEF ExpireRequest, ExpireParent, Done, vars, goroutine, contexts, collector, dest
  <2> QED BY <1>2, <2>1
<1> QED BY <1>3, <1>4, <1>5 DEF Next

\* Fetch implements Race, as far as safety goes: no interleaving of goroutines,
\* retries, timeouts and receives shows the caller of DownloadFileRacing
\* anything but a step of the abstract race.
THEOREM FetchImplementsRace == Spec => Abstract!RSafety
<1>1. Init => Abstract!RInit /\ Earliest
  <2> SUFFICES ASSUME Init PROVE Abstract!RInit /\ Earliest
    OBVIOUS
  <2>1. TypeOK /\ results = <<>> /\ Sent = {} /\ Len(results) = 0
    BY TypeInit DEF Init, Sent
  <2>2. First = None
    BY <2>1, FirstIs DEF IsFirst
  <2>3. \A c \in Cands : Outcome(c) = "pending"
    BY <2>1 DEF Outcome
  <2> QED BY <2>1, <2>2, <2>3 DEF Init, Abstract!RInit, Earliest, Returned
<1>2. Spec => []IInv
  BY Invariance
<1>3. IInv /\ IInv' /\ Earliest /\ [Next]_vars => [Abstract!RNext]_Abstract!rvars /\ Earliest'
  BY StepMaps
<1> QED BY <1>1, <1>2, <1>3, PTL DEF Spec, Abstract!RSafety
=============================================================================
