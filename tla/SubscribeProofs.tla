--------------------------- MODULE SubscribeProofs ---------------------------
(***************************************************************************)
(* Theorems about SubscribeWait, for every pool of calls and every bound.   *)
(***************************************************************************)
EXTENDS SubscribeProps, TLAPS

\* What the proofs need to know of operations and frames.
LEMMA OperationFacts ==
    /\ Calls \subseteq Operations
    /\ "unpause" \in Operations /\ "unsub" \in Operations
    /\ "unpause" \notin Calls /\ "unsub" \notin Calls
    /\ NoCall \notin Calls
    /\ \A o \in Operations : Frame(o) \in Requests
    /\ \A f \in Requests : f # "cu" => f \in Replies
    /\ \A f \in Requests : f # "cu" => f \in {"cs0", "cs1"}
    /\ \A f \in Replies : f # "pch" => f \in {"cs0", "cs1"}
    /\ Frame("unpause") = "cu"
BY SubscribeAssumption DEF Operations, Frame, Requests, Replies

\* The head and the rest of a sequence.
LEMMA HeadTail ==
    ASSUME NEW S, NEW q \in Seq(S), q # <<>>
    PROVE  /\ Head(q) \in S /\ Tail(q) \in Seq(S)
           /\ Head(q) = q[1] /\ Len(q) \in Nat \ {0} /\ 1 \in 1 .. Len(q)
           /\ Len(Tail(q)) = Len(q) - 1
           /\ \A i \in 1 .. Len(Tail(q)) :
                  i + 1 \in 1 .. Len(q) /\ Tail(q)[i] = q[i + 1]
           /\ \A i \in 2 .. Len(q) :
                  i - 1 \in 1 .. Len(Tail(q)) /\ Tail(q)[i - 1] = q[i]
OBVIOUS

\* A sequence with one more element at its end.
LEMMA Appended ==
    ASSUME NEW S, NEW q \in Seq(S), NEW e \in S
    PROVE  /\ Append(q, e) \in Seq(S)
           /\ Append(q, e) # <<>>
           /\ Len(q) \in Nat
           /\ Len(Append(q, e)) = Len(q) + 1
           /\ Append(q, e)[Len(q) + 1] = e
           /\ \A i \in 1 .. Len(q) :
                  i \in 1 .. Len(Append(q, e)) /\ Append(q, e)[i] = q[i]
OBVIOUS

\* Completing the waiter changes pending futures only.
LEMMA CompletedType ==
    ASSUME TypeOK, NEW how \in {"count", "cancelled", "reset"}
    PROVE  /\ Completed(how) \in [Calls -> {"none", "pending", "count", "cancelled", "timeout", "reset"}]
           /\ \A c \in Calls : fut[c] # "pending" => Completed(how)[c] = fut[c]
           /\ \A c \in Calls : Completed(how)[c] = "pending" =>
                  fut[c] = "pending" /\ c # table
           /\ \A c \in Calls : Completed(how)[c] = "none" => fut[c] = "none"
BY DEF Completed, TypeOK

-----------------------------------------------------------------------------
(* Types *)

LEMMA NextType == TypeOK /\ QueueIsExact /\ [Next]_vars => TypeOK'
<1>. SUFFICES ASSUME TypeOK, QueueIsExact, [Next]_vars PROVE TypeOK'
    OBVIOUS
<1>1. ASSUME NEW c \in Calls, Begin(c)
      PROVE  TypeOK'
  <2>1. queue' \in Seq(Operations)
      BY <1>1, OperationFacts DEF Begin, TypeOK
  <2>2. fut' \in [Calls -> {"none", "pending", "count", "cancelled", "timeout", "reset"}]
      BY <1>1, CompletedType DEF Begin, TypeOK
  <2>. QED
      BY <1>1, <2>1, <2>2 DEF Begin, TypeOK, callVars, sendVars, localVars, linkVars, serverVars
<1>2. ASSUME NEW c \in Calls, Resume(c)
      PROVE  TypeOK'
    BY <1>2, OperationFacts
    DEF TypeOK, Resume, Ends, Given, callVars, sendVars, localVars, linkVars, serverVars
<1>3. ASSUME NEW c \in Calls, GivesUp(c)
      PROVE  TypeOK'
    BY <1>3, OperationFacts
    DEF TypeOK, GivesUp, callVars, sendVars, localVars, linkVars, serverVars
<1>4. ASSUME NEW o \in {"unpause", "unsub"}, OtherBegins(o)
      PROVE  TypeOK'
  <2>1. queue' \in Seq(Operations)
      BY <1>4, OperationFacts DEF OtherBegins, TypeOK
  <2>. QED
      BY <1>4, <2>1 DEF OtherBegins, TypeOK, callVars, sendVars, localVars, linkVars, serverVars
<1>5. CASE SendGetsLock
  <2>1. ASSUME queue # <<>>, Fails(Head(queue))
        PROVE  /\ queue' \in Seq(Operations)
               /\ step' \in [Calls -> {"idle", "send", "wait"}]
               /\ fut' \in [Calls -> {"none", "pending", "count", "cancelled", "timeout", "reset"}]
               /\ outcome' \in {"none", "count", "ConnectionError", "TimeoutError", "CancelledError"}
               /\ table' \in Calls \union {NoCall}
      BY <2>1, HeadTail DEF Fails, Ends, TypeOK, callVars
  <2>2. CASE link = "up"
      BY <1>5, <2>2 DEF SendGetsLock, TypeOK, callVars, sendVars, localVars, linkVars, serverVars
  <2>3. CASE link # "up"
      BY <1>5, <2>1, <2>3 DEF SendGetsLock, Fails, TypeOK, localVars, linkVars, serverVars
  <2>. QED
      BY <2>2, <2>3
<1>6. CASE SendReturns
  <2>1. queue # <<>>
      BY <1>6 DEF SendReturns, QueueIsExact
  <2>2. queue' \in Seq(Operations) /\ Head(queue) \in Operations
      BY <1>6, <2>1, HeadTail DEF SendReturns, TypeOK
  <2>3. toServer' \in Seq(Requests)
      BY <1>6, <2>2, OperationFacts DEF SendReturns, TypeOK
  <2>4. step' \in [Calls -> {"idle", "send", "wait"}]
      BY <1>6 DEF SendReturns, TypeOK
  <2>. QED
      BY <1>6, <2>2, <2>3, <2>4 DEF SendReturns, TypeOK, linkVars
<1>7. CASE SendRaises
  <2>1. ASSUME queue # <<>>, Fails(Head(queue))
        PROVE  /\ queue' \in Seq(Operations)
               /\ step' \in [Calls -> {"idle", "send", "wait"}]
               /\ fut' \in [Calls -> {"none", "pending", "count", "cancelled", "timeout", "reset"}]
               /\ outcome' \in {"none", "count", "ConnectionError", "TimeoutError", "CancelledError"}
               /\ table' \in Calls \union {NoCall}
      BY <2>1, HeadTail DEF Fails, Ends, TypeOK, callVars
  <2>2. queue # <<>>
      BY <1>7 DEF SendRaises, QueueIsExact
  <2>. QED
      BY <1>7, <2>1, <2>2 DEF SendRaises, Fails, TypeOK, localVars, linkVars, serverVars
<1>8. CASE FrameArrives
  <2>1. toClient' \in Seq(Replies) /\ Head(toClient) \in Replies
      BY <1>8, HeadTail DEF FrameArrives, TypeOK
  <2>2. CASE Head(toClient) = "pch"
      BY <1>8, <2>1, <2>2 DEF FrameArrives, TypeOK, sendVars, linkVars
  <2>3. CASE Head(toClient) # "pch"
      BY <1>8, <2>1, <2>3, CompletedType DEF FrameArrives, Subscribed, Resolved, TypeOK, sendVars, linkVars
  <2>. QED
      BY <2>2, <2>3
<1>9. CASE ServerTakes
  <2>1. toServer' \in Seq(Requests) /\ Head(toServer) \in Requests
      BY <1>9, HeadTail DEF ServerTakes, TypeOK
  <2>2. CASE Head(toServer) = "cu"
      BY <1>9, <2>1, <2>2 DEF ServerTakes, TypeOK, callVars, sendVars, localVars, linkVars
  <2>3. CASE Head(toServer) # "cu"
    <3>1. Head(toServer) \in Replies /\ Head(toServer) \in {"cs0", "cs1"}
        BY <2>1, <2>3, OperationFacts
    <3>2. toClient' \in Seq(Replies)
      <4>1. toClient' = Append(toClient, Head(toServer)) /\ toClient \in Seq(Replies)
          BY <1>9, <2>3 DEF ServerTakes, TypeOK
      <4>. QED
          BY <3>1, <4>1, Appended
    <3>3. taken' \in {"none", "cs0", "cs1"} /\ UNCHANGED <<callVars, sendVars, localVars, linkVars, hold>>
        BY <1>9, <2>3, <3>1 DEF ServerTakes
    <3>. QED
        BY <2>1, <3>2, <3>3 DEF TypeOK, callVars, sendVars, localVars, linkVars
  <2>. QED
      BY <2>2, <2>3
<1>10. CASE LinkDrops
    BY <1>10, OperationFacts
    DEF TypeOK, LinkDrops, callVars, sendVars, localVars, linkVars, serverVars
<1>11. CASE HandshakeBegins
    BY <1>11, OperationFacts, CompletedType
    DEF TypeOK, HandshakeBegins, Reset, callVars, sendVars, localVars, linkVars, serverVars
<1>12. CASE HandshakeEnds
  <2>1. toClient' \in Seq(Replies)
      BY <1>12 DEF HandshakeEnds, Replies
  <2>. QED
      BY <1>12, <2>1 DEF HandshakeEnds, TypeOK, callVars, sendVars, localVars
<1>13. CASE Close
    BY <1>13, OperationFacts, CompletedType
    DEF TypeOK, Close, Reset, callVars, sendVars, localVars, linkVars, serverVars
<1>14. CASE UNCHANGED vars
    BY <1>14
    DEF vars, TypeOK, callVars, sendVars, localVars, linkVars, serverVars
<1>. QED
    BY <1>1, <1>2, <1>3, <1>4, <1>5, <1>6, <1>7,
       <1>8, <1>9, <1>10, <1>11, <1>12, <1>13, <1>14 DEF Next

-----------------------------------------------------------------------------
(* The queue and the futures *)

\* What taking the failed operation off the queue leaves.
LEMMA FailsKeepsQueue ==
    ASSUME TypeOK, QueueIsExact, queue # <<>>, Fails(Head(queue))
    PROVE  /\ \A i, j \in 1 .. Len(queue') : queue'[i] = queue'[j] => i = j
           /\ \A i \in 1 .. Len(queue') : queue'[i] \in Calls => step'[queue'[i]] = "send"
           /\ \A c \in Calls : step'[c] = "idle" => fut'[c] = "none"
<1>1. /\ queue' = Tail(queue)
      /\ Head(queue) = queue[1]
      /\ \A i \in 1 .. Len(queue') : i + 1 \in 1 .. Len(queue) /\ queue'[i] = queue[i + 1]
      /\ 1 \in 1 .. Len(queue) /\ Len(queue') \in Nat
    BY HeadTail DEF Fails, TypeOK
<1>2. \A i, j \in 1 .. Len(queue') : queue'[i] = queue'[j] => i = j
  <2>. SUFFICES ASSUME NEW i \in 1 .. Len(queue'), NEW j \in 1 .. Len(queue'), queue'[i] = queue'[j]
                PROVE  i = j
      OBVIOUS
  <2>1. i + 1 = j + 1
      BY <1>1 DEF QueueIsExact
  <2>. QED
      BY <2>1, <1>1
<1>3. \A i \in 1 .. Len(queue') : queue'[i] # Head(queue)
  <2>. SUFFICES ASSUME NEW i \in 1 .. Len(queue'), queue'[i] = Head(queue) PROVE FALSE
      OBVIOUS
  <2>1. i + 1 = 1
      BY <1>1 DEF QueueIsExact
  <2>. QED
      BY <2>1, <1>1
<1>4. \A i \in 1 .. Len(queue') : queue'[i] \in Calls => step[queue'[i]] = "send"
    BY <1>1 DEF QueueIsExact
<1>5. \A c \in Calls : c # Head(queue) => step'[c] = step[c] /\ fut'[c] = fut[c]
    BY DEF Fails, Ends, TypeOK, callVars
<1>6. Head(queue) \in Calls => fut'[Head(queue)] = "none"
    BY DEF Fails, Ends, TypeOK
<1>. QED
    BY <1>2, <1>3, <1>4, <1>5, <1>6 DEF QueueIsExact

LEMMA NextQueue == TypeOK /\ QueueIsExact /\ [Next]_vars => QueueIsExact'
<1>. SUFFICES ASSUME TypeOK, QueueIsExact, [Next]_vars PROVE QueueIsExact'
    OBVIOUS
<1>1. ASSUME NEW c \in Calls, Begin(c)
      PROVE  QueueIsExact'
  <2>1. /\ \A i \in 1 .. Len(queue') :
              \/ i \in 1 .. Len(queue) /\ queue'[i] = queue[i]
              \/ i = Len(queue) + 1 /\ queue'[i] = c
        /\ Len(queue) \in Nat /\ queue' # <<>>
      BY <1>1, OperationFacts, Appended DEF Begin, TypeOK
  <2>2. \A i \in 1 .. Len(queue) : queue[i] # c
      BY <1>1 DEF Begin, Queued, QueueIsExact
  <2>3. \A i, j \in 1 .. Len(queue') : queue'[i] = queue'[j] => i = j
      BY <2>1, <2>2 DEF QueueIsExact
  <2>4. step'[c] = "send" /\ \A d \in Calls : d # c => step'[d] = step[d]
      BY <1>1 DEF Begin, TypeOK
  <2>5. \A d \in Calls \ {c} : fut[d] = "none" => fut'[d] = "none"
      BY <1>1, CompletedType DEF Begin, TypeOK
  <2>. QED
      BY <2>1, <2>2, <2>3, <2>4, <2>5 DEF QueueIsExact
<1>2. ASSUME NEW c \in Calls, Resume(c)
      PROVE  QueueIsExact'
  <2>1. /\ step' = [step EXCEPT ![c] = "idle"]
        /\ fut' = [fut EXCEPT ![c] = "none"]
        /\ UNCHANGED <<queue, writing>>
      BY <1>2 DEF Resume, Ends, sendVars
  <2>2. \A i \in 1 .. Len(queue) : queue[i] # c
      BY <1>2 DEF Resume, QueueIsExact
  <2>. QED
      BY <2>1, <2>2 DEF QueueIsExact, TypeOK
<1>3. ASSUME NEW c \in Calls, GivesUp(c)
      PROVE  QueueIsExact'
  <2>1. /\ UNCHANGED <<step, queue, writing>>
        /\ \A d \in Calls : fut[d] = "none" => fut'[d] = "none"
      BY <1>3 DEF GivesUp, sendVars, TypeOK
  <2>. QED
      BY <2>1 DEF QueueIsExact
<1>4. ASSUME NEW o \in {"unpause", "unsub"}, OtherBegins(o)
      PROVE  QueueIsExact'
  <2>1. /\ \A i \in 1 .. Len(queue') :
              \/ i \in 1 .. Len(queue) /\ queue'[i] = queue[i]
              \/ i = Len(queue) + 1 /\ queue'[i] = o
        /\ Len(queue) \in Nat /\ queue' # <<>>
      BY <1>4, OperationFacts, Appended DEF OtherBegins, TypeOK
  <2>2. \A i \in 1 .. Len(queue) : queue[i] # o
      BY <1>4 DEF OtherBegins, Queued, QueueIsExact
  <2>3. \A i, j \in 1 .. Len(queue') : queue'[i] = queue'[j] => i = j
      BY <2>1, <2>2 DEF QueueIsExact
  <2>. QED
      BY <1>4, <2>1, <2>2, <2>3, OperationFacts DEF OtherBegins, QueueIsExact, callVars
<1>5. CASE SendGetsLock
  <2>1. CASE link = "up"
      BY <1>5, <2>1 DEF SendGetsLock, QueueIsExact, callVars
  <2>2. CASE link # "up"
      BY <1>5, <2>2, FailsKeepsQueue DEF SendGetsLock, QueueIsExact
  <2>. QED
      BY <2>1, <2>2
<1>6. CASE SendReturns
  <2>1. /\ queue # <<>>
        /\ writing' = FALSE /\ queue' = Tail(queue)
        /\ step' = IF Head(queue) \in Calls THEN [step EXCEPT ![Head(queue)] = "wait"] ELSE step
        /\ fut' = fut
      BY <1>6 DEF SendReturns, QueueIsExact
  <2>2. /\ Head(queue) = queue[1] /\ 1 \in 1 .. Len(queue) /\ Len(queue') \in Nat
        /\ \A i \in 1 .. Len(queue') : i + 1 \in 1 .. Len(queue) /\ queue'[i] = queue[i + 1]
      BY <2>1, HeadTail DEF TypeOK
  <2>3. \A i, j \in 1 .. Len(queue') : queue'[i] = queue'[j] => i = j
    <3>. SUFFICES ASSUME NEW i \in 1 .. Len(queue'), NEW j \in 1 .. Len(queue'), queue'[i] = queue'[j]
                  PROVE  i = j
        OBVIOUS
    <3>1. i + 1 = j + 1
        BY <2>2 DEF QueueIsExact
    <3>. QED
        BY <3>1, <2>2
  <2>4. \A i \in 1 .. Len(queue') : queue'[i] # Head(queue)
    <3>. SUFFICES ASSUME NEW i \in 1 .. Len(queue'), queue'[i] = Head(queue) PROVE FALSE
        OBVIOUS
    <3>1. i + 1 = 1
        BY <2>2 DEF QueueIsExact
    <3>. QED
        BY <3>1, <2>2
  <2>5. \A c \in Calls : c # Head(queue) => step'[c] = step[c]
      BY <2>1 DEF TypeOK
  <2>6. \A i \in 1 .. Len(queue') : queue'[i] \in Calls => step[queue'[i]] = "send"
      BY <2>2 DEF QueueIsExact
  <2>7. \A c \in Calls : step'[c] = "idle" => step[c] = "idle"
      BY <2>1 DEF TypeOK
  <2>. QED
      BY <2>1, <2>3, <2>4, <2>5, <2>6, <2>7 DEF QueueIsExact
<1>7. CASE SendRaises
  <2>1. queue # <<>>
      BY <1>7 DEF SendRaises, QueueIsExact
  <2>. QED
      BY <1>7, <2>1, FailsKeepsQueue DEF SendRaises, QueueIsExact
<1>8. CASE FrameArrives
  <2>1. UNCHANGED <<step, queue, writing>>
      BY <1>8 DEF FrameArrives, callVars, sendVars, localVars, linkVars, serverVars
  <2>2. \A c \in Calls : fut[c] = "none" => fut'[c] = "none"
      BY <1>8, CompletedType DEF FrameArrives, Reset, Resolved, callVars, TypeOK
  <2>. QED
      BY <2>1, <2>2 DEF QueueIsExact
<1>9. CASE ServerTakes
  <2>1. UNCHANGED <<step, queue, writing>>
      BY <1>9 DEF ServerTakes, callVars, sendVars, localVars, linkVars, serverVars
  <2>2. \A c \in Calls : fut[c] = "none" => fut'[c] = "none"
      BY <1>9, CompletedType DEF ServerTakes, Reset, Resolved, callVars, TypeOK
  <2>. QED
      BY <2>1, <2>2 DEF QueueIsExact
<1>10. CASE LinkDrops
  <2>1. UNCHANGED <<step, queue, writing>>
      BY <1>10 DEF LinkDrops, callVars, sendVars, localVars, linkVars, serverVars
  <2>2. \A c \in Calls : fut[c] = "none" => fut'[c] = "none"
      BY <1>10, CompletedType DEF LinkDrops, Reset, Resolved, callVars, TypeOK
  <2>. QED
      BY <2>1, <2>2 DEF QueueIsExact
<1>11. CASE HandshakeBegins
  <2>1. UNCHANGED <<step, queue, writing>>
      BY <1>11 DEF HandshakeBegins, callVars, sendVars, localVars, linkVars, serverVars
  <2>2. \A c \in Calls : fut[c] = "none" => fut'[c] = "none"
      BY <1>11, CompletedType DEF HandshakeBegins, Reset, Resolved, callVars, TypeOK
  <2>. QED
      BY <2>1, <2>2 DEF QueueIsExact
<1>12. CASE HandshakeEnds
  <2>1. UNCHANGED <<step, queue, writing>>
      BY <1>12 DEF HandshakeEnds, callVars, sendVars, localVars, linkVars, serverVars
  <2>2. \A c \in Calls : fut[c] = "none" => fut'[c] = "none"
      BY <1>12, CompletedType DEF HandshakeEnds, Reset, Resolved, callVars, TypeOK
  <2>. QED
      BY <2>1, <2>2 DEF QueueIsExact
<1>13. CASE Close
  <2>1. UNCHANGED <<step, queue, writing>>
      BY <1>13 DEF Close, callVars, sendVars, localVars, linkVars, serverVars
  <2>2. \A c \in Calls : fut[c] = "none" => fut'[c] = "none"
      BY <1>13, CompletedType DEF Close, Reset, Resolved, callVars, TypeOK
  <2>. QED
      BY <2>1, <2>2 DEF QueueIsExact
<1>14. CASE UNCHANGED vars
    BY <1>14 DEF QueueIsExact, vars, callVars, sendVars
<1>. QED
    BY <1>1, <1>2, <1>3, <1>4, <1>5, <1>6, <1>7,
       <1>8, <1>9, <1>10, <1>11, <1>12, <1>13, <1>14 DEF Next

-----------------------------------------------------------------------------
(* The waiter of a call that runs alone *)

LEMMA NextAlternate ==
    TypeOK /\ QueueIsExact /\ CallsAlternate /\ [Next]_vars => CallsAlternate'
<1>. SUFFICES ASSUME TypeOK, QueueIsExact, CallsAlternate, ~Overlap, [Next]_vars
              PROVE  \A c, d \in Calls : step'[c] # "idle" /\ step'[d] # "idle" => c = d
    BY DEF CallsAlternate
<1>1. ASSUME NEW c \in Calls, Begin(c)
      PROVE  \A d \in Calls \ {c} : step'[d] = "idle"
    BY <1>1 DEF Begin, Quiet, TypeOK
<1>2. ASSUME ~ \E c \in Calls : Begin(c)
      PROVE  \A c \in Calls : step'[c] # "idle" => step[c] # "idle"
  <2>1. ASSUME NEW c \in Calls, Resume(c)
        PROVE  \A d \in Calls : step'[d] # "idle" => step[d] # "idle"
      BY <2>1 DEF Resume, Ends, TypeOK
  <2>2. ASSUME Fails(Head(queue))
        PROVE  \A d \in Calls : step'[d] # "idle" => step[d] # "idle"
      BY <2>2 DEF Fails, Ends, TypeOK, callVars
  <2>3. CASE SendGetsLock
      BY <2>3, <2>2 DEF SendGetsLock, callVars
  <2>4. CASE SendReturns
    <3>1. /\ queue # <<>>
          /\ step' = IF Head(queue) \in Calls THEN [step EXCEPT ![Head(queue)] = "wait"] ELSE step
        BY <2>4 DEF SendReturns, QueueIsExact
    <3>2. Head(queue) \in Calls => step[Head(queue)] = "send"
        BY <3>1, HeadTail DEF QueueIsExact, TypeOK
    <3>. QED
        BY <3>1, <3>2 DEF TypeOK
  <2>5. CASE SendRaises
      BY <2>5, <2>2 DEF SendRaises
  <2>6. CASE step' = step
      BY <2>6
  <2>. QED
      BY <1>2, <2>1, <2>3, <2>4, <2>5, <2>6
      DEF Next, GivesUp, OtherBegins, FrameArrives, ServerTakes, LinkDrops,
          HandshakeBegins, HandshakeEnds, Close, vars, callVars
<1>. QED
    BY <1>1, <1>2 DEF CallsAlternate

LEMMA NextWaiter ==
    TypeOK /\ QueueIsExact /\ CallsAlternate /\ WaiterIsReachable /\ [Next]_vars
        => WaiterIsReachable'
<1>. SUFFICES ASSUME TypeOK, QueueIsExact, CallsAlternate, WaiterIsReachable, ~Overlap,
                     [Next]_vars, NEW d \in Calls, fut'[d] = "pending"
              PROVE  table' = d
    BY DEF WaiterIsReachable
<1>1. fut[d] = "pending" => table = d
    BY DEF WaiterIsReachable
<1>2. ASSUME NEW c \in Calls, Begin(c) PROVE table' = d
  <2>1. c # d => fut[d] = "none"
      BY <1>2 DEF Begin, Quiet, QueueIsExact
  <2>2. c # d => fut'[d] = "none"
      BY <1>2, <2>1, CompletedType DEF Begin, TypeOK
  <2>. QED
      BY <1>2, <2>2 DEF Begin
<1>3. ASSUME NEW c \in Calls, step[c] # "idle",
             step' = [step EXCEPT ![c] = "idle"], fut' = [fut EXCEPT ![c] = "none"]
      PROVE  FALSE
  <2>1. c # d => step[d] = "idle"
      BY <1>3 DEF CallsAlternate
  <2>2. c # d => fut[d] = "none"
      BY <2>1 DEF QueueIsExact
  <2>. QED
      BY <1>3, <2>2 DEF TypeOK
<1>4. ASSUME NEW c \in Calls, Resume(c) PROVE table' = d
    BY <1>3, <1>4 DEF Resume, Ends
<1>5. ASSUME queue # <<>>, Fails(Head(queue)) PROVE table' = d
  <2>1. Head(queue) \in Calls => step[Head(queue)] = "send"
      BY <1>5, HeadTail DEF QueueIsExact, TypeOK
  <2>2. Head(queue) \notin Calls
      BY <1>3, <1>5, <2>1 DEF Fails, Ends
  <2>. QED
      BY <1>1, <1>5, <2>2 DEF Fails, callVars
<1>6. CASE SendGetsLock
    BY <1>1, <1>5, <1>6 DEF SendGetsLock, callVars
<1>7. CASE SendRaises
    BY <1>5, <1>7 DEF SendRaises, QueueIsExact
<1>8. ASSUME NEW how \in {"count", "cancelled", "reset"}, fut' = Completed(how) PROVE FALSE
    BY <1>1, <1>8, CompletedType DEF TypeOK
<1>9. CASE FrameArrives
    BY <1>1, <1>8, <1>9 DEF FrameArrives, Resolved
<1>10. CASE HandshakeBegins \/ Close
    BY <1>8, <1>10 DEF HandshakeBegins, Close, Reset
<1>11. ASSUME NEW c \in Calls, GivesUp(c) PROVE table' = d
    BY <1>1, <1>11 DEF GivesUp, TypeOK
<1>12. CASE UNCHANGED <<fut, table>>
    BY <1>1, <1>12
<1>. QED
    BY <1>2, <1>4, <1>6, <1>7, <1>9, <1>10, <1>11, <1>12
    DEF Next, OtherBegins, SendReturns, ServerTakes, LinkDrops, HandshakeEnds, vars, callVars

-----------------------------------------------------------------------------
(* What is on the link *)

LEMMA NextEmpty == TypeOK /\ LostLinkIsEmpty /\ [Next]_vars => LostLinkIsEmpty'
<1>. SUFFICES ASSUME LostLinkIsEmpty, [Next]_vars PROVE LostLinkIsEmpty'
    OBVIOUS
<1>1. CASE LinkDrops \/ Close
    BY <1>1 DEF LinkDrops, Close, LostLinkIsEmpty
<1>2. CASE HandshakeBegins \/ HandshakeEnds
    BY <1>2 DEF HandshakeBegins, HandshakeEnds, LostLinkIsEmpty, serverVars
<1>3. CASE FrameArrives \/ ServerTakes
    BY <1>3 DEF FrameArrives, ServerTakes, LostLinkIsEmpty, linkVars
<1>4. CASE SendReturns
    BY <1>4 DEF SendReturns, LostLinkIsEmpty, linkVars
<1>5. CASE UNCHANGED <<linkVars, serverVars>>
    BY <1>5 DEF LostLinkIsEmpty, linkVars, serverVars
<1>. QED
    BY <1>1, <1>2, <1>3, <1>4, <1>5
    DEF Next, Begin, Resume, GivesUp, OtherBegins, SendGetsLock, SendRaises, Fails, vars

LEMMA NextHold ==
    TypeOK /\ QueueIsExact /\ LostLinkIsEmpty /\ HoldIsAnnounced /\ [Next]_vars
        => HoldIsAnnounced'
<1>. SUFFICES ASSUME TypeOK, QueueIsExact, LostLinkIsEmpty, HoldIsAnnounced,
                     [Next]_vars, link' = "up", hold'
              PROVE  \/ paused'
                     \/ \E i \in 1 .. Len(toClient') : toClient'[i] = "pch"
                     \/ \E i \in 1 .. Len(toServer') : toServer'[i] = "cu"
    BY DEF HoldIsAnnounced
<1>1. CASE SendReturns
  <2>1. link = "up" /\ hold /\ UNCHANGED toClient /\ queue # <<>>
      BY <1>1 DEF SendReturns, linkVars, QueueIsExact
  <2>2. /\ toServer' = Append(toServer, Frame(Head(queue)))
        /\ Frame(Head(queue)) \in Requests
        /\ paused' = (paused /\ Head(queue) # "unpause")
      BY <1>1, <2>1, HeadTail, OperationFacts DEF SendReturns, TypeOK
  <2>3. /\ Len(toServer') = Len(toServer) + 1 /\ Len(toServer) \in Nat
        /\ toServer'[Len(toServer) + 1] = Frame(Head(queue))
        /\ \A i \in 1 .. Len(toServer) :
               i \in 1 .. Len(toServer') /\ toServer'[i] = toServer[i]
      BY <2>2, Appended DEF TypeOK
  <2>4. CASE Head(queue) = "unpause"
      BY <2>3, <2>4, OperationFacts
  <2>5. CASE Head(queue) # "unpause"
      BY <2>1, <2>2, <2>3, <2>5 DEF HoldIsAnnounced
  <2>. QED
      BY <2>4, <2>5
<1>2. CASE FrameArrives
  <2>1. /\ link = "up" /\ hold /\ UNCHANGED toServer
        /\ toClient # <<>> /\ toClient' = Tail(toClient)
      BY <1>2 DEF FrameArrives, linkVars
  <2>2. CASE Head(toClient) = "pch"
      BY <1>2, <2>2 DEF FrameArrives
  <2>3. CASE Head(toClient) # "pch"
    <3>1. paused' = paused
        BY <1>2, <2>3 DEF FrameArrives
    <3>2. ASSUME NEW i \in 1 .. Len(toClient), toClient[i] = "pch"
          PROVE  \E j \in 1 .. Len(toClient') : toClient'[j] = "pch"
      <4>1. i \in 2 .. Len(toClient)
          BY <2>1, <2>3, <3>2, HeadTail DEF TypeOK
      <4>2. i - 1 \in 1 .. Len(toClient') /\ toClient'[i - 1] = toClient[i]
          BY <2>1, <4>1, HeadTail DEF TypeOK
      <4>. QED
          BY <3>2, <4>2
    <3>. QED
        BY <2>1, <3>1, <3>2 DEF HoldIsAnnounced
  <2>. QED
      BY <2>2, <2>3
<1>3. CASE ServerTakes
  <2>1. /\ link = "up" /\ hold /\ UNCHANGED paused
        /\ toServer # <<>> /\ toServer' = Tail(toServer)
        /\ Head(toServer) # "cu"
        /\ toClient' = Append(toClient, Head(toServer))
      BY <1>3 DEF ServerTakes, linkVars, localVars
  <2>2. Head(toServer) \in Replies
      BY <2>1, HeadTail, OperationFacts DEF TypeOK
  <2>3. ASSUME NEW i \in 1 .. Len(toClient), toClient[i] = "pch"
        PROVE  \E j \in 1 .. Len(toClient') : toClient'[j] = "pch"
      BY <2>1, <2>2, <2>3, Appended DEF TypeOK
  <2>4. ASSUME NEW i \in 1 .. Len(toServer), toServer[i] = "cu"
        PROVE  \E j \in 1 .. Len(toServer') : toServer'[j] = "cu"
    <3>1. i \in 2 .. Len(toServer)
        BY <2>1, <2>4, HeadTail DEF TypeOK
    <3>2. i - 1 \in 1 .. Len(toServer') /\ toServer'[i - 1] = toServer[i]
        BY <2>1, <3>1, HeadTail DEF TypeOK
    <3>. QED
        BY <2>4, <3>2
  <2>. QED
      BY <2>1, <2>3, <2>4 DEF HoldIsAnnounced
<1>4. CASE HandshakeEnds
    BY <1>4 DEF HandshakeEnds
<1>5. CASE UNCHANGED <<link, hold, paused, toClient, toServer>>
    BY <1>5 DEF HoldIsAnnounced
<1>. QED
    BY <1>1, <1>2, <1>3, <1>4, <1>5
    DEF Next, Begin, Resume, GivesUp, OtherBegins, SendGetsLock, SendRaises, Fails,
        LinkDrops, HandshakeBegins, Close, vars, localVars, linkVars, serverVars

LEMMA NextAcks ==
    TypeOK /\ LostLinkIsEmpty /\ AcksAreInOrder /\ [Next]_vars => AcksAreInOrder'
<1>. SUFFICES ASSUME TypeOK, LostLinkIsEmpty, AcksAreInOrder, [Next]_vars, link' = "up"
              PROVE  /\ \A i \in 1 .. Len(toClient') :
                            toClient'[i] # "pch" =>
                                \/ toClient'[i] = taken'
                                \/ \E j \in 1 .. Len(toClient') : j > i /\ toClient'[j] # "pch"
                     /\ \/ taken' = "none"
                        \/ subscribed' = (taken' = "cs1")
                        \/ \E i \in 1 .. Len(toClient') : toClient'[i] # "pch"
    BY DEF AcksAreInOrder
<1>1. CASE FrameArrives
  <2>1. /\ link = "up" /\ UNCHANGED taken
        /\ toClient # <<>> /\ toClient' = Tail(toClient)
      BY <1>1 DEF FrameArrives, linkVars
  <2>2. /\ Head(toClient) = toClient[1] /\ 1 \in 1 .. Len(toClient)
        /\ Len(toClient) \in Nat
        /\ \A i \in 1 .. Len(toClient') :
               i + 1 \in 1 .. Len(toClient) /\ toClient'[i] = toClient[i + 1]
        /\ \A i \in 2 .. Len(toClient) :
               i - 1 \in 1 .. Len(toClient') /\ toClient'[i - 1] = toClient[i]
      BY <2>1, HeadTail DEF TypeOK
  <2>3. ASSUME NEW i \in 1 .. Len(toClient), NEW j \in 1 .. Len(toClient),
               j > i, toClient[j] # "pch"
        PROVE  j - 1 \in 1 .. Len(toClient') /\ toClient'[j - 1] # "pch" /\ j - 1 > i - 1
    <3>1. j \in 2 .. Len(toClient)
        BY <2>2, <2>3
    <3>. QED
        BY <2>2, <2>3, <3>1
  <2>4. ASSUME NEW i \in 1 .. Len(toClient'), toClient'[i] # "pch", toClient'[i] # taken'
        PROVE  \E j \in 1 .. Len(toClient') : j > i /\ toClient'[j] # "pch"
    <3>1. i + 1 \in 1 .. Len(toClient) /\ toClient[i + 1] = toClient'[i]
        BY <2>2
    <3>2. PICK j \in 1 .. Len(toClient) : j > i + 1 /\ toClient[j] # "pch"
        BY <2>1, <2>4, <3>1 DEF AcksAreInOrder
    <3>3. j - 1 \in 1 .. Len(toClient') /\ toClient'[j - 1] # "pch" /\ j - 1 > i
        BY <2>3, <3>1, <3>2
    <3>. QED
        BY <3>3
  <2>5. \/ taken' = "none"
        \/ subscribed' = (taken' = "cs1")
        \/ \E i \in 1 .. Len(toClient') : toClient'[i] # "pch"
    <3>1. CASE Head(toClient) = "pch"
      <4>1. subscribed' = subscribed
          BY <1>1, <3>1 DEF FrameArrives
      <4>2. ASSUME NEW i \in 1 .. Len(toClient), toClient[i] # "pch"
            PROVE  \E j \in 1 .. Len(toClient') : toClient'[j] # "pch"
        <5>1. i \in 2 .. Len(toClient)
            BY <2>2, <3>1, <4>2
        <5>. QED
            BY <2>2, <4>2, <5>1
      <4>. QED
          BY <2>1, <4>1, <4>2 DEF AcksAreInOrder
    <3>2. CASE Head(toClient) # "pch"
      <4>1. subscribed' = (Head(toClient) = "cs1")
          BY <1>1, <3>2 DEF FrameArrives, Subscribed
      <4>2. CASE toClient[1] = taken
          BY <2>1, <2>2, <4>1, <4>2
      <4>3. CASE toClient[1] # taken
        <5>1. PICK j \in 1 .. Len(toClient) : j > 1 /\ toClient[j] # "pch"
            BY <2>1, <2>2, <3>2, <4>3 DEF AcksAreInOrder
        <5>2. j - 1 \in 1 .. Len(toClient') /\ toClient'[j - 1] # "pch"
            BY <2>2, <2>3, <5>1
        <5>. QED
            BY <5>2
      <4>. QED
          BY <4>2, <4>3
    <3>. QED
        BY <3>1, <3>2
  <2>. QED
      BY <2>4, <2>5
<1>2. CASE ServerTakes
  <2>1. CASE Head(toServer) = "cu"
      BY <1>2, <2>1 DEF ServerTakes, AcksAreInOrder, linkVars, localVars
  <2>2. CASE Head(toServer) # "cu"
    <3>1. /\ toServer # <<>>
          /\ toClient' = Append(toClient, Head(toServer))
          /\ taken' = Head(toServer)
        BY <1>2, <2>2 DEF ServerTakes
    <3>2. Head(toServer) \in Replies /\ Head(toServer) # "pch"
      <4>1. Head(toServer) \in Requests
          BY <3>1, HeadTail DEF TypeOK
      <4>. QED
          BY <2>2, <4>1 DEF Requests, Replies
    <3>3. /\ Len(toClient) \in Nat /\ Len(toClient') = Len(toClient) + 1
          /\ toClient'[Len(toClient) + 1] = taken'
        BY <3>1, <3>2, Appended DEF TypeOK
    <3>. QED
        BY <3>1, <3>2, <3>3
  <2>. QED
      BY <2>1, <2>2
<1>3. CASE HandshakeEnds
  <2>1. taken' = "none"
      BY <1>3 DEF HandshakeEnds, LostLinkIsEmpty
  <2>2. \A i \in 1 .. Len(toClient') : toClient'[i] = "pch"
      BY <1>3 DEF HandshakeEnds
  <2>. QED
      BY <2>1, <2>2
<1>4. CASE UNCHANGED <<link, taken, subscribed, toClient>>
    BY <1>4 DEF AcksAreInOrder
<1>. QED
    BY <1>1, <1>2, <1>3, <1>4
    DEF Next, Begin, Resume, GivesUp, OtherBegins, SendGetsLock, SendReturns, SendRaises,
        Fails, LinkDrops, HandshakeBegins, Close, vars, localVars, linkVars, serverVars

-----------------------------------------------------------------------------
(* The theorems *)

LEMMA InitSInv == Init => SInv
<1>. SUFFICES ASSUME Init PROVE SInv
    OBVIOUS
<1>1. TypeOK
  <2>1. <<>> \in Seq(Operations) /\ <<>> \in Seq(Requests) /\ <<>> \in Seq(Replies)
      OBVIOUS
  <2>. QED
      BY <2>1 DEF Init, TypeOK
<1>2. QueueIsExact
    BY DEF Init, QueueIsExact
<1>. QED
    BY <1>1, <1>2
    DEF Init, SInv, CallsAlternate, WaiterIsReachable, HoldIsAnnounced,
        LostLinkIsEmpty, AcksAreInOrder

\* Every reachable state satisfies the strengthening.
THEOREM SInvariance == Spec => []SInv
<1>1. SInv /\ [Next]_vars => SInv'
    BY NextType, NextQueue, NextAlternate, NextWaiter, NextHold, NextEmpty, NextAcks DEF SInv
<1>. QED
    BY InitSInv, <1>1, PTL DEF Spec

\* Every reachable state of SubscribeWait is well-typed.
THEOREM TypeCorrect == Spec => []TypeOK
BY SInvariance, PTL DEF SInv

\* As long as commands run one after the other, a call that waits can be
\* reached through the table.
THEOREM WaitersAreReachable == Spec => []WaiterIsReachable
BY SInvariance, PTL DEF SInv

\* A channel the server holds back is listed once nothing is under way.
THEOREM PausesAreTold == Spec => []PauseIsTold
<1>1. SInv => PauseIsTold
    BY DEF SInv, HoldIsAnnounced, PauseIsTold
<1>. QED
    BY <1>1, SInvariance, PTL

\* The store's flag and the server agree once nothing is under way.
THEOREM SubscriptionsAgree == Spec => []SubscriptionAgrees
<1>1. SInv => SubscriptionAgrees
    BY DEF SInv, AcksAreInOrder, SubscriptionAgrees
<1>. QED
    BY <1>1, SInvariance, PTL

\* No future is completed twice.
THEOREM FuturesAreSettledOnce == Spec => FuturesSettleOnce
<1>1. SInv /\ [Next]_vars => [SettledStays]_vars
  <2>. SUFFICES ASSUME TypeOK, QueueIsExact, [Next]_vars,
                       NEW d \in Calls, fut[d] \notin {"none", "pending"}
                PROVE  fut'[d] \in {fut[d], "none"}
      BY DEF SInv, SettledStays
  <2>1. ASSUME NEW how \in {"count", "cancelled", "reset"} PROVE Completed(how)[d] = fut[d]
      BY CompletedType
  <2>2. ASSUME NEW b \in Calls, Begin(b) PROVE fut'[d] = fut[d]
    <3>1. b # d
        BY <2>2 DEF Begin, QueueIsExact
    <3>. QED
        BY <2>1, <2>2, <3>1, CompletedType DEF Begin, TypeOK
  <2>3. ASSUME NEW b \in Calls, Resume(b) \/ GivesUp(b)
        PROVE  fut'[d] \in {fut[d], "none"}
      BY <2>3 DEF Resume, GivesUp, Ends, TypeOK
  <2>4. CASE SendGetsLock \/ SendRaises
      BY <2>4 DEF SendGetsLock, SendRaises, Fails, Ends, TypeOK, callVars
  <2>5. CASE FrameArrives
      BY <2>1, <2>5 DEF FrameArrives, Resolved
  <2>6. CASE HandshakeBegins \/ Close
      BY <2>1, <2>6 DEF HandshakeBegins, Close, Reset
  <2>7. ASSUME NEW o \in {"unpause", "unsub"}, OtherBegins(o) PROVE fut' = fut
      BY <2>7 DEF OtherBegins, callVars
  <2>8. CASE SendReturns \/ ServerTakes \/ LinkDrops \/ HandshakeEnds \/ UNCHANGED vars
      BY <2>8 DEF SendReturns, ServerTakes, LinkDrops, HandshakeEnds, vars, callVars
  <2>. QED
      BY <2>2, <2>3, <2>4, <2>5, <2>6, <2>7, <2>8 DEF Next
<1>. QED
    BY <1>1, SInvariance, PTL DEF Spec, FuturesSettleOnce
=============================================================================
