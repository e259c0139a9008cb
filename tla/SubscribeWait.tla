---------------------------- MODULE SubscribeWait ----------------------------
(***************************************************************************)
(* Subscribing to one channel and unpausing it, in                          *)
(* src/whatspyc/wps/client.py: subscribe_and_wait() and the waiter it       *)
(* leaves for the cs ack, unsubscribe(), unpause_channel() and the pch      *)
(* headers, while the link is lost and made again and the client is closed. *)
(*                                                                          *)
(* A call is one invocation of subscribe_and_wait() for the channel, with   *)
(* its future.  The count an ack carries is abstracted.                     *)
(***************************************************************************)
EXTENDS Naturals, Sequences

CONSTANTS
    Calls,     \* the pool of calls; a call that has ended may be made again
    NoCall,    \* no waiter for the channel
    Overlap,   \* the user interface runs commands concurrently (urwid does)
    WireBound  \* bound: operations and frames under way

ASSUME SubscribeAssumption ==
    /\ NoCall \notin Calls
    /\ {"unpause", "unsub"} \intersect Calls = {}
    /\ Overlap \in BOOLEAN
    /\ WireBound \in Nat \ {0}

VARIABLES
    step,       \* where each call is: idle, in _send(), awaiting its future
    fut,        \* its future; "none" when there is no call, "timeout" and "reset"
                \* when wait_for() and _handshake cancelled it
    outcome,    \* history: how the call that ended last ended
    table,      \* _cs_ack_waiters, the entry of the channel
    queue,      \* the operations at _send_lock, its holder first
    writing,    \* the holder is inside stream.send()
    subscribed, \* the store's flag
    paused,     \* _paused_channels has the channel
    link,       \* _connected is set, a handshake is under way, or neither
    closed,     \* _closed
    toServer,   \* frames on their way
    toClient,
    hold,       \* the server holds the channel's posts back
    taken       \* history: the last cs the server took on this connection

callVars   == <<step, fut, outcome, table>>
sendVars   == <<queue, writing>>
localVars  == <<subscribed, paused>>
linkVars   == <<link, closed>>
serverVars == <<toServer, toClient, hold, taken>>
vars == <<callVars, sendVars, localVars, linkVars, serverVars>>

Operations == Calls \union {"unpause", "unsub"}
Requests   == {"cs1", "cs0", "cu"}
Replies    == {"cs1", "cs0", "pch"}

Queued == {queue[i] : i \in 1 .. Len(queue)}
\* No command is being run.
Quiet  == queue = <<>> /\ \A c \in Calls : step[c] = "idle"

Room   == Len(queue) + Len(toServer) + Len(toClient) < WireBound

\* Seeded fault: the frame is named as the protocol's document names it.
Frame_Uc(o) == CASE o = "unpause" -> "uc"
                 [] o = "unsub"   -> "cs0"
                 [] OTHER         -> "cs1"

\* The frame an operation writes.
Frame(o) == CASE o = "unpause" -> "cu"
              [] o = "unsub"   -> "cs0"
              [] OTHER         -> "cs1"

-----------------------------------------------------------------------------
(* Calls *)

\* fut after the waiter in the table, if any, is completed by `how'.
Completed(how) ==
    [c \in Calls |-> IF c = table /\ fut[c] = "pending" THEN how ELSE fut[c]]

\* subscribe_and_wait() up to its send: the last one wins the table.
Begin(c) ==
    /\ step[c] = "idle"
    /\ Overlap \/ Quiet
    /\ Room
    /\ fut' = [Completed("cancelled") EXCEPT ![c] = "pending"]
    /\ table' = c
    /\ step' = [step EXCEPT ![c] = "send"]
    /\ queue' = Append(queue, c)
    /\ UNCHANGED <<outcome, writing, localVars, linkVars, serverVars>>

\* The finally clause pops the channel's entry, whoever's it is by now.
Ends(c, how) ==
    /\ table' = NoCall
    /\ step' = [step EXCEPT ![c] = "idle"]
    /\ fut' = [fut EXCEPT ![c] = "none"]
    /\ outcome' = how

\* What awaiting a completed future gives.
Given(f) == CASE f = "count"   -> "count"
              [] f = "timeout" -> "TimeoutError"
              [] OTHER         -> "CancelledError"

\* The call goes on once its future is done.
Resume(c) ==
    /\ step[c] = "wait"
    /\ fut[c] # "pending"
    /\ Ends(c, Given(fut[c]))
    /\ UNCHANGED <<sendVars, localVars, linkVars, serverVars>>

\* wait_for() runs out of time, or the task that awaits it is cancelled: either
\* way it cancels the future.
GivesUp(c) ==
    /\ step[c] = "wait"
    /\ fut[c] = "pending"
    /\ \E how \in {"timeout", "cancelled"} : fut' = [fut EXCEPT ![c] = how]
    /\ UNCHANGED <<step, outcome, table, sendVars, localVars, linkVars,
                   serverVars>>

-----------------------------------------------------------------------------
(* The other operations, and _send() *)

\* Seeded fault: the entry is popped before the frame is sent.
OtherBegins_PopsFirst(o) ==
    /\ o \notin Queued
    /\ Overlap \/ Quiet
    /\ Room
    /\ queue' = Append(queue, o)
    /\ paused' = (paused /\ o # "unpause")
    /\ UNCHANGED <<callVars, writing, subscribed, linkVars, serverVars>>

\* unsubscribe() or unpause_channel() is called (bound: each at most once at the
\* lock).  unpause_channel() does not ask whether the channel is listed.
OtherBegins(o) ==
    /\ o \notin Queued
    /\ Overlap \/ Quiet
    /\ Room
    /\ queue' = Append(queue, o)
    /\ UNCHANGED <<callVars, writing, localVars, linkVars, serverVars>>

\* _send() raised in an operation.
Fails(o) ==
    /\ queue' = Tail(queue)
    /\ IF o \in Calls
       THEN Ends(o, "ConnectionError")
       ELSE UNCHANGED callVars
    /\ UNCHANGED <<localVars, linkVars, serverVars>>

\* The lock is acquired; without a link _send() raises.
SendGetsLock ==
    /\ queue # <<>> /\ ~writing
    /\ IF link = "up"
       THEN /\ writing' = TRUE
            /\ UNCHANGED <<queue, callVars, localVars, linkVars, serverVars>>
       ELSE /\ Fails(Head(queue))
            /\ UNCHANGED writing

\* stream.send() returns: a call waits for its ack, an unpaused channel is no
\* longer listed.
SendReturns ==
    /\ writing
    /\ writing' = FALSE
    /\ queue' = Tail(queue)
    /\ LET o == Head(queue)
       IN  /\ toServer' = IF link = "up" THEN Append(toServer, Frame(o)) ELSE toServer
           /\ step' = IF o \in Calls THEN [step EXCEPT ![o] = "wait"] ELSE step
           /\ paused' = (paused /\ o # "unpause")
    /\ UNCHANGED <<fut, outcome, table, subscribed, linkVars, toClient, hold,
                   taken>>

\* stream.send() raises on a stream that is gone.
SendRaises ==
    /\ writing
    /\ link # "up"
    /\ Fails(Head(queue))
    /\ writing' = FALSE

-----------------------------------------------------------------------------
(* Frames from the server *)

\* Seeded fault: every cs ack is taken for a subscription.
Subscribed_Any(f) == TRUE

Subscribed(f) == f = "cs1"

\* Seeded fault: set_result() without the test for done().
Resolved_Any == [c \in Calls |-> IF c = table THEN "count" ELSE fut[c]]

\* The waiter gets its count unless it has been completed already.
Resolved == Completed("count")

\* _on_subscribe_ack, _on_paused_headers
FrameArrives ==
    /\ toClient # <<>> /\ link = "up"
    /\ toClient' = Tail(toClient)
    /\ LET f == Head(toClient)
       IN  IF f = "pch"
           THEN paused' = TRUE /\ UNCHANGED <<fut, subscribed>>
           ELSE /\ subscribed' = Subscribed(f)
                /\ fut' = IF f = "cs1" THEN Resolved ELSE fut
                /\ UNCHANGED paused
    /\ UNCHANGED <<step, outcome, table, sendVars, linkVars, toServer, hold, taken>>

\* The server answers a cs and lets the posts of an unpaused channel go.
ServerTakes ==
    /\ toServer # <<>> /\ link = "up"
    /\ toServer' = Tail(toServer)
    /\ IF Head(toServer) = "cu"
       THEN hold' = FALSE /\ UNCHANGED <<toClient, taken>>
       ELSE /\ toClient' = Append(toClient, Head(toServer))
            /\ taken' = Head(toServer)
            /\ UNCHANGED hold
    /\ UNCHANGED <<callVars, sendVars, localVars, linkVars>>

-----------------------------------------------------------------------------
(* The link *)

\* What is on the link is lost with it.
LinkDrops ==
    /\ link # "down"
    /\ link' = "down"
    /\ toServer' = <<>>
    /\ toClient' = <<>>
    /\ taken' = "none"
    /\ UNCHANGED <<callVars, sendVars, localVars, closed, hold>>

\* Seeded fault: the table is cleared but its futures are not cancelled.
Reset_ClearsOnly(how) == fut

Reset(how) == Completed(how)

\* _handshake up to its first await.  Closing the old stream has ended a
\* write that was still waiting in it.
HandshakeBegins ==
    /\ link = "down" /\ ~closed /\ ~writing
    /\ link' = "handshake"
    /\ fut' = Reset("reset")
    /\ table' = NoCall
    /\ paused' = FALSE
    /\ UNCHANGED <<step, outcome, sendVars, subscribed, closed, serverVars>>

\* The connect record is sent; the server decides which channels it holds
\* back and says so in pch.
HandshakeEnds ==
    /\ link = "handshake"
    /\ link' = "up"
    /\ hold' \in BOOLEAN
    /\ toClient' = IF hold' THEN <<"pch">> ELSE <<>>
    /\ UNCHANGED <<callVars, sendVars, localVars, closed, toServer, taken>>

\* close()
Close ==
    /\ ~closed
    /\ closed' = TRUE
    /\ link' = "down"
    /\ fut' = Reset("cancelled")
    /\ table' = NoCall
    /\ toServer' = <<>>
    /\ toClient' = <<>>
    /\ taken' = "none"
    /\ UNCHANGED <<step, outcome, sendVars, localVars, hold>>

-----------------------------------------------------------------------------
Init ==
    /\ step = [c \in Calls |-> "idle"]
    /\ fut = [c \in Calls |-> "none"]
    /\ outcome = "none"
    /\ table = NoCall
    /\ queue = <<>>
    /\ writing = FALSE
    /\ subscribed = FALSE
    /\ paused = FALSE
    /\ link = "handshake"
    /\ closed = FALSE
    /\ toServer = <<>>
    /\ toClient = <<>>
    /\ hold = FALSE
    /\ taken = "none"

Next ==
    \/ \E c \in Calls : Begin(c)
    \/ \E c \in Calls : Resume(c)
    \/ \E c \in Calls : GivesUp(c)
    \/ \E o \in {"unpause", "unsub"} : OtherBegins(o)
    \/ SendGetsLock
    \/ SendReturns
    \/ SendRaises
    \/ FrameArrives
    \/ ServerTakes
    \/ LinkDrops
    \/ HandshakeBegins
    \/ HandshakeEnds
    \/ Close

Spec == Init /\ [][Next]_vars
=============================================================================
