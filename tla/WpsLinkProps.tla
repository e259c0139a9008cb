---------------------------- MODULE WpsLinkProps ----------------------------
(***************************************************************************)
(* The properties of WpsLink.                                               *)
(***************************************************************************)
EXTENDS WpsLink

\* The one statement of which values the variables take; kept as weak as a
\* type is, so that the invariants below carry the meaning.
TypeOK ==
    /\ closed \in BOOLEAN
    /\ connected \in BOOLEAN
    /\ stream \in Streams \union {NoStream}
    /\ sock \in [Streams -> SocketStates]
    /\ greeted \in SUBSET Streams
    /\ facts \in SUBSET Streams
    /\ task \in [Drivers -> TaskStates]
    /\ attempt \in 0 .. AttemptBound
    /\ delay \in 1 .. MaxBackoff
    /\ reader \in [Streams -> ReaderStates]
    /\ readerTask \in Streams \union {NoStream}
    /\ ka \in [Streams -> KaStates]
    /\ kaTask \in Streams \union {NoStream}
    /\ sender \in {"idle", "waiting", "writing"}
    /\ wire \in Streams \union {NoStream}
    /\ quiet \in BOOLEAN
    /\ closer \in [Closers -> {"none", "queued", "waiting", "done"}]
    /\ event \in Events

Alive(s) == sock[s] # "closed"

\* A handshake is under way in open() or in the reconnect loop.
InHandshake == \E d \in Drivers : task[d] \in Stages \union {"cancelledStage"}

-----------------------------------------------------------------------------
(* Safety *)

\* No socket is leaked: across failed handshakes, link losses, reconnects and
\* close(), the only socket that can be open is the one the client still
\* refers to (`_stream'), so a later close() reaches it.
SocketOwned == \A s \in Streams : Alive(s) => s = stream

\* While the link counts as connected exactly one reader task serves it, it
\* reads the current stream, and no handshake is under way behind it.
ConnectedIsServed ==
    connected /\ ~closed =>
        /\ stream # NoStream
        /\ reader[stream] = "recv"
        /\ \A s \in Streams \ {stream} : reader[s] = "none"
        /\ ~InHandshake

\* Keep-alive tasks do not pile up over reconnects: at most one is running
\* (not already cancelled), and it was made for the current connection.
OneKeepalive ==
    \A s \in Streams : ka[s] \in {"sleep", "waiting", "sending"} =>
        closed \/ (s = kaTask /\ s = stream)

\* No application frame overtakes the handshake: whoever holds the send lock
\* writes to a stream that has already carried the type-c connect record.
FramesFollowRecord == wire # NoStream => wire \in greeted

\* The roster and the paused channels shown for a live link were all told by
\* the server during this connection, never during an earlier one.
FactsAreCurrent == connected => facts \subseteq {stream}

\* The initial delay doubled n times.
Doubling[n \in Nat] == IF n = 0 THEN InitialBackoff ELSE 2 * Doubling[n - 1]

\* The attempt number stays within the cap and each wait has the length the
\* documented schedule gives: it doubles from the initial delay, capped, and
\* starts again in every outage.
RetrySchedule ==
    task["retry"] = "sleep" =>
        /\ MaxRetries > 0 => attempt <= MaxRetries
        /\ attempt < AttemptBound =>
               LET full == Doubling[attempt - 1]
               IN  delay = IF full < MaxBackoff THEN full ELSE MaxBackoff

\* When close() has returned nothing of the client is left running: no socket
\* is open and no task remains that could still touch the link or the store.
CloseIsComplete ==
    \A c \in Closers : closer[c] = "done" =>
        /\ stream = NoStream
        /\ \A s \in Streams : ~Alive(s) /\ reader[s] = "none"
                              /\ ka[s] \in {"none", "cancelled"}
        /\ task["retry"] = "none"

\* The client implements the contract it has with the user interfaces: the
\* order of the link events, the numbering of attempts, the retry cap, and
\* no reconnect after the silence guard hung up or close() was called.
Phase ==
    CASE closed -> "closed"
      [] ~closed /\ event = "none" ->
             IF task["open"] = "done" THEN "up" ELSE "offline"
      [] ~closed /\ event \in {"_reconnected", "_silence_disconnect"} -> "up"
      [] ~closed /\ event = "_disconnect" -> "lost"
      [] ~closed /\ event = "_reconnecting" -> "retrying"
      [] ~closed /\ event = "_reconnect_giveup" -> "gaveup"

Contract == INSTANCE LinkContract
    WITH phase <- Phase, usable <- connected /\ ~closed, tries <- attempt,
         hung <- closer["silence"] # "none"

ImplementsContract == Contract!Spec

-----------------------------------------------------------------------------
(* The inductive strengthening of the safety invariants *)

Serving == {"recv", "losing", "cancelled", "unlosing"}
Running == {"sleep", "waiting", "sending"}

\* Who may be at work when: before open() is through nobody else is; a
\* handshake of either driver owns a fresh stream and has no reader behind
\* it; the reconnect loop waits with no stream at all.
DriversAlternate ==
    /\ task["open"] # "done" =>
         /\ ~connected
         /\ task["retry"] = "none"
         /\ closer["silence"] = "none"
         /\ task["open"] \in {"idle", "failed"} <=> stream = NoStream
    /\ task["open"] \in Stages \union {"idle", "failed", "done"}
    /\ task["retry"] \in Stages \union {"none", "fresh", "sleep", "cancelled",
                                       "cancelledStage"}
    /\ task["open"] \in Stages => ~closed
    /\ task["retry"] # "none" =>
         /\ ~connected
         /\ task["retry"] \in Stages \union {"cancelledStage"} <=> stream # NoStream
    /\ task["retry"] \in Stages \union {"fresh", "sleep"} => ~closed
    /\ \A d \in Drivers : task[d] \in Stages => facts = {} /\ kaTask = NoStream

\* A reader task that has not ended is the last one made, it belongs to the
\* current stream, neither open() nor the reconnect loop is at work, and while
\* it reads the link counts as connected.
ReaderOwnsStream ==
    \A s \in Streams : reader[s] # "none" =>
        /\ s = readerTask
        /\ s = stream
        /\ task["open"] = "done"
        /\ task["retry"] = "none"
        /\ reader[s] = "recv" => connected
        /\ reader[s] \in {"losing", "unlosing"} => sock[s] = "closed"

\* What holds of a link that counts as connected.
ConnectedIsWhole ==
    connected =>
        /\ ~closed
        /\ stream # NoStream
        /\ reader[stream] = "recv"
        /\ stream \in greeted

\* A keep-alive task that still runs is the remembered one, of a live link.
KeepaliveIsKept ==
    /\ \A s \in Streams : ka[s] \in Running => s = kaTask /\ s = stream /\ connected
    /\ ~connected => kaTask = NoStream \/ closed

\* A close() under way, or done, has been announced.
CloseIsAnnounced ==
    \A c \in Closers : closer[c] \in {"waiting", "done"} => closed

\* What the last event says is so: a user interface told of a loss, or of an
\* attempt, has a client that is at that point, and a hang-up is followed by no
\* keep-alive and no attempt.
EventTellsState ==
    ~closed =>
        /\ task["open"] # "done" => event = "none"
        /\ connected \/ (\E s \in Streams : reader[s] # "none") =>
               event \in {"none", "_reconnected", "_silence_disconnect"}
        /\ task["retry"] = "fresh" => AutoReconnect /\ event = "_disconnect"
        /\ task["retry"] \in Stages \union {"sleep"} =>
               /\ AutoReconnect
               /\ event = "_reconnecting"
               /\ closer["silence"] = "none"
               /\ MaxRetries > 0 => attempt <= MaxRetries
        /\ closer["silence"] = "queued" => \A s \in Streams : ka[s] \notin Running

\* From its first wait to its end the loop has counted the attempts it waited
\* for, and the delay is that of the last one.
Scheduled(n) == IF Doubling[n] < MaxBackoff THEN Doubling[n] ELSE MaxBackoff
AttemptsAreCounted ==
    task["retry"] \in Stages \union {"sleep"} =>
        /\ attempt # 0
        /\ attempt < AttemptBound => delay = Scheduled(attempt - 1)

TasksInv ==
    /\ TypeOK
    /\ SocketOwned
    /\ DriversAlternate
    /\ ReaderOwnsStream
    /\ ConnectedIsWhole
    /\ KeepaliveIsKept
    /\ CloseIsAnnounced
    /\ FramesFollowRecord
    /\ FactsAreCurrent
    /\ CloseIsComplete
    /\ EventTellsState

IInv == TasksInv /\ AttemptsAreCounted

-----------------------------------------------------------------------------
(* Liveness *)

\* Every coroutine that can go on does go on, and every call into the
\* transport returns or raises.  The first is asyncio's scheduling; the
\* second holds of direct TCP, where the kernel bounds connect() and a lost
\* peer shows up in recv().  Nothing is assumed of the user, of the network
\* or of the clock that drives the silence guard.
CallReturns(d) == StageDone(d) \/ HandshakeDone(d)

Fairness ==
    /\ WF_vars(OpenFails \/ CallReturns("open"))
    /\ WF_vars(RetryFails \/ CallReturns("retry"))
    /\ WF_vars(RetryStart) /\ WF_vars(RetryWake) /\ WF_vars(RetryUnwind)
    /\ \A s \in Streams :
        /\ WF_vars(sock[s] = "broken" /\ ReaderLoses(s))
        /\ WF_vars(ReaderLost(s) \/ ReaderUnwind(s))
        /\ WF_vars(Keeping(s))
    /\ WF_vars(SendWrites) /\ WF_vars(SendReturns)
    /\ WF_vars(CloseBegin("silence"))
    /\ \A c \in Closers : WF_vars(CloseEnd(c))

FairSpec == Spec /\ Fairness

\* Time passes on an idle link.
IdleSpec == FairSpec /\ WF_vars(TimePasses)

\* A peer that went away is noticed, whatever the client was doing, and a loss
\* of the link never goes unreported: unless the client is closed, the user
\* interface is told, and then reconnected, or told that it is over.
LossIsSettled ==
    /\ \A s \in Streams : sock[s] = "broken" ~> sock[s] # "broken"
    /\ task["open"] = "done" /\ ~connected ~>
          \/ closed \/ connected
          \/ event = "_reconnect_giveup"
          \/ ~AutoReconnect /\ event = "_disconnect"


\* The silence guard works on every connection, the reconnected ones
\* included, and keep-alives do not feed it: a link on which the user never
\* sends again does not stay up.
QuietLinkIsHungUp == connected /\ [](sender = "idle") ~> ~connected

\* close() returns: none of the tasks it awaits waits for it in turn.
CloseReturns == \A c \in Closers : closer[c] \in {"queued", "waiting"} ~> closer[c] = "done"
=============================================================================
