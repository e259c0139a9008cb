------------------------------ MODULE WpsLink ------------------------------
(***************************************************************************)
(* The life of the link of a WpsClient (src/whatspyc/wps/client.py): the    *)
(* handshake that opens it, the reader task that serves it, the keep-alive  *)
(* task with its silence guard, the loss of the link, the reconnect loop    *)
(* and close().                                                             *)
(*                                                                          *)
(* asyncio runs one task at a time and switches only at an await that       *)
(* suspends, so every action below is the code between two such awaits.     *)
(* The on_event hooks of the three user interfaces never suspend (they      *)
(* print or put_nowait), so emitting an event is part of the action.        *)
(*                                                                          *)
(* A stream is one result of the stream factory.  The streams form a        *)
(* finite pool whose members are reused once nothing refers to them: the    *)
(* number of connections in a behaviour is not bounded.                     *)
(***************************************************************************)
EXTENDS Naturals, FiniteSets

CONSTANTS
    Streams,         \* the pool of transport streams
    NoStream,        \* None
    AutoReconnect,   \* auto_reconnect
    MaxRetries,      \* reconnect_max_retries, 0 = for ever
    InitialBackoff,  \* reconnect_initial_backoff
    MaxBackoff,      \* reconnect_max_backoff
    HasScript,       \* a connect_script has to be run
    InjectsCallsign, \* the transport sends the callsign line itself (RHP)
    SilenceGuard,    \* keepalive_max_minutes is set
    AttemptBound     \* bound: the attempt number is not counted further

ASSUME LinkAssumption ==
    /\ NoStream \notin Streams
    /\ AutoReconnect \in BOOLEAN
    /\ MaxRetries \in Nat
    /\ InitialBackoff \in Nat \ {0}
    /\ MaxBackoff \in Nat \ {0}
    /\ InitialBackoff <= MaxBackoff
    /\ HasScript \in BOOLEAN
    /\ InjectsCallsign \in BOOLEAN
    /\ SilenceGuard \in BOOLEAN
    /\ AttemptBound \in Nat
    /\ MaxRetries < AttemptBound

VARIABLES
    closed,     \* _closed
    connected,  \* _connected.is_set()
    stream,     \* _stream
    sock,       \* the condition of each stream's socket
    greeted,    \* streams that carried the type-c connect record
    facts,      \* streams whose roster / paused channels the client holds
    task,       \* program counters of open() and of _reconnect_task
    attempt,    \* attempt of _reconnect_loop
    delay,      \* delay of _reconnect_loop
    reader,     \* program counter of the reader task made for a stream
    readerTask, \* _reader_task (the stream it was made for)
    ka,         \* program counter of the keep-alive task made for a stream
    kaTask,     \* _keepalive_task (the stream it was made for)
    sender,     \* a user operation that goes through _send()
    wire,       \* the stream the holder of _send_lock is writing to
    quiet,      \* the user has sent nothing for keepalive_max_minutes
    closer,     \* the calls of close(): by the user, by the silence guard
    event       \* the last synthetic link event given to on_event

handshakeVars == <<stream, sock, greeted, facts, quiet>>
retryVars     == <<task, attempt, delay>>
readerVars    == <<reader, readerTask>>
kaVars        == <<ka, kaTask>>
sendVars      == <<sender, wire>>
vars == <<closed, connected, handshakeVars, retryVars, readerVars, kaVars,
          sendVars, closer, event>>

Drivers == {"open", "retry"}
Stages  == {"opening", "script", "callsign", "record"}
Closers == {"user", "silence"}

TaskStates == Stages \union {"idle", "failed", "done", "none", "fresh", "sleep",
                             "cancelled", "cancelledStage"}

ReaderStates == {"none", "recv", "losing", "cancelled", "unlosing"}
KaStates     == {"none", "sleep", "waiting", "sending", "cancelled"}
SocketStates == {"closed", "opening", "up", "broken"}
Events == {"none", "_disconnect", "_reconnecting", "_reconnected",
           "_reconnect_giveup", "_silence_disconnect"}

-----------------------------------------------------------------------------
(* Helpers *)

\* Nothing refers to the stream any more: the factory may hand it out.
Unused(s) == /\ sock[s] = "closed"
             /\ reader[s] = "none"
             /\ ka[s] = "none"
             /\ s \notin {stream, wire}

\* The await that follows a completed stage of _handshake().
StageAfter(st) ==
    IF st = "opening" /\ HasScript
    THEN "script"
    ELSE IF st # "callsign" /\ ~InjectsCallsign THEN "callsign" ELSE "record"

Bump(n) == IF n < AttemptBound THEN n + 1 ELSE n

Doubled(d) == IF 2 * d < MaxBackoff THEN 2 * d ELSE MaxBackoff

\* Task.cancel() on a task that may already have ended.
Cancelled(pc) == IF pc = "none" THEN "none" ELSE "cancelled"

\* Seeded fault: close() forgets to cancel the reader it then awaits.
CancelledReader_Not(pc) == pc

\* The reader task is cancelled at recv(), or inside _handle_link_loss.
CancelledReader(pc) == CASE pc = "recv"   -> "cancelled"
                         [] pc = "losing" -> "unlosing"
                         [] OTHER         -> pc

\* _send_lock is held exactly while its holder writes.
LockFree == wire = NoStream

\* The check of _send(); it raises ConnectionError otherwise.
MaySend == stream # NoStream /\ connected

\* Seeded fault: a keep-alive counts as activity.
RestartsClock_Always(who) == TRUE

\* The _silence_reset argument of _send().
RestartsClock(who) == who = "user"

-----------------------------------------------------------------------------
(* The handshake, run by open() and by the reconnect loop *)

ForgetSession == facts' = {}

\* _handshake() up to its first await: per-connection state is dropped, the
\* silence clock restarts and the factory makes a fresh stream.
HandshakeBegin(d) ==
    \E s \in Streams :
        /\ Unused(s)
        /\ stream' = s
        /\ sock' = [sock EXCEPT ![s] = "opening"]
        /\ greeted' = greeted \ {s}
        /\ ForgetSession
        /\ quiet' = FALSE
        /\ task' = [task EXCEPT ![d] = "opening"]

\* open() is called; after a failure it may be called again.
OpenBegin ==
    /\ task["open"] \in {"idle", "failed"}
    /\ ~closed
    /\ HandshakeBegin("open")
    /\ UNCHANGED <<closed, connected, attempt, delay, readerVars, kaVars,
                   sendVars, closer, event>>

\* One await of the handshake completes and there is another one to do.  The
\* script needs the node's replies, a send only the local socket.
StageDone(d) ==
    /\ task[d] \in Stages \ {"record"}
    /\ task[d] = "script" => sock[stream] = "up"
    /\ IF task[d] = "opening"
       THEN sock' = [sock EXCEPT ![stream] = "up"]
       ELSE UNCHANGED sock
    /\ task' = [task EXCEPT ![d] = StageAfter(task[d])]
    /\ UNCHANGED <<closed, connected, stream, greeted, facts, quiet, attempt,
                   delay, readerVars, kaVars, sendVars, closer, event>>

\* _spawn_keepalive(): a task that has not ended is kept.
SpawnKeepalive ==
    IF kaTask # NoStream /\ ka[kaTask] # "none"
    THEN UNCHANGED kaVars
    ELSE /\ ka' = [ka EXCEPT ![stream] = "sleep"]
         /\ kaTask' = stream

\* Seeded fault: _reconnect_task is not reset when the loop ends.
RetryEnds_Stale == [task EXCEPT !["retry"] = "idle"]

\* The finally clause of _reconnect_loop.
RetryEnds == [task EXCEPT !["retry"] = "none"]

\* The connect record has been sent: the link is up, a reader task and a
\* keep-alive task are made, and the reconnect loop ends with its event.
HandshakeDone(d) ==
    /\ task[d] = "record"
    /\ greeted' = greeted \union {stream}
    /\ connected' = TRUE
    /\ reader' = [reader EXCEPT ![stream] = "recv"]
    /\ readerTask' = stream
    /\ SpawnKeepalive
    /\ IF d = "open"
       THEN /\ task' = [task EXCEPT ![d] = "done"]
            /\ UNCHANGED event
       ELSE /\ task' = RetryEnds
            /\ event' = "_reconnected"
    /\ UNCHANGED <<closed, stream, sock, facts, quiet, attempt, delay, sendVars,
                   closer>>

\* The half-built stream is closed before the exception is raised again.
CloseHalfBuilt ==
    /\ sock' = [sock EXCEPT ![stream] = "closed"]
    /\ stream' = NoStream

\* open() raises, or its caller cancels it while it waits.
OpenFails ==
    /\ task["open"] \in Stages
    /\ CloseHalfBuilt
    /\ task' = [task EXCEPT !["open"] = "failed"]
    /\ UNCHANGED <<closed, connected, greeted, facts, quiet, attempt, delay,
                   readerVars, kaVars, sendVars, closer, event>>

-----------------------------------------------------------------------------
(* _reconnect_loop *)

\* Seeded faults: one attempt too many, one attempt too few.
GiveUpDue_Late(done) == MaxRetries > 0 /\ done > MaxRetries
GiveUpDue_Early(done) == MaxRetries > 0 /\ done + 1 >= MaxRetries

GiveUpDue(done) == MaxRetries > 0 /\ done >= MaxRetries

\* The head of the loop: give up, or announce the next attempt and sleep.
\* `done' is the number of attempts made so far.
NextAttempt(done) ==
    IF GiveUpDue(done)
    THEN /\ task' = RetryEnds
         /\ event' = "_reconnect_giveup"
         /\ attempt' = done
    ELSE /\ task' = [task EXCEPT !["retry"] = "sleep"]
         /\ event' = "_reconnecting"
         /\ attempt' = Bump(done)

\* First step of the task.  The event loop runs ready callbacks in the order
\* they became ready, so a close() the silence guard queued before the link
\* was lost in the same turn runs before this step.
RetryStart ==
    /\ task["retry"] = "fresh"
    /\ ~closed
    /\ closer["silence"] # "queued"
    /\ NextAttempt(0)
    /\ delay' = InitialBackoff
    /\ UNCHANGED <<closed, connected, handshakeVars, readerVars, kaVars,
                   sendVars, closer>>

\* The backoff sleep is over.
RetryWake ==
    /\ task["retry"] = "sleep"
    /\ ~closed
    /\ HandshakeBegin("retry")
    /\ UNCHANGED <<closed, connected, attempt, delay, readerVars, kaVars,
                   sendVars, closer, event>>

\* A stage of the handshake raises: _reconnect_failed, then the loop's head.
RetryFails ==
    /\ task["retry"] \in Stages
    /\ ~closed
    /\ CloseHalfBuilt
    /\ NextAttempt(attempt)
    /\ delay' = Doubled(delay)
    /\ UNCHANGED <<closed, connected, greeted, facts, quiet, readerVars, kaVars,
                   sendVars, closer>>

\* close() cancelled the task.  At a stage of the handshake the half-built
\* stream is closed on the way out.
RetryUnwind ==
    /\ task["retry"] \in {"cancelled", "cancelledStage"}
    /\ IF task["retry"] = "cancelledStage"
       THEN CloseHalfBuilt
       ELSE UNCHANGED <<stream, sock>>
    /\ task' = RetryEnds
    /\ UNCHANGED <<closed, connected, greeted, facts, quiet, attempt, delay,
                   readerVars, kaVars, sendVars, closer, event>>

-----------------------------------------------------------------------------
(* _reader_loop and _handle_link_loss *)

\* A chunk arrives and its frames are dispatched; some of them (o, uc, pch)
\* leave per-connection state behind.
ReaderFrame(s) ==
    /\ reader[s] = "recv"
    /\ stream # NoStream /\ sock[stream] \in {"up", "broken"}
    /\ facts' = facts \union {stream}
    /\ UNCHANGED <<closed, connected, stream, sock, greeted, quiet, retryVars,
                   readerVars, kaVars, sendVars, closer, event>>

\* Seeded fault: the connected event stays set.
TakeDown_StaysUp ==
    /\ ka' = [t \in Streams |-> IF t = kaTask THEN Cancelled(ka[t]) ELSE ka[t]]
    /\ kaTask' = NoStream
    /\ UNCHANGED connected

\* The connected event is cleared; the keep-alive task is cancelled and
\* forgotten.
TakeDown ==
    /\ connected' = FALSE
    /\ ka' = [t \in Streams |-> IF t = kaTask THEN Cancelled(ka[t]) ELSE ka[t]]
    /\ kaTask' = NoStream

\* A cancelled keep-alive that was writing releases the lock.
WireAfterCancel ==
    IF kaTask # NoStream /\ ka[kaTask] = "sending" THEN NoStream ELSE wire

\* _handle_link_loss up to the await of stream.close(): recv() returned b"",
\* or recv(), the decoder, a handler or the hook raised.
ReaderLoses(s) ==
    /\ reader[s] = "recv"
    /\ stream # NoStream
    /\ ~closed
    /\ TakeDown
    /\ wire' = WireAfterCancel
    /\ sock' = [sock EXCEPT ![stream] = "closed"]
    /\ reader' = [reader EXCEPT ![s] = "losing"]
    /\ UNCHANGED <<closed, stream, greeted, facts, quiet, retryVars, readerTask,
                   sender, closer, event>>

\* The rest of _handle_link_loss.  Also reached when close() cancelled the
\* reader here and the transport's own close() swallowed the cancellation
\* (RhpSession.close catches CancelledError): then nothing is restarted.
ReaderLost(s) ==
    /\ reader[s] \in {"losing", "unlosing"}
    /\ stream' = NoStream
    /\ event' = "_disconnect"
    /\ reader' = [reader EXCEPT ![s] = "none"]
    /\ IF AutoReconnect /\ ~closed /\ task["retry"] = "none"
       THEN task' = [task EXCEPT !["retry"] = "fresh"]
       ELSE UNCHANGED task
    /\ UNCHANGED <<closed, connected, sock, greeted, facts, quiet, attempt,
                   delay, readerTask, kaVars, sendVars, closer>>

\* The reader task ends on the cancellation.
ReaderUnwind(s) ==
    /\ reader[s] \in {"cancelled", "unlosing"}
    /\ reader' = [reader EXCEPT ![s] = "none"]
    /\ UNCHANGED <<closed, connected, handshakeVars, retryVars, readerTask,
                   kaVars, sendVars, closer, event>>

-----------------------------------------------------------------------------
(* _keepalive_loop *)

\* _silence_disconnect: the event, then close() as a task of its own.
KeepaliveHangsUp(s) ==
    /\ ka[s] = "sleep"
    /\ connected /\ ~closed
    /\ SilenceGuard /\ quiet
    /\ event' = "_silence_disconnect"
    /\ closer' = [closer EXCEPT !["silence"] = "queued"]
    /\ ka' = [ka EXCEPT ![s] = "none"]
    /\ UNCHANGED <<closed, connected, handshakeVars, retryVars, readerVars,
                   kaTask, sendVars>>

\* The interval is over: stop if the link is gone, or go and send.  (Whoever
\* clears the connected event cancels the task, so the first is a second line
\* of defence, see KeepaliveIsKept.)
KeepaliveWakes(s) ==
    /\ ka[s] = "sleep"
    /\ ~(connected /\ ~closed /\ SilenceGuard /\ quiet)
    /\ ka' = [ka EXCEPT ![s] = IF closed \/ ~connected THEN "none" ELSE "waiting"]
    /\ UNCHANGED <<closed, connected, handshakeVars, retryVars, readerVars,
                   kaTask, sendVars, closer, event>>

\* keep_alive() has the lock: it writes, or _send() raises and the loop ends.
KeepaliveSends(s) ==
    /\ ka[s] = "waiting"
    /\ LockFree
    /\ IF MaySend
       THEN /\ ka' = [ka EXCEPT ![s] = "sending"]
            /\ wire' = stream
       ELSE /\ ka' = [ka EXCEPT ![s] = "none"]
            /\ UNCHANGED wire
    /\ UNCHANGED <<closed, connected, handshakeVars, retryVars, readerVars,
                   kaTask, sender, closer, event>>

\* The write returns and the loop goes on, or it raises on a stream that is
\* broken or closed and the loop ends.  The silence clock is left alone.
KeepaliveSent(s) ==
    /\ ka[s] = "sending"
    /\ \/ /\ ka' = [ka EXCEPT ![s] = IF closed \/ ~connected THEN "none" ELSE "sleep"]
          /\ quiet' = (quiet /\ ~RestartsClock("keepalive"))
       \/ /\ sock[wire] # "up"
          /\ ka' = [ka EXCEPT ![s] = "none"]
          /\ UNCHANGED quiet
    /\ wire' = NoStream
    /\ UNCHANGED <<closed, connected, stream, sock, greeted, facts, retryVars,
                   readerVars, kaTask, sender, closer, event>>

KeepaliveUnwind(s) ==
    /\ ka[s] = "cancelled"
    /\ ka' = [ka EXCEPT ![s] = "none"]
    /\ UNCHANGED <<closed, connected, handshakeVars, retryVars, readerVars,
                   kaTask, sendVars, closer, event>>

-----------------------------------------------------------------------------
(* _send() for the user's operations *)

UserSends ==
    /\ sender = "idle"
    /\ task["open"] = "done"
    /\ sender' = "waiting"
    /\ UNCHANGED <<closed, connected, handshakeVars, retryVars, readerVars,
                   kaVars, wire, closer, event>>

\* The lock is acquired; without a link _send() raises ConnectionError.
SendWrites ==
    /\ sender = "waiting"
    /\ LockFree
    /\ IF MaySend
       THEN /\ sender' = "writing"
            /\ wire' = stream
       ELSE /\ sender' = "idle"
            /\ UNCHANGED wire
    /\ UNCHANGED <<closed, connected, handshakeVars, retryVars, readerVars,
                   kaVars, closer, event>>

\* The write returns and restarts the silence clock, or it raises.
SendReturns ==
    /\ sender = "writing"
    /\ sender' = "idle"
    /\ wire' = NoStream
    /\ \/ quiet' = (quiet /\ ~RestartsClock("user"))
       \/ sock[wire] # "up" /\ UNCHANGED quiet
    /\ UNCHANGED <<closed, connected, stream, sock, greeted, facts, retryVars,
                   readerVars, kaVars, closer, event>>

-----------------------------------------------------------------------------
(* close() *)

CancelledRetry(pc) == CASE pc \in Stages            -> "cancelledStage"
                        [] pc \in {"fresh", "sleep"} -> "cancelled"
                        [] OTHER                     -> pc

\* Up to the first await.  The user interfaces cancel an open() in progress
\* and await it before they call close(); the silence guard's close() is the
\* task queued by KeepaliveHangsUp.
CloseBegin(c) ==
    /\ \/ c = "user" /\ closer[c] = "none" /\ task["open"] \notin Stages
       \/ c = "silence" /\ closer[c] = "queued"
    /\ closed' = TRUE
    /\ connected' = FALSE
    /\ ka' = [t \in Streams |-> IF t = kaTask THEN Cancelled(ka[t]) ELSE ka[t]]
    /\ wire' = WireAfterCancel
    /\ reader' = [t \in Streams |-> IF t = readerTask
                                    THEN CancelledReader(reader[t]) ELSE reader[t]]
    /\ task' = [task EXCEPT !["retry"] = CancelledRetry(@)]
    /\ closer' = [closer EXCEPT ![c] = "waiting"]
    /\ UNCHANGED <<handshakeVars, attempt, delay, readerTask, kaTask, sender,
                   event>>

\* The tasks close() cancelled have ended.
TasksEnded ==
    /\ kaTask # NoStream => ka[kaTask] = "none"
    /\ readerTask # NoStream => reader[readerTask] = "none"
    /\ task["retry"] = "none"

\* The three tasks have ended; whatever stream is left is closed.
CloseEnd(c) ==
    /\ closer[c] = "waiting"
    /\ TasksEnded
    /\ IF stream = NoStream
       THEN UNCHANGED <<stream, sock>>
       ELSE /\ sock' = [sock EXCEPT ![stream] = "closed"]
            /\ stream' = NoStream
    /\ closer' = [closer EXCEPT ![c] = "done"]
    /\ UNCHANGED <<closed, connected, greeted, facts, quiet, retryVars,
                   readerVars, kaVars, sendVars, event>>

-----------------------------------------------------------------------------
(* The environment *)

\* The peer or the path goes away: recv() will return b"" or raise.
LinkBreaks(s) ==
    /\ sock[s] = "up"
    /\ sock' = [sock EXCEPT ![s] = "broken"]
    /\ UNCHANGED <<closed, connected, stream, greeted, facts, quiet, retryVars,
                   readerVars, kaVars, sendVars, closer, event>>

\* keepalive_max_minutes have passed since the silence clock restarted.
TimePasses ==
    /\ SilenceGuard /\ ~quiet
    /\ quiet' = TRUE
    /\ UNCHANGED <<closed, connected, stream, sock, greeted, facts, retryVars,
                   readerVars, kaVars, sendVars, closer, event>>

\* close() has returned and the program goes on without a client.
Stopped ==
    /\ closer["user"] = "done"
    /\ UNCHANGED vars

-----------------------------------------------------------------------------
Init ==
    /\ closed = FALSE
    /\ connected = FALSE
    /\ stream = NoStream
    /\ sock = [s \in Streams |-> "closed"]
    /\ greeted = {}
    /\ facts = {}
    /\ task = [d \in Drivers |-> IF d = "open" THEN "idle" ELSE "none"]
    /\ attempt = 0
    /\ delay = InitialBackoff
    /\ reader = [s \in Streams |-> "none"]
    /\ readerTask = NoStream
    /\ ka = [s \in Streams |-> "none"]
    /\ kaTask = NoStream
    /\ sender = "idle"
    /\ wire = NoStream
    /\ quiet = FALSE
    /\ closer = [c \in Closers |-> "none"]
    /\ event = "none"

Handshaking(d) == StageDone(d) \/ HandshakeDone(d)
Retrying       == RetryStart \/ RetryWake \/ RetryFails \/ RetryUnwind
Reading(s)     == \/ ReaderFrame(s) \/ ReaderLoses(s) \/ ReaderLost(s)
                  \/ ReaderUnwind(s)
Keeping(s)     == \/ KeepaliveHangsUp(s) \/ KeepaliveWakes(s)
                  \/ KeepaliveSends(s) \/ KeepaliveSent(s)
                  \/ KeepaliveUnwind(s)
Sending        == UserSends \/ SendWrites \/ SendReturns
Closing(c)     == CloseBegin(c) \/ CloseEnd(c)

Next ==
    \/ OpenBegin \/ OpenFails
    \/ \E d \in Drivers : Handshaking(d)
    \/ Retrying
    \/ \E s \in Streams : Reading(s) \/ Keeping(s) \/ LinkBreaks(s)
    \/ Sending
    \/ \E c \in Closers : Closing(c)
    \/ TimePasses
    \/ Stopped

Spec == Init /\ [][Next]_vars
=============================================================================
