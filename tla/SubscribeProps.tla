--------------------------- MODULE SubscribeProps ---------------------------
(***************************************************************************)
(* The properties of SubscribeWait.                                         *)
(***************************************************************************)
EXTENDS SubscribeWait

\* The one statement of which values the variables take.
TypeOK ==
    /\ step \in [Calls -> {"idle", "send", "wait"}]
    /\ fut \in [Calls -> {"none", "pending", "count", "cancelled", "timeout", "reset"}]
    /\ outcome \in {"none", "count", "ConnectionError", "TimeoutError", "CancelledError"}
    /\ table \in Calls \union {NoCall}
    /\ queue \in Seq(Operations)
    /\ writing \in BOOLEAN
    /\ subscribed \in BOOLEAN
    /\ paused \in BOOLEAN
    /\ link \in {"up", "handshake", "down"}
    /\ closed \in BOOLEAN
    /\ toServer \in Seq(Requests)
    /\ toClient \in Seq(Replies)
    /\ hold \in BOOLEAN
    /\ taken \in {"none", "cs0", "cs1"}

-----------------------------------------------------------------------------
(* Safety *)

\* A call that waits can be reached through the table, by the ack, by the
\* next handshake and by close(), as long as commands run one after the
\* other: no reset or late ack of an earlier call takes its entry away.
WaiterIsReachable ==
    ~Overlap =>
        \A c \in Calls : fut[c] = "pending" => table = c

\* A completed future keeps its result until its call ends.
SettledStays ==
    \A c \in Calls : fut[c] \notin {"none", "pending"} => fut'[c] \in {fut[c], "none"}

\* A future is completed once, also when two acks come in one chunk or an ack
\* meets a call that was just cancelled: set_result() on a done future would
\* raise in the reader task and take the link down.
FuturesSettleOnce ==
    [][SettledStays]_vars

\* A channel the server holds back is listed as paused, once the headers have
\* arrived and no cu is on its way, so the user can ask for its posts: no
\* unpause that failed, or that belonged to an earlier connection, hides it.
PauseIsTold ==
    link = "up" /\ hold /\ toServer = <<>> /\ toClient = <<>> =>
        paused

\* With nothing under way, the store's flag is what the server was told last
\* on this connection, however subscribes and unsubscribes overlap.
SubscriptionAgrees ==
    link = "up" /\ toServer = <<>> /\ toClient = <<>> /\ taken # "none" =>
        subscribed = (taken = "cs1")

-----------------------------------------------------------------------------
(* The inductive strengthening of the four *)

\* The operations at the lock are distinct, their calls are in _send(), and
\* only a call under way has a future.
QueueIsExact ==
    /\ \A i, j \in 1 .. Len(queue) : queue[i] = queue[j] => i = j
    /\ \A i \in 1 .. Len(queue) : queue[i] \in Calls => step[queue[i]] = "send"
    /\ writing => queue # <<>>
    /\ \A c \in Calls : step[c] = "idle" => fut[c] = "none"

\* Commands run one after the other.
CallsAlternate ==
    ~Overlap => \A c, d \in Calls : step[c] # "idle" /\ step[d] # "idle" => c = d

\* A channel held back is listed, or its headers or a cu are under way.
HoldIsAnnounced ==
    link = "up" /\ hold =>
        \/ paused
        \/ \E i \in 1 .. Len(toClient) : toClient[i] = "pch"
        \/ \E i \in 1 .. Len(toServer) : toServer[i] = "cu"

\* The last ack under way is for what the server took last; when none is, the
\* flag is.
AcksAreInOrder ==
    link = "up" =>
        /\ \A i \in 1 .. Len(toClient) :
               toClient[i] # "pch" =>
                   \/ toClient[i] = taken
                   \/ \E j \in 1 .. Len(toClient) : j > i /\ toClient[j] # "pch"
        /\ \/ taken = "none"
           \/ subscribed = (taken = "cs1")
           \/ \E i \in 1 .. Len(toClient) : toClient[i] # "pch"

\* Without a link nothing is under way.
LostLinkIsEmpty ==
    link # "up" => toServer = <<>> /\ toClient = <<>> /\ taken = "none"

SInv ==
    /\ TypeOK
    /\ QueueIsExact
    /\ CallsAlternate
    /\ WaiterIsReachable
    /\ HoldIsAnnounced
    /\ LostLinkIsEmpty
    /\ AcksAreInOrder

-----------------------------------------------------------------------------
(* Liveness *)

\* Coroutines run, writes return, the server answers, and with auto_reconnect
\* the loop tries a lost link again.
Fairness ==
    /\ WF_vars(SendGetsLock) /\ WF_vars(SendReturns \/ SendRaises)
    /\ \A c \in Calls : WF_vars(Resume(c))
    /\ WF_vars(FrameArrives) /\ WF_vars(ServerTakes)
    /\ WF_vars(HandshakeBegins)

FairSpec == Spec /\ Fairness

\* With a user interface that runs one command after the other (the line UI) a
\* call returns, with no timeout given: answered, or released by the handshake
\* that follows a loss, or by close().  Overlapping calls need not: the one
\* that is cancelled takes the other's entry from the table as it ends.
CallReturns ==
    [](\A c, d \in Calls : step[c] # "idle" /\ step[d] # "idle" => c = d) =>
        \A c \in Calls : step[c] # "idle" ~> step[c] = "idle"

=============================================================================
