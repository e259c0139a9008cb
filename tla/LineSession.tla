----------------------------- MODULE LineSession -----------------------------
(***************************************************************************)
(* The program with the line UI (cli.py and ui/line.py): the profile is    *)
(* picked, the connect phase retries and waits for the c reply while its   *)
(* events are held back, the UI reads stdin in a thread and runs one       *)
(* command at a time, the link is lost and comes back or not, and after a  *)
(* loss for good the user is asked whether to connect again.  Of what      *)
(* comes in the model keeps the DMs of one peer and the posts of one       *)
(* channel: the store's unread rows of each and the UI's tally of them.    *)
(***************************************************************************)
EXTENDS Naturals, Sequences, FiniteSets

CONSTANTS
    MaxAttempts, \* _CONNECT_MAX_ATTEMPTS
    MaxPending,  \* bound: events held back
    MaxUnread,   \* bound: unread rows of a thread, and its tally
    MaxStale     \* bound: reader threads nobody listens to

ASSUME BoundsAssumption ==
    /\ MaxAttempts \in Nat \ {0} /\ MaxPending \in Nat /\ MaxUnread \in Nat
    /\ MaxStale \in Nat \ {0}

Phases == {"start", "connecting", "offline", "online", "asked", "leaving", "exited"}
Waits == {"none", "line", "yesno", "ack", "count", "returned"}
Threads == {"dm", "ch"}
Losses == {"disconnect", "giveup"}

VARIABLES
    auto,     \* auto_reconnect
    picker,   \* picker_used
    phase,    \* where _run is; "leaving": asyncio.run is ending
    offline,  \* the current profile is <offline>
    link,     \* the client: opening, up, retrying, dead (nothing will bring it back)
    attempt,  \* of _connect_phase
    replied,  \* the c reply has come
    pending,  \* pending_events
    stop,     \* LineUI._stop
    reason,   \* LineUI.exit_reason
    awaits,   \* what LineUI.run waits for
    reading,  \* the thread of the current _read_line is in readline
    stale,    \* threads of earlier ones that still are
    target,   \* LineUI._target; "none" is another one too
    previous, \* previous_target of /ch
    unread,   \* of either thread: the store's unread rows,
    tally     \* and LineUI._unread_dms, _unread_posts

mode == <<auto, picker>>
connection == <<offline, link, attempt, replied, pending>>
prompt == <<stop, reason, awaits, reading, stale>>
threads == <<target, previous, unread, tally>>
vars == <<mode, phase, connection, prompt, threads>>

InUi == phase \in {"online", "offline"}

-----------------------------------------------------------------------------
(* Starting *)

\* A new LineUI: its tally is the store's count.
NewUi ==
    /\ stop' = FALSE /\ reason' = "none"
    /\ target' = "none" /\ tally' = unread /\ UNCHANGED previous

\* A client for the profile p starts to open.
Connects(p) ==
    /\ phase' = "connecting" /\ offline' = (p = "offline")
    /\ link' = "opening" /\ attempt' = 1 /\ replied' = FALSE /\ pending' = <<>>
    /\ NewUi /\ awaits' = "none"
    /\ UNCHANGED <<mode, reading, stale, unread>>

ReadsLine == reading' = TRUE /\ UNCHANGED stale

\* <offline> has a client that is never opened: the UI reads at once.
RunOffline ==
    /\ phase' = "offline" /\ offline' = TRUE
    /\ NewUi /\ awaits' = "line" /\ ReadsLine
    /\ UNCHANGED <<mode, link, attempt, replied, pending, unread>>

PickProfile == phase = "start" /\ (Connects("wps") \/ RunOffline)

\* open() fails, MaxAttempts times at most.  For <offline> it always does: its
\* profile has no port, and _build_stream_for raises.
OpenFails ==
    /\ phase = "connecting" /\ link = "opening"
    /\ IF attempt < MaxAttempts THEN attempt' = attempt + 1 /\ UNCHANGED phase
                                ELSE phase' = "leaving" /\ UNCHANGED attempt
    /\ UNCHANGED <<mode, offline, link, replied, pending, prompt, threads>>

OpenSucceeds ==
    /\ phase = "connecting" /\ link = "opening" /\ ~offline /\ link' = "up"
    /\ UNCHANGED <<mode, phase, offline, attempt, replied, pending, prompt, threads>>

\* q and Enter while the connect phase runs, unless a stale thread takes it.
CancelConnect ==
    /\ phase = "connecting"
    /\ \/ phase' = "leaving" /\ UNCHANGED stale
       \/ stale > 0 /\ stale' = stale - 1 /\ UNCHANGED phase
    /\ UNCHANGED <<mode, connection, stop, reason, awaits, reading, threads>>

-----------------------------------------------------------------------------
(* Events *)

\* Seeded fault: a link that is lost for good is only printed.
SignalTerminalLinkLoss_Printed(lost) == UNCHANGED <<stop, reason>>

SignalTerminalLinkLoss(lost) ==
    IF lost /\ reason = "none" THEN stop' = TRUE /\ reason' = "terminal"
                               ELSE UNCHANGED <<stop, reason>>

\* A row of the thread t is counted, or shown and read if t is the target.
HandleLive(t, new) ==
    IF target = t
    THEN unread' = [unread EXCEPT ![t] = 0] /\ UNCHANGED tally
    ELSE /\ unread' = [unread EXCEPT ![t] = IF new THEN @ + 1 ELSE @]
         /\ tally' = [tally EXCEPT ![t] = @ + 1]

HandleLiveDm(new) == HandleLive("dm", new)
HandleLivePost(new) == HandleLive("ch", new)

Terminal(kind) == kind = "giveup" \/ (kind = "disconnect" /\ ~auto)

\* The client tells of an event: it is held back while the connect phase runs,
\* its row is in the store already, and rendered later.
RenderEvent(kind, new) ==
    /\ SignalTerminalLinkLoss(Terminal(kind))
    /\ CASE kind = "dm" -> HandleLiveDm(new)
         [] kind = "ch" -> HandleLivePost(new)
         [] OTHER -> UNCHANGED <<unread, tally>>
    /\ UNCHANGED pending

HoldBack(kind, new) ==
    /\ pending' = Append(pending, kind)
    /\ unread' = [t \in Threads |-> IF t = kind /\ new THEN unread[t] + 1 ELSE unread[t]]
    /\ UNCHANGED <<stop, reason, tally>>

EventHook(kind, new) ==
    /\ phase \in {"connecting", "online"}
    /\ IF phase = "online" THEN RenderEvent(kind, new) ELSE HoldBack(kind, new)
    /\ UNCHANGED <<mode, offline, attempt, replied, awaits, reading, stale, target, previous>>

Room(t) == unread[t] < MaxUnread /\ tally[t] + Len(pending) < MaxUnread

\* The server sends a DM or a post: a new one, or one that the store has or that
\* is older than the last one read.
Receives(t, new) ==
    /\ link = "up" /\ Len(pending) < MaxPending /\ Room(t)
    /\ EventHook(t, new)
    /\ UNCHANGED <<phase, link>>

\* The c reply.
Reply ==
    /\ phase = "connecting" /\ link = "up"
    /\ replied' = TRUE
    /\ UNCHANGED <<mode, phase, offline, link, attempt, pending, prompt, threads>>

\* The link is lost.
Disconnects ==
    /\ link = "up" /\ Len(pending) < MaxPending
    /\ link' = IF auto THEN "retrying" ELSE "dead"
    /\ EventHook("disconnect", FALSE)
    /\ UNCHANGED phase

\* The client opens again: that cancels a subscribe_and_wait, and CancelledError
\* passes the except of run and of cli: the program ends.
Reopens ==
    /\ link = "retrying" /\ phase \in {"connecting", "online"}
    /\ IF awaits = "ack" THEN phase' = "leaving" ELSE UNCHANGED phase
    /\ link' \in {"retrying", "up"}
    /\ UNCHANGED <<mode, offline, attempt, replied, pending, prompt, threads>>

\* It gives up, after one attempt at least.
GivesUp ==
    /\ link = "retrying" /\ awaits # "ack" /\ Len(pending) < MaxPending
    /\ link' = "dead"
    /\ EventHook("giveup", FALSE)
    /\ UNCHANGED phase

\* How many rows of t are held back.
Held(t) == Cardinality({i \in DOMAIN pending : pending[i] = t})

\* run starts, unless a loss was among what was held back.
Started(rendered) ==
    /\ phase = "connecting" /\ replied /\ phase' = "online"
    /\ LET Lost(i) == Terminal(pending[i])
           lost == \E i \in DOMAIN pending : Lost(i)
       IN  /\ SignalTerminalLinkLoss(lost)
           /\ awaits' = IF lost THEN "returned" ELSE "line"
           /\ reading' = ~lost
    /\ tally' = [t \in Threads |-> tally[t] + IF t \in rendered THEN Held(t) ELSE 0]
    /\ pending' = <<>>
    /\ UNCHANGED <<mode, offline, link, attempt, replied, stale, target, previous, unread>>

\* Seeded fault: the DMs of the connect phase are printed and not counted.
Settles_Printed == Started({"ch"})

\* Nothing has come for a while after the c reply: what was held back is
\* rendered, the DMs as one line, and all counted.
Settles == Started(Threads)

-----------------------------------------------------------------------------
(* The prompt *)

\* The next thing run does is await w, in a thread that reads a line or not.
Awaits(w) == awaits' = w /\ reading' = (w \in {"line", "yesno", "count"})

\* A line is typed: the thread that reads it may be a stale one.
Taken == UNCHANGED stale
Swallowed ==
    /\ stale > 0 /\ phase \in {"online", "offline", "asked", "leaving"}
    /\ stale' = stale - 1
    /\ UNCHANGED <<mode, phase, connection, stop, reason, awaits, reading, threads>>

At(w) == InUi /\ awaits = w /\ ~stop

\* The thread is read.
SwitchTo(t) ==
    /\ target' = t
    /\ unread' = [unread EXCEPT ![t] = 0] /\ tally' = [tally EXCEPT ![t] = 0]

\* /dm CALL.
DmCommand ==
    /\ At("line") /\ Awaits("line") /\ Taken
    /\ SwitchTo("dm")
    /\ UNCHANGED <<mode, phase, connection, stop, reason, previous>>

\* /ch: of a channel the user is not subscribed to it asks whether to.
ChCommand ==
    /\ At("line") /\ Taken
    /\ \/ Awaits("line") /\ UNCHANGED previous
       \/ ~offline /\ Awaits("yesno") /\ previous' = target
    /\ SwitchTo("ch")
    /\ UNCHANGED <<mode, phase, connection, stop, reason>>

\* n restores the target.
Declines ==
    /\ At("yesno") /\ Awaits("line") /\ Taken
    /\ target' = previous
    /\ UNCHANGED <<mode, phase, connection, stop, reason, previous, unread, tally>>

\* /back.
Back ==
    /\ At("line") /\ Awaits("line") /\ Taken
    /\ target' = "none"
    /\ UNCHANGED <<mode, phase, connection, stop, reason, previous, unread, tally>>

\* A line that is sent, refused, or asks for something: run reads the next one,
\* whatever it raises.
OtherLine ==
    /\ At("line") /\ Awaits("line") /\ Taken
    /\ UNCHANGED <<mode, phase, connection, stop, reason, threads>>

\* /sub, or y: the ack is awaited without a limit.  On a link that is down the
\* frame cannot be sent and run prints the error.
HandleSub ==
    /\ At("line") \/ At("yesno")
    /\ Awaits(IF link = "up" /\ ~offline THEN "ack" ELSE "line") /\ Taken
    /\ UNCHANGED <<mode, phase, connection, stop, reason, threads>>

\* The ack: the user is asked how many posts to fetch, if there are any and the
\* command did not say.
SubAck ==
    /\ phase = "online" /\ awaits = "ack" /\ link = "up"
    /\ \E w \in {"count", "line"} : Awaits(w)
    /\ UNCHANGED <<mode, phase, connection, stop, reason, stale, threads>>

CountTyped ==
    /\ At("count") /\ Awaits("line") /\ Taken
    /\ UNCHANGED <<mode, phase, connection, stop, reason, threads>>

\* /quit closes the client first.
Quit ==
    /\ At("line") /\ Awaits("returned") /\ Taken
    /\ stop' = TRUE /\ link' = "dead"
    /\ UNCHANGED <<mode, phase, offline, attempt, replied, pending, reason, threads>>

\* The end of stdin: run ends; a question takes its default first, and n
\* restores the target.
EndOfInput ==
    /\ At("line") \/ At("yesno") \/ At("count")
    /\ Awaits(IF awaits = "line" THEN "returned" ELSE "line") /\ Taken
    /\ target' = IF awaits = "yesno" THEN previous ELSE target
    /\ UNCHANGED <<mode, phase, connection, stop, reason, previous, unread, tally>>

Woken ==
    /\ InUi /\ stop /\ awaits \in {"line", "yesno", "count"}
    /\ Awaits("returned")
    /\ target' = IF awaits = "yesno" THEN previous ELSE target
    /\ UNCHANGED <<mode, phase, connection, stop, reason, previous, unread, tally>>

\* Seeded fault: the stop is seen when the line has been read.
StopWakes_Late == ~reading /\ Woken /\ UNCHANGED stale

\* _stop wakes _read_line, whose thread goes on reading.
StopWakes == Woken /\ stale' = stale + 1

-----------------------------------------------------------------------------
(* After the prompt *)

\* run has returned: the client is closed; after a loss for good the user is
\* asked.
RunReturns ==
    /\ InUi /\ awaits = "returned"
    /\ phase' = IF reason = "terminal" THEN "asked" ELSE "leaving"
    /\ link' = "dead" /\ awaits' = "none"
    /\ UNCHANGED <<mode, offline, attempt, replied, pending, stop, reason, reading, stale, threads>>

\* Connect again: the picker has <offline> too, and what it returns is connected
\* to all the same.
Reconnect ==
    /\ phase = "asked" /\ stale < MaxStale
    /\ \E p \in {"wps", "offline"} : (p = "offline" => picker) /\ Connects(p)

QuitAsked ==
    /\ phase = "asked" /\ phase' = "leaving"
    /\ UNCHANGED <<mode, connection, prompt, threads>>

\* asyncio.run waits for the threads.
Exits ==
    /\ phase = "leaving" /\ stale = 0
    /\ phase' = "exited"
    /\ UNCHANGED <<mode, connection, prompt, threads>>

-----------------------------------------------------------------------------
Init ==
    /\ auto \in BOOLEAN /\ picker \in BOOLEAN
    /\ phase = "start" /\ offline = FALSE
    /\ link = "dead" /\ attempt = 0 /\ replied = FALSE /\ pending = <<>>
    /\ stop = FALSE /\ reason = "none" /\ awaits = "none" /\ reading = FALSE /\ stale = 0
    /\ target = "none" /\ previous = "none"
    /\ unread \in [Threads -> 0 .. MaxUnread] /\ tally = [t \in Threads |-> 0]

User ==
    \/ PickProfile \/ CancelConnect \/ Reconnect \/ QuitAsked \/ Swallowed
    \/ DmCommand \/ ChCommand \/ Declines \/ Back \/ OtherLine
    \/ HandleSub \/ CountTyped \/ Quit \/ EndOfInput

Client ==
    \/ OpenFails \/ OpenSucceeds \/ Reply \/ Disconnects \/ Reopens \/ GivesUp
    \/ \E t \in Threads, new \in BOOLEAN : Receives(t, new)

Program == Settles \/ SubAck \/ StopWakes \/ RunReturns \/ Exits

Next == User \/ Client \/ Program

Spec == Init /\ [][Next]_vars

\* The event loop runs what is ready; nothing is assumed of the user, the
\* server or the link.
FairSpec == Spec /\ WF_vars(StopWakes) /\ WF_vars(RunReturns)
=============================================================================
