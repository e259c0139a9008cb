------------------------------ MODULE UiSession ------------------------------
(***************************************************************************)
(* The session of the full-screen UI (ui/urwid_ui.py; textual_ui.py has the *)
(* same flow): the profile picker, the connect window, the main screen, the *)
(* window shown while the client reconnects, and the way out.  Two tasks    *)
(* ask the user for a profile and connect: "B", _bootstrap_session, at the  *)
(* start, and "D", _handle_link_drop, made when a loss is dispatched.  The  *)
(* clients' events wait in one queue for _drain_events and carry no mark of *)
(* the client they came from.  An action that wakes a task by dismissing    *)
(* the window it waits for is one step with what the task does up to its    *)
(* next await.  The client itself is the module WpsLink; here a link is     *)
(* what its events say.                                                     *)
(***************************************************************************)
EXTENDS Integers, Sequences

CONSTANTS
    MaxClients,   \* bound: how many clients the openers make
    MaxQueue      \* bound: events waiting for _drain_events

ASSUME BoundsAssumption == MaxClients \in Nat \ {0} /\ MaxQueue \in Nat \ {0}

Clients == 1 .. MaxClients
Flows == {"B", "D"}
Links == {"unused", "opening", "up", "retrying", "lost", "spent", "offline", "closed"}

VARIABLES
    auto,      \* config.auto_reconnect
    link,      \* each client's link
    current,   \* UrwidUI._client; 0 is None
    held,      \* the opener's state["client"]; 0 is None
    events,    \* _event_queue: the clients' link events
    stack,     \* _modal_stack: a flow's window, by the flow's name, or "quit"
    at,        \* where each flow's task is
    active,    \* whose window _active_connect_modal is, or "none"
    pausing,   \* flows whose window _close_after_brief_pause will dismiss
    program    \* "running", "exiting" (_exit_future is set), "over"

vars == <<auto, link, current, held, events, stack, at, active, pausing, program>>
clientVars == <<auto, link, current, held>>
flowVars == <<stack, at, active, pausing>>

Connecting == {"open", "settle", "quiet", "error"}
InModal == Connecting \union {"picker", "reconnect"}

\* A task that a dispatch made is first in line, before the next key or timer.
Running == program = "running" /\ at["D"] # "starting"
Top(m) == stack # <<>> /\ stack[Len(stack)] = m

-----------------------------------------------------------------------------
(* Windows *)

\* _dismiss_modal pops until it has popped m: all there is if m is not there.
\* The futures of the others are left as they are.
Popped(s, m) ==
    IF \E i \in 1 .. Len(s) : s[i] = m
    THEN SubSeq(s, 1, CHOOSE n \in 0 .. Len(s) : n < Len(s) /\ s[n + 1] = m)
    ELSE <<>>

\* Task f shows the picker on top of s and waits.
Asks(f, s) ==
    /\ stack' = Append(s, f)
    /\ at' = [at EXCEPT ![f] = "picker"]
    /\ active' = "none"
    /\ pausing' = pausing \ {f}

\* Task f has what it was made for and ends.
Ends(f, s) ==
    /\ stack' = s
    /\ at' = [at EXCEPT ![f] = "idle"]
    /\ active' = "none"
    /\ pausing' = pausing \ {f}

\* close() on client c, which stops its tasks; nothing on None.
Closed(c) == [d \in Clients |-> IF d = c THEN "closed" ELSE link[d]]

\* Seeded fault: the client made last stays open.
Makes_Leaves(l) ==
    \E c \in Clients :
        /\ link[c] = "unused"
        /\ \A b \in 1 .. c - 1 : link[b] # "unused"
        /\ link' = [link EXCEPT ![c] = l]
        /\ current' = c
        /\ held' = c

\* The opener closes the client it made last and makes another.
Makes(l) ==
    \E c \in Clients :
        /\ link[c] = "unused"
        /\ \A b \in 1 .. c - 1 : link[b] # "unused"
        /\ link' = [Closed(held) EXCEPT ![c] = l]
        /\ current' = c
        /\ held' = c

-----------------------------------------------------------------------------
(* The two flows *)

\* A profile is picked: the connect window goes up and its runner starts.
Connects(f, s) ==
    /\ Makes("opening")
    /\ stack' = Append(s, f)
    /\ at' = [at EXCEPT ![f] = "open"]
    /\ active' = f
    /\ pausing' = pausing \ {f}

\* <offline> is picked: a client without a link.
GoesOffline(f, s) == Makes("offline") /\ Ends(f, s)

\* What the flags say: a profile, <offline>, or nothing, and the user is asked.
InitialProfiles == {"profile", "offline", "none"}

BootstrapStarts ==
    /\ Running /\ at["B"] = "starting"
    /\ \E initial \in InitialProfiles :
          CASE initial = "profile" -> Connects("B", stack)
            [] initial = "offline" -> GoesOffline("B", stack)
            [] initial = "none" -> Asks("B", stack) /\ UNCHANGED <<link, current, held>>
    /\ UNCHANGED <<auto, events, program>>

\* The current client is closed and the picker shown.
Reopens(s) ==
    /\ link' = Closed(current)
    /\ current' = 0
    /\ Asks("D", s)
    /\ UNCHANGED held

\* _handle_link_drop: a client that reconnects by itself is watched in a
\* window, any other is closed and the picker shown.
DropStarts ==
    /\ program = "running" /\ at["D"] = "starting"
    /\ IF auto /\ current # 0 /\ link[current] # "offline"
       THEN /\ stack' = Append(stack, "D")
            /\ at' = [at EXCEPT !["D"] = "reconnect"]
            /\ active' = "D"
            /\ UNCHANGED <<link, current, held, pausing>>
       ELSE Reopens(stack)
    /\ UNCHANGED <<auto, events, program>>

Picks(f) ==
    /\ Running /\ Top(f) /\ at[f] = "picker"
    /\ Connects(f, Popped(stack, f)) \/ GoesOffline(f, Popped(stack, f))
    /\ UNCHANGED <<auto, events, program>>

\* The runner of f's connect window: client.open(), then the reply to the
\* connect record, then quiescence (ConnectSequence.wait).
OpenReturns(f) ==
    /\ Running /\ at[f] = "open"
    /\ link' = [link EXCEPT ![held] = "up"]
    /\ at' = [at EXCEPT ![f] = "settle"]
    /\ UNCHANGED <<auto, current, held, events, stack, active, pausing, program>>

OpenFails(f) ==
    /\ Running /\ at[f] = "open"
    /\ link' = Closed(held)
    /\ held' = 0 /\ current' = 0
    /\ at' = [at EXCEPT ![f] = "error"]
    /\ UNCHANGED <<auto, events, stack, active, pausing, program>>

ReplyComes(f) ==
    /\ Running /\ at[f] = "settle" /\ link[held] = "up"
    /\ at' = [at EXCEPT ![f] = "quiet"]
    /\ UNCHANGED <<clientVars, events, stack, active, pausing, program>>

\* Seeded fault: the future is resolved and the window stays.
Settles_Keeps(f) ==
    /\ Running /\ at[f] = "quiet"
    /\ Ends(f, stack)
    /\ UNCHANGED <<clientVars, events, program>>

Settles(f) ==
    /\ Running /\ at[f] = "quiet"
    /\ Ends(f, Popped(stack, f))
    /\ UNCHANGED <<clientVars, events, program>>

\* Two seconds for the user to read the error.
ErrorShown(f) ==
    /\ Running /\ at[f] = "error"
    /\ Asks(f, Popped(stack, f))
    /\ UNCHANGED <<clientVars, events, program>>

\* The connect window is dismissed before its runner is through: the runner is
\* cancelled.  open() closes its client; ConnectSequence.wait() closes nothing;
\* one that shows its error dismisses the window a second time, which empties
\* the stack.
Abandons(f) ==
    /\ IF at[f] = "open" THEN link' = Closed(held) /\ held' = 0
                         ELSE UNCHANGED <<link, held>>
    /\ current' = 0
    /\ Asks(f, IF at[f] = "error" THEN <<>> ELSE Popped(stack, f))

-----------------------------------------------------------------------------
(* Keys *)

CancelsConnect(f) ==
    /\ Running /\ Top(f) /\ at[f] \in Connecting
    /\ Abandons(f)
    /\ UNCHANGED <<auto, events, program>>

\* _signal_clean_exit
QuitsPicker(f) ==
    /\ Running /\ Top(f) /\ at[f] = "picker"
    /\ program' = "exiting"
    /\ Ends(f, Popped(stack, f))
    /\ UNCHANGED <<clientVars, events>>

QuitsReconnect ==
    /\ Running /\ Top("D") /\ at["D"] = "reconnect"
    /\ link' = Closed(current)
    /\ program' = "exiting"
    /\ Ends("D", Popped(stack, "D"))
    /\ UNCHANGED <<auto, current, held, events>>

\* Keys that no window takes are swallowed while there is a window.
AsksToQuit ==
    /\ Running /\ stack = <<>>
    /\ stack' = <<"quit">>
    /\ UNCHANGED <<clientVars, events, at, active, pausing, program>>

AnswersQuit ==
    /\ Running /\ Top("quit")
    /\ stack' = Popped(stack, "quit")
    /\ \/ link' = Closed(current) /\ program' = "exiting"
       \/ UNCHANGED <<link, program>>
    /\ UNCHANGED <<auto, current, held, events, at, active, pausing>>

\* run_async cancels the bootstrap, and with it its runner; then the opener's
\* client is closed (_run_session_driven).
Leaves ==
    /\ program = "exiting"
    /\ program' = "over"
    /\ link' = Closed(held)
    /\ held' = 0
    /\ UNCHANGED <<auto, current, events, flowVars>>

-----------------------------------------------------------------------------
(* The clients' events (_handle_link_loss, _reconnect_loop, _silence_disconnect) *)

Tells(e) == Len(events) < MaxQueue /\ events' = Append(events, e)

LinkDrops(c) ==
    /\ Running /\ link[c] = "up"
    /\ link' = [link EXCEPT ![c] = IF auto THEN "retrying" ELSE "lost"]
    /\ Tells("_disconnect")
    /\ UNCHANGED <<auto, current, held, flowVars, program>>

RetryEnds(c) ==
    /\ Running /\ link[c] = "retrying"
    /\ \/ link' = [link EXCEPT ![c] = "up"] /\ Tells("_reconnected")
       \/ link' = [link EXCEPT ![c] = "spent"] /\ Tells("_reconnect_giveup")
    /\ UNCHANGED <<auto, current, held, flowVars, program>>

HangsUp(c) ==
    /\ Running /\ link[c] = "up"
    /\ link' = Closed(c)
    /\ Tells("_silence_disconnect")
    /\ UNCHANGED <<auto, current, held, flowVars, program>>

-----------------------------------------------------------------------------
(* _dispatch_event, for the first event of the queue *)

Takes(e) == program = "running" /\ events # <<>> /\ Head(events) = e /\ events' = Tail(events)

\* Seeded fault: only a client that reconnects by itself is looked after.
LossSeen_AutoOnly ==
    /\ Takes("_disconnect") \/ Takes("_silence_disconnect")
    /\ at' = IF at["D"] = "idle" /\ active = "none" /\ auto
             THEN [at EXCEPT !["D"] = "starting"] ELSE at
    /\ UNCHANGED <<clientVars, stack, active, pausing, program>>

LossSeen ==
    /\ Takes("_disconnect") \/ Takes("_silence_disconnect")
    /\ at' = IF at["D"] = "idle" /\ active = "none"
             THEN [at EXCEPT !["D"] = "starting"] ELSE at
    /\ UNCHANGED <<clientVars, stack, active, pausing, program>>

\* Seeded fault: the window is not told.
ReconnectedSeen_Only ==
    /\ Takes("_reconnected")
    /\ UNCHANGED <<clientVars, flowVars, program>>

ReconnectedSeen ==
    /\ Takes("_reconnected")
    /\ pausing' = pausing \union ({active} \ {"none"})
    /\ UNCHANGED <<clientVars, stack, at, active, program>>

GiveupSeen ==
    /\ Takes("_reconnect_giveup")
    /\ CASE active = "none" -> UNCHANGED <<link, current, held, flowVars>>
         [] active # "none" /\ at[active] = "reconnect" -> Reopens(Popped(stack, "D"))
         [] OTHER -> Abandons(active)
    /\ UNCHANGED <<auto, program>>

\* After 0.4 s the window is dismissed with "reconnected"; only the window of
\* _handle_link_drop has a use for that answer.
PauseEnds(f) ==
    /\ Running /\ f \in pausing
    /\ IF at[f] = "reconnect"
       THEN Ends(f, Popped(stack, f)) /\ UNCHANGED <<link, current, held>>
       ELSE Abandons(f)
    /\ UNCHANGED <<auto, events, program>>

-----------------------------------------------------------------------------
Init ==
    /\ auto \in BOOLEAN
    /\ link = [c \in Clients |-> "unused"]
    /\ current = 0
    /\ held = 0
    /\ events = <<>>
    /\ stack = <<>>
    /\ at = [f \in Flows |-> IF f = "B" THEN "starting" ELSE "idle"]
    /\ active = "none"
    /\ pausing = {}
    /\ program = "running"

Runner(f) == OpenReturns(f) \/ OpenFails(f) \/ Settles(f) \/ ErrorShown(f)
Dispatch == LossSeen \/ ReconnectedSeen \/ GiveupSeen
User ==
    \/ \E f \in Flows : Picks(f) \/ CancelsConnect(f) \/ QuitsPicker(f)
    \/ QuitsReconnect \/ AsksToQuit \/ AnswersQuit

Next ==
    \/ BootstrapStarts \/ DropStarts
    \/ \E f \in Flows : Runner(f) \/ ReplyComes(f) \/ PauseEnds(f)
    \/ User
    \/ Leaves
    \/ \E c \in Clients : LinkDrops(c) \/ RetryEnds(c) \/ HangsUp(c)
    \/ Dispatch

Spec == Init /\ [][Next]_vars

\* Tasks, timers and the queue's drain run; a call into the transport and an
\* attempt to reconnect end.  Nothing is assumed of the user or the server.
Fairness ==
    /\ WF_vars(BootstrapStarts) /\ WF_vars(DropStarts) /\ WF_vars(Leaves)
    /\ \A f \in Flows : WF_vars(Runner(f)) /\ WF_vars(PauseEnds(f))
    /\ \A c \in Clients : WF_vars(RetryEnds(c))
    /\ WF_vars(Dispatch)

FairSpec == Spec /\ Fairness
=============================================================================
