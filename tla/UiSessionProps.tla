---------------------------- MODULE UiSessionProps ----------------------------
(***************************************************************************)
(* What UiSession is checked for.                                           *)
(***************************************************************************)
EXTENDS UiSession

(* The type of each variable. *)
TypeOK ==
    /\ auto \in BOOLEAN
    /\ link \in [Clients -> Links]
    /\ current \in 0 .. MaxClients /\ held \in 0 .. MaxClients
    /\ at \in [Flows -> InModal \union {"idle", "starting"}]
    /\ \A i \in 1 .. Len(stack) : stack[i] \in Flows \union {"quit"}
    /\ active \in Flows \union {"none"} /\ pausing \subseteq Flows
    /\ program \in {"running", "exiting", "over"}

(* Whatever windows were abandoned and however the sessions ended, at most    *)
(* one client still has tasks or a socket, and it is the one the opener will  *)
(* close before it makes the next (cli.py:662-671) or when the program ends.  *)
NoClientLeaks ==
    /\ \A c \in Clients : link[c] \notin {"unused", "closed"} => c = held
    /\ program = "over" => \A c \in Clients : link[c] \in {"unused", "closed"}

(* A window that can be seen has someone waiting for its answer: no key goes  *)
(* to a window whose task has gone on (urwid_ui.py:3832-3862).                *)
WindowsAreAwaited ==
    /\ \A i, j \in 1 .. Len(stack) : stack[i] = stack[j] => i = j
    /\ \A f \in Flows : \A i \in 1 .. Len(stack) : stack[i] = f => at[f] \in InModal
    /\ active # "none" <=> \E f \in Flows : at[f] \in Connecting \union {"reconnect"}

(* The main screen is never left to itself without a client: its handlers     *)
(* call methods of UrwidUI._client unguarded.                                 *)
ScreenHasClient ==
    program = "running" /\ stack = <<>> /\ at["B"] # "starting" /\ at["D"] # "starting" =>
        current # 0

(* Clients are neither lost nor missing.                                      *)
UiInv == TypeOK /\ NoClientLeaks /\ ScreenHasClient

(* The window that says the client reconnects goes away once the client has   *)
(* made it or has given up (urwid_ui.py:2526-2550, 4757-4799).                *)
ReconnectingEnds ==
    at["D"] = "reconnect" /\ link[current] = "retrying" ~>
        at["D"] # "reconnect" \/ program # "running"

(* A loss that is told while no flow is at work starts one.                   *)
LossIsHandled ==
    /\ events # <<>> /\ Head(events) \in {"_disconnect", "_silence_disconnect"}
    /\ active = "none"
    ~> \/ at["D"] # "idle" \/ active # "none" \/ program # "running"

=============================================================================
