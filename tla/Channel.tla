------------------------------ MODULE Channel ------------------------------
(***************************************************************************)
(* One channel as a full-screen UI (ui/textual_ui.py or ui/urwid_ui.py)    *)
(* lets the user into it and out of it: the subscribe, unpause and         *)
(* unsubscribe dialogs, the slash commands that do the same, the cs and cu *)
(* frames and the acks still under way, the store's subscribed column, the *)
(* UI's cache of it, and the input line with its reply and edit modes.     *)
(* The session is up throughout: a lost link is WpsLink's, a dialog that   *)
(* runs into one is in the README.  What a line that is sent does to the   *)
(* store is Delivery's, what a pane shows is Threads'.  A task that a key  *)
(* starts has begun before the next key, one that can go on does before    *)
(* the next key or the next frame that the server serves.                  *)
(***************************************************************************)
EXTENDS Naturals, Sequences, FiniteSets

CONSTANTS
    MaxFrames,  \* bound: frames that keys put on their way to the server
    MaxEvents   \* bound: acks on their way to the UI

ASSUME BoundsAssumption == MaxFrames \in Nat \ {0} /\ MaxEvents \in Nat \ {0}

Uis == {"textual", "urwid"}
Asks == {"dialog", "closed", "command"}
Nobody == "nobody"
Stages == {"none", "confirm", "subscribing", "count", "unpause", "unpausecount", "unsubscribe"}
Places == {"none", "ch", "dm"}
Modes == {"send", "reply", "edit"}

VARIABLES
    ui,         \* which of the two UIs runs
    sub,        \* the server has this user subscribed
    held,       \* the server holds posts back: the channel is paused
    wire,       \* cs and cu frames on their way to the server
    acks,       \* cs acks and pch headers on their way to the client
    subscribed, \* the store's subscribed column
    paused,     \* the client lists the channel in _paused_channels
    waiter,     \* whose future _cs_ack_waiters holds, or Nobody
    asking,     \* each caller of subscribe_and_wait: idle, waiting or answered
    events,     \* cs events in the UI's queue
    cached,     \* _subscribed_cids: unknown (None), in or out
    modal,      \* the dialog on screen and its stage
    target,     \* UI._target
    reply,      \* where the pending reply goes, none if there is none
    editing,    \* an edit is pending
    prompt,     \* what the input line says: the mode and the place
    switching,  \* _target is set, the prompt not yet: the pane is being mounted
    wish,       \* whether the user wants in, as last said
    lost        \* history: that was Esc at a dialog whose ack nobody will hand it

server == <<sub, held, wire, acks>>
client == <<subscribed, paused, waiter, asking>>
line == <<target, reply, editing, prompt, switching>>
said == <<wish, lost>>
vars == <<ui, server, client, events, cached, modal, line, said>>

\* What the user says of the channel, b: in or out.
Says(b) == wish' = b /\ lost' = FALSE

\* Three callers of subscribe_and_wait: "dialog" is the dialog on screen, "closed"
\* one that was left while it waited, "command" is /sub with a count.
\* One that is answered goes on at once.
Settled == \A w \in Asks : asking[w] # "answered"

\* Textual's handler of a submitted line waits for that command's ack, and no
\* key is handled meanwhile.
Attends == Settled /\ (ui = "textual" => asking["command"] = "idle")
Keys == Attends /\ modal = "none"

-----------------------------------------------------------------------------
(* The client's calls *)

Sends(frame) == wire' = Append(wire, frame)
Room == Len(wire) < MaxFrames

\* The store's row becomes what the ack says.
Acked(ack) == subscribed' = (ack = "in")

\* subscribe_and_wait up to its await: an earlier caller that waits is
\* cancelled, and when it ends takes the new entry out of the table with it.
SubscribeAndWait(who) ==
    LET superseded == waiter # Nobody /\ asking[waiter] = "waiting" IN
    /\ Room /\ Sends("in")
    /\ waiter' = IF superseded THEN Nobody ELSE who
    /\ asking' = [w \in Asks |-> IF w = who THEN "waiting"
                                 ELSE IF superseded /\ w = waiter THEN "idle" ELSE asking[w]]

Unsubscribe == Sends("out")

UnpauseChannel == Room /\ Sends("unpause") /\ paused' = FALSE

-----------------------------------------------------------------------------
(* The input line *)

TextualPrompt(t, r, e) ==
    IF e THEN [mode |-> "edit", place |-> "none"]
    ELSE IF r # "none" THEN [mode |-> "reply", place |-> r]
    ELSE [mode |-> "send", place |-> t]

\* urwid's caption names the target, in reply mode too.
UrwidCaption(t, r, e) ==
    IF e THEN [mode |-> "edit", place |-> "none"]
    ELSE IF r # "none" THEN [mode |-> "reply", place |-> t]
    ELSE [mode |-> "send", place |-> t]

RefreshPrompt(t, r, e) ==
    prompt' = IF ui = "textual" THEN TextualPrompt(t, r, e) ELSE UrwidCaption(t, r, e)

\* _is_subscribed: the answer is read from the store if it is not cached.
IsSubscribed == IF cached = "unknown" THEN subscribed ELSE cached = "in"
Consults == cached' = IF IsSubscribed THEN "in" ELSE "out"

\* A thread becomes the target.
SwitchTo(t) ==
    /\ target' = t /\ RefreshPrompt(t, reply, editing)
    /\ UNCHANGED <<reply, editing, switching>>

\* A dialog has ended well and the channel becomes the target.  In textual its
\* pane may have to be mounted first.
Accepted ==
    /\ target' = "ch" /\ UNCHANGED <<reply, editing>>
    /\ \/ RefreshPrompt("ch", reply, editing) /\ UNCHANGED switching
       \/ ui = "textual" /\ switching' = TRUE /\ UNCHANGED prompt

\* The pane is there.
Switched ==
    /\ switching /\ switching' = FALSE /\ RefreshPrompt(target, reply, editing)
    /\ UNCHANGED <<ui, server, client, events, cached, modal, target, reply, editing, said>>

\* Reply in the action menu of a row: urwid wants the row in the target thread.
\* A channel must be subscribed to and not paused.
BeginReply(t) ==
    /\ Keys /\ (ui = "urwid" => target = t)
    /\ IF t = "ch" THEN Consults ELSE UNCHANGED cached
    /\ t = "ch" => IsSubscribed /\ ~paused
    /\ reply' = t /\ RefreshPrompt(target, t, editing)
    /\ UNCHANGED <<ui, server, client, events, modal, target, editing, switching, said>>

BeginEdit ==
    /\ Keys
    /\ editing' = TRUE /\ RefreshPrompt(target, reply, TRUE)
    /\ UNCHANGED <<ui, server, client, events, cached, modal, target, reply, switching, said>>

\* Esc outside a dialog.
FocusInput ==
    /\ Keys
    /\ reply' = "none" /\ editing' = FALSE /\ RefreshPrompt(target, "none", FALSE)
    /\ UNCHANGED <<ui, server, client, events, cached, modal, target, switching, said>>

\* Seeded fault: the edit is over and the prompt still says so.
ConsumePendingEdit_NoPrompt ==
    /\ editing /\ editing' = FALSE
    /\ UNCHANGED <<cached, target, reply, prompt, switching>>

ConsumePendingEdit ==
    /\ editing /\ editing' = FALSE /\ RefreshPrompt(target, reply, FALSE)
    /\ UNCHANGED <<cached, target, reply, switching>>

ConsumePendingReply ==
    /\ ~editing /\ reply # "none"
    /\ reply' = "none" /\ RefreshPrompt(target, "none", FALSE)
    /\ UNCHANGED <<cached, target, editing, switching>>

\* A plain line: a post asks whether the channel is subscribed to.
SendToTarget ==
    /\ ~editing /\ reply = "none"
    /\ IF target = "ch" THEN Consults ELSE UNCHANGED cached
    /\ UNCHANGED line

\* Enter.  An empty line ends an edit or a reply in textual; urwid ignores it.
InputSubmitted(empty) ==
    /\ Keys
    /\ empty => ui = "textual"
    /\ \/ ConsumePendingEdit \/ ConsumePendingReply
       \/ ~empty /\ SendToTarget
    /\ UNCHANGED <<ui, server, client, events, modal, said>>

-----------------------------------------------------------------------------
(* Into the channel *)

\* Enter on the channel in the list, or /ch: a paused one asks whether to
\* unpause, one not subscribed to whether to subscribe.
Activate ==
    /\ Keys
    /\ IF paused THEN UNCHANGED cached ELSE Consults
    /\ \/ paused /\ modal' = "unpause" /\ UNCHANGED line
       \/ ~paused /\ ~IsSubscribed /\ modal' = "confirm" /\ UNCHANGED line
       \/ ~paused /\ IsSubscribed /\ SwitchTo("ch") /\ UNCHANGED modal
    /\ UNCHANGED <<ui, server, client, events, said>>

\* A DM, from the list, from the dialog that asks for a callsign, or /dm.
ActivateDm ==
    /\ Keys
    /\ SwitchTo("dm")
    /\ UNCHANGED <<ui, server, client, events, cached, modal, said>>

\* Seeded fault: the frame is sent and nothing waits for its ack.
Yes_Unawaited ==
    /\ Attends /\ modal \in {"confirm", "none"}
    /\ modal' = "subscribing" /\ Says(TRUE)
    /\ Room /\ Sends("in")
    /\ UNCHANGED <<ui, sub, held, acks, client, events, cached, line>>

\* y in the subscribe dialog, or /sub, which opens it past that question.
Yes ==
    /\ Attends /\ modal \in {"confirm", "none"}
    /\ modal' = "subscribing" /\ Says(TRUE)
    /\ SubscribeAndWait("dialog")
    /\ UNCHANGED <<ui, sub, held, acks, subscribed, paused, events, cached, line>>

\* /sub with a count: no dialog.
SubCommand ==
    /\ Keys /\ asking["command"] = "idle"
    /\ Says(TRUE) /\ SubscribeAndWait("command")
    /\ UNCHANGED <<ui, sub, held, acks, subscribed, paused, events, cached, modal, line>>

\* n or Esc where nothing has been asked of the server.
No ==
    /\ Attends /\ modal \in {"confirm", "unpause", "unpausecount", "unsubscribe"}
    /\ modal' = "none"
    /\ UNCHANGED <<ui, server, client, events, cached, line, said>>

\* A caller of subscribe_and_wait whose future is set goes on.
Resumes(who) == asking[who] = "answered" /\ waiter' = Nobody

\* The dialog asks how many posts to fetch; textual's ends here when the server
\* has none.
Subscribed ==
    /\ Resumes("dialog") /\ asking' = [asking EXCEPT !["dialog"] = "idle"]
    /\ \/ modal' = "count" /\ UNCHANGED line
       \/ ui = "textual" /\ modal' = "none" /\ Accepted
    /\ UNCHANGED <<ui, server, subscribed, paused, events, cached, said>>

\* Enter at the count.
Counted ==
    /\ modal = "count" /\ Attends
    /\ modal' = "none" /\ Accepted
    /\ cached' = IF ui = "urwid" THEN "unknown" ELSE cached
    /\ UNCHANGED <<ui, server, client, events, said>>

\* /sub with a count goes on; urwid goes to the channel.
CommandSubscribed ==
    /\ Resumes("command") /\ asking' = [asking EXCEPT !["command"] = "idle"]
    /\ IF ui = "urwid" THEN cached' = "unknown" /\ SwitchTo("ch")
                       ELSE UNCHANGED <<cached, line>>
    /\ UNCHANGED <<ui, server, subscribed, paused, events, modal, said>>

-----------------------------------------------------------------------------
(* Out of the channel *)

\* Esc at the count: the subscription is undone.
CancelCount ==
    /\ modal = "count" /\ Attends
    /\ modal' = "none" /\ Says(FALSE)
    /\ Room /\ Unsubscribe
    /\ cached' = IF ui = "urwid" THEN "unknown" ELSE cached
    /\ UNCHANGED <<ui, sub, held, acks, client, events, line>>

\* Esc before the ack, textual: the dialog's worker is cancelled with it.
TextualCancel ==
    /\ ui = "textual" /\ modal = "subscribing" /\ Attends
    /\ modal' = "none" /\ Says(FALSE)
    /\ asking' = [asking EXCEPT !["dialog"] = "idle"] /\ waiter' = Nobody
    /\ UNCHANGED <<ui, server, subscribed, paused, events, cached, line>>

\* Seeded fault: the dialog's task is not waited for.
UrwidCancel_NoWait ==
    /\ ui = "urwid" /\ modal = "subscribing" /\ Attends
    /\ modal' = "none" /\ wish' = FALSE /\ lost' = (waiter # "dialog")
    /\ asking' = [asking EXCEPT !["dialog"] = "idle"]
    /\ waiter' = IF waiter = "dialog" THEN Nobody ELSE waiter
    /\ UNCHANGED <<ui, server, subscribed, paused, events, cached, line>>

\* Esc before the ack, urwid: the dialog is gone, its task still waits.  If the
\* call took the place of another, nobody will answer it and it waits for ever.
UrwidCancel ==
    /\ ui = "urwid" /\ modal = "subscribing" /\ Attends
    /\ modal' = "none" /\ wish' = FALSE /\ lost' = (waiter # "dialog")
    /\ asking' = [asking EXCEPT !["dialog"] = "idle", !["closed"] = asking["dialog"]]
    /\ waiter' = IF waiter = "dialog" THEN "closed" ELSE waiter
    /\ UNCHANGED <<ui, server, subscribed, paused, events, cached, line>>

\* That task has got its ack: the subscription is undone.
ClosedSubscribed ==
    /\ Resumes("closed") /\ asking' = [asking EXCEPT !["closed"] = "idle"]
    /\ Unsubscribe
    /\ cached' = "unknown"
    /\ UNCHANGED <<ui, sub, held, acks, subscribed, paused, events, modal, line, said>>

\* ctrl-u on a channel subscribed to.
UnsubChannel ==
    /\ Keys /\ target = "ch" /\ IsSubscribed /\ Consults
    /\ modal' = "unsubscribe"
    /\ UNCHANGED <<ui, server, client, events, line, said>>

\* y in its dialog, or /unsub.
Unsub ==
    /\ Attends /\ modal \in {"unsubscribe", "none"}
    /\ modal' = "none" /\ Says(FALSE)
    /\ Room /\ Unsubscribe
    /\ UNCHANGED <<ui, sub, held, acks, client, events, cached, line>>

-----------------------------------------------------------------------------
(* Paused *)

\* y in the unpause dialog.
UnpauseYes ==
    /\ Attends /\ modal = "unpause" /\ modal' = "unpausecount"
    /\ UNCHANGED <<ui, server, client, events, cached, line, said>>

\* Enter at its count.
UnpauseCounted ==
    /\ Attends /\ modal = "unpausecount" /\ modal' = "none"
    /\ UnpauseChannel /\ Accepted
    /\ UNCHANGED <<ui, sub, held, acks, subscribed, waiter, asking, events, cached, said>>

\* /unpause, which takes a count whether or not the channel is listed.
UnpauseCommand ==
    /\ Keys
    /\ UnpauseChannel
    /\ UNCHANGED <<ui, sub, held, acks, subscribed, waiter, asking, events, cached, modal, line, said>>

-----------------------------------------------------------------------------
(* The server and the reader task *)

\* The server does what a frame asks; only cs is acked.  It is far away.
Serves ==
    /\ wire # <<>> /\ Len(acks) < MaxEvents
    /\ Settled
    /\ wire' = Tail(wire)
    /\ LET frame == Head(wire) IN
       /\ sub' = IF frame = "unpause" THEN sub ELSE frame = "in"
       /\ held' = (held /\ frame # "unpause")
       /\ acks' = IF frame = "unpause" THEN acks ELSE Append(acks, frame)
    /\ UNCHANGED <<ui, client, events, cached, modal, line, said>>

\* A cs ack: the store is written, the caller that waits is answered (by a
\* subscription only), the UI is told.
OnSubscribeAck ==
    /\ acks # <<>> /\ Head(acks) # "pch" /\ events < MaxEvents
    /\ acks' = Tail(acks) /\ events' = events + 1
    /\ Acked(Head(acks))
    /\ asking' = IF Head(acks) = "in" /\ waiter # Nobody
                 THEN [asking EXCEPT ![waiter] = "answered"] ELSE asking
    /\ UNCHANGED <<ui, sub, held, wire, paused, waiter, cached, modal, line, said>>

OnPausedHeaders ==
    /\ acks # <<>> /\ Head(acks) = "pch"
    /\ acks' = Tail(acks) /\ paused' = TRUE
    /\ UNCHANGED <<ui, sub, held, wire, subscribed, waiter, asking, events, cached, modal, line, said>>

\* Seeded fault: the cache is kept.
HandleCs_Cached ==
    /\ events > 0 /\ events' = events - 1
    /\ UNCHANGED <<ui, server, client, cached, modal, line, said>>

\* The UI takes a cs event.
HandleCs ==
    /\ events > 0 /\ events' = events - 1
    /\ cached' = "unknown"
    /\ UNCHANGED <<ui, server, client, modal, line, said>>

-----------------------------------------------------------------------------
\* The connect phase is over.  The headers of a paused channel may not be in.
Init ==
    /\ ui \in Uis
    /\ sub \in BOOLEAN /\ held \in {FALSE, sub} /\ wish = sub
    /\ wire = <<>> /\ subscribed = sub
    /\ \/ held /\ acks = <<"pch">> /\ paused = FALSE
       \/ acks = <<>> /\ paused = held
    /\ waiter = Nobody /\ asking = [w \in Asks |-> "idle"]
    /\ events = 0 /\ cached = "unknown" /\ modal = "none" /\ lost = FALSE
    /\ target = "none" /\ reply = "none" /\ editing = FALSE
    /\ prompt = [mode |-> "send", place |-> "none"] /\ switching = FALSE

Commands ==
    \/ Yes \/ SubCommand \/ Unsub \/ UnpauseCommand
    \/ Activate \/ ActivateDm

Dialogs ==
    \/ No \/ Counted \/ CancelCount \/ TextualCancel \/ UrwidCancel
    \/ UnpauseYes \/ UnpauseCounted \/ UnsubChannel

InputLine ==
    \/ \E t \in {"ch", "dm"} : BeginReply(t)
    \/ BeginEdit \/ FocusInput
    \/ \E empty \in BOOLEAN : InputSubmitted(empty)

Tasks == Subscribed \/ ClosedSubscribed \/ CommandSubscribed \/ Switched \/ HandleCs

Reader == OnSubscribeAck \/ OnPausedHeaders

Next == Commands \/ Dialogs \/ InputLine \/ Tasks \/ Reader \/ Serves

Spec == Init /\ [][Next]_vars

\* The server answers, and no task of the event loop waits forever to run.
FairSpec ==
    /\ Spec
    /\ WF_vars(Serves) /\ WF_vars(Reader)
    /\ WF_vars(Subscribed) /\ WF_vars(ClosedSubscribed) /\ WF_vars(CommandSubscribed)
    /\ WF_vars(Switched) /\ WF_vars(HandleCs)
=============================================================================
