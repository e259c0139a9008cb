---------------------------- MODULE ChannelProps ----------------------------
(* What the dialogs and the input line owe the user, on one channel.       *)
EXTENDS Channel

\* Every variable has its type, and an entry of the client's table belongs to a
\* caller that has not been resumed.
TypeOK ==
    /\ ui \in Uis /\ {sub, held, subscribed, paused, editing, switching, wish, lost} \subseteq BOOLEAN
    /\ wire \in Seq({"in", "out", "unpause"}) /\ Len(wire) <= MaxFrames + 1
    /\ acks \in Seq({"in", "out", "pch"}) /\ Len(acks) <= MaxEvents
    /\ waiter \in Asks \union {Nobody}
    /\ asking \in [Asks -> {"idle", "waiting", "answered"}]
    /\ waiter # Nobody => asking[waiter] # "idle"
    /\ events \in 0 .. MaxEvents /\ cached \in {"unknown", "in", "out"}
    /\ modal \in Stages /\ target \in Places /\ reply \in Places
    /\ prompt \in [mode : Modes, place : Places]

\* Nothing that was said of the channel is still to be done, heard or answered.
\* (A call that waits may be left: one that nobody will answer.)
Quiet == wire = <<>> /\ acks = <<>> /\ Settled

\* urwid: once all is done and heard, the user is in the channel or out of it as
\* last said, even when Esc came before the ack (_open_subscribe_modal waits for
\* the dialog's task and undoes its subscription).  The one exception is Esc at a
\* dialog whose call took the place of one that still waited: it leaves him in.
CancelIsHonoured == ui = "urwid" /\ Quiet => (sub <=> wish \/ lost)

\* The cached answer of _is_subscribed is the store's, or a cs event that drops
\* it is in the queue.
CacheIsStore == cached # "unknown" /\ (cached = "in") # subscribed => events > 0

\* With no cs frame or ack under way, the store has the server's word.
StoreIsServer ==
    (\A i \in DOMAIN wire : wire[i] = "unpause") /\ (\A i \in DOMAIN acks : acks[i] = "pch")
        => subscribed = sub

\* A channel whose posts the server holds back is listed as paused, unless its
\* headers or the unpause are under way: the user is never left waiting for
\* posts nothing asks for.
HeldIsListed ==
    held => paused \/ (\E i \in DOMAIN acks : acks[i] = "pch")
                   \/ (\E i \in DOMAIN wire : wire[i] = "unpause")

\* The last word among the frames s is b: it is the last one that is not of the
\* kind `other', and where there is none the state `now' that they lead to.
LastWord(s, other, now, b) ==
    \/ (\A i \in DOMAIN s : s[i] = other) /\ (now <=> b)
    \/ \E i \in DOMAIN s :
          /\ s[i] # other /\ (s[i] = "in" <=> b)
          /\ \A j \in DOMAIN s : j > i => s[j] = other

\* Why: the last ack under way tells what the server has done last, and urwid's
\* last cs frame under way is what the user said last, unless the task of a
\* dialog that was left has yet to undo its own, or never will.
AcksTellSub == LastWord(acks, "pch", subscribed, sub)
WishIsLast ==
    ui = "urwid" /\ waiter # "closed" => LastWord(wire, "unpause", sub, wish \/ lost)

\* An answered caller is the one in the table, and one in the table that waits has
\* its ack coming; the dialog on screen has its caller and is what the user wants;
\* the task of one that was left waits in the table only as long as the user has
\* not asked again, and it finds room for its frame.
CallersAgree ==
    /\ \A w \in Asks : asking[w] = "answered" => waiter = w
    /\ waiter # Nobody /\ asking[waiter] = "waiting" =>
          \/ \E i \in DOMAIN wire : wire[i] = "in"
          \/ \E i \in DOMAIN acks : acks[i] = "in"
    /\ modal = "subscribing" => wish
    /\ modal = "subscribing" /\ ui = "urwid" => asking["dialog"] # "idle" /\ waiter # "closed"
    /\ waiter = "closed" => ~wish /\ ~lost
    /\ Len(wire) > MaxFrames => waiter \notin {"dialog", "closed"}

\* What the client and the UI believe of the channel is what the server does.
ChannelInv ==
    /\ TypeOK /\ CacheIsStore /\ StoreIsServer /\ HeldIsListed
    /\ AcksTellSub /\ WishIsLast /\ CallersAgree

\* What the input line will do with the next line, and where it goes.
Mode == IF editing THEN "edit" ELSE IF reply # "none" THEN "reply" ELSE "send"
Place == CASE Mode = "edit" -> "none" [] Mode = "reply" -> reply [] OTHER -> target

\* The prompt says what the next line will be, and where it goes: but while a
\* pane is mounted, and in urwid's reply mode, whose caption names the target.
PromptTellsTruth ==
    /\ ~switching \/ Mode # "send" => prompt.mode = Mode
    /\ ~switching /\ ~(ui = "urwid" /\ Mode = "reply") => prompt.place = Place

\* textual: a subscribe dialog never waits forever: an ack comes for it.
DialogAnswered == ui = "textual" /\ modal = "subscribing" ~> modal # "subscribing"
=============================================================================
