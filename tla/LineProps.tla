----------------------------- MODULE LineProps -----------------------------
(* What the program with the line UI owes its user.                        *)
EXTENDS LineSession

\* Every variable has its type; the client is opened MaxAttempts times at most.
TypeOK ==
    /\ {auto, picker, offline, replied, stop, reading} \subseteq BOOLEAN
    /\ phase \in Phases /\ link \in {"opening", "up", "retrying", "dead"}
    /\ attempt \in 0 .. MaxAttempts
    /\ pending \in Seq(Threads \union Losses) /\ Len(pending) <= MaxPending
    /\ reason \in {"none", "terminal"} /\ awaits \in Waits /\ stale \in 0 .. MaxStale
    /\ {target, previous} \subseteq Threads \union {"none"}
    /\ unread \in [Threads -> 0 .. MaxUnread] /\ tally \in [Threads -> 0 .. MaxUnread]

\* The user is never left at the prompt of a link that will not come back: from
\* the connect phase on, whoever was told of the loss has set _stop.
DeadLinkStops == phase = "online" /\ link = "dead" => stop

\* Why: in the connect phase nobody has been told yet, but a loss for good is
\* among what is held back; at the prompt whoever was told has set _stop.
LossIsKnown ==
    /\ phase = "connecting" => /\ reason = "none"
                               /\ link = "dead" => \E i \in DOMAIN pending : Terminal(pending[i])
    /\ phase = "online" /\ reason = "terminal" => stop

\* What keeps the counters in their bounds: the tally has room for what is held
\* back, and a reader thread is abandoned once a session.
CountersFit ==
    /\ phase = "start" => pending = <<>>
    /\ \A t \in Threads : tally[t] + Held(t) <= MaxUnread
    /\ phase \in {"start", "connecting"} \/ (InUi /\ awaits # "returned") => stale < MaxStale

\* The session follows its link, and the counters keep within the model's bounds;
\* with UnreadCounted below this is inductive.
LineInv == TypeOK /\ DeadLinkStops /\ LossIsKnown /\ CountersFit

\* No unread row is missing from the tally the notices are made of, be it held
\* back in the connect phase or counted by the UI before.
UnreadCounted ==
    phase = "connecting" \/ InUi =>
        \A t \in Threads : unread[t] <= tally[t] + Held(t)

\* A stop ends the session without another key, but while an ack is awaited.
StopEndsPrompt == stop /\ awaits # "ack" ~> ~InUi

\* _signal_terminal_link_loss: run "returns immediately rather than waiting for
\* the user to hit Enter. Setting self._stop is sufficient".
LossEndsRun == reason = "terminal" ~> ~InUi
=============================================================================
