--------------------------- MODULE ThreadsProps ---------------------------
(* What the panes, the badges and the store promise one another. *)
EXTENDS Threads

Queued(t) == {i \in DOMAIN events : events[i].thread = t}

\* The variables keep their types.
TypeOK ==
    /\ \A v \in {stored, own, changed, batched, fresh}, t \in Threads : v[t] \subseteq Stamps
    /\ \A t \in Threads : read[t] \in 0 .. MaxRows /\ badge[t] \in Nat
    /\ views \subseteq Threads /\ exhausted \subseteq views
    /\ {opening, active, target} \subseteq Threads \union {NoThread}
    /\ DOMAIN pane = Threads /\ \A t \in Threads : Range(pane[t]) \subseteq stored[t]
    /\ Len(events) <= MaxEvents + MaxChanges /\ \A i \in DOMAIN events : events[i] \in Event

\* The thread on screen has no badge and, once the queue is empty, nothing in
\* the store that a restart would count as unread: reading is not forgotten.
ActiveIsRead ==
    active # NoThread =>
        /\ badge[active] = 0
        /\ Queued(active) = {} => Unread(active) = {}

\* A DM of the peer that the store counts as unread is on the badge, or the
\* event that will put it there waits: a badge that is gone hides nothing.
NoHiddenUnread ==
    LET coming == UNION {events[i].rows : i \in {j \in Queued("dm") : events[j].kind = "rows"}}
    IN  Cardinality(Unread("dm") \ coming) <= badge["dm"]

\* However late rows come and in whatever order pages, batches and own rows are
\* mounted, a pane has each row once, oldest first.
PanesInOrder ==
    \A t \in Threads : \A i, j \in DOMAIN pane[t] : i < j => pane[t][i] < pane[t][j]

\* The panes hold rows of the store, in order.
ThreadsInv == TypeOK /\ PanesInOrder

\* A mounted post shows what the store has, unless the news is on its way or
\* came in a batch of edits; so does a mounted DM of one's own.
PanesShowStore ==
    \A t \in Threads : \A s \in Range(pane[t]) :
        s \in changed[t] =>
            \/ s \in fresh[t] \/ s \in batched[t]
            \/ t = "dm" /\ s \notin own[t]
            \/ \E i \in Queued(t) : s \in events[i].rows

=============================================================================
