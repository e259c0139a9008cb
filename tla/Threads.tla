------------------------------ MODULE Threads ------------------------------
(***************************************************************************)
(* The message panes of the full-screen UI (ui/textual_ui.py; urwid_ui.py  *)
(* has the same tables): one DM thread and one channel, the rows the store *)
(* holds for each, the rows mounted in each pane, the unread badges, the   *)
(* store's read cursors, and the queue between the client, which stores a  *)
(* row before it tells of it, and _drain_events, which shows it.  A row is *)
(* its timestamp; its content (body or reactions) is new once it has been  *)
(* edited or reacted to.  Clearing a pane and seeding it again             *)
(* (_reset_message_view) is one step here; creating one is two, the user's *)
(* other keys waiting meanwhile.  Lines in a pane that are not messages    *)
(* are left out.                                                           *)
(***************************************************************************)
EXTENDS Ordering, Sequences, SequencesExt, FiniteSetsExt

CONSTANTS
    MaxRows,    \* bound: rows in the store; a thread's timestamps are 1 .. MaxRows
    Page,       \* rows mounted at first, and by each scroll to the top
    MaxEvents,  \* bound: events waiting in _event_queue, changes not counted
    MaxChanges, \* bound: edits and reactions
    MaxBadge    \* bound: a thread whose badge is higher gets no more rows

ASSUME SizesAssumption == /\ MaxRows \in Nat \ {0} /\ Page \in Nat \ {0}
                          /\ MaxEvents \in Nat \ {0} /\ MaxChanges \in Nat
                          /\ MaxBadge \in Nat

Threads == {"dm", "ch"}
Stamps == 1 .. MaxRows
NoThread == "none"
Changes == {"live", "edits"}  \* "edits": in a medb or cpedb batch

VARIABLES
    stored,    \* the store's rows of each thread
    own,       \* those this callsign has sent
    changed,   \* those whose content is new
    batched,   \* those that an edit batch changed
    read,      \* the store's last_read_ts
    views,     \* threads with a pane (_views)
    opening,   \* the thread whose new pane is being mounted, or NoThread
    pane,      \* the rows of each pane, top to bottom (_rows has the same)
    fresh,     \* those that show the new content
    exhausted, \* _history_exhausted
    badge,     \* _unread
    active,    \* the pane on top (message-switcher), or NoThread
    target,    \* UI._target: where the input line sends, or NoThread
    events     \* _event_queue

disk == <<stored, own, changed, batched>>
screen == <<views, opening, pane, fresh, exhausted, active>>
vars == <<disk, read, screen, badge, target, events>>

Ready == opening = NoThread
Room == MaxRows - Cardinality(stored["dm"]) - Cardinality(stored["ch"])
Unread(t) == {s \in stored[t] \ own[t] : s > read[t]}

-----------------------------------------------------------------------------
(* The store *)

\* The newest Page rows before some timestamp: recent_posts, recent_messages.
Recent(t, before) ==
    LET older == {s \in stored[t] : s < before}
    IN  {s \in older : Cardinality({r \in older : r > s}) < Page}

\* The cursor goes to the newest row, never back.
MarkRead(t) == read' = [read EXCEPT ![t] = Max({@} \union stored'[t])]

-----------------------------------------------------------------------------
(* Panes *)

\* s goes after the last row that is not younger; a row that is there stays.
Inserted(p, s) ==
    IF s \in Range(p) THEN p
    ELSE LET n == Cardinality({i \in DOMAIN p : \A j \in 1 .. i : p[j] <= s})
         IN  InsertAt(p, n + 1, s)

\* Rows S are mounted with the content the store has.
Mounts(t, S) ==
    /\ pane' = [pane EXCEPT ![t] = FoldLeft(Inserted, @, Ascending(S))]
    /\ fresh' = [fresh EXCEPT ![t] = @ \union ((S \ Range(pane[t])) \cap changed[t])]

\* The pane is emptied and seeded from the store.
Reseeds(t) ==
    LET rows == Recent(t, MaxRows + 1) IN
    /\ pane' = [pane EXCEPT ![t] = Ascending(rows)]
    /\ fresh' = [fresh EXCEPT ![t] = rows \cap changed[t]]

\* Seeded fault: the badge is cleared and the cursor stays.
Shows_NoCursor(t) ==
    /\ active' = t
    /\ badge' = [badge EXCEPT ![t] = 0]
    /\ UNCHANGED read

\* The pane of t comes to the top; its rows count as read.
Shows(t) ==
    /\ active' = t
    /\ badge' = [badge EXCEPT ![t] = 0]
    /\ MarkRead(t)

\* The pane of t is created, if t has none, and shown.
Switches(t) ==
    IF t \in views
    THEN Shows(t) /\ UNCHANGED <<opening, views, pane, fresh, exhausted>>
    ELSE /\ opening' = t
         /\ views' = views \union {t}
         /\ UNCHANGED <<active, badge, read, pane, fresh, exhausted>>

\* The cursor moves over a thread in the list: its pane is previewed.
Highlights(t) ==
    /\ UNCHANGED <<disk, target, events>>
    /\ Ready /\ Switches(t)

\* Enter on a thread: the input line sends there from now on.
Selects(t) ==
    /\ UNCHANGED <<disk, events>>
    /\ Ready /\ Switches(t)
    /\ target' = t

\* The new pane is mounted: it is filled and shown.
Opens ==
    /\ UNCHANGED <<disk, views, exhausted, target, events>>
    /\ opening # NoThread
    /\ Mounts(opening, Recent(opening, MaxRows + 1))
    /\ Shows(opening)
    /\ opening' = NoThread

\* Seeded fault: the page is appended.
LoadsOlder_Bottom ==
    LET t == active IN
    /\ Ready /\ t # NoThread /\ t \notin exhausted /\ pane[t] # <<>>
    /\ LET rows == Recent(t, Head(pane[t])) IN
       /\ exhausted' = IF Cardinality(rows) < Page THEN exhausted \union {t} ELSE exhausted
       /\ pane' = [pane EXCEPT ![t] = @ \o Ascending(rows)]
       /\ fresh' = [fresh EXCEPT ![t] = @ \union (rows \cap changed[t])]
    /\ UNCHANGED <<disk, read, views, opening, active, badge, target, events>>

\* The user scrolls to the top of the pane: the page above is mounted.
LoadsOlder ==
    LET t == active IN
    /\ Ready /\ t # NoThread /\ t \notin exhausted /\ pane[t] # <<>>
    /\ LET rows == Recent(t, Head(pane[t])) IN
       /\ exhausted' = IF Cardinality(rows) < Page THEN exhausted \union {t} ELSE exhausted
       /\ pane' = [pane EXCEPT ![t] = Ascending(rows) \o @]
       /\ fresh' = [fresh EXCEPT ![t] = @ \union (rows \cap changed[t])]
    /\ UNCHANGED <<disk, read, views, opening, active, badge, target, events>>

-----------------------------------------------------------------------------
(* The client tells, the UI shows *)

Event == [kind : {"rows", "cs"} \union Changes, thread : Threads, rows : SUBSET Stamps]

Tells(kind, t, S) == events' = Append(events, [kind |-> kind, thread |-> t, rows |-> S])

\* Rows come from the server, one (m, cp) or a batch (mb, cpb), new or again:
\* the client stores those that are new.  Mine are from another session.
Arrive(t, S, mine) ==
    /\ Len(events) < MaxEvents /\ Tells("rows", t, S) /\ badge[t] <= MaxBadge
    /\ Cardinality(S \ stored[t]) <= Room
    /\ stored' = [stored EXCEPT ![t] = @ \union S]
    /\ own' = [own EXCEPT ![t] = @ \union {s \in S \ stored[t] : mine}]
    /\ UNCHANGED <<changed, batched, read, screen, badge, target>>

\* A row is edited (med, cped) or reacted to (mem, memb, cpem, cpemb), or it is
\* in a batch of edits (medb, cpedb).
ChangeArrives(kind, t, s) ==
    /\ s \in stored[t] \ changed[t]
    /\ Cardinality(changed["dm"]) + Cardinality(changed["ch"]) < MaxChanges
    /\ Tells(kind, t, {s})
    /\ changed' = [changed EXCEPT ![t] = @ \union {s}]
    /\ batched' = [batched EXCEPT ![t] = @ \union {r \in {s} : kind = "edits"}]
    /\ UNCHANGED <<stored, own, read, screen, badge, target>>

\* The server has accepted a subscription (to the one channel).
SubscriptionAcked ==
    /\ Len(events) < MaxEvents /\ Tells("cs", "ch", {})
    /\ UNCHANGED <<disk, read, screen, badge, target>>

Takes(kind) == events # <<>> /\ Head(events).kind = kind /\ events' = Tail(events)

\* Rows of the DM: on the active pane they are mounted and read, elsewhere those
\* of the peer are counted.
InboundDms(S) ==
    IF active = "dm"
    THEN Mounts("dm", S) /\ MarkRead("dm") /\ UNCHANGED badge
    ELSE /\ badge' = [badge EXCEPT !["dm"] = @ + Cardinality(S \ own'["dm"])]
         /\ UNCHANGED <<pane, fresh, read>>

InboundDm(s) == InboundDms({s})

\* Posts: the same, but all are counted.
InboundPosts(S) ==
    IF active = "ch"
    THEN Mounts("ch", S) /\ MarkRead("ch") /\ UNCHANGED badge
    ELSE /\ badge' = [badge EXCEPT !["ch"] = @ + Cardinality(S)]
         /\ UNCHANGED <<pane, fresh, read>>

InboundPost(s) == InboundPosts({s})

TakesRows ==
    /\ UNCHANGED <<disk, views, opening, exhausted, active, target>>
    /\ Takes("rows")
    /\ IF Head(events).thread = "dm" THEN InboundDms(Head(events).rows)
                                     ELSE InboundPosts(Head(events).rows)

\* Seeded fault: a post is looked up like a DM.
Found_OwnOnly(t, s) == s \in Range(pane[t]) /\ s \in own[t]

\* The mounted row a change is about.  A DM is looked for in the pane of
\* to_call, which for a DM of the peer is this callsign.
Found(t, s) == s \in Range(pane[t]) /\ (t = "ch" \/ s \in own[t])

\* A live edit or a reaction refreshes the row.
TakesChange ==
    /\ Takes("live")
    /\ LET e == Head(events) IN
       fresh' = [fresh EXCEPT ![e.thread] = @ \union {s \in e.rows : Found(e.thread, s)}]
    /\ UNCHANGED <<disk, read, views, opening, pane, exhausted, active, badge, target>>

\* Nothing is done about a batch of edits.
TakesEdits ==
    /\ Takes("edits")
    /\ UNCHANGED <<disk, read, screen, badge, target>>

\* A pane of a channel subscribed to is started over.
TakesSubscription ==
    /\ Takes("cs")
    /\ LET t == Head(events).thread IN
       IF t \in views
       THEN /\ Reseeds(t)
            /\ exhausted' = exhausted \ {t}
            /\ badge' = [badge EXCEPT ![t] = 0]
       ELSE UNCHANGED <<pane, fresh, exhausted, badge>>
    /\ UNCHANGED <<disk, read, views, opening, active, target>>

\* The input line is sent to its target: the client has sent and stored it, and
\* the UI takes it for a row that comes in.
Sends(t, s) ==
    /\ Ready /\ target = t /\ s \notin stored[t] /\ Room > 0
    /\ stored' = [stored EXCEPT ![t] = @ \union {s}]
    /\ own' = [own EXCEPT ![t] = @ \union {s}]
    /\ IF t = "dm" THEN InboundDm(s) ELSE InboundPost(s)
    /\ UNCHANGED <<changed, batched, views, opening, exhausted, active, target, events>>

\* Seeded fault: the counts are not taken from the store.
Restarts_Unseeded ==
    /\ views' = {} /\ opening' = NoThread /\ active' = NoThread /\ target' = NoThread
    /\ pane' = [t \in Threads |-> <<>>] /\ fresh' = [t \in Threads |-> {}]
    /\ exhausted' = {} /\ events' = <<>>
    /\ badge' = [t \in Threads |-> 0]
    /\ UNCHANGED <<disk, read>>

\* The program ends, in any way, and starts: only the store is left, and the
\* badges start from its counts.
Restarts ==
    /\ views' = {} /\ opening' = NoThread /\ active' = NoThread /\ target' = NoThread
    /\ pane' = [t \in Threads |-> <<>>] /\ fresh' = [t \in Threads |-> {}]
    /\ exhausted' = {} /\ events' = <<>>
    /\ badge' = [t \in Threads |-> Cardinality(Unread(t))]
    /\ UNCHANGED <<disk, read>>

-----------------------------------------------------------------------------
Init ==
    /\ stored = [t \in Threads |-> {}] /\ own = stored /\ changed = stored
    /\ batched = stored /\ fresh = stored
    /\ read = [t \in Threads |-> 0] /\ badge = read
    /\ views = {} /\ exhausted = {} /\ events = <<>>
    /\ opening = NoThread /\ active = NoThread /\ target = NoThread
    /\ pane = [t \in Threads |-> <<>>]

Server ==
    \/ \E t \in Threads, S \in SUBSET Stamps \ {{}}, mine \in BOOLEAN : Arrive(t, S, mine)
    \/ \E kind \in Changes, t \in Threads, s \in Stamps : ChangeArrives(kind, t, s)
    \/ SubscriptionAcked

User ==
    \/ \E t \in Threads : Highlights(t) \/ Selects(t)
    \/ LoadsOlder
    \/ \E t \in Threads, s \in Stamps : Sends(t, s)
    \/ Restarts

App == Opens \/ TakesRows \/ TakesChange \/ TakesEdits \/ TakesSubscription

Next == Server \/ User \/ App

Spec == Init /\ [][Next]_vars
=============================================================================
