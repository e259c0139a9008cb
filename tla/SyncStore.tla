------------------------------ MODULE SyncStore ------------------------------
(***************************************************************************)
(* Synchronisation of one conversation with the server: the tables and     *)
(* cursors of src/whatspyc/store/store.py, the handlers of                  *)
(* src/whatspyc/wps/client.py that fill them, the operations that write our *)
(* own rows, and the connect record that asks the server for what is new.   *)
(*                                                                          *)
(* The conversation is a channel or the direct messages, which share their  *)
(* cursors; the code treats the two differently.  Every stamp is a tick of  *)
(* one clock: a row is named by its ts, a body by the edts that made it (0  *)
(* is the original), a reaction by the ets that added it (0 is our own).  A *)
(* batch is its entries one after the other, in the server's order.         *)
(*                                                                          *)
(* Direct messages stamp rows and reactions in seconds and edits in         *)
(* milliseconds, and a channel stamps all in milliseconds but our own       *)
(* reactions.  Where the code compares the two, a stamp in seconds is       *)
(* earlier than any in milliseconds: our reactions to posts are written     *)
(* Earliest, and the newest row is no floor for the edits of messages.      *)
(***************************************************************************)
EXTENDS Ordering, Sequences, SequencesExt, FiniteSetsExt

CONSTANTS
    Kinds,    \* the kinds of conversation looked at
    MaxClock, \* bound: stamped events
    Counts,   \* bound: how many rows the user asks for
    MaxUp     \* bound: frames of ours on their way; a request for rows is made
              \* with none on their way back

ASSUME SyncAssumption ==
    /\ Kinds \subseteq {"channel", "dm"}
    /\ MaxClock \in Nat \ {0}
    /\ Counts \subseteq Nat \ {0}
    /\ MaxUp \in Nat \ {0}

VARIABLES
    kind,    \* what the conversation is
    clock,   \* the last stamp given
    db,      \* the store: rows, reactions, cursors
    unsaved, \* an operation of ours between its write and its row, at most one
    online,  \* the connect record was sent on this link
    up,      \* frames on their way to the server
    down,    \* frames on their way back
    srv,     \* the server's rows
    held,    \* the server holds the channel back (pch)
    since,   \* and this is the lp it was given
    missed   \* history: updates that were on their way when the link went, or
             \* fell into the time the channel was held back

linkVars   == <<online, up, down>>
serverVars == <<srv, held, since>>
syncVars == <<kind, clock, db, unsaved, linkVars, serverVars, missed>>

Times    == 1 .. MaxClock
Earliest == 0
Largest(S) == Max(S \union {0})
Nothing == [t |-> "none"]

----------------------------------------------------------------------------
(* The store.  Each operator is one transaction.                            *)

EmptyStore == [rows   |-> <<>>,
               emojis |-> [ts \in Times |-> {}],
               cur    |-> [post |-> 0, edit |-> 0, emoji |-> 0]]

Held(d) == DOMAIN d.rows
Stamp(a, b) == IF a = 0 THEN b ELSE a
WithRow(d, ts, row) ==
    [d EXCEPT !.rows = [x \in Held(d) \union {ts} |-> IF x = ts THEN row ELSE d.rows[x]]]
Bump(d, c, ts) == [d EXCEPT !.cur[c] = Max({@, ts})]

\* Seeded fault: the row is replaced, its gap flag with it.
Merged_Replace(old, new) == new
Merged(old, new) == [from |-> old.from, body |-> new.body,
                     edts |-> Stamp(new.edts, old.edts),
                     ets  |-> Max({old.ets, new.ets}), gap |-> old.gap \/ new.gap]

\* Seeded fault: what is held already is left alone.
Upserted_Ignores(d, ts, row) == IF ts \in Held(d) THEN d ELSE WithRow(d, ts, row)
Upserted(d, ts, row) ==
    WithRow(d, ts, IF ts \in Held(d) THEN Merged(d.rows[ts], row) ELSE row)

Edited(d, ts, body, edts) ==
    IF ts \in Held(d)
    THEN [d EXCEPT !.rows[ts].body = body, !.rows[ts].edts = Max({@, edts})]
    ELSE d

WithEts(d, ts, ets) ==
    IF ts \in Held(d) THEN [d EXCEPT !.rows[ts].ets = Max({@, ets})] ELSE d

Reacted(d, ts, x, add, ets) ==
    IF add
    THEN Bump(WithEts([d EXCEPT !.emojis[ts] = @ \union {x}], ts, ets), "emoji", ets)
    ELSE [d EXCEPT !.emojis[ts] = @ \ {x}]

ReactionsSet(d, ts, all, ets) ==
    Bump(WithEts([d EXCEPT !.emojis[ts] = all], ts, ets), "emoji", ets)

\* The connect record's three cursors.
Gaps(d) == {ts \in Held(d) : d.rows[ts].gap}
Floor(d, column) ==
    IF Gaps(d) # {} THEN {d.rows[ts][column] : ts \in Held(d)} \union Gaps(d)
                    ELSE Held(d)

\* Seeded fault: the server is told one row more than is held.
Lp_Next(d) == d.cur.post + 1
Lp(d) == d.cur.post
Led(d) == Largest({d.cur.edit} \union (IF kind = "dm" THEN {} ELSE Floor(d, "edts")))
Le(d)  == Largest({d.cur.emoji} \union (IF kind = "dm" THEN Held(d) ELSE Floor(d, "ets")))

----------------------------------------------------------------------------
(* The handlers: the stores after each of their transactions.               *)

RowOf(f) == [from |-> f.from, body |-> f.body, edts |-> f.body,
             ets |-> IF kind = "dm" THEN 0 ELSE f.ets, gap |-> f.gap]

\* Seeded fault: the cursor is written before the row.
RowComes_BumpFirst(d, f) ==
    LET bumped == Bump(d, "post", f.ts) IN <<bumped, Upserted(bumped, f.ts, RowOf(f))>>
RowComes(d, f) ==
    LET row == Upserted(d, f.ts, RowOf(f))
        bumped == Bump(row, "post", f.ts)
    IN CASE kind = "dm" -> <<row, bumped>>
         [] kind = "channel" /\ f.ets = 0 -> <<bumped>>
         [] OTHER -> <<bumped, ReactionsSet(bumped, f.ts, f.reacts, f.ets)>>

EditComes(d, f) ==
    LET edts == Stamp(f.edts, clock)   \* a relayed med has none: the local clock
        row  == Edited(d, f.ts, f.body, edts)
    IN <<row, Bump(row, "edit", edts)>>

ReactionsCome(d, f) ==
    IF kind = "channel" THEN <<ReactionsSet(d, f.ts, f.reacts, f.ets)>>
    ELSE IF f.ts \notin Held(d) THEN <<d>>
    ELSE LET row == [d EXCEPT !.emojis[f.ts] = f.reacts]
         IN <<row, Bump(row, "emoji", f.ets)>>

Handled(d, f) ==
    CASE f.t = "row"    -> RowComes(d, f)
      [] f.t = "edit"   -> EditComes(d, f)
      [] f.t = "reacts" -> ReactionsCome(d, f)
      [] f.t = "react"  -> <<Reacted(d, f.ts, f.x, f.add, f.ets)>>

\* What an operation of ours writes once its frame is out.
OurReaction(d, f) ==
    LET row == [d EXCEPT !.emojis[f.ts] = IF f.add THEN @ \union {f.x} ELSE @ \ {f.x}]
    IN IF kind = "dm" THEN <<row, Bump(row, "emoji", f.ets)>>
                      ELSE <<Reacted(d, f.ts, f.x, f.add, f.ets)>>

Persisted(d, f) ==
    CASE f.t = "row" ->
           RowComes(d, [f EXCEPT !.ets = 0])
      [] f.t = "edit" -> EditComes(d, f)
      [] f.t = "react" -> OurReaction(d, f)

----------------------------------------------------------------------------
(* The server (not part of the repository).                                 *)

RowFrame(s, ts, gap) == [t |-> "row", ts |-> ts, from |-> s[ts].from, body |-> s[ts].edts,
                         reacts |-> s[ts].reacts, ets |-> s[ts].ets, gap |-> gap]
EditFrame(s, ts, live) ==
    [t |-> "edit", ts |-> ts, body |-> s[ts].edts,
     edts |-> IF live /\ kind = "dm" THEN 0 ELSE s[ts].edts]
ReactsFrame(s, ts) == [t |-> "reacts", ts |-> ts, reacts |-> s[ts].reacts, ets |-> s[ts].ets]

Frames(S, F(_)) == LET o == Ascending(S) IN [i \in 1 .. Len(o) |-> F(o[i])]

\* The replay after a connect record: rows, then the edits and reactions of the
\* rows the client has.
Replay(lp, led, le) ==
    LET Row(ts)  == RowFrame(srv, ts, FALSE)
        Edit(ts) == EditFrame(srv, ts, FALSE)
        React(ts) == ReactsFrame(srv, ts)
        old == {ts \in DOMAIN srv : ts <= lp}
    IN Frames({ts \in DOMAIN srv : ts > lp}, Row)
       \o Frames({ts \in old : srv[ts].edts > led}, Edit)
       \o Frames({ts \in (IF kind = "dm" THEN DOMAIN srv ELSE old) : srv[ts].ets > le}, React)

\* The last n of some rows; the first is marked when older ones are left out.
Batch(S, n) ==
    LET o == Ascending(S)
        k == IF n < Len(o) THEN Len(o) - n ELSE 0
    IN [i \in 1 .. Len(o) - k |-> RowFrame(srv, o[k + i], k > 0 /\ i = 1)]

\* What a frame tells of, as far as it may be missed.
Carries(f) ==
    CASE f.t = "row" -> {<<"edit", f.ts>>, <<"react", f.ts>>}
      [] f.t = "edit" -> {<<"edit", f.ts>>}
      [] OTHER -> {<<"react", f.ts>>}
\* What has been made good by it.
Restores(f) ==
    CASE f.t = "row" -> {<<"edit", f.ts>>}
                        \union (IF kind = "channel" /\ f.ets > 0 THEN {<<"react", f.ts>>} ELSE {})
      [] f.t = "edit" -> {<<"edit", f.ts>>}
      [] f.t = "reacts" -> {<<"react", f.ts>>}
      [] OTHER -> {}
OnTheWay == UNION {Carries(down[i]) : i \in 1 .. Len(down)}

\* The relay of another station's row, edit or reaction.
Relay(f) ==
    /\ down' = IF online /\ ~held THEN Append(down, f) ELSE down
    /\ missed' = IF online /\ held /\ f.t # "row" THEN missed \union Carries(f) ELSE missed
    /\ UNCHANGED <<kind, db, unsaved, online, up, held, since>>

Tick == clock < MaxClock /\ clock' = clock + 1
NewRow(from) == [from |-> from, edts |-> 0, reacts |-> {}, ets |-> 0]
With(s, ts, row) == [x \in DOMAIN s \union {ts} |-> IF x = ts THEN row ELSE s[x]]

PeerWrites ==
    /\ Tick
    /\ srv' = With(srv, clock + 1, NewRow("peer"))
    /\ Relay(RowFrame(srv', clock + 1, FALSE))

PeerEdits ==
    \E ts \in DOMAIN srv :
        /\ srv[ts].from = "peer"
        /\ Tick
        /\ srv' = [srv EXCEPT ![ts].edts = clock + 1]
        /\ Relay(EditFrame(srv', ts, TRUE))

\* Adds a reaction, or takes back one of its own.
PeerReacts ==
    \E ts \in DOMAIN srv, add \in BOOLEAN : \E x \in {clock + 1} \union srv[ts].reacts :
        /\ x # 0
        /\ add <=> x = clock + 1
        /\ Tick
        /\ srv' = [srv EXCEPT ![ts].reacts = IF add THEN @ \union {x} ELSE @ \ {x},
                              ![ts].ets = clock + 1]
        /\ Relay(IF kind = "dm" THEN ReactsFrame(srv', ts)
                 ELSE [t |-> "react", ts |-> ts, x |-> x, add |-> add, ets |-> clock + 1])

\* The server's rows after a frame of ours.  A reaction of ours leaves the stamp of
\* the others': it would only have the server repeat what we said.
Taken(s, f) ==
    CASE f.t = "row" -> With(s, f.ts, NewRow("me"))
      [] f.t = "edit" /\ f.ts \in DOMAIN s -> [s EXCEPT ![f.ts].edts = f.edts]
      [] f.t = "react" /\ f.ts \in DOMAIN s ->
           [s EXCEPT ![f.ts].reacts = IF f.add THEN @ \union {0} ELSE @ \ {0}]
      [] OTHER -> s

\* A transport returns from its write no later than the last byte leaves, so a
\* frame is not taken before its writer has gone on.
ServerTakes ==
    /\ up # <<>> /\ Head(up) # unsaved
    /\ up' = Tail(up)
    /\ srv' = Taken(srv, Head(up))
    /\ LET f == Head(up) IN
       CASE f.t = "cu" /\ held ->
              /\ held' = FALSE
              /\ down' = down \o Batch({ts \in DOMAIN srv : ts > since}, f.n)
         [] f.t = "cpb" /\ ~held ->
              /\ down' = down \o Batch(DOMAIN srv, f.n)
              /\ UNCHANGED held
         [] OTHER -> UNCHANGED <<down, held>>
    /\ UNCHANGED <<kind, clock, db, unsaved, online, since, missed>>

----------------------------------------------------------------------------
(* The client's own operations.                                             *)

Writes(f) ==
    /\ online
    /\ unsaved = Nothing /\ Len(up) < MaxUp
    /\ Tick
    /\ up' = Append(up, f)
    /\ unsaved' = f
    /\ UNCHANGED <<kind, db, online, down, serverVars, missed>>

WeWrite ==
    Writes([t |-> "row", ts |-> clock + 1, from |-> "me", body |-> 0,
            reacts |-> {}, ets |-> 0, gap |-> FALSE])

WeEdit ==
    \E ts \in Held(db) :
        /\ db.rows[ts].from = "me"
        /\ Writes([t |-> "edit", ts |-> ts, body |-> clock + 1, edts |-> clock + 1])

WeReact ==
    \E ts \in Held(db), add \in BOOLEAN :
        /\ add <=> 0 \notin db.emojis[ts]   \* bound: not twice the same
        /\ Writes([t |-> "react", ts |-> ts, x |-> 0, add |-> add,
                   ets |-> IF kind = "dm" THEN clock + 1 ELSE Earliest])

\* The frame is out: the rest of the operation, up to its end.
WePersist ==
    /\ unsaved # Nothing
    /\ db' = Last(Persisted(db, unsaved))
    /\ unsaved' = Nothing
    /\ UNCHANGED <<kind, clock, linkVars, serverVars, missed>>

\* The write raised although the frame, or part of it, was out.
WriteFails ==
    /\ unsaved # Nothing
    /\ ~online
    /\ unsaved' = Nothing
    /\ UNCHANGED <<kind, clock, db, linkVars, serverVars, missed>>

\* unpause_channel: the last n rows, or (n past all of them) everything.
Asks ==
    /\ online
    /\ kind = "channel"
    /\ Len(up) < MaxUp
    /\ down = <<>>
    /\ \E n \in Counts :
         up' = Append(up, [t |-> IF held THEN "cu" ELSE "cpb", n |-> n])
    /\ UNCHANGED <<kind, clock, db, unsaved, online, down, serverVars, missed>>

----------------------------------------------------------------------------
(* The link, the handlers, the process.                                     *)

\* The connect record and the server's answer to it.  A channel with news may
\* be held back; then nothing of it is sent, and what would have been is missed.
Connect ==
    /\ ~online
    /\ unsaved = Nothing   \* a write on the lost link has ended
    /\ online' = TRUE
    /\ \E hold \in BOOLEAN :
         /\ hold => kind = "channel" /\ \E ts \in DOMAIN srv : ts > Lp(db)
         /\ held' = hold
         /\ since' = IF hold THEN Lp(db) ELSE 0
         /\ LET replay == Replay(Lp(db), Led(db), Le(db)) IN
            IF hold
            THEN /\ down' = <<>>
                 /\ missed' = missed \union
                      UNION {Carries(replay[i]) :
                             i \in {j \in 1 .. Len(replay) : replay[j].t # "row"}}
            ELSE down' = replay /\ UNCHANGED missed
    /\ UNCHANGED <<kind, clock, db, unsaved, up, srv>>

\* Everything under way on the link is gone; a frame that was being written may
\* have got through.
LinkEnds ==
    /\ online' = FALSE /\ up' = <<>> /\ down' = <<>>
    /\ held' = FALSE /\ since' = 0
    /\ srv' \in {srv} \union (IF unsaved # Nothing /\ up # <<>>
                              THEN {Taken(srv, unsaved)} ELSE {})
    /\ missed' = missed \union OnTheWay

LinkDrops ==
    /\ online
    /\ LinkEnds
    /\ UNCHANGED <<kind, clock, db, unsaved>>

Receive ==
    /\ down # <<>>
    /\ db' = Last(Handled(db, Head(down)))
    /\ down' = Tail(down)
    /\ missed' = missed \ Restores(Head(down))
    /\ UNCHANGED <<kind, clock, unsaved, online, up, serverVars>>

\* The process dies between two transactions of a handler, or anywhere else, and
\* is started again.
DiesInHandler ==
    /\ down # <<>>
    /\ Len(Handled(db, Head(down))) > 1
    /\ db' = Handled(db, Head(down))[1]
    /\ unsaved' = Nothing
    /\ LinkEnds
    /\ UNCHANGED <<kind, clock>>

DiesInOperation ==
    /\ unsaved # Nothing
    /\ db' \in {db} \union (IF Len(Persisted(db, unsaved)) > 1
                            THEN {Persisted(db, unsaved)[1]} ELSE {})
    /\ unsaved' = Nothing
    /\ LinkEnds
    /\ UNCHANGED <<kind, clock>>

----------------------------------------------------------------------------
SyncInit ==
    /\ kind \in Kinds
    /\ clock = 0
    /\ db = EmptyStore
    /\ unsaved = Nothing
    /\ online = FALSE /\ up = <<>> /\ down = <<>>
    /\ srv = <<>> /\ held = FALSE /\ since = 0
    /\ missed = {}

SyncNext ==
    \/ PeerWrites \/ PeerEdits \/ PeerReacts \/ ServerTakes
    \/ WeWrite \/ WeEdit \/ WeReact \/ WePersist \/ WriteFails \/ Asks
    \/ Connect \/ LinkDrops \/ Receive \/ DiesInHandler \/ DiesInOperation

SyncSpec == SyncInit /\ [][SyncNext]_syncVars
=============================================================================
