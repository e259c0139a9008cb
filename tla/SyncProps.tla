------------------------------ MODULE SyncProps ------------------------------
(***************************************************************************)
(* What SyncStore is checked for: nothing the server has is missed without  *)
(* a reason this module names, and what is held is never lost.              *)
(***************************************************************************)
EXTENDS SyncStore

Row == [from : {"me", "peer"}, body : 0 .. MaxClock, edts : 0 .. MaxClock,
        ets : 0 .. MaxClock, gap : BOOLEAN]

(* The type of each variable (of a frame, only its kind). *)
SyncTypeOK ==
    /\ kind \in Kinds
    /\ clock \in 0 .. MaxClock
    /\ Held(db) \subseteq Times
    /\ \A ts \in Held(db) : db.rows[ts] \in Row
    /\ db.emojis \in [Times -> SUBSET (0 .. MaxClock)]
    /\ db.cur \in [{"post", "edit", "emoji"} -> 0 .. MaxClock]
    /\ unsaved.t \in {"none", "row", "edit", "react"}
    /\ online \in BOOLEAN /\ held \in BOOLEAN /\ since \in 0 .. MaxClock
    /\ \A i \in 1 .. Len(up) : up[i].t \in {"row", "edit", "react", "cu", "cpb"}
    /\ \A i \in 1 .. Len(down) : down[i].t \in {"row", "edit", "reacts", "react"}
    /\ DOMAIN srv \subseteq Times
    /\ missed \subseteq {"edit", "react"} \X Times

(* A row the server has and the store has not is on its way, or is asked for  *)
(* by the next connect record or unpause, or is being written, unless a gap   *)
(* was accepted after it or we wrote a row of our own after it, which raised  *)
(* the cursor past it (store.py:246, 523): no loss, crash or partial replay   *)
(* is enough by itself.                                                       *)
RowsAreMissedOnlyBehind ==
    \A ts \in DOMAIN srv \ Held(db) :
        \/ \E i \in 1 .. Len(down) :
              down[i].t = "row" /\ (down[i].ts = ts \/ (down[i].ts > ts /\ down[i].gap))
        \/ ts > Lp(db) /\ (held \/ ~online)
        \/ unsaved.t = "row" /\ unsaved.ts = ts
        \/ \E later \in Held(db) :
              /\ later > ts
              /\ db.rows[later].gap \/ db.rows[later].from = "me" \/ srv[ts].from = "me"

(* Another station's row shows the body the server has, unless the edit is on *)
(* its way, or the next connect record asks for it, or it was on its way when *)
(* the link went (or fell into a held-back time); and so do the reactions of  *)
(* other stations.  The floors of connect_record, the bumps of the handlers   *)
(* and deaths between transactions hide nothing else.                         *)
EditIsComing(ts) ==
    \/ \E i \in 1 .. Len(down) : /\ down[i].t \in {"row", "edit"}
                                 /\ down[i].ts = ts /\ down[i].body = srv[ts].edts
    \/ ~online /\ ts <= Lp(db) /\ srv[ts].edts > Led(db)
    \/ <<"edit", ts>> \in missed
ReactionIsComing(ts) ==
    \/ \E i \in 1 .. Len(down) : /\ down[i].t \in {"row", "react", "reacts"}
                                 /\ down[i].ts = ts /\ down[i].ets = srv[ts].ets
    \/ ~online /\ srv[ts].ets > Le(db)
    \/ <<"react", ts>> \in missed
Others(S) == S \ {0}
UpdatesAreMissedOnlyInTransit ==
    \A ts \in DOMAIN srv \intersect Held(db) :
        /\ srv[ts].from = "peer" /\ db.rows[ts].body # srv[ts].edts => EditIsComing(ts)
        /\ Others(db.emojis[ts]) # Others(srv[ts].reacts) => ReactionIsComing(ts)

(* The row cursor is never ahead of the rows: whenever the process dies, what *)
(* the next connect record leaves out is held.                                *)
CursorIsHeld == Lp(db) # 0 => Lp(db) \in Held(db)

(* The two of them.                                                           *)
SyncInv == SyncTypeOK /\ CursorIsHeld

(* No row is ever forgotten, no gap marker unset, no cursor taken back: a     *)
(* backfill, a replay or an edit of a row that is held already keeps what was *)
(* learnt before (store.py 210-238, 500-536).                                 *)
StoreOnlyGrows ==
    [][/\ Held(db) \subseteq Held(db')
       /\ \A ts \in Held(db) : db.rows[ts].gap => db'.rows[ts].gap
       /\ \A ts \in Held(db) : db.rows[ts].ets <= db'.rows[ts].ets
       /\ \A c \in DOMAIN db.cur : db.cur[c] <= db'.cur[c]]_syncVars

(* "flooring suppresses the firehose without risking a missed update"         *)
(* (store.py:117-119): once everything the server sent has been handled, the  *)
(* rows of others show what the server has.                                   *)
Synced == online /\ ~held /\ up = <<>> /\ down = <<>> /\ unsaved = Nothing
NoUpdateIsMissed ==
    Synced => \A ts \in DOMAIN srv \intersect Held(db) :
                  srv[ts].from = "peer" => db.rows[ts].body = srv[ts].edts
=============================================================================
