----------------------------- MODULE SyncProofs ------------------------------
(***************************************************************************)
(* Theorems about the store, its cursors and the server it follows          *)
(* (SyncStore): for any clock, counters and frames under way, with the link *)
(* and the process dying anywhere.                                          *)
(***************************************************************************)
EXTENDS SyncProps, OrderProofs

-----------------------------------------------------------------------------
(* The store: what its transactions keep *)

LEMMA MaxPair ==
    ASSUME NEW a \in Nat, NEW b \in Nat
    PROVE  Max({a, b}) = IF a >= b THEN a ELSE b
<1> DEFINE S == {a, b}
<1>1. S \in SUBSET (0 .. a + b) /\ S # {} /\ a + b \in Nat
    OBVIOUS
<1> HIDE DEF S
<1>2. Max(S) \in S /\ \A y \in S : Max(S) >= y
    BY <1>1, MaxFacts
<1>. QED
    BY <1>2 DEF S

Stamps0 == 0 .. MaxClock
Cursors == {"post", "edit", "emoji"}
Stores == [rows   : UNION {[D -> Row] : D \in SUBSET Times},
           emojis : [Times -> SUBSET Stamps0],
           cur    : [Cursors -> Stamps0]]

\* The frames, by what they are.
RowFrames    == [t : {"row"}, ts : Times, from : {"me", "peer"}, body : Stamps0,
                 reacts : SUBSET Stamps0, ets : Stamps0, gap : BOOLEAN]
EditFrames   == [t : {"edit"}, ts : Times, body : Stamps0, edts : Stamps0]
ReactsFrames == [t : {"reacts"}, ts : Times, reacts : SUBSET Stamps0, ets : Stamps0]
ReactFrames  == [t : {"react"}, ts : Times, x : Stamps0, add : BOOLEAN, ets : Stamps0]
OwnReacts    == [t : {"react"}, ts : Times, x : {0}, add : BOOLEAN, ets : Stamps0]
Requests     == [t : {"cu", "cpb"}, n : Counts]
DownFrames == RowFrames \union EditFrames \union ReactsFrames \union ReactFrames
OwnFrames  == RowFrames \union EditFrames \union OwnReacts
UpFrames   == OwnFrames \union Requests

\* Nothing that is held is lost, and no cursor goes back.
Grown(d, e) ==
    /\ e \in Stores /\ Held(d) \subseteq Held(e)
    /\ \A ts \in Held(d) : /\ e.rows[ts].from = d.rows[ts].from
                           /\ d.rows[ts].gap => e.rows[ts].gap
                           /\ d.rows[ts].ets <= e.rows[ts].ets
    /\ \A c \in Cursors : d.cur[c] <= e.cur[c]

\* No row is new; or that of frame f is.
SameRowsHeld(d, e) == Grown(d, e) /\ Held(e) = Held(d) /\ e.cur["post"] = d.cur["post"]
RowIsHeld(d, e, f) ==
    /\ Grown(d, e) /\ Held(e) = Held(d) \union {f.ts}
    /\ e.cur["post"] = d.cur["post"] \/ e.cur["post"] = f.ts
    /\ f.gap => e.rows[f.ts].gap
    /\ f.ts \notin Held(d) => e.rows[f.ts].from = f.from

LEMMA StoreFacts ==
    ASSUME NEW d \in Stores
    PROVE  /\ d.rows \in [Held(d) -> Row] /\ Held(d) \in SUBSET Times
           /\ d.emojis \in [Times -> SUBSET Stamps0] /\ d.cur \in [Cursors -> Stamps0]
           /\ \A c \in Cursors : d.cur[c] \in Nat
           /\ \A ts \in Held(d) : /\ d.rows[ts] \in Row /\ ts \in Nat
                                  /\ d.rows[ts].ets \in Stamps0 /\ d.rows[ts].ets \in Nat
<1>1. PICK D \in SUBSET Times : d.rows \in [D -> Row]
    BY DEF Stores
<1>2. Held(d) = D
    BY <1>1 DEF Held
<1>3. Stamps0 \subseteq Nat /\ Times \subseteq Nat
    BY SyncAssumption DEF Stamps0, Times
<1>4. \A r \in Row : r.ets \in Stamps0
    BY DEF Row, Stamps0
<1>5. d.emojis \in [Times -> SUBSET Stamps0] /\ d.cur \in [Cursors -> Stamps0]
    BY DEF Stores
<1>6. \A ts \in Held(d) : d.rows[ts] \in Row
    BY <1>1, <1>2
<1>7. \A c \in Cursors : d.cur[c] \in Nat
    BY <1>3, <1>5
<1>. QED
    BY <1>1, <1>2, <1>3, <1>4, <1>5, <1>6, <1>7

LEMMA GrownTrans ==
    ASSUME NEW d \in Stores, NEW e, NEW f, Grown(d, e), Grown(e, f)
    PROVE  Grown(d, f)
<1>1. e \in Stores /\ f \in Stores
    BY DEF Grown
<1>2. /\ \A c \in Cursors : d.cur[c] \in Nat /\ e.cur[c] \in Nat /\ f.cur[c] \in Nat
      /\ \A ts \in Held(d) : d.rows[ts].ets \in Nat
      /\ \A ts \in Held(e) : e.rows[ts].ets \in Nat
      /\ \A ts \in Held(f) : f.rows[ts].ets \in Nat
    BY <1>1, StoreFacts
<1>3. \A c \in Cursors : d.cur[c] <= f.cur[c]
    BY <1>2 DEF Grown
<1>4. \A ts \in Held(d) : /\ f.rows[ts].from = d.rows[ts].from
                          /\ d.rows[ts].gap => f.rows[ts].gap
                          /\ d.rows[ts].ets <= f.rows[ts].ets
  <2> SUFFICES ASSUME NEW ts \in Held(d)
               PROVE  /\ f.rows[ts].from = d.rows[ts].from
                      /\ d.rows[ts].gap => f.rows[ts].gap
                      /\ d.rows[ts].ets <= f.rows[ts].ets
    OBVIOUS
  <2>1. ts \in Held(e) /\ ts \in Held(f)
    BY DEF Grown
  <2>2. d.rows[ts].ets <= e.rows[ts].ets /\ e.rows[ts].ets <= f.rows[ts].ets
    BY <2>1 DEF Grown
  <2>3. d.rows[ts].ets <= f.rows[ts].ets
    BY <1>2, <2>1, <2>2
  <2>. QED
    BY <2>1, <2>3 DEF Grown
<1>. QED
    BY <1>3, <1>4 DEF Grown

\* A cursor is moved.
LEMMA BumpFacts ==
    ASSUME NEW d \in Stores, NEW c \in Cursors, NEW ts \in Stamps0
    PROVE  /\ Grown(d, Bump(d, c, ts)) /\ Bump(d, c, ts).rows = d.rows
           /\ Bump(d, c, ts).emojis = d.emojis
           /\ Bump(d, c, ts).cur[c] = (IF d.cur[c] >= ts THEN d.cur[c] ELSE ts)
           /\ \A b \in Cursors : b # c => Bump(d, c, ts).cur[b] = d.cur[b]
<1> DEFINE e == Bump(d, c, ts)
           m == Max({d.cur[c], ts})
<1>1. /\ d.cur \in [Cursors -> Stamps0] /\ \A b \in Cursors : d.cur[b] \in Nat
      /\ \A x \in Held(d) : d.rows[x].ets \in Nat
    BY StoreFacts
<1>2. m = (IF d.cur[c] >= ts THEN d.cur[c] ELSE ts)
  <2>1. d.cur[c] \in Nat /\ ts \in Nat
    BY <1>1, SyncAssumption DEF Stamps0
  <2>. QED
    BY <2>1, MaxPair
<1>3. m \in Stamps0 /\ d.cur[c] <= m
    BY <1>1, <1>2, SyncAssumption DEF Stamps0
<1>4. e = [d EXCEPT !.cur = [d.cur EXCEPT ![c] = m]]
    BY <1>1 DEF Bump, Stores
<1> HIDE DEF m, e
<1>5. e \in Stores /\ e.rows = d.rows /\ e.emojis = d.emojis /\ e.cur = [d.cur EXCEPT ![c] = m]
    BY <1>1, <1>3, <1>4 DEF Stores
<1>6. e.cur[c] = m /\ \A b \in Cursors : b # c => e.cur[b] = d.cur[b]
    BY <1>1, <1>5
<1>7. \A b \in Cursors : d.cur[b] <= e.cur[b]
    BY <1>1, <1>3, <1>6
<1>8. Grown(d, e)
    BY <1>1, <1>5, <1>7 DEF Grown, Held
<1>. QED
    BY <1>2, <1>5, <1>6, <1>8 DEF e

\* A row is written, over the one that is held if there is one.
LEMMA UpsertedFacts ==
    ASSUME NEW d \in Stores, NEW ts \in Times, NEW row \in Row
    PROVE  LET e == Upserted(d, ts, row)
           IN  /\ Grown(d, e) /\ Held(e) = Held(d) \union {ts} /\ e.cur = d.cur /\ e.emojis = d.emojis
               /\ \A x \in Held(d) : x # ts => e.rows[x] = d.rows[x]
               /\ e.rows[ts].body = row.body
               /\ row.gap => e.rows[ts].gap
               /\ ts \notin Held(d) => e.rows[ts] = row
<1> DEFINE new == IF ts \in Held(d) THEN Merged(d.rows[ts], row) ELSE row
           e == Upserted(d, ts, row)
           D == Held(d) \union {ts}
<1>1. /\ d.rows \in [Held(d) -> Row] /\ Held(d) \in SUBSET Times
      /\ \A c \in Cursors : d.cur[c] \in Nat
      /\ \A x \in Held(d) : d.rows[x] \in Row /\ d.rows[x].ets \in Nat
    BY StoreFacts
<1>2. \A r \in Row : /\ r.from \in {"me", "peer"} /\ r.body \in Stamps0 /\ r.edts \in Stamps0
                     /\ r.ets \in Stamps0 /\ r.ets \in Nat /\ r.gap \in BOOLEAN
    BY SyncAssumption DEF Row, Stamps0
<1>3. ASSUME ts \in Held(d)
      PROVE  /\ Merged(d.rows[ts], row) \in Row /\ Merged(d.rows[ts], row).from = d.rows[ts].from
             /\ Merged(d.rows[ts], row).body = row.body
             /\ Merged(d.rows[ts], row).ets >= d.rows[ts].ets
             /\ d.rows[ts].gap \/ row.gap => Merged(d.rows[ts], row).gap
  <2> DEFINE old == d.rows[ts]
             m == Max({old.ets, row.ets})
  <2>1. old \in Row
    BY <1>1, <1>3
  <2>2. m = IF old.ets >= row.ets THEN old.ets ELSE row.ets
    BY <1>2, <2>1, MaxPair
  <2>3. m \in Stamps0 /\ m >= old.ets
    BY <1>2, <2>1, <2>2
  <2>4. Stamp(row.edts, old.edts) \in Stamps0
    BY <1>2, <2>1 DEF Stamp
  <2>5. Merged(old, row) = [from |-> old.from, body |-> row.body, edts |-> Stamp(row.edts, old.edts),
                            ets |-> m, gap |-> old.gap \/ row.gap]
    BY DEF Merged
  <2>6. old.gap \/ row.gap \in BOOLEAN
    BY <1>2, <2>1
  <2> HIDE DEF m, old
  <2>7. Merged(old, row) \in Row
    BY <1>2, <2>1, <2>3, <2>4, <2>5, <2>6 DEF Row, Stamps0
  <2>8. /\ Merged(old, row).from = old.from /\ Merged(old, row).body = row.body
        /\ Merged(old, row).ets = m /\ Merged(old, row).gap = (old.gap \/ row.gap)
    BY <2>5
  <2>9. old.gap \/ row.gap => Merged(old, row).gap
    BY <2>8
  <2>. QED
    BY <2>3, <2>7, <2>8, <2>9 DEF old
<1>4. new \in Row /\ e = [d EXCEPT !.rows = [x \in D |-> IF x = ts THEN new ELSE d.rows[x]]]
    BY <1>3 DEF Upserted, WithRow
<1>5. /\ new.body = row.body /\ (row.gap => new.gap)
      /\ ts \notin Held(d) => new = row
      /\ ts \in Held(d) => /\ new.from = d.rows[ts].from /\ new.ets >= d.rows[ts].ets
                           /\ d.rows[ts].gap => new.gap
    BY <1>3
<1> HIDE DEF new, e
<1>6. /\ e.rows = [x \in D |-> IF x = ts THEN new ELSE d.rows[x]]
      /\ e.emojis = d.emojis /\ e.cur = d.cur
    BY <1>4 DEF Stores
<1>7. e.rows \in [D -> Row] /\ D \in SUBSET Times
    BY <1>1, <1>4, <1>6
<1>8. e \in Stores
    BY <1>4, <1>6, <1>7 DEF Stores
<1>9. Held(e) = D
    BY <1>7 DEF Held
<1>10. e.rows[ts] = new /\ \A x \in Held(d) : x # ts => e.rows[x] = d.rows[x]
    BY <1>6
<1>11. Grown(d, e)
  <2>1. \A x \in Held(d) : /\ e.rows[x].from = d.rows[x].from
                           /\ d.rows[x].gap => e.rows[x].gap
                           /\ d.rows[x].ets <= e.rows[x].ets
    <3> SUFFICES ASSUME NEW x \in Held(d)
                 PROVE  /\ e.rows[x].from = d.rows[x].from
                        /\ d.rows[x].gap => e.rows[x].gap
                        /\ d.rows[x].ets <= e.rows[x].ets
      OBVIOUS
    <3>1. CASE x = ts
      <4>1. new.ets \in Nat /\ d.rows[x].ets \in Nat
        BY <1>1, <1>2, <1>4
      <4>. QED
        BY <1>5, <1>10, <3>1, <4>1
    <3>2. CASE x # ts
      <4>1. e.rows[x] = d.rows[x] /\ d.rows[x].ets \in Nat
        BY <1>1, <1>10, <3>2
      <4>. QED
        BY <4>1
    <3>. QED
      BY <3>1, <3>2
  <2>2. \A c \in Cursors : d.cur[c] <= e.cur[c]
    BY <1>1, <1>6
  <2>. QED
    BY <1>8, <1>9, <2>1, <2>2 DEF Grown
<1>12. e.rows[ts].body = row.body /\ (row.gap => e.rows[ts].gap) /\ (ts \notin Held(d) => e.rows[ts] = row)
    BY <1>5, <1>10, Zenon
<1>. QED
    BY <1>6, <1>9, <1>10, <1>11, <1>12 DEF e

\* A row that is held gets another body or another stamp.
LEMMA RewrittenFacts ==
    ASSUME NEW d \in Stores, NEW ts \in Held(d), NEW row \in Row,
           row.from = d.rows[ts].from, row.gap = d.rows[ts].gap, row.ets >= d.rows[ts].ets
    PROVE  LET e == [d EXCEPT !.rows[ts] = row]
           IN  /\ Grown(d, e) /\ Held(e) = Held(d) /\ e.cur = d.cur /\ e.emojis = d.emojis
               /\ e.rows[ts] = row /\ \A x \in Held(d) : x # ts => e.rows[x] = d.rows[x]
<1> DEFINE e == [d EXCEPT !.rows[ts] = row]
<1>1. /\ d.rows \in [Held(d) -> Row] /\ Held(d) \in SUBSET Times
      /\ \A c \in Cursors : d.cur[c] \in Nat
      /\ \A x \in Held(d) : d.rows[x].ets \in Nat
    BY StoreFacts
<1>2. /\ e.rows = [d.rows EXCEPT ![ts] = row] /\ e.emojis = d.emojis /\ e.cur = d.cur
    BY DEF Stores
<1>3. e.rows \in [Held(d) -> Row]
    BY <1>1, <1>2
<1>4. e \in Stores
  <2>1. e.rows \in UNION {[D -> Row] : D \in SUBSET Times}
    BY <1>1, <1>3
  <2>2. e = [d EXCEPT !.rows = [d.rows EXCEPT ![ts] = row]]
    OBVIOUS
  <2> HIDE DEF e
  <2>. QED
    BY <1>2, <2>1, <2>2 DEF Stores
<1> HIDE DEF e
<1>5. Held(e) = Held(d) /\ e.rows[ts] = row /\ \A x \in Held(d) : x # ts => e.rows[x] = d.rows[x]
    BY <1>1, <1>2, <1>3 DEF Held
<1>6. row.ets \in Nat
    BY SyncAssumption DEF Row
<1>7. Grown(d, e)
  <2>1. \A x \in Held(d) : /\ e.rows[x].from = d.rows[x].from
                           /\ d.rows[x].gap => e.rows[x].gap
                           /\ d.rows[x].ets <= e.rows[x].ets
    BY <1>1, <1>5, <1>6
  <2>2. \A c \in Cursors : d.cur[c] <= e.cur[c]
    BY <1>1, <1>2
  <2>. QED
    BY <1>4, <1>5, <2>1, <2>2 DEF Grown
<1>. QED
    BY <1>2, <1>5, <1>7 DEF e

LEMMA GrownSame ==
    ASSUME NEW d \in Stores, NEW e \in Stores, e.rows = d.rows, e.cur = d.cur
    PROVE  Grown(d, e) /\ Held(e) = Held(d)
<1>1. /\ \A c \in Cursors : d.cur[c] \in Nat
      /\ \A x \in Held(d) : d.rows[x].ets \in Nat
    BY StoreFacts
<1>. QED
    BY <1>1 DEF Grown, Held

LEMMA EditedFacts ==
    ASSUME NEW d \in Stores, NEW ts \in Times, NEW body \in Stamps0, NEW edts \in Stamps0
    PROVE  LET e == Edited(d, ts, body, edts)
           IN  /\ Grown(d, e) /\ Held(e) = Held(d) /\ e.cur = d.cur /\ e.emojis = d.emojis
               /\ ts \in Held(d) => e.rows[ts].body = body
               /\ \A x \in Held(d) : x # ts => e.rows[x] = d.rows[x]
<1>1. CASE ts \in Held(d)
  <2> DEFINE old == d.rows[ts]
             m == Max({old.edts, edts})
             row == [old EXCEPT !.body = body, !.edts = m]
  <2>1. old \in Row /\ old.edts \in Nat /\ edts \in Nat /\ old.edts \in Stamps0 /\ old.ets \in Nat
    <3>1. old \in Row
      BY <1>1, StoreFacts
    <3>2. old.edts \in Stamps0 /\ old.ets \in Stamps0
      BY <3>1 DEF Row, Stamps0
    <3>. QED
      BY <3>1, <3>2, SyncAssumption DEF Stamps0
  <2>2. m \in Stamps0
    BY <2>1, MaxPair
  <2>3. Edited(d, ts, body, edts) = [d EXCEPT !.rows[ts] = row]
    <3>1. Edited(d, ts, body, edts) =
              [d EXCEPT !.rows[ts].body = body, !.rows[ts].edts = Max({@, edts})]
      BY <1>1, Zenon DEF Edited
    <3>. QED
      BY <1>1, <2>1, <3>1, StoreFacts DEF Stores, Row
  <2> HIDE DEF m
  <2>4. row \in Row /\ row.from = old.from /\ row.gap = old.gap /\ row.ets = old.ets /\ row.body = body
    BY <2>1, <2>2 DEF Row, Stamps0
  <2> HIDE DEF row
  <2>5. row.ets >= old.ets
    BY <2>1, <2>4
  <2>. QED
    BY <1>1, <2>3, <2>4, <2>5, RewrittenFacts
<1>2. CASE ts \notin Held(d)
    BY <1>2, GrownSame DEF Edited
<1>. QED
    BY <1>1, <1>2

LEMMA WithEtsFacts ==
    ASSUME NEW d \in Stores, NEW ts \in Times, NEW ets \in Stamps0
    PROVE  LET e == WithEts(d, ts, ets)
           IN  /\ Grown(d, e) /\ Held(e) = Held(d) /\ e.cur = d.cur /\ e.emojis = d.emojis
               /\ \A x \in Held(d) : e.rows[x].body = d.rows[x].body
<1>1. CASE ts \in Held(d)
  <2> DEFINE old == d.rows[ts]
             m == Max({old.ets, ets})
             row == [old EXCEPT !.ets = m]
  <2>1. old \in Row /\ old.ets \in Nat /\ ets \in Nat /\ old.ets \in Stamps0
    <3>1. old \in Row
      BY <1>1, StoreFacts
    <3>2. old.ets \in Stamps0
      BY <3>1 DEF Row, Stamps0
    <3>. QED
      BY <3>1, <3>2, SyncAssumption DEF Stamps0
  <2>2. m \in Stamps0 /\ m >= old.ets
    BY <2>1, MaxPair
  <2>3. WithEts(d, ts, ets) = [d EXCEPT !.rows[ts] = row]
    <3>1. WithEts(d, ts, ets) = [d EXCEPT !.rows[ts].ets = m]
      BY <1>1 DEF WithEts
    <3>. QED
      BY <3>1
  <2> HIDE DEF m
  <2>4. row \in Row /\ row.from = old.from /\ row.gap = old.gap /\ row.ets = m /\ row.body = old.body
    BY <2>1, <2>2 DEF Row, Stamps0
  <2> HIDE DEF row
  <2>5. row.ets >= old.ets
    BY <2>2, <2>4
  <2>. QED
    BY <1>1, <2>3, <2>4, <2>5, RewrittenFacts
<1>2. CASE ts \notin Held(d)
    BY <1>2, GrownSame DEF WithEts
<1>. QED
    BY <1>1, <1>2

LEMMA EmojisFacts ==
    ASSUME NEW d \in Stores, NEW ts \in Times, NEW S \in SUBSET Stamps0
    PROVE  LET e == [d EXCEPT !.emojis[ts] = S]
           IN  /\ Grown(d, e) /\ Held(e) = Held(d) /\ e.cur = d.cur /\ e.rows = d.rows
               /\ e.emojis = [d.emojis EXCEPT ![ts] = S]
<1> DEFINE e == [d EXCEPT !.emojis[ts] = S]
<1>1. e.cur = d.cur /\ e.rows = d.rows /\ e.emojis = [d.emojis EXCEPT ![ts] = S]
    BY DEF Stores
<1>2. e.emojis \in [Times -> SUBSET Stamps0]
    BY <1>1, StoreFacts
<1>3. e \in Stores
  <2>1. e = [d EXCEPT !.emojis = [d.emojis EXCEPT ![ts] = S]]
    OBVIOUS
  <2> HIDE DEF e
  <2>. QED
    BY <1>1, <1>2, <2>1 DEF Stores
<1> HIDE DEF e
<1>4. Grown(d, e) /\ Held(e) = Held(d)
    BY <1>1, <1>3, GrownSame
<1>. QED
    BY <1>1, <1>4 DEF e

LEMMA ReactionsSetFacts ==
    ASSUME NEW d \in Stores, NEW ts \in Times, NEW all \in SUBSET Stamps0, NEW ets \in Stamps0
    PROVE  LET e == ReactionsSet(d, ts, all, ets)
           IN  /\ SameRowsHeld(d, e) /\ e.emojis = [d.emojis EXCEPT ![ts] = all]
               /\ \A x \in Held(d) : e.rows[x].body = d.rows[x].body
               /\ e.cur["edit"] = d.cur["edit"]
               /\ e.cur["emoji"] = (IF d.cur["emoji"] >= ets THEN d.cur["emoji"] ELSE ets)
<1> DEFINE a == [d EXCEPT !.emojis[ts] = all]
           b == WithEts(a, ts, ets)
           e == Bump(b, "emoji", ets)
<1>1. /\ Grown(d, a) /\ Held(a) = Held(d) /\ a.cur = d.cur /\ a.rows = d.rows /\ a \in Stores
      /\ a.emojis = [d.emojis EXCEPT ![ts] = all]
    BY EmojisFacts DEF Grown
<1> HIDE DEF a
<1>2. /\ Grown(a, b) /\ Held(b) = Held(a) /\ b.cur = a.cur /\ b.emojis = a.emojis /\ b \in Stores
      /\ \A x \in Held(a) : b.rows[x].body = a.rows[x].body
    BY <1>1, WithEtsFacts DEF Grown
<1> HIDE DEF b
<1>3. /\ Grown(b, e) /\ e.rows = b.rows /\ e.emojis = b.emojis
      /\ e.cur["emoji"] = (IF b.cur["emoji"] >= ets THEN b.cur["emoji"] ELSE ets)
      /\ e.cur["post"] = b.cur["post"] /\ e.cur["edit"] = b.cur["edit"]
    BY <1>2, BumpFacts DEF Cursors
<1>4. e = ReactionsSet(d, ts, all, ets)
    BY DEF ReactionsSet, b, a
<1> HIDE DEF e
<1>5. Grown(d, e)
  <2>1. Grown(d, b)
    BY <1>1, <1>2, GrownTrans
  <2>. QED
    BY <1>3, <2>1, GrownTrans
<1>6. Held(e) = Held(d) /\ e.cur["post"] = d.cur["post"]
    BY <1>1, <1>2, <1>3 DEF Held
<1>. QED
    BY <1>1, <1>2, <1>3, <1>4, <1>5, <1>6 DEF SameRowsHeld

LEMMA ReactedFacts ==
    ASSUME NEW d \in Stores, NEW ts \in Times, NEW x \in Stamps0, NEW add \in BOOLEAN, NEW ets \in Stamps0
    PROVE  LET e == Reacted(d, ts, x, add, ets)
           IN  /\ SameRowsHeld(d, e)
               /\ e.emojis = [d.emojis EXCEPT ![ts] = IF add THEN @ \union {x} ELSE @ \ {x}]
               /\ \A y \in Held(d) : e.rows[y].body = d.rows[y].body
               /\ e.cur["edit"] = d.cur["edit"] /\ d.cur["emoji"] <= e.cur["emoji"]
               /\ e.cur["emoji"] = d.cur["emoji"] \/ e.cur["emoji"] = ets
<1>0. d.emojis \in [Times -> SUBSET Stamps0] /\ d.cur["emoji"] \in Nat /\ ets \in Nat
    BY StoreFacts, SyncAssumption DEF Stamps0, Cursors
<1>1. CASE add
  <2> DEFINE all == d.emojis[ts] \union {x}
             e == ReactionsSet(d, ts, all, ets)
  <2>1. all \in SUBSET Stamps0
    BY <1>0
  <2>2. Reacted(d, ts, x, add, ets) = e
    BY <1>1 DEF Reacted, ReactionsSet
  <2> HIDE DEF all
  <2>3. /\ SameRowsHeld(d, e) /\ e.emojis = [d.emojis EXCEPT ![ts] = all]
        /\ \A y \in Held(d) : e.rows[y].body = d.rows[y].body
        /\ e.cur["edit"] = d.cur["edit"]
        /\ e.cur["emoji"] = (IF d.cur["emoji"] >= ets THEN d.cur["emoji"] ELSE ets)
    BY <2>1, ReactionsSetFacts
  <2> HIDE DEF e
  <2>4. [d.emojis EXCEPT ![ts] = all] = [d.emojis EXCEPT ![ts] = IF add THEN @ \union {x} ELSE @ \ {x}]
    BY <1>1 DEF all
  <2>5. d.cur["emoji"] <= e.cur["emoji"] /\ (e.cur["emoji"] = d.cur["emoji"] \/ e.cur["emoji"] = ets)
    BY <1>0, <2>3
  <2>. QED
    BY <2>2, <2>3, <2>4, <2>5
<1>2. CASE ~add
  <2> DEFINE all == d.emojis[ts] \ {x}
             e == [d EXCEPT !.emojis[ts] = all]
  <2>1. all \in SUBSET Stamps0
    BY <1>0
  <2>2. Reacted(d, ts, x, add, ets) = e
    BY <1>2 DEF Reacted
  <2> HIDE DEF all
  <2>3. /\ Grown(d, e) /\ Held(e) = Held(d) /\ e.cur = d.cur /\ e.rows = d.rows
        /\ e.emojis = [d.emojis EXCEPT ![ts] = all]
    BY <2>1, EmojisFacts
  <2> HIDE DEF e
  <2>. QED
    BY <1>0, <1>2, <2>2, <2>3 DEF all, SameRowsHeld
<1>. QED
    BY <1>1, <1>2

LEMMA RowIsHeldStays ==
    ASSUME NEW d \in Stores, NEW e \in Stores, NEW g, NEW f, RowIsHeld(d, e, f), Grown(e, g),
           Held(g) = Held(e), g.cur["post"] = e.cur["post"] \/ g.cur["post"] = f.ts
    PROVE  RowIsHeld(d, g, f)
<1>1. Grown(d, g)
    BY GrownTrans DEF RowIsHeld
<1>2. f.ts \in Held(e)
    BY DEF RowIsHeld
<1>. QED
    BY <1>1, <1>2 DEF RowIsHeld, Grown

\* A row comes: whenever the process dies in it, the row is held if the cursor is
\* at it.
LEMMA RowComesFacts ==
    ASSUME NEW d \in Stores, NEW f \in RowFrames
    PROVE  /\ Len(RowComes(d, f)) \in {1, 2} /\ DOMAIN RowComes(d, f) = 1 .. Len(RowComes(d, f))
           /\ \A i \in DOMAIN RowComes(d, f) : RowIsHeld(d, RowComes(d, f)[i], f)
<1> DEFINE row == Upserted(d, f.ts, RowOf(f))
           bumped == Bump(row, "post", f.ts)
           all == ReactionsSet(bumped, f.ts, f.reacts, f.ets)
<1>1. /\ f.ts \in Times /\ f.ts \in Stamps0 /\ f.from \in {"me", "peer"} /\ f.body \in Stamps0
      /\ f.reacts \in SUBSET Stamps0 /\ f.ets \in Stamps0 /\ f.gap \in BOOLEAN
    BY SyncAssumption DEF RowFrames, Times, Stamps0
<1>2. RowOf(f) \in Row /\ RowOf(f).gap = f.gap /\ RowOf(f).from = f.from
  <2>1. (IF kind = "dm" THEN 0 ELSE f.ets) \in Stamps0
    BY <1>1, SyncAssumption DEF Stamps0
  <2>. QED
    BY <1>1, <2>1 DEF RowOf, Row, Stamps0
<1>3. RowIsHeld(d, row, f) /\ row \in Stores
  <2>1. /\ Grown(d, row) /\ Held(row) = Held(d) \union {f.ts} /\ row.cur = d.cur
        /\ RowOf(f).gap => row.rows[f.ts].gap
        /\ f.ts \notin Held(d) => row.rows[f.ts] = RowOf(f)
    BY <1>1, <1>2, UpsertedFacts
  <2> HIDE DEF row
  <2>. QED
    BY <1>2, <2>1 DEF RowIsHeld, Grown
<1> HIDE DEF row
<1>4. RowIsHeld(d, bumped, f) /\ bumped \in Stores
  <2>1. /\ Grown(row, bumped) /\ bumped.rows = row.rows
        /\ bumped.cur["post"] = row.cur["post"] \/ bumped.cur["post"] = f.ts
    BY <1>1, <1>3, BumpFacts DEF Cursors
  <2> HIDE DEF bumped
  <2>2. Held(bumped) = Held(row) /\ bumped \in Stores
    BY <2>1 DEF Held, Grown
  <2>. QED
    BY <1>3, <2>1, <2>2, RowIsHeldStays
<1> HIDE DEF bumped
<1>5. RowIsHeld(d, all, f)
  <2>1. SameRowsHeld(bumped, all)
    BY <1>1, <1>4, ReactionsSetFacts
  <2> HIDE DEF all
  <2>. QED
    BY <1>4, <2>1, RowIsHeldStays DEF SameRowsHeld
<1> HIDE DEF all
<1>6. RowComes(d, f) \in {<<row, bumped>>, <<bumped>>, <<bumped, all>>}
    BY DEF RowComes, row, bumped, all
<1>. QED
    BY <1>3, <1>4, <1>5, <1>6

LEMMA EditComesFacts ==
    ASSUME NEW d \in Stores, NEW f \in EditFrames, clock \in Stamps0
    PROVE  /\ Len(EditComes(d, f)) = 2 /\ DOMAIN EditComes(d, f) = 1 .. 2
           /\ \A i \in 1 .. 2 : SameRowsHeld(d, EditComes(d, f)[i])
<1> DEFINE edts == Stamp(f.edts, clock)
           row == Edited(d, f.ts, f.body, edts)
           e == Bump(row, "edit", edts)
<1>1. f.ts \in Times /\ f.body \in Stamps0 /\ edts \in Stamps0
    BY DEF EditFrames, Stamp
<1> HIDE DEF edts
<1>2. Grown(d, row) /\ Held(row) = Held(d) /\ row.cur = d.cur /\ row \in Stores
    BY <1>1, EditedFacts DEF Grown
<1> HIDE DEF row
<1>3. Grown(row, e) /\ e.rows = row.rows /\ e.cur["post"] = row.cur["post"]
    BY <1>1, <1>2, BumpFacts DEF Cursors
<1> HIDE DEF e
<1>4. Grown(d, e)
    BY <1>2, <1>3, GrownTrans
<1>5. EditComes(d, f) = <<row, e>>
    BY DEF EditComes, row, e, edts
<1>6. SameRowsHeld(d, row) /\ SameRowsHeld(d, e)
    BY <1>2, <1>3, <1>4 DEF SameRowsHeld, Held
<1>. QED
    BY <1>5, <1>6

LEMMA ReactionsComeFacts ==
    ASSUME NEW d \in Stores, NEW f \in ReactsFrames
    PROVE  /\ Len(ReactionsCome(d, f)) \in {1, 2}
           /\ DOMAIN ReactionsCome(d, f) = 1 .. Len(ReactionsCome(d, f))
           /\ \A i \in DOMAIN ReactionsCome(d, f) : SameRowsHeld(d, ReactionsCome(d, f)[i])
<1> DEFINE all == ReactionsSet(d, f.ts, f.reacts, f.ets)
           row == [d EXCEPT !.emojis[f.ts] = f.reacts]
           e == Bump(row, "emoji", f.ets)
<1>1. f.ts \in Times /\ f.reacts \in SUBSET Stamps0 /\ f.ets \in Stamps0
    BY DEF ReactsFrames
<1>2. SameRowsHeld(d, all)
    BY <1>1, ReactionsSetFacts
<1>3. Grown(d, row) /\ Held(row) = Held(d) /\ row.cur = d.cur /\ row \in Stores
  <2>1. Grown(d, row) /\ Held(row) = Held(d) /\ row.cur = d.cur
    BY <1>1, EmojisFacts
  <2> HIDE DEF row
  <2>. QED
    BY <2>1 DEF Grown
<1> HIDE DEF row
<1>4. Grown(row, e) /\ e.rows = row.rows /\ e.cur["post"] = row.cur["post"]
    BY <1>1, <1>3, BumpFacts DEF Cursors
<1> HIDE DEF e, all
<1>5. SameRowsHeld(d, row) /\ SameRowsHeld(d, e)
  <2>1. Grown(d, e)
    BY <1>3, <1>4, GrownTrans
  <2>. QED
    BY <1>3, <1>4, <2>1 DEF SameRowsHeld, Held
<1>6. SameRowsHeld(d, d)
    BY GrownSame DEF SameRowsHeld
<1>7. ReactionsCome(d, f) \in {<<all>>, <<d>>, <<row, e>>}
    BY DEF ReactionsCome, all, row, e
<1>. QED
    BY <1>2, <1>5, <1>6, <1>7

\* What a frame from the server, or a frame of ours that is out, makes of the store.
Came(d, e, f) == IF f.t = "row" THEN RowIsHeld(d, e, f) ELSE SameRowsHeld(d, e)

LEMMA HandledFacts ==
    ASSUME NEW d \in Stores, NEW f \in DownFrames, clock \in Stamps0
    PROVE  /\ Len(Handled(d, f)) \in {1, 2} /\ DOMAIN Handled(d, f) = 1 .. Len(Handled(d, f))
           /\ \A i \in DOMAIN Handled(d, f) : Came(d, Handled(d, f)[i], f)
<1>1. CASE f \in RowFrames
  <2>1. f.t = "row"
    BY <1>1 DEF RowFrames
  <2>2. Handled(d, f) = RowComes(d, f)
    BY <2>1 DEF Handled
  <2>. QED
    BY <1>1, <2>1, <2>2, RowComesFacts DEF Came
<1>2. CASE f \in EditFrames
  <2>1. f.t = "edit"
    BY <1>2 DEF EditFrames
  <2>2. Handled(d, f) = EditComes(d, f)
    BY <2>1 DEF Handled
  <2>. QED
    BY <1>2, <2>1, <2>2, EditComesFacts DEF Came
<1>3. CASE f \in ReactsFrames
  <2>1. f.t = "reacts"
    BY <1>3 DEF ReactsFrames
  <2>2. Handled(d, f) = ReactionsCome(d, f)
    BY <2>1 DEF Handled
  <2>. QED
    BY <1>3, <2>1, <2>2, ReactionsComeFacts DEF Came
<1>4. CASE f \in ReactFrames
  <2>1. /\ f.t = "react" /\ f.ts \in Times /\ f.x \in Stamps0 /\ f.add \in BOOLEAN /\ f.ets \in Stamps0
    BY <1>4 DEF ReactFrames
  <2> DEFINE e == Reacted(d, f.ts, f.x, f.add, f.ets)
  <2>2. Handled(d, f) = <<e>>
    BY <2>1 DEF Handled
  <2>3. SameRowsHeld(d, e)
    BY <2>1, ReactedFacts
  <2> HIDE DEF e
  <2>. QED
    BY <2>1, <2>2, <2>3 DEF Came
<1>. QED
    BY <1>1, <1>2, <1>3, <1>4 DEF DownFrames

LEMMA OurReactionFacts ==
    ASSUME NEW d \in Stores, NEW f \in OwnReacts
    PROVE  /\ Len(OurReaction(d, f)) \in {1, 2}
           /\ DOMAIN OurReaction(d, f) = 1 .. Len(OurReaction(d, f))
           /\ \A i \in DOMAIN OurReaction(d, f) : SameRowsHeld(d, OurReaction(d, f)[i])
<1> DEFINE S == IF f.add THEN d.emojis[f.ts] \union {f.x} ELSE d.emojis[f.ts] \ {f.x}
           row == [d EXCEPT !.emojis[f.ts] = S]
           e == Bump(row, "emoji", f.ets)
           one == Reacted(d, f.ts, f.x, f.add, f.ets)
<1>1. f.ts \in Times /\ f.x \in Stamps0 /\ f.add \in BOOLEAN /\ f.ets \in Stamps0
    BY SyncAssumption DEF OwnReacts, Stamps0
<1>2. S \in SUBSET Stamps0
    BY <1>1, StoreFacts
<1>3. SameRowsHeld(d, one)
    BY <1>1, ReactedFacts
<1>4. OurReaction(d, f) \in {<<one>>, <<row, e>>}
    BY DEF OurReaction, one, row, e
<1> HIDE DEF S
<1>5. Grown(d, row) /\ Held(row) = Held(d) /\ row.cur = d.cur /\ row \in Stores
  <2>1. Grown(d, row) /\ Held(row) = Held(d) /\ row.cur = d.cur
    BY <1>1, <1>2, EmojisFacts
  <2> HIDE DEF row
  <2>. QED
    BY <2>1 DEF Grown
<1> HIDE DEF row
<1>6. Grown(row, e) /\ e.rows = row.rows /\ e.cur["post"] = row.cur["post"]
    BY <1>1, <1>5, BumpFacts DEF Cursors
<1> HIDE DEF e, one
<1>7. SameRowsHeld(d, row) /\ SameRowsHeld(d, e)
  <2>1. Grown(d, e)
    BY <1>5, <1>6, GrownTrans
  <2>. QED
    BY <1>5, <1>6, <2>1 DEF SameRowsHeld, Held
<1>. QED
    BY <1>3, <1>4, <1>7

LEMMA PersistedFacts ==
    ASSUME NEW d \in Stores, NEW f \in OwnFrames, clock \in Stamps0
    PROVE  /\ Len(Persisted(d, f)) \in {1, 2} /\ DOMAIN Persisted(d, f) = 1 .. Len(Persisted(d, f))
           /\ \A i \in DOMAIN Persisted(d, f) : Came(d, Persisted(d, f)[i], f)
<1>1. CASE f \in RowFrames
  <2> DEFINE g == [f EXCEPT !.ets = 0]
  <2>1. f.t = "row" /\ g \in RowFrames /\ g.ts = f.ts /\ g.from = f.from /\ g.gap = f.gap
    BY <1>1, SyncAssumption DEF RowFrames, Stamps0
  <2>2. Persisted(d, f) = RowComes(d, g)
    BY <2>1 DEF Persisted
  <2> HIDE DEF g
  <2>3. /\ Len(RowComes(d, g)) \in {1, 2} /\ DOMAIN RowComes(d, g) = 1 .. Len(RowComes(d, g))
        /\ \A i \in DOMAIN RowComes(d, g) : RowIsHeld(d, RowComes(d, g)[i], g)
    BY <2>1, RowComesFacts
  <2>. QED
    BY <2>1, <2>2, <2>3 DEF Came, RowIsHeld
<1>2. CASE f \in EditFrames
  <2>1. f.t = "edit"
    BY <1>2 DEF EditFrames
  <2>2. Persisted(d, f) = EditComes(d, f)
    BY <2>1 DEF Persisted
  <2>. QED
    BY <1>2, <2>1, <2>2, EditComesFacts DEF Came
<1>3. CASE f \in OwnReacts
  <2>1. f.t = "react"
    BY <1>3 DEF OwnReacts
  <2>2. Persisted(d, f) = OurReaction(d, f)
    BY <2>1 DEF Persisted
  <2>. QED
    BY <1>3, <2>1, <2>2, OurReactionFacts DEF Came
<1>. QED
    BY <1>1, <1>2, <1>3 DEF OwnFrames

-----------------------------------------------------------------------------
(* SyncStore: which rows may be missing *)

SrvRows == [from : {"me", "peer"}, edts : Stamps0, reacts : SUBSET Stamps0, ets : Stamps0]

SyncTypes ==
    /\ kind \in Kinds /\ clock \in Stamps0 /\ db \in Stores
    /\ unsaved \in OwnFrames \union {Nothing}
    /\ online \in BOOLEAN /\ held \in BOOLEAN /\ since \in Stamps0
    /\ up \in Seq(UpFrames) /\ down \in Seq(DownFrames)
    /\ srv \in UNION {[D -> SrvRows] : D \in SUBSET Times}
    /\ missed \in SUBSET ({"edit", "react"} \X Times)

\* No stamp is ahead of the clock; the row cursor is at a row that is held.
Clocked ==
    /\ \A ts \in DOMAIN srv : ts <= clock
    /\ \A ts \in Held(db) : ts <= clock
    /\ CursorIsHeld

\* What is under way goes with the link, and a held-back channel is silent.
LinkOff ==
    /\ ~online => up = <<>> /\ down = <<>> /\ ~held
    /\ held => down = <<>> /\ since <= db.cur["post"]

\* A row of ours is one of ours everywhere; it reaches the server after the store.
OwnRow(f) ==
    f.t = "row" =>
        /\ f.from = "me" /\ f.ts <= clock
        /\ f.ts \in DOMAIN srv => srv[f.ts].from = "me"
        /\ f.ts \in Held(db) => db.rows[f.ts].from = "me"
UpRows ==
    /\ OwnRow(unsaved)
    /\ \A i \in DOMAIN up :
          /\ OwnRow(up[i])
          /\ up[i].t = "row" => up[i].ts \in Held(db) \/ up[i] = unsaved

\* A row on its way back is one of the server's.
DownRow(f) == f.t = "row" => f.ts \in DOMAIN srv /\ f.from = srv[f.ts].from
DownRows == \A i \in DOMAIN down : DownRow(down[i])

\* A gap was accepted after row ts, or a row of ours is after it, or it is ours.
Behind(d, s, ts) ==
    \E later \in Held(d) :
        later > ts /\ (d.rows[later].gap \/ d.rows[later].from = "me" \/ s[ts].from = "me")

\* The row is on its way, or a later one with a gap is, and none after it comes
\* before that.
Covers(f, ts) == f.t = "row" /\ (f.ts = ts \/ (f.ts > ts /\ f.gap))
Before(f, ts) == f.t = "row" => f.ts < ts
RowComing(q, ts) == \E i \in DOMAIN q : Covers(q[i], ts) /\ \A j \in 1 .. i - 1 : Before(q[j], ts)

PassedRows(d, s) ==
    \A ts \in DOMAIN s \ Held(d) : ts <= d.cur["post"] => Behind(d, s, ts)
Waits(ts) ==
    \/ RowComing(down, ts)
    \/ ts > db.cur["post"] /\ (held \/ ~online)
    \/ unsaved.t = "row" /\ unsaved.ts = ts
    \/ Behind(db, srv, ts)
RowsWait == \A ts \in DOMAIN srv \ Held(db) : Waits(ts)

CursorInv ==
    /\ SyncTypes /\ Clocked /\ LinkOff /\ UpRows /\ DownRows
    /\ PassedRows(db, srv) /\ RowsWait

-----------------------------------------------------------------------------
(* SyncStore: what comes after a connect record *)

LEMMA TimesFinite ==
    ASSUME NEW S \in SUBSET Times
    PROVE  IsFiniteSet(S) /\ S \in SUBSET Nat
<1>1. IsFiniteSet(Times)
    BY FS_Interval, SyncAssumption DEF Times
<1>2. Times \subseteq Nat
    BY SyncAssumption DEF Times
<1>. QED
    BY <1>1, <1>2, FS_Subset

LEMMA ServerFacts ==
    ASSUME SyncTypes
    PROVE  srv \in [DOMAIN srv -> SrvRows] /\ DOMAIN srv \in SUBSET Times
BY DEF SyncTypes

LEMMA FrameFacts ==
    ASSUME NEW s, NEW ts \in Times, s[ts] \in SrvRows, NEW gap \in BOOLEAN, NEW live \in BOOLEAN
    PROVE  /\ RowFrame(s, ts, gap) \in RowFrames /\ EditFrame(s, ts, live) \in EditFrames
           /\ ReactsFrame(s, ts) \in ReactsFrames
<1>1. /\ s[ts].from \in {"me", "peer"} /\ s[ts].edts \in Stamps0 /\ s[ts].reacts \in SUBSET Stamps0
      /\ s[ts].ets \in Stamps0
    BY DEF SrvRows
<1>2. (IF live /\ kind = "dm" THEN 0 ELSE s[ts].edts) \in Stamps0
    BY <1>1, SyncAssumption DEF Stamps0
<1>3. RowFrame(s, ts, gap) \in RowFrames
    BY <1>1 DEF RowFrame, RowFrames
<1>4. EditFrame(s, ts, live) \in EditFrames
    BY <1>1, <1>2 DEF EditFrame, EditFrames
<1>5. ReactsFrame(s, ts) \in ReactsFrames
    BY <1>1 DEF ReactsFrame, ReactsFrames
<1>. QED
    BY <1>3, <1>4, <1>5

\* A sequence given by its members.
LEMMA MadeSequence ==
    ASSUME NEW S, NEW n \in Nat, NEW q, q = [i \in 1 .. n |-> q[i]], \A i \in 1 .. n : q[i] \in S
    PROVE  q \in Seq(S) /\ Len(q) = n /\ DOMAIN q = 1 .. n
<1>1. q \in [1 .. n -> S]
    OBVIOUS
<1>. QED
    BY <1>1, SeqDef

\* What is on its way is so whatever follows it.
LEMMA RowComingConcat ==
    ASSUME NEW p \in Seq(DownFrames), NEW q \in Seq(DownFrames), NEW ts, RowComing(p, ts)
    PROVE  RowComing(p \o q, ts)
<1>1. PICK i \in DOMAIN p : Covers(p[i], ts) /\ \A j \in 1 .. i - 1 : Before(p[j], ts)
    BY DEF RowComing
<1>2. /\ Len(p) \in Nat /\ Len(q) \in Nat /\ DOMAIN p = 1 .. Len(p) /\ i \in 1 .. Len(p)
      /\ DOMAIN (p \o q) = 1 .. Len(p) + Len(q)
      /\ \A j \in 1 .. Len(p) : (p \o q)[j] = p[j]
  <2>1. /\ Len(p) \in Nat /\ Len(q) \in Nat /\ DOMAIN p = 1 .. Len(p)
        /\ p \o q \in Seq(DownFrames) /\ Len(p \o q) = Len(p) + Len(q)
        /\ \A j \in 1 .. Len(p) + Len(q) : (p \o q)[j] = IF j <= Len(p) THEN p[j] ELSE q[j - Len(p)]
    BY LenProperties, ConcatProperties
  <2>2. DOMAIN (p \o q) = 1 .. Len(p) + Len(q)
    BY <2>1, LenProperties
  <2> DEFINE r == p \o q
             m == Len(p)
             n == Len(q)
  <2> HIDE DEF r, m, n
  <2>3. \A j \in 1 .. m : r[j] = p[j]
    BY <2>1 DEF r, m, n
  <2>. QED
    BY <1>1, <2>1, <2>2, <2>3 DEF r, m
<1>3. i \in DOMAIN (p \o q) /\ \A j \in 1 .. i - 1 : j \in 1 .. Len(p)
    BY <1>2
<1>4. Covers((p \o q)[i], ts) /\ \A j \in 1 .. i - 1 : Before((p \o q)[j], ts)
    BY <1>1, <1>2, <1>3
<1>. QED
    BY <1>3, <1>4 DEF RowComing

\* Two answers, one after the other.
LEMMA DownConcat ==
    ASSUME NEW p \in Seq(DownFrames), NEW q \in Seq(DownFrames),
           \A i \in DOMAIN p : DownRow(p[i]), \A i \in DOMAIN q : DownRow(q[i])
    PROVE  p \o q \in Seq(DownFrames) /\ \A i \in DOMAIN (p \o q) : DownRow((p \o q)[i])
<1> DEFINE m == Len(p)
           n == Len(q)
           r == p \o q
<1>1. /\ m \in Nat /\ n \in Nat /\ DOMAIN p = 1 .. m /\ DOMAIN q = 1 .. n
      /\ r \in Seq(DownFrames) /\ Len(r) = m + n
      /\ \A j \in 1 .. m + n : r[j] = IF j <= m THEN p[j] ELSE q[j - m]
    BY LenProperties, ConcatProperties
<1>2. DOMAIN r = 1 .. m + n
    BY <1>1, LenProperties
<1> HIDE DEF m, n, r
<1>3. ASSUME NEW i \in 1 .. m + n PROVE DownRow(r[i])
  <2>1. CASE i <= m
    <3>1. i \in DOMAIN p /\ r[i] = p[i]
      BY <1>1, <2>1
    <3>. QED
      BY <3>1
  <2>2. CASE i > m
    <3>1. i - m \in DOMAIN q /\ r[i] = q[i - m]
      BY <1>1, <2>2
    <3>. QED
      BY <3>1
  <2>. QED
    BY <1>1, <2>1, <2>2
<1>. QED
    BY <1>1, <1>2, <1>3 DEF r

\* The replay: every row after the cursor comes, oldest first.
LEMMA ReplayFacts ==
    ASSUME SyncTypes, NEW lp \in Stamps0, NEW led \in Stamps0, NEW le \in Stamps0
    PROVE  /\ Replay(lp, led, le) \in Seq(DownFrames)
           /\ \A i \in DOMAIN Replay(lp, led, le) : DownRow(Replay(lp, led, le)[i])
           /\ \A ts \in DOMAIN srv : ts > lp => RowComing(Replay(lp, led, le), ts)
<1> DEFINE old == {ts \in DOMAIN srv : ts <= lp}
           SA == {ts \in DOMAIN srv : ts > lp}
           SB == {ts \in old : srv[ts].edts > led}
           SC == {ts \in (IF kind = "dm" THEN DOMAIN srv ELSE old) : srv[ts].ets > le}
           A == [i \in 1 .. Len(Ascending(SA)) |-> RowFrame(srv, Ascending(SA)[i], FALSE)]
           B == [i \in 1 .. Len(Ascending(SB)) |-> EditFrame(srv, Ascending(SB)[i], FALSE)]
           C == [i \in 1 .. Len(Ascending(SC)) |-> ReactsFrame(srv, Ascending(SC)[i])]
<1>1. Replay(lp, led, le) = (A \o B) \o C
    BY DEF Replay, Frames
<1>2. SA \subseteq DOMAIN srv /\ SB \subseteq DOMAIN srv /\ SC \subseteq DOMAIN srv
    OBVIOUS
<1>3. \A S \in SUBSET DOMAIN srv :
          /\ Len(Ascending(S)) \in Nat /\ DOMAIN Ascending(S) = 1 .. Len(Ascending(S))
          /\ Increasing(Ascending(S))
          /\ \A i \in 1 .. Len(Ascending(S)) : Ascending(S)[i] \in S
          /\ \A ts \in S : \E i \in 1 .. Len(Ascending(S)) : Ascending(S)[i] = ts
  <2> SUFFICES ASSUME NEW S \in SUBSET DOMAIN srv
               PROVE  /\ Len(Ascending(S)) \in Nat /\ DOMAIN Ascending(S) = 1 .. Len(Ascending(S))
                      /\ Increasing(Ascending(S))
                      /\ \A i \in 1 .. Len(Ascending(S)) : Ascending(S)[i] \in S
                      /\ \A ts \in S : \E i \in 1 .. Len(Ascending(S)) : Ascending(S)[i] = ts
    OBVIOUS
  <2>1. S \in SUBSET Nat /\ IsFiniteSet(S)
    BY ServerFacts, TimesFinite
  <2>. QED
    BY <2>1, AscendingFacts
<1>4. \A ts \in DOMAIN srv : ts \in Times /\ srv[ts] \in SrvRows
    BY ServerFacts
<1>5. /\ A \in Seq(DownFrames) /\ Len(A) = Len(Ascending(SA)) /\ DOMAIN A = 1 .. Len(Ascending(SA))
      /\ \A i \in DOMAIN A : DownRow(A[i])
  <2>1. \A i \in 1 .. Len(Ascending(SA)) : A[i] \in RowFrames /\ DownRow(A[i])
    <3> SUFFICES ASSUME NEW i \in 1 .. Len(Ascending(SA))
                 PROVE  A[i] \in RowFrames /\ DownRow(A[i])
      OBVIOUS
    <3> DEFINE ts == Ascending(SA)[i]
    <3>1. ts \in DOMAIN srv /\ A[i] = RowFrame(srv, ts, FALSE)
      BY <1>2, <1>3
    <3> HIDE DEF ts, A
    <3>2. RowFrame(srv, ts, FALSE) \in RowFrames
      BY <1>4, <3>1, FrameFacts
    <3>3. RowFrame(srv, ts, FALSE).ts = ts /\ RowFrame(srv, ts, FALSE).from = srv[ts].from
      BY DEF RowFrame
    <3>. QED
      BY <3>1, <3>2, <3>3 DEF DownRow
  <2> DEFINE n == Len(Ascending(SA))
  <2>2. n \in Nat /\ A = [i \in 1 .. n |-> A[i]]
    BY <1>2, <1>3
  <2> HIDE DEF A, n
  <2>3. A \in Seq(DownFrames) /\ Len(A) = n /\ DOMAIN A = 1 .. n
    BY <2>1, <2>2, MadeSequence DEF DownFrames, n
  <2>. QED
    BY <2>1, <2>3 DEF n
<1>6. B \in Seq(DownFrames) /\ \A i \in DOMAIN B : DownRow(B[i])
  <2>1. \A i \in 1 .. Len(Ascending(SB)) : B[i] \in EditFrames
    <3> SUFFICES ASSUME NEW i \in 1 .. Len(Ascending(SB))
                 PROVE  B[i] \in EditFrames
      OBVIOUS
    <3> DEFINE ts == Ascending(SB)[i]
    <3>1. ts \in DOMAIN srv /\ B[i] = EditFrame(srv, ts, FALSE)
      BY <1>2, <1>3
    <3> HIDE DEF ts, B
    <3>. QED
      BY <1>4, <3>1, FrameFacts
  <2> DEFINE n == Len(Ascending(SB))
  <2>2. n \in Nat /\ B = [i \in 1 .. n |-> B[i]]
    BY <1>2, <1>3
  <2> HIDE DEF B, n
  <2>3. B \in Seq(DownFrames) /\ DOMAIN B = 1 .. n
    BY <2>1, <2>2, MadeSequence DEF DownFrames, n
  <2>. QED
    BY <2>1, <2>3 DEF DownRow, EditFrames, n
<1>7. C \in Seq(DownFrames) /\ \A i \in DOMAIN C : DownRow(C[i])
  <2>1. \A i \in 1 .. Len(Ascending(SC)) : C[i] \in ReactsFrames
    <3> SUFFICES ASSUME NEW i \in 1 .. Len(Ascending(SC))
                 PROVE  C[i] \in ReactsFrames
      OBVIOUS
    <3> DEFINE ts == Ascending(SC)[i]
    <3>1. ts \in DOMAIN srv /\ C[i] = ReactsFrame(srv, ts)
      BY <1>2, <1>3
    <3> HIDE DEF ts, C
    <3>. QED
      BY <1>4, <3>1, FrameFacts
  <2> DEFINE n == Len(Ascending(SC))
  <2>2. n \in Nat /\ C = [i \in 1 .. n |-> C[i]]
    BY <1>2, <1>3
  <2> HIDE DEF C, n
  <2>3. C \in Seq(DownFrames) /\ DOMAIN C = 1 .. n
    BY <2>1, <2>2, MadeSequence DEF DownFrames, n
  <2>. QED
    BY <2>1, <2>3 DEF DownRow, ReactsFrames, n
<1>8. ASSUME NEW ts \in DOMAIN srv, ts > lp
      PROVE  RowComing(A, ts)
  <2>1. ts \in SA
    BY <1>8
  <2>2. PICK i \in 1 .. Len(Ascending(SA)) : Ascending(SA)[i] = ts
    BY <1>2, <1>3, <2>1
  <2>3. A[i] = RowFrame(srv, ts, FALSE) /\ i \in DOMAIN A
    BY <1>5, <2>2
  <2>4. Covers(A[i], ts)
    BY <2>3 DEF Covers, RowFrame
  <2>5. ASSUME NEW j \in 1 .. i - 1 PROVE Before(A[j], ts)
    <3>1. j \in 1 .. Len(Ascending(SA)) /\ j < i
      BY <1>2, <1>3, <2>2
    <3>2. Ascending(SA)[j] < ts
      BY <1>2, <1>3, <2>2, <3>1 DEF Increasing
    <3>3. A[j].ts = Ascending(SA)[j]
      BY <3>1 DEF RowFrame
    <3>. QED
      BY <3>2, <3>3 DEF Before
  <2> HIDE DEF A
  <2>. QED
    BY <2>3, <2>4, <2>5 DEF RowComing
<1> HIDE DEF A, B, C
<1>9. A \o B \in Seq(DownFrames) /\ \A i \in DOMAIN (A \o B) : DownRow((A \o B)[i])
    BY <1>5, <1>6, DownConcat
<1>10. \A ts \in DOMAIN srv : ts > lp => RowComing((A \o B) \o C, ts)
    BY <1>5, <1>6, <1>7, <1>8, <1>9, RowComingConcat
<1>. QED
    BY <1>1, <1>7, <1>9, <1>10, DownConcat

\* A batch: each row asked for comes, or the first that comes has a gap before it.
LEMMA BatchFacts ==
    ASSUME SyncTypes, NEW S \in SUBSET DOMAIN srv, NEW n \in Nat \ {0}
    PROVE  /\ Batch(S, n) \in Seq(DownFrames)
           /\ \A i \in DOMAIN Batch(S, n) : Batch(S, n)[i] \in RowFrames /\ DownRow(Batch(S, n)[i])
           /\ \A ts \in S : RowComing(Batch(S, n), ts)
<1> DEFINE o == Ascending(S)
           m == Len(o)
           k == IF n < m THEN m - n ELSE 0
           B == [i \in 1 .. m - k |-> RowFrame(srv, o[k + i], k > 0 /\ i = 1)]
<1>1. /\ m \in Nat /\ DOMAIN o = 1 .. m /\ Increasing(o)
      /\ \A i \in 1 .. m : o[i] \in S
      /\ \A ts \in S : \E i \in 1 .. m : o[i] = ts
  <2>1. S \in SUBSET Nat /\ IsFiniteSet(S)
    BY ServerFacts, TimesFinite
  <2>. QED
    BY <2>1, AscendingFacts
<1>2. \A ts \in S : ts \in DOMAIN srv /\ ts \in Times /\ srv[ts] \in SrvRows /\ ts \in Nat
  <2>1. S \in SUBSET Nat
    BY ServerFacts, TimesFinite
  <2>. QED
    BY <2>1, ServerFacts
<1>3. Batch(S, n) = B
    BY DEF Batch
<1> HIDE DEF m
<1>4. k \in Nat /\ (m > 0 => k < m) /\ k <= m /\ m - k \in Nat
    BY <1>1
<1> HIDE DEF k, o
<1>5. \A i \in 1 .. m - k : k + i \in 1 .. m /\ o[k + i] \in S
  <2>1. \A i \in 1 .. m - k : k + i \in 1 .. m
    BY <1>1, <1>4
  <2>. QED
    BY <1>1, <2>1
<1>6. \A i \in 1 .. m - k : B[i] \in RowFrames /\ DownRow(B[i])
  <2> SUFFICES ASSUME NEW i \in 1 .. m - k
               PROVE  B[i] \in RowFrames /\ DownRow(B[i])
    OBVIOUS
  <2> DEFINE ts == o[k + i]
             gap == k > 0 /\ i = 1
  <2>1. ts \in DOMAIN srv /\ ts \in Times /\ srv[ts] \in SrvRows /\ B[i] = RowFrame(srv, ts, gap)
        /\ gap \in BOOLEAN
    BY <1>2, <1>5
  <2> HIDE DEF ts, B, gap
  <2>. QED
    BY <2>1, FrameFacts DEF DownRow, RowFrame
<1>7. B \in Seq(DownFrames) /\ DOMAIN B = 1 .. m - k
    BY <1>4, <1>6, MadeSequence DEF DownFrames
<1>8. ASSUME NEW ts \in S
      PROVE  RowComing(B, ts)
  <2>1. PICK p \in 1 .. m : o[p] = ts
    BY <1>1
  <2>2. CASE p > k
    <3> DEFINE i == p - k
    <3>1. i \in 1 .. m - k /\ k + i = p /\ i \in Int
      BY <1>1, <1>4, <2>2
    <3>2. B[i].t = "row" /\ B[i].ts = ts
      BY <2>1, <3>1 DEF RowFrame
    <3>3. ASSUME NEW j \in 1 .. i - 1 PROVE Before(B[j], ts)
      <4>1. j \in 1 .. m - k /\ k + j \in 1 .. m /\ k + j < p
        BY <1>1, <1>4, <3>1
      <4>2. o[k + j] < ts
        BY <1>1, <2>1, <4>1 DEF Increasing
      <4>3. B[j].ts = o[k + j]
        BY <4>1 DEF RowFrame
      <4>. QED
        BY <4>2, <4>3 DEF Before
    <3> HIDE DEF B, i
    <3>. QED
      BY <1>7, <3>1, <3>2, <3>3 DEF RowComing, Covers
  <2>3. CASE p <= k
    <3>1. 1 \in 1 .. m - k /\ k > 0 /\ k + 1 \in 1 .. m /\ p < k + 1
      BY <1>1, <1>4, <2>3
    <3>2. B[1].t = "row" /\ B[1].ts = o[k + 1] /\ B[1].gap
      BY <3>1 DEF RowFrame
    <3>3. ts < o[k + 1]
      BY <1>1, <2>1, <3>1 DEF Increasing
    <3>4. o[k + 1] \in Nat /\ ts \in Nat
      BY <1>1, <1>2, <3>1
    <3> HIDE DEF B
    <3>5. Covers(B[1], ts)
      BY <3>2, <3>3, <3>4 DEF Covers
    <3>6. \A j \in 1 .. 1 - 1 : Before(B[j], ts)
      OBVIOUS
    <3>. QED
      BY <1>7, <3>1, <3>5, <3>6 DEF RowComing
  <2>. QED
    BY <1>4, <2>2, <2>3
<1>. QED
    BY <1>3, <1>6, <1>7, <1>8

-----------------------------------------------------------------------------
(* SyncStore: the steps *)

LEMMA CarriesFacts ==
    ASSUME NEW f \in DownFrames
    PROVE  Carries(f) \in SUBSET ({"edit", "react"} \X Times)
<1>1. f.ts \in Times
    BY DEF DownFrames, RowFrames, EditFrames, ReactsFrames, ReactFrames
<1>2. Carries(f) \in {{<<"edit", f.ts>>, <<"react", f.ts>>}, {<<"edit", f.ts>>}, {<<"react", f.ts>>}}
    BY DEF Carries
<1>. QED
    BY <1>1, <1>2

LEMMA WithFacts ==
    ASSUME SyncTypes, NEW ts \in Times, NEW row \in SrvRows
    PROVE  /\ With(srv, ts, row) \in UNION {[D -> SrvRows] : D \in SUBSET Times}
           /\ DOMAIN With(srv, ts, row) = DOMAIN srv \union {ts}
           /\ With(srv, ts, row)[ts] = row
           /\ \A x \in DOMAIN srv : x # ts => With(srv, ts, row)[x] = srv[x]
<1> DEFINE D == DOMAIN srv \union {ts}
           s == With(srv, ts, row)
<1>1. srv \in [DOMAIN srv -> SrvRows] /\ D \in SUBSET Times
    BY ServerFacts
<1>2. s = [x \in D |-> IF x = ts THEN row ELSE srv[x]]
    BY DEF With
<1> HIDE DEF s
<1>3. s \in [D -> SrvRows]
    BY <1>1, <1>2
<1>4. s[ts] = row /\ \A x \in DOMAIN srv : x # ts => s[x] = srv[x]
    BY <1>2
<1>. QED
    BY <1>1, <1>3, <1>4 DEF s

\* The server has every row it had, from whom it had it.
ServerKeeps(s) == \A x \in DOMAIN srv : x \in DOMAIN s /\ s[x].from = srv[x].from

\* It takes one of our frames: a row of ours may be new.
LEMMA TakenServer ==
    ASSUME SyncTypes, NEW f \in UpFrames, OwnRow(f)
    PROVE  /\ Taken(srv, f) \in UNION {[D -> SrvRows] : D \in SUBSET Times}
           /\ ServerKeeps(Taken(srv, f))
           /\ \A x \in DOMAIN Taken(srv, f) \ DOMAIN srv :
                  f.t = "row" /\ x = f.ts /\ Taken(srv, f)[x].from = "me"
<1>1. CASE f.t = "row"
  <2>1. f \in RowFrames
    BY <1>1 DEF UpFrames, OwnFrames, EditFrames, OwnReacts, Requests
  <2>2. f.ts \in Times /\ NewRow("me") \in SrvRows /\ NewRow("me").from = "me"
    BY <2>1, SyncAssumption DEF RowFrames, NewRow, SrvRows, Stamps0
  <2>3. Taken(srv, f) = With(srv, f.ts, NewRow("me"))
    BY <1>1 DEF Taken
  <2>4. f.ts \in DOMAIN srv => srv[f.ts].from = "me"
    BY <1>1 DEF OwnRow
  <2> DEFINE s == With(srv, f.ts, NewRow("me"))
  <2>5. /\ s \in UNION {[D -> SrvRows] : D \in SUBSET Times}
        /\ DOMAIN s = DOMAIN srv \union {f.ts} /\ s[f.ts].from = "me"
        /\ \A x \in DOMAIN srv : x # f.ts => s[x] = srv[x]
    BY <2>2, WithFacts
  <2> HIDE DEF s
  <2>. QED
    BY <1>1, <2>3, <2>4, <2>5 DEF ServerKeeps, s
<1>2. CASE f.t = "edit" /\ f.ts \in DOMAIN srv
  <2>1. f \in EditFrames
    BY <1>2 DEF UpFrames, OwnFrames, RowFrames, OwnReacts, Requests
  <2>2. f.edts \in Stamps0
    BY <2>1 DEF EditFrames
  <2>3. Taken(srv, f) = [srv EXCEPT ![f.ts].edts = f.edts]
    BY <1>2 DEF Taken
  <2> DEFINE s == [srv EXCEPT ![f.ts].edts = f.edts]
  <2>4. srv \in [DOMAIN srv -> SrvRows] /\ DOMAIN srv \in SUBSET Times
    BY ServerFacts
  <2>5. [srv[f.ts] EXCEPT !.edts = f.edts] \in SrvRows /\ [srv[f.ts] EXCEPT !.edts = f.edts].from = srv[f.ts].from
    BY <1>2, <2>2, <2>4 DEF SrvRows
  <2>6. s = [srv EXCEPT ![f.ts] = [srv[f.ts] EXCEPT !.edts = f.edts]]
    OBVIOUS
  <2> HIDE DEF s
  <2>7. s \in [DOMAIN srv -> SrvRows] /\ \A x \in DOMAIN srv : s[x].from = srv[x].from
    BY <2>4, <2>5, <2>6
  <2>. QED
    BY <2>3, <2>4, <2>7 DEF ServerKeeps, s
<1>3. CASE f.t = "react" /\ f.ts \in DOMAIN srv
  <2> DEFINE r == IF f.add THEN srv[f.ts].reacts \union {0} ELSE srv[f.ts].reacts \ {0}
             row == [srv[f.ts] EXCEPT !.reacts = r]
             s == [srv EXCEPT ![f.ts] = row]
  <2>1. srv \in [DOMAIN srv -> SrvRows] /\ DOMAIN srv \in SUBSET Times
    BY ServerFacts
  <2>2. Taken(srv, f) = s
    <3>1. Taken(srv, f) = [srv EXCEPT ![f.ts].reacts = IF f.add THEN @ \union {0} ELSE @ \ {0}]
      BY <1>3 DEF Taken
    <3>. QED
      BY <3>1
  <2>3. r \in SUBSET Stamps0
    <3>1. srv[f.ts].reacts \in SUBSET Stamps0 /\ 0 \in Stamps0
      BY <1>3, <2>1, SyncAssumption DEF SrvRows, Stamps0
    <3>. QED
      BY <3>1
  <2> HIDE DEF r
  <2>4. row \in SrvRows /\ row.from = srv[f.ts].from
    BY <1>3, <2>1, <2>3 DEF SrvRows
  <2> HIDE DEF row
  <2>5. s \in [DOMAIN srv -> SrvRows] /\ \A x \in DOMAIN srv : s[x].from = srv[x].from
    BY <2>1, <2>4
  <2> HIDE DEF s
  <2>. QED
    BY <2>1, <2>2, <2>5 DEF ServerKeeps
<1>4. CASE ~(f.t = "row") /\ ~(f.t = "edit" /\ f.ts \in DOMAIN srv) /\ ~(f.t = "react" /\ f.ts \in DOMAIN srv)
  <2>1. Taken(srv, f) = srv
    BY <1>4 DEF Taken
  <2>. QED
    BY <2>1 DEF ServerKeeps, SyncTypes
<1>. QED
    BY <1>1, <1>2, <1>3, <1>4

LEMMA ClockFacts ==
    ASSUME CursorInv
    PROVE  /\ clock \in Nat /\ db.cur["post"] \in Nat /\ db.cur["post"] <= clock
           /\ \A x \in DOMAIN srv : x \in Nat /\ x > 0
           /\ \A x \in Held(db) : x \in Nat /\ x > 0
<1>1. clock \in Nat /\ db.cur["post"] \in Nat
    BY StoreFacts, SyncAssumption DEF CursorInv, SyncTypes, Stamps0, Cursors
<1>2. \A x \in Times : x \in Nat /\ x > 0
    BY SyncAssumption DEF Times
<1>3. DOMAIN srv \in SUBSET Times /\ Held(db) \in SUBSET Times
    BY ServerFacts, StoreFacts DEF CursorInv, SyncTypes
<1>4. db.cur["post"] <= clock
    BY <1>1 DEF CursorInv, Clocked, CursorIsHeld, Lp
<1>. QED
    BY <1>1, <1>2, <1>3, <1>4

LEMMA BehindStays ==
    ASSUME NEW d, NEW e, NEW s, NEW r, NEW ts, Grown(d, e), Behind(d, s, ts), r[ts].from = s[ts].from
    PROVE  Behind(e, r, ts)
BY DEF Behind, Grown

\* The server's rows: what is known of our rows and of those on their way stands.
LEMMA RowsKeep ==
    ASSUME CursorInv, Grown(db, db'), ServerKeeps(srv'), clock' \in Nat, clock <= clock',
           \A x \in DOMAIN srv' \ DOMAIN srv : srv'[x].from = "me" \/ x > clock,
           \A x \in Held(db') \ Held(db) :
               db'.rows[x].from = "me" \/ (x \in DOMAIN srv /\ db'.rows[x].from = srv[x].from)
    PROVE  /\ \A f : f.t = "row" /\ f.ts \in Nat /\ OwnRow(f) => OwnRow(f)'
           /\ \A f : DownRow(f) => DownRow(f)'
<1>1. ASSUME NEW f, f.t = "row", f.ts \in Nat, OwnRow(f)
      PROVE  OwnRow(f)'
  <2>1. clock \in Nat
    BY ClockFacts
  <2>2. f.from = "me" /\ f.ts <= clock'
    BY <1>1, <2>1 DEF OwnRow
  <2>3. f.ts \in DOMAIN srv' => srv'[f.ts].from = "me"
    BY <1>1, <2>1 DEF OwnRow, ServerKeeps
  <2>4. f.ts \in Held(db') => db'.rows[f.ts].from = "me"
    BY <1>1 DEF OwnRow, Grown
  <2>. QED
    BY <2>2, <2>3, <2>4 DEF OwnRow
<1>2. \A f : DownRow(f) => DownRow(f)'
    BY DEF DownRow, ServerKeeps
<1>. QED
    BY <1>1, <1>2

\* What the store may become: it stays, a frame from the server is handled, or
\* what an operation of ours has sent is written; each up to some transaction.
Becomes(d) ==
    \/ d = db
    \/ down # <<>> /\ Came(db, d, down[1])
    \/ unsaved # Nothing /\ Came(db, d, unsaved)

LEMMA BecomesFacts ==
    ASSUME CursorInv, NEW d, Becomes(d)
    PROVE  /\ Grown(db, d) /\ d \in Stores /\ d.cur["post"] \in Nat
           /\ \A x \in Held(d) : x <= clock
           /\ d.cur["post"] # 0 => d.cur["post"] \in Held(d)
           /\ PassedRows(d, srv)
           /\ \A x \in Held(d) \ Held(db) :
                  d.rows[x].from = "me" \/ (x \in DOMAIN srv /\ d.rows[x].from = srv[x].from)
<1>0. /\ clock \in Nat /\ db.cur["post"] \in Nat /\ db \in Stores
      /\ \A x \in DOMAIN srv : x \in Nat /\ x > 0
      /\ \A x \in Held(db) : x \in Nat /\ x > 0 /\ x <= clock
      /\ db.cur["post"] # 0 => db.cur["post"] \in Held(db)
    BY ClockFacts DEF CursorInv, SyncTypes, Clocked, CursorIsHeld, Lp
<1>1. CASE SameRowsHeld(db, d)
  <2>1. PassedRows(d, srv)
    BY <1>1, BehindStays DEF CursorInv, PassedRows, SameRowsHeld
  <2>. QED
    BY <1>0, <1>1, <2>1 DEF SameRowsHeld, Grown
<1>2. ASSUME NEW f \in RowFrames, RowIsHeld(db, d, f), f.ts <= clock, f.ts \in Nat,
             f.from = "me" \/ (f.ts \in DOMAIN srv /\ f.from = srv[f.ts].from),
             \A x \in DOMAIN srv \ Held(d) :
                 x > db.cur["post"] /\ x < f.ts => Behind(d, srv, x)
      PROVE  /\ Grown(db, d) /\ d \in Stores /\ d.cur["post"] \in Nat
             /\ \A x \in Held(d) : x <= clock
             /\ d.cur["post"] # 0 => d.cur["post"] \in Held(d)
             /\ PassedRows(d, srv)
             /\ \A x \in Held(d) \ Held(db) :
                    d.rows[x].from = "me" \/ (x \in DOMAIN srv /\ d.rows[x].from = srv[x].from)
  <2>1. /\ Grown(db, d) /\ Held(d) = Held(db) \union {f.ts} /\ d \in Stores
        /\ d.cur["post"] = db.cur["post"] \/ d.cur["post"] = f.ts
        /\ f.ts \notin Held(db) => d.rows[f.ts].from = f.from
    BY <1>2 DEF RowIsHeld, Grown
  <2>2. PassedRows(d, srv)
    <3> SUFFICES ASSUME NEW x \in DOMAIN srv \ Held(d), x <= d.cur["post"]
                 PROVE  Behind(d, srv, x)
      BY DEF PassedRows
    <3>1. CASE x <= db.cur["post"]
      <4>1. Behind(db, srv, x)
        BY <2>1, <3>1 DEF CursorInv, PassedRows
      <4>. QED
        BY <2>1, <4>1, BehindStays
    <3>2. CASE x > db.cur["post"]
      <4>1. x < f.ts
        BY <1>0, <1>2, <2>1, <3>2
      <4>. QED
        BY <1>2, <3>2, <4>1
    <3>. QED
      BY <1>0, <3>1, <3>2
  <2>3. d.cur["post"] \in Nat /\ (d.cur["post"] # 0 => d.cur["post"] \in Held(d))
    BY <1>0, <1>2, <2>1
  <2>4. \A x \in Held(d) : x <= clock
    BY <1>0, <1>2, <2>1
  <2>5. \A x \in Held(d) \ Held(db) :
            d.rows[x].from = "me" \/ (x \in DOMAIN srv /\ d.rows[x].from = srv[x].from)
    BY <1>2, <2>1
  <2>. QED
    BY <2>1, <2>2, <2>3, <2>4, <2>5
<1>3. CASE d = db
  <2>1. SameRowsHeld(db, d)
    BY <1>0, <1>3, GrownSame DEF SameRowsHeld
  <2>. QED
    BY <1>1, <2>1
<1>4. CASE down # <<>> /\ Came(db, d, down[1])
  <2> DEFINE f == down[1]
  <2>1. f \in DownFrames /\ 1 \in DOMAIN down /\ online /\ ~held
    BY <1>4, EmptySeq, LenProperties, ElementOfSeq DEF CursorInv, SyncTypes, LinkOff
  <2>2. CASE f.t # "row"
    BY <1>1, <1>4, <2>2 DEF Came
  <2>3. CASE f.t = "row"
    <3>1. f \in RowFrames
      BY <2>1, <2>3 DEF DownFrames, EditFrames, ReactsFrames, ReactFrames
    <3>2. f.ts \in DOMAIN srv /\ f.from = srv[f.ts].from /\ f.ts \in Nat /\ f.ts <= clock
      BY <1>0, <2>1, <2>3 DEF CursorInv, DownRows, DownRow, Clocked
    <3>3. /\ RowIsHeld(db, d, f) /\ Grown(db, d) /\ Held(d) = Held(db) \union {f.ts}
          /\ f.gap => d.rows[f.ts].gap
      BY <1>4, <2>3 DEF Came, RowIsHeld
    <3> HIDE DEF f
    <3>4. ASSUME NEW x \in DOMAIN srv \ Held(d), x > db.cur["post"], x < f.ts
          PROVE  Behind(d, srv, x)
      <4>1. \/ RowComing(down, x)
            \/ unsaved.t = "row" /\ unsaved.ts = x
            \/ Behind(db, srv, x)
        BY <2>1, <3>3 DEF CursorInv, RowsWait, Waits
      <4>2. CASE RowComing(down, x)
        <5>1. PICK i \in DOMAIN down : Covers(down[i], x) /\ \A j \in 1 .. i - 1 : Before(down[j], x)
          BY <4>2 DEF RowComing
        <5>2. i \in Nat \ {0}
          BY LenProperties DEF CursorInv, SyncTypes
        <5>3. CASE i = 1
          <6>1. f.gap
            BY <1>0, <3>2, <3>4, <5>1, <5>3 DEF Covers, f
          <6>. QED
            BY <3>3, <3>4, <6>1 DEF Behind
        <5>4. CASE i # 1
          <6>1. 1 \in 1 .. i - 1
            BY <5>2, <5>4
          <6>2. f.ts < x
            BY <2>3, <5>1, <6>1 DEF Before, f
          <6>. QED
            BY <1>0, <3>2, <3>4, <6>2
        <5>. QED
          BY <5>3, <5>4
      <4>3. CASE unsaved.t = "row" /\ unsaved.ts = x
        <5>1. srv[x].from = "me"
          BY <4>3 DEF CursorInv, UpRows, OwnRow
        <5>. QED
          BY <3>3, <3>4, <5>1 DEF Behind
      <4>4. CASE Behind(db, srv, x)
        BY <3>3, <4>4, BehindStays
      <4>. QED
        BY <4>1, <4>2, <4>3, <4>4
    <3>. QED
      BY <1>2, <3>1, <3>2, <3>3, <3>4
  <2>. QED
    BY <2>2, <2>3
<1>5. CASE unsaved # Nothing /\ Came(db, d, unsaved)
  <2> DEFINE f == unsaved
  <2>1. CASE f.t # "row"
    BY <1>1, <1>5, <2>1 DEF Came
  <2>2. CASE f.t = "row"
    <3>1. f \in RowFrames
      BY <1>5, <2>2 DEF CursorInv, SyncTypes, OwnFrames, EditFrames, OwnReacts
    <3>2. f.from = "me" /\ f.ts <= clock /\ f.ts \in Nat /\ (f.ts \in Held(db) => db.rows[f.ts].from = "me")
      BY <2>2, <3>1, SyncAssumption DEF CursorInv, UpRows, OwnRow, RowFrames, Times
    <3>3. /\ RowIsHeld(db, d, f) /\ Held(d) = Held(db) \union {f.ts} /\ d.rows[f.ts].from = "me"
      BY <1>5, <2>2, <3>2 DEF Came, RowIsHeld, Grown
    <3> HIDE DEF f
    <3>4. \A x \in DOMAIN srv \ Held(d) : x > db.cur["post"] /\ x < f.ts => Behind(d, srv, x)
      BY <1>0, <3>2, <3>3 DEF Behind
    <3>. QED
      BY <1>2, <3>1, <3>2, <3>3, <3>4
  <2>. QED
    BY <2>1, <2>2
<1>. QED
    BY <1>3, <1>4, <1>5 DEF Becomes

LEMMA AppendDown ==
    ASSUME SyncTypes, NEW f \in DownFrames
    PROVE  /\ Append(down, f) \in Seq(DownFrames)
           /\ \A ts : RowComing(down, ts) => RowComing(Append(down, f), ts)
           /\ \A i \in DOMAIN Append(down, f) :
                  Append(down, f)[i] = f \/ (i \in DOMAIN down /\ Append(down, f)[i] = down[i])
           /\ Len(down) \in Nat /\ DOMAIN down = 1 .. Len(down)
           /\ Len(down) + 1 \in DOMAIN Append(down, f) /\ Append(down, f)[Len(down) + 1] = f
           /\ \A i \in DOMAIN down : Append(down, f)[i] = down[i]
<1>1. /\ down \in Seq(DownFrames) /\ Len(down) \in Nat /\ DOMAIN down = 1 .. Len(down)
    BY LenProperties DEF SyncTypes
<1>2. <<f>> \in Seq(DownFrames) /\ Append(down, f) = down \o <<f>>
    BY <1>1, AppendIsConcat
<1>3. \A ts : RowComing(down, ts) => RowComing(Append(down, f), ts)
    BY <1>1, <1>2, RowComingConcat
<1>4. /\ Append(down, f) \in Seq(DownFrames) /\ Len(Append(down, f)) = Len(down) + 1
      /\ \A i \in 1 .. Len(down) : Append(down, f)[i] = down[i]
      /\ Append(down, f)[Len(down) + 1] = f
    BY <1>1, AppendProperties
<1>5. DOMAIN Append(down, f) = 1 .. Len(down) + 1
    BY <1>1, <1>4, LenProperties
<1>. QED
    BY <1>1, <1>3, <1>4, <1>5

\* The relay of f; for the rows nothing else changes.
LEMMA RelayFacts ==
    ASSUME CursorInv, NEW f \in DownFrames, Relay(f)
    PROVE  /\ down' \in Seq(DownFrames) /\ missed' \in SUBSET ({"edit", "react"} \X Times)
           /\ \A ts : RowComing(down, ts) => RowComing(down', ts)
           /\ \A i \in DOMAIN down' : down'[i] = f \/ (i \in DOMAIN down /\ down'[i] = down[i])
           /\ LinkOff' /\ UNCHANGED <<kind, db, unsaved, online, up, held, since>>
           /\ online /\ ~held => down' = Append(down, f)
<1>1. SyncTypes /\ LinkOff
    BY DEF CursorInv
<1>2. CASE online /\ ~held
  <2>1. down' = Append(down, f) /\ missed' = missed /\ UNCHANGED <<kind, db, unsaved, online, up, held, since>>
    BY <1>2 DEF Relay
  <2>2. /\ Append(down, f) \in Seq(DownFrames)
        /\ \A ts : RowComing(down, ts) => RowComing(Append(down, f), ts)
        /\ \A i \in DOMAIN Append(down, f) :
               Append(down, f)[i] = f \/ (i \in DOMAIN down /\ Append(down, f)[i] = down[i])
    BY <1>1, AppendDown
  <2>3. LinkOff'
    BY <1>2, <2>1 DEF LinkOff
  <2>4. missed' \in SUBSET ({"edit", "react"} \X Times)
    BY <1>1, <2>1 DEF SyncTypes
  <2>. QED
    BY <1>2, <2>1, <2>2, <2>3, <2>4
<1>3. CASE ~(online /\ ~held)
  <2>1. down' = down /\ UNCHANGED <<kind, db, unsaved, online, up, held, since>>
    BY <1>3 DEF Relay
  <2>2. missed' = missed \/ missed' = missed \union Carries(f)
    BY DEF Relay
  <2>3. LinkOff'
    BY <1>1, <2>1 DEF LinkOff
  <2>4. missed' \in SUBSET ({"edit", "react"} \X Times)
    BY <1>1, <2>2, CarriesFacts DEF SyncTypes
  <2>. QED
    BY <1>1, <1>3, <2>1, <2>3, <2>4 DEF SyncTypes
<1>. QED
    BY <1>2, <1>3

\* A row of ours under way is one whatever else changes; so is what is saved of it.
LEMMA UpRowsKeep ==
    ASSUME CursorInv, \A f : f.t = "row" /\ f.ts \in Nat /\ OwnRow(f) => OwnRow(f)',
           Held(db) \subseteq Held(db'),
           unsaved' \in {unsaved, Nothing},
           up' \in {up, <<>>} \/ (up # <<>> /\ up' = Tail(up)),
           \A i \in DOMAIN up' : up'[i].t = "row" =>
               up'[i].ts \in Held(db') \/ (up'[i].ts \notin Held(db) /\ up'[i] = unsaved')
               \/ up'[i].ts \in Held(db)
    PROVE  UpRows'
<1>1. ASSUME NEW f \in UpFrames \union {Nothing}, OwnRow(f) PROVE OwnRow(f)'
  <2>1. CASE f.t = "row"
    <3>1. f \in RowFrames
      BY <2>1 DEF UpFrames, OwnFrames, EditFrames, OwnReacts, Requests, Nothing
    <3>2. f.ts \in Nat
      BY <3>1, SyncAssumption DEF RowFrames, Times
    <3>. QED
      BY <1>1, <2>1, <3>2
  <2>2. CASE f.t # "row"
    BY <2>2 DEF OwnRow
  <2>. QED
    BY <2>1, <2>2
<1>2. OwnRow(unsaved)'
  <2>1. unsaved' \in UpFrames \union {Nothing} /\ OwnRow(unsaved)
    BY DEF CursorInv, UpRows, SyncTypes, UpFrames
  <2>2. CASE unsaved' = Nothing
    BY <2>2 DEF OwnRow, Nothing
  <2>3. CASE unsaved' = unsaved
    <3>1. unsaved \in UpFrames \union {Nothing}
      BY <2>1, <2>3
    <3>2. \A f : f = unsaved => OwnRow(f)'
      BY <1>1, <2>1, <3>1
    <3>. QED
      BY <2>3, <3>2 DEF OwnRow
  <2>. QED
    BY <2>2, <2>3
<1>3. \A i \in DOMAIN up' : up'[i] \in UpFrames /\ \E j \in DOMAIN up : up'[i] = up[j]
  <2>1. up \in Seq(UpFrames) /\ DOMAIN up = 1 .. Len(up) /\ Len(up) \in Nat
    BY LenProperties DEF CursorInv, SyncTypes
  <2>2. CASE up' = up
    BY <2>1, <2>2, ElementOfSeq
  <2>3. CASE up' = <<>>
    BY <2>3
  <2>4. CASE up # <<>> /\ up' = Tail(up)
    <3>1. /\ up' \in Seq(UpFrames) /\ Len(up') = Len(up) - 1
          /\ \A i \in 1 .. Len(up) - 1 : up'[i] = up[i + 1]
      BY <2>1, <2>4, HeadTailProperties
    <3>2. DOMAIN up' = 1 .. Len(up) - 1
      BY <3>1, LenProperties
    <3>3. \A i \in 1 .. Len(up) - 1 : i + 1 \in DOMAIN up /\ up[i + 1] \in UpFrames
      BY <2>1, ElementOfSeq
    <3>. QED
      BY <3>1, <3>2, <3>3
  <2>. QED
    BY <2>2, <2>3, <2>4
<1>4. ASSUME NEW i \in DOMAIN up'
      PROVE  OwnRow(up[i])'
  <2>1. PICK f : f = up'[i]
    OBVIOUS
  <2>2. f \in UpFrames /\ OwnRow(f)
    BY <1>3, <2>1 DEF CursorInv, UpRows
  <2>3. OwnRow(f)'
    BY <1>1, <2>2
  <2>. QED
    BY <2>1, <2>3 DEF OwnRow
<1>. QED
    BY <1>2, <1>4 DEF UpRows

LEMMA DownRowsKeep ==
    ASSUME \A f : DownRow(f) => DownRow(f)', \A i \in DOMAIN down' : DownRow(down'[i]) \/ \E f : f = down'[i] /\ DownRow(f)'
    PROVE  DownRows'
<1> SUFFICES ASSUME NEW i \in DOMAIN down' PROVE DownRow(down[i])'
    BY DEF DownRows
<1>1. PICK f : f = down'[i]
    OBVIOUS
<1>2. DownRow(f)'
    BY <1>1
<1>. QED
    BY <1>1, <1>2 DEF DownRow

\* The steps, in parts that many of them share.
LEMMA WaitsStill ==
    ASSUME CursorInv, Grown(db, db'), ServerKeeps(srv'), db'.cur["post"] \in Nat, PassedRows(db', srv'),
           \A x \in DOMAIN srv' \ DOMAIN srv : x \in Nat /\ (x \in Held(db') \/ Waits(x)'),
           \A x \in DOMAIN srv \ Held(db') : RowComing(down, x) => Waits(x)',
           \A x \in DOMAIN srv \ Held(db') :
               x > db.cur["post"] /\ x > db'.cur["post"] /\ (held \/ ~online) => Waits(x)',
           \A x \in DOMAIN srv \ Held(db') : unsaved.t = "row" /\ unsaved.ts = x => Waits(x)'
    PROVE  RowsWait'
<1> SUFFICES ASSUME NEW x \in DOMAIN srv' \ Held(db') PROVE Waits(x)'
    BY DEF RowsWait
<1>1. CASE x \notin DOMAIN srv
    BY <1>1
<1>2. CASE x \in DOMAIN srv
  <2>1. x \notin Held(db) /\ x \in Nat
    BY <1>2, ClockFacts DEF Grown
  <2>2. Waits(x)
    BY <1>2, <2>1 DEF CursorInv, RowsWait
  <2>3. CASE Behind(db, srv, x)
    <3>1. Behind(db', srv', x)
      BY <1>2, <2>3, BehindStays DEF ServerKeeps
    <3>. QED
      BY <3>1 DEF Waits
  <2>4. CASE x > db.cur["post"] /\ (held \/ ~online)
    <3>1. CASE x <= db'.cur["post"]
      <4>1. Behind(db', srv', x)
        BY <3>1 DEF PassedRows
      <4>. QED
        BY <4>1 DEF Waits
    <3>2. CASE x > db'.cur["post"]
      BY <1>2, <2>4, <3>2
    <3>. QED
      BY <2>1, <3>1, <3>2
  <2>. QED
    BY <1>2, <2>2, <2>3, <2>4 DEF Waits
<1>. QED
    BY <1>1, <1>2

\* The store stands, the server may have new rows.
LEMMA StoreStands ==
    ASSUME CursorInv, db' = db, ServerKeeps(srv'), clock' \in Nat, clock <= clock',
           \A x \in DOMAIN srv' \ DOMAIN srv :
               x \in Nat /\ x <= clock' /\ (x > clock \/ (x \in Held(db) /\ srv'[x].from = "me"))
    PROVE  /\ Grown(db, db') /\ Clocked' /\ PassedRows(db', srv')
           /\ \A f : f.t = "row" /\ f.ts \in Nat /\ OwnRow(f) => OwnRow(f)'
           /\ \A f : DownRow(f) => DownRow(f)'
<1>1. /\ clock \in Nat /\ db.cur["post"] \in Nat /\ db.cur["post"] <= clock
      /\ \A x \in DOMAIN srv : x \in Nat /\ x <= clock
      /\ \A x \in Held(db) : x \in Nat /\ x <= clock
    BY ClockFacts DEF CursorInv, Clocked
<1>2. Grown(db, db')
    BY GrownSame DEF CursorInv, SyncTypes
<1>3. Clocked'
  <2>1. \A x \in DOMAIN srv' : x <= clock'
    BY <1>1
  <2>2. \A x \in Held(db) : x <= clock'
    BY <1>1
  <2>. QED
    BY <2>1, <2>2 DEF CursorInv, Clocked, CursorIsHeld
<1>4. PassedRows(db', srv')
  <2> SUFFICES ASSUME NEW x \in DOMAIN srv' \ Held(db), x <= db.cur["post"]
               PROVE  Behind(db', srv', x)
    BY DEF PassedRows
  <2>1. x \in DOMAIN srv
    BY <1>1
  <2>2. Behind(db, srv, x)
    BY <2>1 DEF CursorInv, PassedRows
  <2>. QED
    BY <1>2, <2>1, <2>2, BehindStays DEF ServerKeeps
<1>5. /\ \A x \in DOMAIN srv' \ DOMAIN srv : srv'[x].from = "me" \/ x > clock
      /\ Held(db') \ Held(db) = {}
    OBVIOUS
<1>6. /\ \A f : f.t = "row" /\ f.ts \in Nat /\ OwnRow(f) => OwnRow(f)'
      /\ \A f : DownRow(f) => DownRow(f)'
    BY <1>2, <1>5, RowsKeep
<1>. QED
    BY <1>2, <1>3, <1>4, <1>6

LEMMA TickFacts ==
    ASSUME CursorInv, Tick
    PROVE  /\ clock' \in Stamps0 /\ clock' \in Times /\ clock' = clock + 1 /\ clock + 1 \in Times
           /\ clock' \in Nat /\ clock <= clock' /\ clock' > clock /\ clock \in Nat
BY SyncAssumption DEF CursorInv, SyncTypes, Tick, Stamps0, Times

LEMMA PeerWritesKeeps ==
    ASSUME CursorInv, PeerWrites
    PROVE  CursorInv'
<1>0. PICK n, f : n = clock + 1 /\ f = RowFrame(srv', n, FALSE)
    OBVIOUS
<1>1. /\ clock' \in Stamps0 /\ n \in Times /\ n \in Nat /\ clock' = n /\ n > clock /\ clock \in Nat /\ clock <= n
    BY <1>0, TickFacts DEF PeerWrites
<1>2. /\ srv' = With(srv, n, NewRow("peer")) /\ Relay(f) /\ kind' = kind
    BY <1>0 DEF PeerWrites, Relay
<1>3. SyncTypes /\ NewRow("peer") \in SrvRows
    BY SyncAssumption DEF CursorInv, NewRow, SrvRows, Stamps0
<1>4. /\ n \notin DOMAIN srv /\ n \notin Held(db)
      /\ \A x \in DOMAIN srv : x \in Nat /\ x <= clock /\ x # n
    BY <1>1, ClockFacts DEF CursorInv, Clocked
<1>5. /\ srv' \in UNION {[D -> SrvRows] : D \in SUBSET Times} /\ DOMAIN srv' = DOMAIN srv \union {n}
      /\ srv'[n] \in SrvRows /\ ServerKeeps(srv')
    BY <1>1, <1>2, <1>3, <1>4, WithFacts DEF ServerKeeps
<1>6. f \in RowFrames /\ f.t = "row" /\ f.ts = n /\ DownRow(f)'
  <2>1. f \in RowFrames
    BY <1>0, <1>1, <1>5, FrameFacts
  <2>2. f.t = "row" /\ f.ts = n /\ f.from = srv'[n].from
    BY <1>0 DEF RowFrame
  <2>. QED
    BY <1>5, <2>1, <2>2 DEF DownRow
<1>7. /\ down' \in Seq(DownFrames) /\ missed' \in SUBSET ({"edit", "react"} \X Times)
      /\ \A ts : RowComing(down, ts) => RowComing(down', ts)
      /\ \A i \in DOMAIN down' : down'[i] = f \/ (i \in DOMAIN down /\ down'[i] = down[i])
      /\ LinkOff' /\ UNCHANGED <<kind, db, unsaved, online, up, held, since>>
      /\ online /\ ~held => down' = Append(down, f)
    BY <1>2, <1>6, RelayFacts DEF DownFrames
<1>8. /\ Grown(db, db') /\ Clocked' /\ PassedRows(db', srv')
      /\ \A g : g.t = "row" /\ g.ts \in Nat /\ OwnRow(g) => OwnRow(g)'
      /\ \A g : DownRow(g) => DownRow(g)'
    BY <1>1, <1>4, <1>5, <1>7, StoreStands
<1>9. SyncTypes'
    BY <1>1, <1>3, <1>5, <1>7 DEF SyncTypes
<1>10. UpRows'
  <2>1. \A i \in DOMAIN up' : up'[i].t = "row" =>
               up'[i].ts \in Held(db') \/ (up'[i].ts \notin Held(db) /\ up'[i] = unsaved')
               \/ up'[i].ts \in Held(db)
    BY <1>7 DEF CursorInv, UpRows
  <2>. QED
    BY <1>7, <1>8, <2>1, UpRowsKeep
<1>11. DownRows'
  <2>1. \A i \in DOMAIN down' : DownRow(down'[i]) \/ \E g : g = down'[i] /\ DownRow(g)'
    BY <1>6, <1>7 DEF CursorInv, DownRows
  <2>. QED
    BY <1>8, <2>1, DownRowsKeep
<1>12. Waits(n)'
  <2>1. CASE online /\ ~held
    <3>1. down' = Append(down, f) /\ f \in DownFrames
      BY <1>6, <1>7, <2>1 DEF DownFrames
    <3>2. /\ Len(down) \in Nat /\ DOMAIN down = 1 .. Len(down)
          /\ Len(down) + 1 \in DOMAIN down' /\ down'[Len(down) + 1] = f
          /\ \A i \in DOMAIN down : down'[i] = down[i]
      BY <1>3, <3>1, AppendDown
    <3>3. \A j \in 1 .. Len(down) : Before(down'[j], n)
      BY <1>1, <1>4, <3>2 DEF CursorInv, DownRows, DownRow, Before
    <3>4. Covers(down'[Len(down) + 1], n)
      BY <1>6, <3>2 DEF Covers
    <3>5. 1 .. (Len(down) + 1) - 1 = 1 .. Len(down)
      BY <3>2
    <3>6. RowComing(down', n)
      BY <3>2, <3>3, <3>4, <3>5 DEF RowComing
    <3>. QED
      BY <3>6 DEF Waits
  <2>2. CASE ~(online /\ ~held)
    <3>1. n > db.cur["post"]
      BY <1>1, ClockFacts
    <3>. QED
      BY <1>7, <2>2, <3>1 DEF Waits
  <2>. QED
    BY <2>1, <2>2
<1>13. RowsWait'
  <2>1. db'.cur["post"] \in Nat
    BY <1>7, ClockFacts
  <2>2. \A x \in DOMAIN srv' \ DOMAIN srv : x \in Nat /\ (x \in Held(db') \/ Waits(x)')
    BY <1>1, <1>5, <1>12
  <2>3. \A x \in DOMAIN srv \ Held(db') : RowComing(down, x) => Waits(x)'
    BY <1>7 DEF Waits
  <2>4. \A x \in DOMAIN srv \ Held(db') :
               x > db.cur["post"] /\ x > db'.cur["post"] /\ (held \/ ~online) => Waits(x)'
    BY <1>7 DEF Waits
  <2>5. \A x \in DOMAIN srv \ Held(db') : unsaved.t = "row" /\ unsaved.ts = x => Waits(x)'
    BY <1>7 DEF Waits
  <2>. QED
    BY <1>5, <1>8, <2>1, <2>2, <2>3, <2>4, <2>5, WaitsStill
<1>. QED
    BY <1>7, <1>8, <1>9, <1>10, <1>11, <1>13 DEF CursorInv

\* An edit or a reaction of another station.
LEMMA NewsKeeps ==
    ASSUME CursorInv, Tick, NEW f \in DownFrames, f.t # "row", Relay(f),
           srv' \in [DOMAIN srv -> SrvRows], \A x \in DOMAIN srv : srv'[x].from = srv[x].from
    PROVE  CursorInv'
<1>1. /\ clock' \in Stamps0 /\ clock' \in Nat /\ clock <= clock'
    BY TickFacts
<1>2. SyncTypes /\ ServerKeeps(srv') /\ DOMAIN srv' = DOMAIN srv
    BY DEF CursorInv, ServerKeeps
<1>3. srv' \in UNION {[D -> SrvRows] : D \in SUBSET Times}
    BY <1>2, ServerFacts
<1>4. DownRow(f)'
    BY DEF DownRow
<1>7. /\ down' \in Seq(DownFrames) /\ missed' \in SUBSET ({"edit", "react"} \X Times)
      /\ \A ts : RowComing(down, ts) => RowComing(down', ts)
      /\ \A i \in DOMAIN down' : down'[i] = f \/ (i \in DOMAIN down /\ down'[i] = down[i])
      /\ LinkOff' /\ UNCHANGED <<kind, db, unsaved, online, up, held, since>>
    BY RelayFacts
<1>8. /\ Grown(db, db') /\ Clocked' /\ PassedRows(db', srv')
      /\ \A g : g.t = "row" /\ g.ts \in Nat /\ OwnRow(g) => OwnRow(g)'
      /\ \A g : DownRow(g) => DownRow(g)'
    BY <1>1, <1>2, <1>7, StoreStands
<1>9. SyncTypes'
    BY <1>1, <1>2, <1>3, <1>7 DEF SyncTypes
<1>10. UpRows'
  <2>1. \A i \in DOMAIN up' : up'[i].t = "row" =>
               up'[i].ts \in Held(db') \/ (up'[i].ts \notin Held(db) /\ up'[i] = unsaved')
               \/ up'[i].ts \in Held(db)
    BY <1>7 DEF CursorInv, UpRows
  <2>. QED
    BY <1>7, <1>8, <2>1, UpRowsKeep
<1>11. DownRows'
  <2>1. \A i \in DOMAIN down' : DownRow(down'[i]) \/ \E g : g = down'[i] /\ DownRow(g)'
    BY <1>4, <1>7 DEF CursorInv, DownRows
  <2>. QED
    BY <1>8, <2>1, DownRowsKeep
<1>13. RowsWait'
  <2>1. db'.cur["post"] \in Nat
    BY <1>7, ClockFacts
  <2>2. DOMAIN srv' \ DOMAIN srv = {}
    BY <1>2
  <2>3. \A x \in DOMAIN srv \ Held(db') : RowComing(down, x) => Waits(x)'
    BY <1>7 DEF Waits
  <2>4. \A x \in DOMAIN srv \ Held(db') :
               x > db.cur["post"] /\ x > db'.cur["post"] /\ (held \/ ~online) => Waits(x)'
    BY <1>7 DEF Waits
  <2>5. \A x \in DOMAIN srv \ Held(db') : unsaved.t = "row" /\ unsaved.ts = x => Waits(x)'
    BY <1>7 DEF Waits
  <2>. QED
    BY <1>2, <1>8, <2>1, <2>2, <2>3, <2>4, <2>5, WaitsStill
<1>. QED
    BY <1>7, <1>8, <1>9, <1>10, <1>11, <1>13 DEF CursorInv

LEMMA PeerEditsKeeps ==
    ASSUME CursorInv, PeerEdits
    PROVE  CursorInv'
<1>1. PICK ts \in DOMAIN srv :
          /\ Tick /\ srv' = [srv EXCEPT ![ts].edts = clock + 1]
          /\ Relay(EditFrame(srv', ts, TRUE))
    BY DEF PeerEdits
<1>2. /\ srv \in [DOMAIN srv -> SrvRows] /\ ts \in Times /\ clock + 1 \in Stamps0
    BY <1>1, ServerFacts, TickFacts DEF CursorInv
<1> DEFINE row == [srv[ts] EXCEPT !.edts = clock + 1]
<1>3. srv' = [srv EXCEPT ![ts] = row]
    BY <1>1
<1>4. row \in SrvRows /\ row.from = srv[ts].from
    BY <1>2 DEF SrvRows
<1> HIDE DEF row
<1>5. srv' \in [DOMAIN srv -> SrvRows] /\ srv'[ts] \in SrvRows /\ \A x \in DOMAIN srv : srv'[x].from = srv[x].from
    BY <1>2, <1>3, <1>4
<1>6. EditFrame(srv', ts, TRUE) \in EditFrames
    BY <1>2, <1>5, FrameFacts
<1>7. EditFrame(srv', ts, TRUE) \in DownFrames /\ EditFrame(srv', ts, TRUE).t # "row"
    BY <1>6 DEF DownFrames, EditFrames
<1>. QED
    BY <1>1, <1>5, <1>7, NewsKeeps

LEMMA PeerReactsKeeps ==
    ASSUME CursorInv, PeerReacts
    PROVE  CursorInv'
<1> DEFINE S(ts, add, x) == IF add THEN srv[ts].reacts \union {x} ELSE srv[ts].reacts \ {x}
           G(ts, add, x) == IF kind = "dm" THEN ReactsFrame(srv', ts)
                 ELSE [t |-> "react", ts |-> ts, x |-> x, add |-> add, ets |-> clock + 1]
<1>0. PICK ts \in DOMAIN srv, add \in BOOLEAN : \E x \in {clock + 1} \union srv[ts].reacts :
          /\ Tick
          /\ srv' = [srv EXCEPT ![ts].reacts = IF add THEN @ \union {x} ELSE @ \ {x},
                                ![ts].ets = clock + 1]
          /\ Relay(G(ts, add, x))
    BY DEF PeerReacts
<1>1. PICK x \in {clock + 1} \union srv[ts].reacts :
          /\ Tick
          /\ srv' = [srv EXCEPT ![ts].reacts = IF add THEN @ \union {x} ELSE @ \ {x},
                                ![ts].ets = clock + 1]
          /\ Relay(G(ts, add, x))
    BY <1>0
<1>2. /\ srv \in [DOMAIN srv -> SrvRows] /\ ts \in Times /\ clock + 1 \in Stamps0
    BY <1>1, ServerFacts, TickFacts DEF CursorInv
<1>3. srv[ts] \in SrvRows /\ srv[ts].reacts \in SUBSET Stamps0 /\ x \in Stamps0
    BY <1>2 DEF SrvRows
<1> DEFINE R == S(ts, add, x)
           row == [srv[ts] EXCEPT !.reacts = R, !.ets = clock + 1]
<1>4. srv' = [srv EXCEPT ![ts] = row]
    BY <1>1, <1>2
<1>5. R \in SUBSET Stamps0
    BY <1>3
<1> HIDE DEF R
<1>6. row \in SrvRows /\ row.from = srv[ts].from
    BY <1>2, <1>3, <1>5 DEF SrvRows
<1> HIDE DEF row
<1>7. srv' \in [DOMAIN srv -> SrvRows] /\ srv'[ts] \in SrvRows /\ \A y \in DOMAIN srv : srv'[y].from = srv[y].from
    BY <1>2, <1>4, <1>6
<1>8. ReactsFrame(srv', ts) \in ReactsFrames
    BY <1>2, <1>7, FrameFacts
<1>9. G(ts, add, x) \in DownFrames /\ G(ts, add, x).t # "row"
    BY <1>2, <1>3, <1>8 DEF DownFrames, ReactsFrames, ReactFrames
<1> HIDE DEF G
<1>. QED
    BY <1>1, <1>7, <1>9, NewsKeeps

LEMMA HeadUp ==
    ASSUME CursorInv, up # <<>>
    PROVE  /\ up[1] \in UpFrames /\ Head(up) = up[1] /\ OwnRow(up[1]) /\ online
           /\ up[1].t = "row" => up[1].ts \in Held(db) \/ up[1] = unsaved
           /\ Tail(up) \in Seq(UpFrames) /\ 1 \in DOMAIN up
           /\ \A i \in DOMAIN Tail(up) : i + 1 \in DOMAIN up /\ Tail(up)[i] = up[i + 1]
<1>1. up \in Seq(UpFrames)
    BY DEF CursorInv, SyncTypes
<1>2. DOMAIN up = 1 .. Len(up) /\ Len(up) \in Nat /\ Len(up) # 0
    BY <1>1, LenProperties, EmptySeq
<1>3. 1 \in DOMAIN up /\ up[1] \in UpFrames /\ Head(up) = up[1]
    BY <1>1, <1>2, ElementOfSeq, HeadTailProperties
<1>4. /\ Tail(up) \in Seq(UpFrames) /\ Len(Tail(up)) = Len(up) - 1
      /\ \A i \in 1 .. Len(up) - 1 : Tail(up)[i] = up[i + 1]
    BY <1>1, HeadTailProperties
<1>5. DOMAIN Tail(up) = 1 .. Len(up) - 1
    BY <1>2, <1>4, LenProperties
<1>6. \A i \in DOMAIN Tail(up) : i + 1 \in DOMAIN up /\ Tail(up)[i] = up[i + 1]
    BY <1>2, <1>4, <1>5
<1>. QED
    BY <1>3, <1>4, <1>6 DEF CursorInv, UpRows, LinkOff

\* One of our frames reaches the server: a row is there only once it is held.
LEMMA ServerTakesKeeps ==
    ASSUME CursorInv, ServerTakes
    PROVE  CursorInv'
<1>0. PICK f : f = up[1]
    OBVIOUS
<1>1. /\ up # <<>> /\ f # unsaved /\ up' = Tail(up) /\ srv' = Taken(srv, f)
      /\ UNCHANGED <<kind, clock, db, unsaved, online, since, missed>>
    BY <1>0, HeadUp DEF ServerTakes
<1>2. /\ \/ /\ held /\ held' = FALSE /\ f.t = "cu"
            /\ down' = down \o Batch({ts \in DOMAIN srv : ts > since}, f.n)
         \/ /\ ~held /\ UNCHANGED held /\ f.t = "cpb"
            /\ down' = down \o Batch(DOMAIN srv, f.n)
         \/ UNCHANGED <<down, held>>
    BY <1>0, <1>1, HeadUp DEF ServerTakes
<1>3. /\ SyncTypes /\ f \in UpFrames /\ OwnRow(f) /\ online
      /\ f.t = "row" => f.ts \in Held(db)
      /\ up' \in Seq(UpFrames)
    BY <1>0, <1>1, HeadUp DEF CursorInv
<1>4. /\ srv' \in UNION {[D -> SrvRows] : D \in SUBSET Times}
      /\ ServerKeeps(srv')
      /\ \A x \in DOMAIN srv' \ DOMAIN srv : f.t = "row" /\ x = f.ts /\ srv'[x].from = "me"
    BY <1>1, <1>3, TakenServer
<1>5. \A x \in DOMAIN srv' \ DOMAIN srv :
          x \in Nat /\ x <= clock /\ x \in Held(db) /\ srv'[x].from = "me"
    BY <1>3, <1>4, ClockFacts DEF CursorInv, Clocked
<1>6. clock' \in Nat /\ clock <= clock' /\ clock' = clock
    BY <1>1, ClockFacts
<1>8. /\ Grown(db, db') /\ Clocked' /\ PassedRows(db', srv')
      /\ \A g : g.t = "row" /\ g.ts \in Nat /\ OwnRow(g) => OwnRow(g)'
      /\ \A g : DownRow(g) => DownRow(g)'
    BY <1>1, <1>4, <1>5, <1>6, StoreStands
<1>9. UpRows'
  <2>1. \A i \in DOMAIN up' : up'[i].t = "row" =>
               up'[i].ts \in Held(db') \/ (up'[i].ts \notin Held(db) /\ up'[i] = unsaved')
               \/ up'[i].ts \in Held(db)
    BY <1>1, HeadUp DEF CursorInv, UpRows
  <2>. QED
    BY <1>1, <1>8, <2>1, UpRowsKeep
<1>10. /\ down' \in Seq(DownFrames)
       /\ \A i \in DOMAIN down' : DownRow(down'[i])
       /\ \A x \in DOMAIN srv \ Held(db) : RowComing(down, x) => RowComing(down', x)
       /\ \A x \in DOMAIN srv \ Held(db) :
              x > db.cur["post"] /\ (held \/ ~online) => RowComing(down', x) \/ (held' \/ ~online')
       /\ LinkOff'
  <2>1. CASE /\ held /\ held' = FALSE /\ f.t = "cu"
             /\ down' = down \o Batch({ts \in DOMAIN srv : ts > since}, f.n)
    <3> DEFINE S == {ts \in DOMAIN srv : ts > since}
    <3>1. f.n \in Nat \ {0}
      BY <1>3, <2>1, SyncAssumption DEF UpFrames, OwnFrames, RowFrames, EditFrames, OwnReacts, Requests
    <3>2. down = <<>> /\ since <= db.cur["post"]
      BY <2>1 DEF CursorInv, LinkOff
    <3>3. S \in SUBSET DOMAIN srv
      OBVIOUS
    <3>4. down' = <<>> \o Batch(S, f.n)
      BY <2>1, <3>2
    <3> HIDE DEF S
    <3>5. /\ Batch(S, f.n) \in Seq(DownFrames)
          /\ \A i \in DOMAIN Batch(S, f.n) : DownRow(Batch(S, f.n)[i])
          /\ \A ts \in S : RowComing(Batch(S, f.n), ts)
      BY <1>3, <3>1, <3>3, BatchFacts
    <3>6. down' = Batch(S, f.n)
      BY <3>4, <3>5, ConcatEmptySeq
    <3>7. \A x \in DOMAIN srv \ Held(db) : x > db.cur["post"] => x \in S
      BY <3>2, ClockFacts, <1>3, SyncAssumption DEF S, SyncTypes, Stamps0
    <3>8. ~ \E x : RowComing(<<>>, x)
      BY DEF RowComing
    <3>9. LinkOff'
      BY <1>1, <1>3, <2>1 DEF LinkOff
    <3>. QED
      BY <3>2, <3>5, <3>6, <3>7, <3>8, <3>9
  <2>2. CASE /\ ~held /\ UNCHANGED held /\ f.t = "cpb"
             /\ down' = down \o Batch(DOMAIN srv, f.n)
    <3>1. f.n \in Nat \ {0}
      BY <1>3, <2>2, SyncAssumption DEF UpFrames, OwnFrames, RowFrames, EditFrames, OwnReacts, Requests
    <3> DEFINE B == Batch(DOMAIN srv, f.n)
    <3>2. B \in Seq(DownFrames) /\ \A i \in DOMAIN B : DownRow(B[i])
      BY <1>3, <3>1, BatchFacts
    <3> HIDE DEF B
    <3>3. /\ down \in Seq(DownFrames) /\ \A i \in DOMAIN down : DownRow(down[i])
      BY <1>3 DEF CursorInv, SyncTypes, DownRows
    <3>4. down' = down \o B
      BY <2>2 DEF B
    <3>5. down' \in Seq(DownFrames) /\ \A i \in DOMAIN down' : DownRow(down'[i])
      BY <3>2, <3>3, <3>4, DownConcat
    <3>6. \A x : RowComing(down, x) => RowComing(down', x)
      BY <3>2, <3>3, <3>4, RowComingConcat
    <3>7. LinkOff'
      BY <1>1, <1>3, <2>2 DEF LinkOff
    <3>. QED
      BY <1>3, <2>2, <3>5, <3>6, <3>7
  <2>3. CASE UNCHANGED <<down, held>>
    <3>1. LinkOff'
      BY <1>1, <1>3, <2>3 DEF CursorInv, LinkOff
    <3>. QED
      BY <1>1, <1>3, <2>3, <3>1 DEF CursorInv, SyncTypes, DownRows
  <2>. QED
    BY <1>2, <2>1, <2>2, <2>3
<1>11. DownRows'
    BY <1>8, <1>10, DownRowsKeep
<1>12. SyncTypes'
    BY <1>1, <1>2, <1>3, <1>4, <1>10 DEF SyncTypes
<1>13. RowsWait'
  <2>1. db'.cur["post"] \in Nat
    BY <1>1, ClockFacts
  <2>2. \A x \in DOMAIN srv' \ DOMAIN srv : x \in Nat /\ (x \in Held(db') \/ Waits(x)')
    BY <1>1, <1>5
  <2>3. \A x \in DOMAIN srv \ Held(db') : RowComing(down, x) => Waits(x)'
    BY <1>1, <1>10 DEF Waits
  <2>4. \A x \in DOMAIN srv \ Held(db') :
               x > db.cur["post"] /\ x > db'.cur["post"] /\ (held \/ ~online) => Waits(x)'
    BY <1>1, <1>10 DEF Waits
  <2>5. \A x \in DOMAIN srv \ Held(db') : unsaved.t = "row" /\ unsaved.ts = x => Waits(x)'
    BY <1>1 DEF Waits
  <2>. QED
    BY <1>4, <1>8, <2>1, <2>2, <2>3, <2>4, <2>5, WaitsStill
<1>. QED
    BY <1>8, <1>9, <1>10, <1>11, <1>12, <1>13 DEF CursorInv

\* We send one frame more.
LEMMA SendsFrame ==
    ASSUME CursorInv, NEW f \in UpFrames, up' = Append(up, f),
           online, UNCHANGED <<kind, db, online, down, serverVars, missed>>,
           clock' \in Stamps0, clock <= clock',
           OwnRow(f)', f.t = "row" => f = unsaved',
           \/ unsaved' = unsaved
           \/ unsaved = Nothing /\ unsaved' = f /\ f \in OwnFrames
    PROVE  CursorInv'
<1>0. SyncTypes /\ clock' \in Nat /\ srv' = srv /\ held' = held /\ since' = since
    BY SyncAssumption DEF CursorInv, Stamps0, serverVars
<1>1. ServerKeeps(srv')
    BY <1>0 DEF ServerKeeps
<1>2. /\ Grown(db, db') /\ Clocked' /\ PassedRows(db', srv')
      /\ \A g : g.t = "row" /\ g.ts \in Nat /\ OwnRow(g) => OwnRow(g)'
      /\ \A g : DownRow(g) => DownRow(g)'
    BY <1>0, <1>1, StoreStands
<1>3. /\ up \in Seq(UpFrames) /\ Len(up) \in Nat /\ DOMAIN up = 1 .. Len(up)
      /\ up' \in Seq(UpFrames) /\ DOMAIN up' = 1 .. Len(up) + 1
      /\ \A i \in 1 .. Len(up) : up'[i] = up[i]
      /\ up'[Len(up) + 1] = f
  <2>1. up \in Seq(UpFrames) /\ Len(up) \in Nat /\ DOMAIN up = 1 .. Len(up)
    BY <1>0, LenProperties DEF SyncTypes
  <2>2. /\ up' \in Seq(UpFrames) /\ Len(up') = Len(up) + 1
        /\ \A i \in 1 .. Len(up) : up'[i] = up[i]
        /\ up'[Len(up) + 1] = f
    BY <2>1, AppendProperties
  <2>3. DOMAIN up' = 1 .. Len(up) + 1
    BY <2>1, <2>2, LenProperties
  <2>. QED
    BY <2>1, <2>2, <2>3
<1>4. SyncTypes'
    BY <1>0, <1>3 DEF SyncTypes
<1>5. ASSUME NEW g \in UpFrames \union {Nothing}, OwnRow(g) PROVE OwnRow(g)'
  <2>1. CASE g.t = "row"
    <3>1. g \in RowFrames
      BY <1>5, <2>1 DEF UpFrames, OwnFrames, EditFrames, OwnReacts, Requests, Nothing
    <3>2. g.ts \in Nat
      BY <3>1, SyncAssumption DEF RowFrames, Times
    <3>. QED
      BY <1>2, <1>5, <2>1, <3>2
  <2>2. CASE g.t # "row"
    BY <2>2 DEF OwnRow
  <2>. QED
    BY <2>1, <2>2
<1>6. OwnRow(unsaved)'
  <2>1. unsaved \in UpFrames \union {Nothing} /\ OwnRow(unsaved)
    BY <1>0 DEF CursorInv, UpRows, SyncTypes, UpFrames
  <2>2. CASE unsaved' = unsaved
    <3>1. \A g : g = unsaved => OwnRow(g)'
      BY <1>5, <2>1
    <3>. QED
      BY <2>2, <3>1 DEF OwnRow
  <2>3. CASE unsaved' = f
    BY <2>3 DEF OwnRow
  <2>. QED
    BY <2>2, <2>3
<1>7. ASSUME NEW i \in DOMAIN up'
      PROVE  OwnRow(up[i])' /\ (up'[i].t = "row" => up'[i].ts \in Held(db') \/ up'[i] = unsaved')
  <2>1. CASE i \in 1 .. Len(up)
    <3>1. PICK g : g = up[i]
      OBVIOUS
    <3>2. g \in UpFrames /\ OwnRow(g) /\ (g.t = "row" => g.ts \in Held(db) \/ g = unsaved)
      BY <1>3, <2>1, <3>1, ElementOfSeq DEF CursorInv, UpRows
    <3>3. OwnRow(g)'
      BY <1>5, <3>2
    <3>4. up'[i] = g
      BY <1>3, <2>1, <3>1
    <3>5. g.t = "row" => g.ts \in Held(db') \/ g = unsaved'
      BY <3>2 DEF Nothing
    <3>. QED
      BY <3>3, <3>4, <3>5 DEF OwnRow
  <2>2. CASE i = Len(up) + 1
    BY <1>3, <2>2 DEF OwnRow
  <2>. QED
    BY <1>3, <2>1, <2>2
<1>8. UpRows'
    BY <1>6, <1>7 DEF UpRows
<1>9. LinkOff'
    BY <1>0 DEF CursorInv, LinkOff
<1>10. DownRows'
    BY <1>2, DownRowsKeep DEF CursorInv, DownRows
<1>11. RowsWait'
  <2>1. db'.cur["post"] \in Nat
    BY ClockFacts
  <2>2. DOMAIN srv' \ DOMAIN srv = {}
    BY <1>0
  <2>3. \A x \in DOMAIN srv \ Held(db') : RowComing(down, x) => Waits(x)'
    BY DEF Waits
  <2>4. \A x \in DOMAIN srv \ Held(db') :
               x > db.cur["post"] /\ x > db'.cur["post"] /\ (held \/ ~online) => Waits(x)'
    BY <1>0 DEF Waits
  <2>5. \A x \in DOMAIN srv \ Held(db') : unsaved.t = "row" /\ unsaved.ts = x => Waits(x)'
    BY DEF Waits, Nothing
  <2>. QED
    BY <1>1, <1>2, <2>1, <2>2, <2>3, <2>4, <2>5, WaitsStill
<1>. QED
    BY <1>2, <1>4, <1>8, <1>9, <1>10, <1>11 DEF CursorInv

LEMMA WritesKeeps ==
    ASSUME CursorInv, NEW f \in OwnFrames, Writes(f), f.t = "row" => f.from = "me" /\ f.ts = clock + 1
    PROVE  CursorInv'
<1>1. /\ clock' \in Stamps0 /\ clock <= clock' /\ clock' = clock + 1 /\ clock \in Nat
    BY TickFacts DEF Writes
<1>2. f \in UpFrames
    BY DEF UpFrames
<1>3. clock + 1 \notin DOMAIN srv /\ clock + 1 \notin Held(db)
    BY <1>1, ClockFacts DEF CursorInv, Clocked
<1>4. OwnRow(f)'
    BY <1>1, <1>3 DEF OwnRow, Writes, serverVars
<1>. QED
    BY <1>1, <1>2, <1>4, SendsFrame DEF Writes

LEMMA WeWriteKeeps ==
    ASSUME CursorInv, WeWrite
    PROVE  CursorInv'
<1>1. PICK f : f = [t |-> "row", ts |-> clock + 1, from |-> "me", body |-> 0,
                    reacts |-> {}, ets |-> 0, gap |-> FALSE]
    OBVIOUS
<1>2. Writes(f)
    BY <1>1 DEF WeWrite
<1>3. clock + 1 \in Times /\ 0 \in Stamps0
    BY <1>2, TickFacts, SyncAssumption DEF Writes, Stamps0
<1>4. f \in OwnFrames /\ f.from = "me" /\ f.ts = clock + 1
    BY <1>1, <1>3 DEF OwnFrames, RowFrames
<1>. QED
    BY <1>2, <1>4, WritesKeeps

LEMMA WeEditKeeps ==
    ASSUME CursorInv, WeEdit
    PROVE  CursorInv'
<1>0. PICK ts \in Held(db) : Writes([t |-> "edit", ts |-> ts, body |-> clock + 1, edts |-> clock + 1])
    BY DEF WeEdit
<1>1. PICK f : f = [t |-> "edit", ts |-> ts, body |-> clock + 1, edts |-> clock + 1] /\ Writes(f)
    BY <1>0
<1>2. clock + 1 \in Stamps0 /\ ts \in Times
    BY <1>0, <1>1, TickFacts, StoreFacts DEF Writes, CursorInv, SyncTypes
<1>3. f \in OwnFrames /\ f.t # "row"
    BY <1>1, <1>2 DEF OwnFrames, EditFrames
<1>. QED
    BY <1>1, <1>3, WritesKeeps

LEMMA WeReactKeeps ==
    ASSUME CursorInv, WeReact
    PROVE  CursorInv'
<1>0. PICK ts \in Held(db), add \in BOOLEAN :
          Writes([t |-> "react", ts |-> ts, x |-> 0, add |-> add,
                  ets |-> IF kind = "dm" THEN clock + 1 ELSE Earliest])
    BY DEF WeReact
<1>1. PICK ets : ets = IF kind = "dm" THEN clock + 1 ELSE Earliest
    OBVIOUS
<1>2. PICK f : f = [t |-> "react", ts |-> ts, x |-> 0, add |-> add, ets |-> ets] /\ Writes(f)
    BY <1>0, <1>1
<1>3. ts \in Times /\ clock + 1 \in Stamps0 /\ Earliest \in Stamps0
    BY <1>2, StoreFacts, TickFacts, SyncAssumption DEF CursorInv, SyncTypes, Writes, Earliest, Stamps0
<1>4. f \in OwnFrames /\ f.t # "row"
    BY <1>1, <1>2, <1>3 DEF OwnFrames, OwnReacts
<1>. QED
    BY <1>2, <1>4, WritesKeeps

LEMMA AsksKeeps ==
    ASSUME CursorInv, Asks
    PROVE  CursorInv'
<1>0. PICK n \in Counts : up' = Append(up, [t |-> IF held THEN "cu" ELSE "cpb", n |-> n])
    BY DEF Asks
<1>1. PICK f : f = [t |-> IF held THEN "cu" ELSE "cpb", n |-> n] /\ up' = Append(up, f)
    BY <1>0
<1>2. f \in UpFrames /\ f.t # "row"
    BY <1>1 DEF UpFrames, Requests
<1>3. OwnRow(f)'
    BY <1>2 DEF OwnRow
<1>4. clock' \in Stamps0 /\ clock <= clock'
    BY ClockFacts DEF Asks, CursorInv, SyncTypes
<1>. QED
    BY <1>1, <1>2, <1>3, <1>4, SendsFrame DEF Asks

\* The store becomes d, and the server may have a row of ours it had not.
LEMMA StoreBecomes ==
    ASSUME CursorInv, Becomes(db'), clock' = clock, ServerKeeps(srv'),
           \A x \in DOMAIN srv' \ DOMAIN srv : x \in Nat /\ x > 0 /\ x <= clock /\ srv'[x].from = "me"
    PROVE  /\ Grown(db, db') /\ db' \in Stores /\ Clocked' /\ PassedRows(db', srv')
           /\ db'.cur["post"] \in Nat /\ db.cur["post"] <= db'.cur["post"] /\ Held(db) \subseteq Held(db')
           /\ \A f : f.t = "row" /\ f.ts \in Nat /\ OwnRow(f) => OwnRow(f)'
           /\ \A f : DownRow(f) => DownRow(f)'
<1>1. PICK d : d = db'
    OBVIOUS
<1>2. /\ Grown(db, d) /\ d \in Stores /\ d.cur["post"] \in Nat
      /\ \A x \in Held(d) : x <= clock
      /\ d.cur["post"] # 0 => d.cur["post"] \in Held(d)
      /\ PassedRows(d, srv)
      /\ \A x \in Held(d) \ Held(db) :
             d.rows[x].from = "me" \/ (x \in DOMAIN srv /\ d.rows[x].from = srv[x].from)
    BY <1>1, BecomesFacts
<1>3. clock \in Nat /\ (\A x \in DOMAIN srv : x > 0) /\ \A x \in Held(d) : x \in Nat
    BY <1>2, ClockFacts, StoreFacts
<1>4. Clocked'
    BY <1>1, <1>2 DEF CursorInv, Clocked, CursorIsHeld, Lp
<1>5. PassedRows(d, srv')
  <2> SUFFICES ASSUME NEW x \in DOMAIN srv' \ Held(d), x <= d.cur["post"]
               PROVE  Behind(d, srv', x)
    BY DEF PassedRows
  <2>1. CASE x \in DOMAIN srv
    <3>1. Behind(d, srv, x)
      BY <1>2, <2>1 DEF PassedRows
    <3>. QED
      BY <2>1, <3>1 DEF Behind, ServerKeeps
  <2>2. CASE x \notin DOMAIN srv
    <3>1. x \in Nat /\ srv'[x].from = "me"
      BY <2>2
    <3>2. d.cur["post"] # 0
      <4>1. x # 0
        BY <2>2
      <4>. QED
        BY <1>2, <3>1, <4>1
    <3>3. d.cur["post"] \in Held(d) /\ d.cur["post"] > x
      BY <1>2, <3>1, <3>2
    <3>. QED
      BY <3>1, <3>3 DEF Behind
  <2>. QED
    BY <2>1, <2>2
<1>6. /\ \A f : f.t = "row" /\ f.ts \in Nat /\ OwnRow(f) => OwnRow(f)'
      /\ \A f : DownRow(f) => DownRow(f)'
    BY <1>1, <1>2, <1>3, RowsKeep
<1>7. db.cur["post"] <= db'.cur["post"] /\ Held(db) \subseteq Held(db')
    BY <1>1, <1>2 DEF Grown, Cursors
<1>. QED
    BY <1>1, <1>2, <1>4, <1>5, <1>6, <1>7

\* A frame of ours that is out is written.
LEMMA PersistBecomes ==
    ASSUME CursorInv, unsaved # Nothing
    PROVE  /\ Len(Persisted(db, unsaved)) \in {1, 2}
           /\ \A i \in 1 .. Len(Persisted(db, unsaved)) : Came(db, Persisted(db, unsaved)[i], unsaved)
           /\ Last(Persisted(db, unsaved)) = Persisted(db, unsaved)[Len(Persisted(db, unsaved))]
<1>1. unsaved \in OwnFrames /\ db \in Stores /\ clock \in Stamps0
    BY DEF CursorInv, SyncTypes
<1>. QED
    BY <1>1, PersistedFacts DEF Last

LEMMA HandledBecomes ==
    ASSUME CursorInv, down # <<>>
    PROVE  /\ Head(down) = down[1] /\ 1 \in DOMAIN down /\ down[1] \in DownFrames /\ online /\ ~held
           /\ Len(Handled(db, down[1])) \in {1, 2}
           /\ \A i \in 1 .. Len(Handled(db, down[1])) : Came(db, Handled(db, down[1])[i], down[1])
           /\ Came(db, Last(Handled(db, down[1])), down[1])
           /\ Tail(down) \in Seq(DownFrames)
           /\ \A i \in DOMAIN Tail(down) : i + 1 \in DOMAIN down /\ Tail(down)[i] = down[i + 1]
           /\ \A i \in DOMAIN down : i # 1 => i - 1 \in DOMAIN Tail(down) /\ i \in Nat /\ i > 1
<1>1. down \in Seq(DownFrames) /\ db \in Stores /\ clock \in Stamps0
    BY DEF CursorInv, SyncTypes
<1>2. DOMAIN down = 1 .. Len(down) /\ Len(down) \in Nat /\ Len(down) # 0
    BY <1>1, LenProperties, EmptySeq
<1>3. 1 \in DOMAIN down /\ down[1] \in DownFrames /\ Head(down) = down[1]
    BY <1>1, <1>2, ElementOfSeq, HeadTailProperties
<1>4. /\ Tail(down) \in Seq(DownFrames) /\ Len(Tail(down)) = Len(down) - 1
      /\ \A i \in 1 .. Len(down) - 1 : Tail(down)[i] = down[i + 1]
    BY <1>1, HeadTailProperties
<1>5. DOMAIN Tail(down) = 1 .. Len(down) - 1
    BY <1>2, <1>4, LenProperties
<1>6. /\ \A i \in DOMAIN Tail(down) : i + 1 \in DOMAIN down /\ Tail(down)[i] = down[i + 1]
      /\ \A i \in DOMAIN down : i # 1 => i - 1 \in DOMAIN Tail(down) /\ i \in Nat /\ i > 1
    BY <1>2, <1>4, <1>5
<1>7. /\ Len(Handled(db, down[1])) \in {1, 2}
      /\ \A i \in 1 .. Len(Handled(db, down[1])) : Came(db, Handled(db, down[1])[i], down[1])
    BY <1>1, <1>3, HandledFacts
<1>8. Came(db, Last(Handled(db, down[1])), down[1])
    BY <1>7 DEF Last
<1>. QED
    BY <1>3, <1>4, <1>6, <1>7, <1>8 DEF CursorInv, LinkOff

LEMMA WePersistKeeps ==
    ASSUME CursorInv, WePersist
    PROVE  CursorInv'
<1>0. /\ unsaved # Nothing /\ unsaved' = Nothing
      /\ UNCHANGED <<kind, clock, online, up, down, srv, held, since, missed>>
      /\ Came(db, db', unsaved) /\ Becomes(db')
    BY PersistBecomes DEF WePersist, linkVars, serverVars, Becomes
<1>1. ServerKeeps(srv') /\ DOMAIN srv' \ DOMAIN srv = {} /\ SyncTypes
    BY <1>0 DEF ServerKeeps, CursorInv
<1>2. /\ Grown(db, db') /\ db' \in Stores /\ Clocked' /\ PassedRows(db', srv')
      /\ db'.cur["post"] \in Nat /\ db.cur["post"] <= db'.cur["post"] /\ Held(db) \subseteq Held(db')
      /\ \A f : f.t = "row" /\ f.ts \in Nat /\ OwnRow(f) => OwnRow(f)'
      /\ \A f : DownRow(f) => DownRow(f)'
    BY <1>0, <1>1, StoreBecomes
<1>3. unsaved.t = "row" => unsaved.ts \in Held(db')
    BY <1>0 DEF Came, RowIsHeld
<1>4. SyncTypes'
    BY <1>0, <1>1, <1>2 DEF SyncTypes
<1>5. UpRows'
  <2>1. \A i \in DOMAIN up' : up'[i].t = "row" =>
               up'[i].ts \in Held(db') \/ (up'[i].ts \notin Held(db) /\ up'[i] = unsaved')
               \/ up'[i].ts \in Held(db)
    BY <1>0, <1>3 DEF CursorInv, UpRows
  <2>. QED
    BY <1>0, <1>2, <2>1, UpRowsKeep
<1>6. DownRows'
    BY <1>0, <1>2, DownRowsKeep DEF CursorInv, DownRows
<1>7. LinkOff'
  <2>1. since \in Nat /\ db.cur["post"] \in Nat
    BY <1>1, ClockFacts, SyncAssumption DEF SyncTypes, Stamps0
  <2>2. held' => since' <= db'.cur["post"]
    BY <1>0, <1>2, <2>1 DEF CursorInv, LinkOff
  <2>. QED
    BY <1>0, <2>2 DEF CursorInv, LinkOff
<1>8. RowsWait'
  <2>3. \A x \in DOMAIN srv \ Held(db') : RowComing(down, x) => Waits(x)'
    BY <1>0 DEF Waits
  <2>4. \A x \in DOMAIN srv \ Held(db') :
               x > db.cur["post"] /\ x > db'.cur["post"] /\ (held \/ ~online) => Waits(x)'
    BY <1>0 DEF Waits
  <2>5. \A x \in DOMAIN srv \ Held(db') : unsaved.t = "row" /\ unsaved.ts = x => Waits(x)'
    BY <1>3
  <2>. QED
    BY <1>1, <1>2, <2>3, <2>4, <2>5, WaitsStill
<1>. QED
    BY <1>2, <1>4, <1>5, <1>6, <1>7, <1>8 DEF CursorInv

\* Off the link, a row that is missed is behind something or will be asked for.
LEMMA OfflineWaits ==
    ASSUME PassedRows(db', srv'), ~online', db'.cur["post"] \in Nat, \A x \in DOMAIN srv' : x \in Nat
    PROVE  RowsWait'
<1> SUFFICES ASSUME NEW x \in DOMAIN srv' \ Held(db') PROVE Waits(x)'
    BY DEF RowsWait
<1>1. CASE x <= db'.cur["post"]
  <2>1. Behind(db', srv', x)
    BY <1>1 DEF PassedRows
  <2>. QED
    BY <2>1 DEF Waits
<1>2. CASE x > db'.cur["post"]
    BY <1>2 DEF Waits
<1>. QED
    BY <1>1, <1>2

LEMMA WriteFailsKeeps ==
    ASSUME CursorInv, WriteFails
    PROVE  CursorInv'
<1>0. /\ unsaved' = Nothing /\ ~online /\ up = <<>>
      /\ UNCHANGED <<kind, clock, db, online, up, down, srv, held, since, missed>>
    BY DEF WriteFails, linkVars, serverVars, CursorInv, LinkOff
<1>1. PassedRows(db', srv') /\ Clocked' /\ LinkOff' /\ DownRows'
    BY <1>0 DEF CursorInv, PassedRows, Clocked, CursorIsHeld, LinkOff, DownRows, DownRow, Behind
<1>2. SyncTypes'
    BY <1>0 DEF CursorInv, SyncTypes
<1>3. UpRows'
    BY <1>0 DEF UpRows, OwnRow, Nothing
<1>4. RowsWait'
    BY <1>0, <1>1, ClockFacts, OfflineWaits
<1>. QED
    BY <1>1, <1>2, <1>3, <1>4 DEF CursorInv

\* The cursors of the connect record are stamps.
LEMMA CursorsAreStamps ==
    ASSUME SyncTypes
    PROVE  Lp(db) \in Stamps0 /\ Led(db) \in Stamps0 /\ Le(db) \in Stamps0
<1>1. /\ db.cur \in [Cursors -> Stamps0] /\ db \in Stores
      /\ Held(db) \in SUBSET Times /\ Times \subseteq Stamps0 /\ 0 \in Stamps0
      /\ \A ts \in Held(db) : db.rows[ts] \in Row
    BY StoreFacts, SyncAssumption DEF SyncTypes, Times, Stamps0
<1>2. \A S \in SUBSET Stamps0 : Largest(S) \in Stamps0
  <2> SUFFICES ASSUME NEW S \in SUBSET Stamps0 PROVE Largest(S) \in Stamps0
    OBVIOUS
  <2> DEFINE T == S \union {0}
  <2>1. T \in SUBSET (0 .. MaxClock) /\ T # {} /\ MaxClock \in Nat
    BY <1>1, SyncAssumption DEF Stamps0
  <2> HIDE DEF T
  <2>2. Max(T) \in T
    BY <2>1, MaxFacts
  <2>. QED
    BY <2>1, <2>2 DEF Largest, T, Stamps0
<1>3. \A r \in Row : r.edts \in Stamps0 /\ r.ets \in Stamps0
    BY DEF Row, Stamps0
<1>4. Gaps(db) \subseteq Stamps0
    BY <1>1 DEF Gaps
<1>5. Floor(db, "edts") \subseteq Stamps0 /\ Floor(db, "ets") \subseteq Stamps0
  <2>1. \A ts \in Held(db) : db.rows[ts]["edts"] \in Stamps0 /\ db.rows[ts]["ets"] \in Stamps0
    BY <1>1, <1>3
  <2>. QED
    BY <1>1, <1>4, <2>1 DEF Floor
<1>6. db.cur["post"] \in Stamps0 /\ db.cur["edit"] \in Stamps0 /\ db.cur["emoji"] \in Stamps0
    BY <1>1 DEF Cursors
<1>7. /\ {db.cur["edit"]} \union {} \in SUBSET Stamps0
      /\ {db.cur["edit"]} \union Floor(db, "edts") \in SUBSET Stamps0
      /\ {db.cur["emoji"]} \union Held(db) \in SUBSET Stamps0
      /\ {db.cur["emoji"]} \union Floor(db, "ets") \in SUBSET Stamps0
    BY <1>1, <1>5, <1>6
<1>8. Led(db) \in Stamps0
    BY <1>2, <1>7 DEF Led
<1>9. Le(db) \in Stamps0
    BY <1>2, <1>7 DEF Le
<1>. QED
    BY <1>6, <1>8, <1>9 DEF Lp

LEMMA ConnectKeeps ==
    ASSUME CursorInv, Connect
    PROVE  CursorInv'
<1> DEFINE R == Replay(Lp(db), Led(db), Le(db))
<1>0. /\ online' = TRUE /\ ~online /\ unsaved = Nothing /\ up = <<>> /\ down = <<>>
      /\ UNCHANGED <<kind, clock, db, unsaved, up, srv>> /\ SyncTypes
    BY DEF Connect, CursorInv, LinkOff
<1>1. PICK hold \in BOOLEAN :
         /\ held' = hold
         /\ since' = IF hold THEN Lp(db) ELSE 0
         /\ IF hold
            THEN /\ down' = <<>>
                 /\ missed' = missed \union
                      UNION {Carries(R[i]) : i \in {j \in 1 .. Len(R) : R[j].t # "row"}}
            ELSE down' = R /\ UNCHANGED missed
    BY DEF Connect
<1>2. Lp(db) \in Stamps0 /\ Led(db) \in Stamps0 /\ Le(db) \in Stamps0 /\ 0 \in Stamps0
    BY <1>0, CursorsAreStamps, SyncAssumption DEF Stamps0
<1>3. /\ R \in Seq(DownFrames)
      /\ \A i \in DOMAIN R : DownRow(R[i])
      /\ \A ts \in DOMAIN srv : ts > Lp(db) => RowComing(R, ts)
    BY <1>0, <1>2, ReplayFacts
<1> HIDE DEF R
<1>4. \A i \in 1 .. Len(R) : Carries(R[i]) \in SUBSET ({"edit", "react"} \X Times)
  <2>1. \A i \in 1 .. Len(R) : R[i] \in DownFrames
    BY <1>3, ElementOfSeq
  <2>. QED
    BY <2>1, CarriesFacts
<1>5. /\ down' \in Seq(DownFrames) /\ missed' \in SUBSET ({"edit", "react"} \X Times)
      /\ since' \in Stamps0 /\ held' \in BOOLEAN
  <2>1. CASE hold
    <3>1. <<>> \in Seq(DownFrames)
      BY EmptySeq
    <3>2. \A X \in {Carries(R[i]) : i \in {j \in 1 .. Len(R) : R[j].t # "row"}} :
              X \in SUBSET ({"edit", "react"} \X Times)
      BY <1>4
    <3>3. missed' \in SUBSET ({"edit", "react"} \X Times)
      BY <1>0, <1>1, <2>1, <3>2 DEF SyncTypes
    <3>. QED
      BY <1>1, <1>2, <2>1, <3>1, <3>3
  <2>2. CASE ~hold
    BY <1>0, <1>1, <1>2, <1>3, <2>2 DEF SyncTypes
  <2>. QED
    BY <2>1, <2>2
<1>6. SyncTypes'
    BY <1>0, <1>5 DEF SyncTypes
<1>7. ServerKeeps(srv') /\ DOMAIN srv' \ DOMAIN srv = {} /\ clock' \in Nat /\ clock <= clock'
      /\ db'.cur["post"] \in Nat
    BY <1>0, ClockFacts DEF ServerKeeps
<1>8. /\ Grown(db, db') /\ Clocked' /\ PassedRows(db', srv')
      /\ \A f : DownRow(f) => DownRow(f)'
    BY <1>0, <1>7, StoreStands
<1>9. UpRows'
    BY <1>0 DEF UpRows, OwnRow, Nothing
<1>10. DownRows'
  <2>1. \A i \in DOMAIN down' : DownRow(down'[i])
    BY <1>1, <1>3
  <2>. QED
    BY <1>8, <2>1, DownRowsKeep
<1>11. LinkOff'
  <2>1. held' => down' = <<>> /\ since' = db'.cur["post"]
    BY <1>0, <1>1 DEF Lp
  <2>2. held' => since' <= db'.cur["post"]
    BY <1>7, <2>1
  <2>. QED
    BY <1>0, <2>1, <2>2 DEF LinkOff
<1>12. RowsWait'
  <2>3. \A x \in DOMAIN srv \ Held(db') : RowComing(down, x) => Waits(x)'
    BY <1>0 DEF RowComing
  <2>4. \A x \in DOMAIN srv \ Held(db') :
               x > db.cur["post"] /\ x > db'.cur["post"] /\ (held \/ ~online) => Waits(x)'
    <3>1. \A x \in DOMAIN srv : x > db.cur["post"] => held' \/ RowComing(down', x)
      BY <1>1, <1>3 DEF Lp
    <3>. QED
      BY <3>1 DEF Waits
  <2>5. \A x \in DOMAIN srv \ Held(db') : unsaved.t = "row" /\ unsaved.ts = x => Waits(x)'
    BY <1>0 DEF Nothing
  <2>. QED
    BY <1>7, <1>8, <2>3, <2>4, <2>5, WaitsStill
<1>. QED
    BY <1>6, <1>8, <1>9, <1>10, <1>11, <1>12 DEF CursorInv

\* The link goes, with whatever has been made of the store.
LEMMA LinkEndsKeeps ==
    ASSUME CursorInv, LinkEnds, Becomes(db'), unsaved' \in {unsaved, Nothing}, UNCHANGED <<kind, clock>>
    PROVE  CursorInv'
<1>0. /\ online' = FALSE /\ up' = <<>> /\ down' = <<>> /\ held' = FALSE /\ since' = 0
      /\ srv' = srv \/ (unsaved # Nothing /\ srv' = Taken(srv, unsaved))
      /\ missed' = missed \union OnTheWay
    BY DEF LinkEnds
<1>1. SyncTypes /\ OwnRow(unsaved) /\ (unsaved # Nothing => unsaved \in UpFrames)
    BY DEF CursorInv, UpRows, SyncTypes, UpFrames
<1>2. /\ srv' \in UNION {[D -> SrvRows] : D \in SUBSET Times}
      /\ ServerKeeps(srv')
      /\ \A x \in DOMAIN srv' \ DOMAIN srv : x \in Nat /\ x > 0 /\ x <= clock /\ srv'[x].from = "me"
  <2>1. CASE srv' = srv
    BY <1>1, <2>1 DEF SyncTypes, ServerKeeps
  <2>2. CASE unsaved # Nothing /\ srv' = Taken(srv, unsaved)
    <3> DEFINE s == Taken(srv, unsaved)
    <3>1. /\ s \in UNION {[D -> SrvRows] : D \in SUBSET Times} /\ ServerKeeps(s)
          /\ \A x \in DOMAIN s \ DOMAIN srv :
                 unsaved.t = "row" /\ x = unsaved.ts /\ s[x].from = "me"
      BY <1>1, <2>2, TakenServer
    <3>2. s = srv'
      BY <2>2
    <3> HIDE DEF s
    <3>3. \A x \in DOMAIN s : x \in Nat /\ x > 0
      <4>1. PICK D \in SUBSET Times : s \in [D -> SrvRows]
        BY <3>1
      <4>2. DOMAIN s = D
        BY <4>1
      <4>3. \A x \in Times : x \in Nat /\ x > 0
        BY SyncAssumption DEF Times
      <4>. QED
        BY <4>2, <4>3
    <3>. QED
      BY <1>1, <3>1, <3>2, <3>3 DEF OwnRow
  <2>. QED
    BY <1>0, <2>1, <2>2
<1>3. /\ Grown(db, db') /\ db' \in Stores /\ Clocked' /\ PassedRows(db', srv')
      /\ db'.cur["post"] \in Nat
      /\ \A f : f.t = "row" /\ f.ts \in Nat /\ OwnRow(f) => OwnRow(f)'
      /\ \A f : DownRow(f) => DownRow(f)'
    BY <1>2, StoreBecomes
<1>4. SyncTypes'
  <2>1. \A i \in 1 .. Len(down) : Carries(down[i]) \in SUBSET ({"edit", "react"} \X Times)
    BY <1>1, ElementOfSeq, CarriesFacts DEF SyncTypes
  <2>2. OnTheWay \in SUBSET ({"edit", "react"} \X Times)
    BY <2>1 DEF OnTheWay
  <2>3. missed' \in SUBSET ({"edit", "react"} \X Times)
    BY <1>0, <1>1, <2>2 DEF SyncTypes
  <2>4. up' \in Seq(UpFrames) /\ down' \in Seq(DownFrames) /\ since' \in Stamps0
    BY <1>0, EmptySeq, SyncAssumption DEF Stamps0
  <2>5. unsaved' \in OwnFrames \union {Nothing} /\ kind' \in Kinds /\ clock' \in Stamps0
    BY <1>1 DEF SyncTypes
  <2>. QED
    BY <1>0, <1>2, <1>3, <2>3, <2>4, <2>5 DEF SyncTypes
<1>5. UpRows'
  <2>1. up' \in {up, <<>>} /\ DOMAIN up' = {}
    BY <1>0
  <2>. QED
    BY <1>3, <2>1, UpRowsKeep DEF Grown
<1>6. DownRows' /\ LinkOff'
    BY <1>0 DEF DownRows, LinkOff
<1>7. RowsWait'
  <2>1. \A x \in DOMAIN srv' : x \in Nat
    <3>1. PICK D \in SUBSET Times : srv' \in [D -> SrvRows]
      BY <1>2
    <3>2. DOMAIN srv' = D
      BY <3>1
    <3>3. \A x \in Times : x \in Nat
      BY SyncAssumption DEF Times
    <3>. QED
      BY <3>2, <3>3
  <2>. QED
    BY <1>0, <1>3, <2>1, OfflineWaits
<1>. QED
    BY <1>3, <1>4, <1>5, <1>6, <1>7 DEF CursorInv

\* A frame is handled.
LEMMA ReceiveKeeps ==
    ASSUME CursorInv, Receive
    PROVE  CursorInv'
<1>0. PICK f : f = down[1]
    OBVIOUS
<1>1. /\ down # <<>> /\ f \in DownFrames /\ 1 \in DOMAIN down /\ online /\ ~held
      /\ UNCHANGED <<kind, clock, unsaved, online, up, srv, held, since>>
      /\ missed' = missed \ Restores(f)
      /\ down' = Tail(down) /\ down' \in Seq(DownFrames)
      /\ \A i \in DOMAIN down' : i + 1 \in DOMAIN down /\ down'[i] = down[i + 1]
      /\ \A i \in DOMAIN down : i # 1 => i - 1 \in DOMAIN down' /\ i \in Nat /\ i > 1
    BY <1>0, HandledBecomes DEF Receive, serverVars
<1>2. Came(db, db', f) /\ Becomes(db')
  <2>1. db' = Last(Handled(db, down[1])) /\ down # <<>>
    BY HandledBecomes DEF Receive
  <2>2. Came(db, db', f)
    BY <1>0, <2>1, HandledBecomes
  <2>. QED
    BY <1>0, <1>1, <2>2 DEF Becomes
<1>3. ServerKeeps(srv') /\ DOMAIN srv' \ DOMAIN srv = {} /\ SyncTypes
    BY <1>1 DEF ServerKeeps, CursorInv
<1>4. /\ Grown(db, db') /\ db' \in Stores /\ Clocked' /\ PassedRows(db', srv')
      /\ db'.cur["post"] \in Nat /\ Held(db) \subseteq Held(db')
      /\ \A g : g.t = "row" /\ g.ts \in Nat /\ OwnRow(g) => OwnRow(g)'
      /\ \A g : DownRow(g) => DownRow(g)'
    BY <1>1, <1>2, <1>3, StoreBecomes
<1>5. SyncTypes'
    BY <1>1, <1>3, <1>4 DEF SyncTypes
<1>6. UpRows'
  <2>1. \A i \in DOMAIN up' : up'[i].t = "row" =>
               up'[i].ts \in Held(db') \/ (up'[i].ts \notin Held(db) /\ up'[i] = unsaved')
               \/ up'[i].ts \in Held(db)
    BY <1>1 DEF CursorInv, UpRows
  <2>. QED
    BY <1>1, <1>4, <2>1, UpRowsKeep
<1>7. DownRows' /\ LinkOff'
  <2>1. \A i \in DOMAIN down' : DownRow(down'[i])
    BY <1>1 DEF CursorInv, DownRows
  <2>2. LinkOff'
    BY <1>1 DEF LinkOff
  <2>. QED
    BY <1>4, <2>1, <2>2, DownRowsKeep
<1>8. ASSUME NEW x \in DOMAIN srv \ Held(db'), RowComing(down, x)
      PROVE  Waits(x)'
  <2>1. PICK i \in DOMAIN down : Covers(down[i], x) /\ \A j \in 1 .. i - 1 : Before(down[j], x)
    BY <1>8 DEF RowComing
  <2>2. CASE i = 1
    <3>1. f.t = "row" /\ (f.ts = x \/ (f.ts > x /\ f.gap))
      BY <1>0, <2>1, <2>2 DEF Covers
    <3>2. f.ts \in Held(db') /\ (f.gap => db'.rows[f.ts].gap)
      BY <1>2, <3>1 DEF Came, RowIsHeld
    <3>3. Behind(db', srv', x)
      BY <3>1, <3>2 DEF Behind
    <3>. QED
      BY <3>3 DEF Waits
  <2>3. CASE i # 1
    <3>1. i - 1 \in DOMAIN down' /\ i \in Nat /\ i > 1
      BY <1>1, <2>3
    <3>2. down'[i - 1] = down[i]
      BY <1>1, <3>1
    <3>3. ASSUME NEW j \in 1 .. (i - 1) - 1 PROVE Before(down'[j], x)
      <4>1. j \in DOMAIN down' /\ j + 1 \in 1 .. i - 1
        <5>1. DOMAIN down' = 1 .. Len(down') /\ Len(down') \in Nat
          BY <1>1, LenProperties
        <5>. QED
          BY <3>1, <5>1
      <4>2. down'[j] = down[j + 1]
        BY <1>1, <4>1
      <4>. QED
        BY <2>1, <4>1, <4>2
    <3>4. RowComing(down', x)
      BY <2>1, <3>1, <3>2, <3>3 DEF RowComing
    <3>. QED
      BY <3>4 DEF Waits
  <2>. QED
    BY <2>2, <2>3
<1>9. RowsWait'
  <2>4. \A x \in DOMAIN srv \ Held(db') :
               x > db.cur["post"] /\ x > db'.cur["post"] /\ (held \/ ~online) => Waits(x)'
    BY <1>1
  <2>5. \A x \in DOMAIN srv \ Held(db') : unsaved.t = "row" /\ unsaved.ts = x => Waits(x)'
    BY <1>1 DEF Waits
  <2>. QED
    BY <1>3, <1>4, <1>8, <2>4, <2>5, WaitsStill
<1>. QED
    BY <1>4, <1>5, <1>6, <1>7, <1>9 DEF CursorInv

LEMMA LinkDropsKeeps ==
    ASSUME CursorInv, LinkDrops
    PROVE  CursorInv'
BY LinkEndsKeeps DEF LinkDrops, Becomes

LEMMA DiesInHandlerKeeps ==
    ASSUME CursorInv, DiesInHandler
    PROVE  CursorInv'
<1>1. Becomes(db')
    BY HandledBecomes DEF DiesInHandler, Becomes
<1>. QED
    BY <1>1, LinkEndsKeeps DEF DiesInHandler

LEMMA DiesInOperationKeeps ==
    ASSUME CursorInv, DiesInOperation
    PROVE  CursorInv'
<1>1. Becomes(db')
    BY PersistBecomes DEF DiesInOperation, Becomes
<1>. QED
    BY <1>1, LinkEndsKeeps DEF DiesInOperation

LEMMA CursorInvInit ==
    ASSUME SyncInit
    PROVE  CursorInv
<1>1. /\ kind \in Kinds /\ clock = 0 /\ db = EmptyStore /\ unsaved = Nothing
      /\ online = FALSE /\ up = <<>> /\ down = <<>> /\ srv = <<>> /\ held = FALSE /\ since = 0 /\ missed = {}
    BY DEF SyncInit
<1>2. 0 \in Stamps0
    BY SyncAssumption DEF Stamps0
<1>3. /\ <<>> \in [{} -> Row] /\ <<>> \in [{} -> SrvRows] /\ DOMAIN <<>> = {}
    OBVIOUS
<1>4. db \in Stores /\ Held(db) = {} /\ db.cur["post"] = 0
  <2>1. db.rows = <<>> /\ db.emojis \in [Times -> SUBSET Stamps0] /\ db.cur \in [Cursors -> Stamps0]
    BY <1>1, <1>2 DEF EmptyStore, Cursors
  <2>2. db.rows \in UNION {[D -> Row] : D \in SUBSET Times}
    <3>1. {} \in SUBSET Times
      OBVIOUS
    <3>. QED
      BY <1>3, <2>1, <3>1
  <2>3. db = [rows |-> db.rows, emojis |-> db.emojis, cur |-> db.cur]
    BY <1>1 DEF EmptyStore
  <2>4. db.cur["post"] = 0
    BY <1>1 DEF EmptyStore
  <2>5. db \in Stores
    BY <2>1, <2>2, <2>3 DEF Stores
  <2>. QED
    BY <1>3, <2>1, <2>4, <2>5 DEF Held
<1>5. srv \in UNION {[D -> SrvRows] : D \in SUBSET Times} /\ DOMAIN srv = {}
  <2>1. {} \in SUBSET Times
    OBVIOUS
  <2>. QED
    BY <1>1, <1>3, <2>1
<1>6. SyncTypes
    BY <1>1, <1>2, <1>4, <1>5, EmptySeq DEF SyncTypes
<1>7. Clocked /\ LinkOff /\ UpRows /\ DownRows /\ PassedRows(db, srv) /\ RowsWait
    BY <1>1, <1>4, <1>5
       DEF Clocked, CursorIsHeld, Lp, LinkOff, UpRows, OwnRow, Nothing, DownRows, PassedRows, RowsWait
<1>. QED
    BY <1>6, <1>7 DEF CursorInv

LEMMA CursorInvNext ==
    ASSUME CursorInv, [SyncNext]_syncVars
    PROVE  CursorInv'
<1>1. CASE PeerWrites
    BY <1>1, PeerWritesKeeps
<1>2. CASE PeerEdits
    BY <1>2, PeerEditsKeeps
<1>3. CASE PeerReacts
    BY <1>3, PeerReactsKeeps
<1>4. CASE ServerTakes
    BY <1>4, ServerTakesKeeps
<1>5. CASE WeWrite
    BY <1>5, WeWriteKeeps
<1>6. CASE WeEdit
    BY <1>6, WeEditKeeps
<1>7. CASE WeReact
    BY <1>7, WeReactKeeps
<1>8. CASE WePersist
    BY <1>8, WePersistKeeps
<1>9. CASE WriteFails
    BY <1>9, WriteFailsKeeps
<1>10. CASE Asks
    BY <1>10, AsksKeeps
<1>11. CASE Connect
    BY <1>11, ConnectKeeps
<1>12. CASE LinkDrops
    BY <1>12, LinkDropsKeeps
<1>13. CASE Receive
    BY <1>13, ReceiveKeeps
<1>14. CASE DiesInHandler
    BY <1>14, DiesInHandlerKeeps
<1>15. CASE DiesInOperation
    BY <1>15, DiesInOperationKeeps
<1>16. CASE UNCHANGED syncVars
  <2>1. UNCHANGED <<kind, clock, db, unsaved, online, up, down, srv, held, since, missed>>
    BY <1>16 DEF syncVars, linkVars, serverVars
  <2>2. SyncTypes' /\ Clocked' /\ LinkOff' /\ UpRows' /\ DownRows' /\ PassedRows(db', srv')
    BY <2>1 DEF CursorInv, SyncTypes, Clocked, CursorIsHeld, LinkOff, UpRows, OwnRow, DownRows,
                DownRow, PassedRows, Behind
  <2>3. RowsWait'
    BY <2>1 DEF CursorInv, RowsWait, Waits
  <2>. QED
    BY <2>2, <2>3 DEF CursorInv
<1>. QED
    BY <1>1, <1>2, <1>3, <1>4, <1>5, <1>6, <1>7, <1>8, <1>9, <1>10, <1>11, <1>12, <1>13, <1>14,
       <1>15, <1>16 DEF SyncNext

\* For every clock, counter and number of frames under way, with the link and the
\* process dying anywhere: the row cursor is at a row that is held, and a row of
\* the server that is not held is on its way, will be asked for, or is behind a
\* gap the user accepted or a row of the user's own (client.py, store.py).
THEOREM CursorInvariance == SyncSpec => []CursorInv
<1>1. SyncInit => CursorInv
    BY CursorInvInit
<1>2. CursorInv /\ [SyncNext]_syncVars => CursorInv'
    BY CursorInvNext
<1>. QED
    BY <1>1, <1>2, PTL DEF SyncSpec

\* The row cursor that the connect record sends is that of a row the store holds,
\* wherever a handler or an operation is cut short (connect_record of
\* store.py, the handlers of client.py).
THEOREM CursorNeverAhead == SyncSpec => []SyncInv
<1>1. CursorInv => SyncInv
  <2> SUFFICES ASSUME CursorInv PROVE SyncInv
    OBVIOUS
  <2>1. SyncTypes /\ CursorIsHeld
    BY DEF CursorInv, Clocked
  <2>2. /\ Held(db) \subseteq Times /\ \A ts \in Held(db) : db.rows[ts] \in Row
        /\ db.emojis \in [Times -> SUBSET (0 .. MaxClock)]
        /\ db.cur \in [{"post", "edit", "emoji"} -> 0 .. MaxClock]
    BY <2>1, StoreFacts DEF SyncTypes, Stamps0, Cursors
  <2>3. unsaved.t \in {"none", "row", "edit", "react"}
    BY <2>1 DEF SyncTypes, OwnFrames, RowFrames, EditFrames, OwnReacts, Nothing
  <2>4. \A i \in 1 .. Len(up) : up[i].t \in {"row", "edit", "react", "cu", "cpb"}
    <3>1. \A i \in 1 .. Len(up) : up[i] \in UpFrames
      BY <2>1, ElementOfSeq DEF SyncTypes
    <3>. QED
      BY <3>1 DEF UpFrames, OwnFrames, RowFrames, EditFrames, OwnReacts, Requests
  <2>5. \A i \in 1 .. Len(down) : down[i].t \in {"row", "edit", "reacts", "react"}
    <3>1. \A i \in 1 .. Len(down) : down[i] \in DownFrames
      BY <2>1, ElementOfSeq DEF SyncTypes
    <3>. QED
      BY <3>1 DEF DownFrames, RowFrames, EditFrames, ReactsFrames, ReactFrames
  <2>6. DOMAIN srv \subseteq Times
    BY <2>1, ServerFacts
  <2>7. SyncTypeOK
    BY <2>1, <2>2, <2>3, <2>4, <2>5, <2>6 DEF SyncTypeOK, SyncTypes, Stamps0
  <2>. QED
    BY <2>1, <2>7 DEF SyncInv
<1>. QED
    BY <1>1, CursorInvariance, PTL

\* No lost frame, crash or partial replay is enough to miss a row for good: one
\* that is neither held, nor on its way, nor to be asked for has a gap after it,
\* or a row of the user's own written since (client.py, store.py).
THEOREM RowsAreNotLost == SyncSpec => []RowsAreMissedOnlyBehind
<1>1. CursorInv => RowsAreMissedOnlyBehind
  <2> SUFFICES ASSUME CursorInv, NEW ts \in DOMAIN srv \ Held(db)
               PROVE  \/ \E i \in 1 .. Len(down) :
                            down[i].t = "row" /\ (down[i].ts = ts \/ (down[i].ts > ts /\ down[i].gap))
                      \/ ts > Lp(db) /\ (held \/ ~online)
                      \/ unsaved.t = "row" /\ unsaved.ts = ts
                      \/ Behind(db, srv, ts)
    BY DEF RowsAreMissedOnlyBehind, Behind
  <2>1. Waits(ts)
    BY DEF CursorInv, RowsWait
  <2>2. DOMAIN down = 1 .. Len(down)
    BY LenProperties DEF CursorInv, SyncTypes
  <2>. QED
    BY <2>1, <2>2 DEF Waits, RowComing, Covers, Lp
<1>. QED
    BY <1>1, CursorInvariance, PTL

\* Whatever a handler or an operation writes, and wherever it is cut short, no
\* row that was held is lost, nor its gap, nor its newer reactions, and no cursor
\* goes back (the ON CONFLICT clauses and MAX updates of store.py).
THEOREM NothingIsForgotten == SyncSpec => StoreOnlyGrows
<1>1. CursorInv /\ [SyncNext]_syncVars =>
          [/\ Held(db) \subseteq Held(db')
           /\ \A ts \in Held(db) : db.rows[ts].gap => db'.rows[ts].gap
           /\ \A ts \in Held(db) : db.rows[ts].ets <= db'.rows[ts].ets
           /\ \A c \in DOMAIN db.cur : db.cur[c] <= db'.cur[c]]_syncVars
  <2> SUFFICES ASSUME CursorInv, SyncNext
               PROVE  /\ Held(db) \subseteq Held(db')
                      /\ \A ts \in Held(db) : db.rows[ts].gap => db'.rows[ts].gap
                      /\ \A ts \in Held(db) : db.rows[ts].ets <= db'.rows[ts].ets
                      /\ \A c \in DOMAIN db.cur : db.cur[c] <= db'.cur[c]
    OBVIOUS
  <2>1. Becomes(db')
    <3>1. CASE db' = db
      BY <3>1 DEF Becomes
    <3>2. CASE WePersist
      BY <3>2, PersistBecomes DEF WePersist, Becomes
    <3>3. CASE Receive
      <4>1. db' = Last(Handled(db, down[1])) /\ down # <<>>
        BY <3>3, HandledBecomes DEF Receive
      <4>. QED
        BY <4>1, HandledBecomes DEF Becomes
    <3>4. CASE DiesInHandler
      BY <3>4, HandledBecomes DEF DiesInHandler, Becomes
    <3>5. CASE DiesInOperation
      BY <3>5, PersistBecomes DEF DiesInOperation, Becomes
    <3>. QED
      BY <3>1, <3>2, <3>3, <3>4, <3>5
         DEF SyncNext, PeerWrites, PeerEdits, PeerReacts, Relay, ServerTakes, WeWrite, WeEdit, WeReact,
             Writes, WriteFails, Asks, Connect, LinkDrops
  <2>2. Grown(db, db')
    BY <2>1, BecomesFacts
  <2>3. DOMAIN db.cur = Cursors
    BY StoreFacts DEF CursorInv, SyncTypes
  <2>. QED
    BY <2>2, <2>3 DEF Grown
<1>. QED
    BY <1>1, CursorInvariance, PTL DEF SyncSpec, StoreOnlyGrows

-----------------------------------------------------------------------------
(* What is under way: frames of some sets, and their order *)

\* q holds one of A; one of A is followed, or preceded, by one of B or is one
\* itself; none of A comes before one of B.
Has(q, A) == \E i \in DOMAIN q : q[i] \in A
Ends(q, A, B) == \A i \in DOMAIN q : q[i] \in A => \E j \in DOMAIN q : j >= i /\ q[j] \in B
Leads(q, A, B) == \A i \in DOMAIN q : q[i] \in A => \E j \in DOMAIN q : j <= i /\ q[j] \in B
Apart(q, A, B) == \A i, j \in DOMAIN q : i < j /\ q[i] \in A => q[j] \notin B

LEMMA ConcatPlaces ==
    ASSUME NEW S, NEW p \in Seq(S), NEW q \in Seq(S)
    PROVE  /\ p \o q \in Seq(S) /\ Len(p) \in Nat /\ Len(q) \in Nat
           /\ DOMAIN p = 1 .. Len(p) /\ DOMAIN q = 1 .. Len(q)
           /\ \A i \in DOMAIN p : i \in DOMAIN (p \o q) /\ (p \o q)[i] = p[i]
           /\ \A i \in DOMAIN q : Len(p) + i \in DOMAIN (p \o q) /\ (p \o q)[Len(p) + i] = q[i]
           /\ \A i \in DOMAIN (p \o q) :
                  \/ i \in DOMAIN p /\ (p \o q)[i] = p[i]
                  \/ i - Len(p) \in DOMAIN q /\ (p \o q)[i] = q[i - Len(p)]
<1> DEFINE m == Len(p)
           n == Len(q)
           r == p \o q
<1>1. /\ m \in Nat /\ n \in Nat /\ DOMAIN p = 1 .. m /\ DOMAIN q = 1 .. n
      /\ r \in Seq(S) /\ Len(r) = m + n
      /\ \A j \in 1 .. m + n : r[j] = IF j <= m THEN p[j] ELSE q[j - m]
    BY LenProperties, ConcatProperties
<1>2. DOMAIN r = 1 .. m + n
    BY <1>1, LenProperties
<1> HIDE DEF m, n, r
<1>3. \A i \in 1 .. m : i \in 1 .. m + n /\ r[i] = p[i]
    BY <1>1
<1>4. \A i \in 1 .. n : m + i \in 1 .. m + n /\ r[m + i] = q[i]
    BY <1>1
<1>5. \A i \in 1 .. m + n : \/ i \in 1 .. m /\ r[i] = p[i]
                            \/ i - m \in 1 .. n /\ r[i] = q[i - m]
    BY <1>1
<1>. QED
    BY <1>1, <1>2, <1>3, <1>4, <1>5 DEF m, n, r

LEMMA HasConcat ==
    ASSUME NEW S, NEW p \in Seq(S), NEW q \in Seq(S), NEW A
    PROVE  Has(p \o q, A) <=> (Has(p, A) \/ Has(q, A))
<1>1. ASSUME NEW i \in DOMAIN p, p[i] \in A PROVE Has(p \o q, A)
  <2>1. i \in DOMAIN (p \o q) /\ (p \o q)[i] = p[i]
    BY ConcatPlaces
  <2>. QED
    BY <1>1, <2>1 DEF Has
<1>2. ASSUME NEW i \in DOMAIN q, q[i] \in A PROVE Has(p \o q, A)
  <2>1. Len(p) + i \in DOMAIN (p \o q) /\ (p \o q)[Len(p) + i] = q[i]
    BY ConcatPlaces
  <2>. QED
    BY <1>2, <2>1 DEF Has
<1>3. Has(p \o q, A) => Has(p, A) \/ Has(q, A)
  <2> SUFFICES ASSUME NEW i \in DOMAIN (p \o q), (p \o q)[i] \in A PROVE Has(p, A) \/ Has(q, A)
    BY DEF Has
  <2>1. \/ i \in DOMAIN p /\ (p \o q)[i] = p[i]
        \/ i - Len(p) \in DOMAIN q /\ (p \o q)[i] = q[i - Len(p)]
    BY ConcatPlaces
  <2>. QED
    BY <2>1 DEF Has
<1>. QED
    BY <1>1, <1>2, <1>3 DEF Has

\* Each of A in p has one of B after it in p, or there is one in q.
LEMMA EndsConcat ==
    ASSUME NEW S, NEW p \in Seq(S), NEW q \in Seq(S), NEW A, NEW B,
           Ends(q, A, B), Ends(p, A, B) \/ Has(q, B)
    PROVE  Ends(p \o q, A, B)
<1> DEFINE r == p \o q
<1>1. /\ Len(p) \in Nat /\ Len(q) \in Nat
      /\ DOMAIN p = 1 .. Len(p) /\ DOMAIN q = 1 .. Len(q)
      /\ \A i \in DOMAIN p : i \in DOMAIN r /\ r[i] = p[i]
      /\ \A i \in DOMAIN q : Len(p) + i \in DOMAIN r /\ r[Len(p) + i] = q[i]
      /\ \A i \in DOMAIN r : \/ i \in DOMAIN p /\ r[i] = p[i]
                             \/ i - Len(p) \in DOMAIN q /\ r[i] = q[i - Len(p)]
      /\ r \in Seq(S)
    BY ConcatPlaces
<1>2. DOMAIN r \subseteq Nat
    BY <1>1, LenProperties
<1> DEFINE m == Len(p)
<1> HIDE DEF r, m
<1> SUFFICES ASSUME NEW i \in DOMAIN r, r[i] \in A
             PROVE  \E j \in DOMAIN r : j >= i /\ r[j] \in B
    BY DEF Ends, r
<1>3. CASE i \in DOMAIN p /\ r[i] = p[i]
  <2>1. CASE Ends(p, A, B)
    <3>1. PICK j \in DOMAIN p : j >= i /\ p[j] \in B
      BY <1>3, <2>1 DEF Ends
    <3>. QED
      BY <1>1, <3>1
  <2>2. CASE Has(q, B)
    <3>1. PICK j \in DOMAIN q : q[j] \in B
      BY <2>2 DEF Has
    <3>2. m + j \in DOMAIN r /\ r[m + j] \in B
      BY <1>1, <3>1 DEF m
    <3>3. i \in 1 .. m /\ j \in Nat /\ m \in Nat
      BY <1>1, <1>3 DEF m
    <3>4. m + j >= i
      BY <3>3
    <3>. QED
      BY <3>2, <3>4
  <2>. QED
    BY <2>1, <2>2
<1>4. CASE i - m \in DOMAIN q /\ r[i] = q[i - m]
  <2>1. PICK j \in DOMAIN q : j >= i - m /\ q[j] \in B
    BY <1>4 DEF Ends
  <2>2. m + j \in DOMAIN r /\ r[m + j] \in B
    BY <1>1, <2>1 DEF m
  <2>3. i \in Nat /\ j \in Nat /\ m \in Nat
    BY <1>1, <1>2 DEF m
  <2>4. m + j >= i
    BY <2>1, <2>3
  <2>. QED
    BY <2>2, <2>4
<1>. QED
    BY <1>1, <1>3, <1>4 DEF m

LEMMA LeadsConcat ==
    ASSUME NEW S, NEW p \in Seq(S), NEW q \in Seq(S), NEW A, NEW B,
           Leads(p, A, B), Leads(q, A, B) \/ Has(p, B)
    PROVE  Leads(p \o q, A, B)
<1> DEFINE r == p \o q
<1>1. /\ Len(p) \in Nat /\ Len(q) \in Nat
      /\ DOMAIN p = 1 .. Len(p) /\ DOMAIN q = 1 .. Len(q)
      /\ \A i \in DOMAIN p : i \in DOMAIN r /\ r[i] = p[i]
      /\ \A i \in DOMAIN q : Len(p) + i \in DOMAIN r /\ r[Len(p) + i] = q[i]
      /\ \A i \in DOMAIN r : \/ i \in DOMAIN p /\ r[i] = p[i]
                             \/ i - Len(p) \in DOMAIN q /\ r[i] = q[i - Len(p)]
      /\ r \in Seq(S)
    BY ConcatPlaces
<1>2. DOMAIN r \subseteq Nat
    BY <1>1, LenProperties
<1> DEFINE m == Len(p)
<1> HIDE DEF r, m
<1> SUFFICES ASSUME NEW i \in DOMAIN r, r[i] \in A
             PROVE  \E j \in DOMAIN r : j <= i /\ r[j] \in B
    BY DEF Leads, r
<1>3. CASE i \in DOMAIN p /\ r[i] = p[i]
  <2>1. PICK j \in DOMAIN p : j <= i /\ p[j] \in B
    BY <1>3 DEF Leads
  <2>. QED
    BY <1>1, <2>1
<1>4. CASE i - m \in DOMAIN q /\ r[i] = q[i - m]
  <2>0. i \in Nat /\ m \in Nat /\ i - m >= 1
    BY <1>1, <1>2, <1>4 DEF m
  <2>1. CASE Leads(q, A, B)
    <3>1. PICK j \in DOMAIN q : j <= i - m /\ q[j] \in B
      BY <1>4, <2>1 DEF Leads
    <3>2. m + j \in DOMAIN r /\ r[m + j] \in B /\ j \in Nat
      BY <1>1, <3>1 DEF m
    <3>3. m + j <= i
      BY <2>0, <3>1, <3>2
    <3>. QED
      BY <3>2, <3>3
  <2>2. CASE Has(p, B)
    <3>1. PICK j \in DOMAIN p : p[j] \in B
      BY <2>2 DEF Has
    <3>2. j \in DOMAIN r /\ r[j] \in B /\ j \in 1 .. m
      BY <1>1, <3>1 DEF m
    <3>3. j <= i
      BY <2>0, <3>2
    <3>. QED
      BY <3>2, <3>3
  <2>. QED
    BY <2>1, <2>2
<1>. QED
    BY <1>1, <1>3, <1>4 DEF m

LEMMA ApartConcat ==
    ASSUME NEW S, NEW p \in Seq(S), NEW q \in Seq(S), NEW A, NEW B,
           Apart(p, A, B), Apart(q, A, B), ~(Has(p, A) /\ Has(q, B))
    PROVE  Apart(p \o q, A, B)
<1> DEFINE r == p \o q
<1>1. /\ Len(p) \in Nat /\ Len(q) \in Nat
      /\ DOMAIN p = 1 .. Len(p) /\ DOMAIN q = 1 .. Len(q)
      /\ \A i \in DOMAIN r : \/ i \in DOMAIN p /\ r[i] = p[i]
                             \/ i - Len(p) \in DOMAIN q /\ r[i] = q[i - Len(p)]
      /\ r \in Seq(S)
    BY ConcatPlaces
<1>2. DOMAIN r \subseteq Nat
    BY <1>1, LenProperties
<1> DEFINE m == Len(p)
<1> HIDE DEF r, m
<1> SUFFICES ASSUME NEW i \in DOMAIN r, NEW j \in DOMAIN r, i < j, r[i] \in A, r[j] \in B
             PROVE  FALSE
    BY DEF Apart, r
<1>3. CASE i \in DOMAIN p /\ r[i] = p[i]
  <2>1. CASE j \in DOMAIN p /\ r[j] = p[j]
    BY <1>3, <2>1 DEF Apart
  <2>2. CASE j - m \in DOMAIN q /\ r[j] = q[j - m]
    BY <1>3, <2>2 DEF Has
  <2>. QED
    BY <1>1, <2>1, <2>2 DEF m
<1>4. CASE i - m \in DOMAIN q /\ r[i] = q[i - m]
  <2>1. CASE j \in DOMAIN p /\ r[j] = p[j]
    <3>1. i \in Nat /\ m \in Nat /\ i - m >= 1 /\ j <= m /\ j \in Nat
      BY <1>1, <1>2, <1>4, <2>1 DEF m
    <3>. QED
      BY <3>1
  <2>2. CASE j - m \in DOMAIN q /\ r[j] = q[j - m]
    <3>1. i \in Nat /\ m \in Nat /\ j \in Nat
      BY <1>1, <1>2 DEF m
    <3>2. i - m < j - m
      BY <3>1
    <3>. QED
      BY <1>4, <2>2, <3>2 DEF Apart
  <2>. QED
    BY <1>1, <2>1, <2>2 DEF m
<1>. QED
    BY <1>1, <1>3, <1>4 DEF m

\* The first is taken.
LEMMA TailPlaces ==
    ASSUME NEW S, NEW q \in Seq(S), q # <<>>
    PROVE  /\ 1 \in DOMAIN q /\ q[1] \in S /\ DOMAIN q \subseteq Nat \ {0}
           /\ \A i \in DOMAIN Tail(q) : i \in Nat /\ i + 1 \in DOMAIN q /\ Tail(q)[i] = q[i + 1]
           /\ \A i \in DOMAIN q : i # 1 => i - 1 \in DOMAIN Tail(q) /\ i > 1 /\ Tail(q)[i - 1] = q[i]
<1> DEFINE n == Len(q)
           t == Tail(q)
<1>1. DOMAIN q = 1 .. n /\ n \in Nat /\ n # 0
    BY LenProperties, EmptySeq
<1>2. 1 \in DOMAIN q /\ q[1] \in S
    BY <1>1, ElementOfSeq
<1>3. /\ t \in Seq(S) /\ Len(t) = n - 1 /\ \A i \in 1 .. n - 1 : t[i] = q[i + 1]
    BY HeadTailProperties
<1>4. DOMAIN t = 1 .. n - 1
    BY <1>3, LenProperties
<1> HIDE DEF n, t
<1>5. \A i \in DOMAIN t : i \in Nat /\ i + 1 \in DOMAIN q /\ t[i] = q[i + 1]
    BY <1>1, <1>3, <1>4
<1>6. \A i \in DOMAIN q : i # 1 => i - 1 \in DOMAIN t /\ i > 1 /\ t[i - 1] = q[i]
  <2> SUFFICES ASSUME NEW i \in DOMAIN q, i # 1 PROVE i - 1 \in DOMAIN t /\ i > 1 /\ t[i - 1] = q[i]
    OBVIOUS
  <2>1. i - 1 \in 1 .. n - 1 /\ (i - 1) + 1 = i /\ i > 1
    BY <1>1
  <2>. QED
    BY <1>3, <1>4, <2>1
<1>. QED
    BY <1>1, <1>2, <1>5, <1>6 DEF t

LEMMA TailFacts ==
    ASSUME NEW S, NEW q \in Seq(S), q # <<>>, NEW A, NEW B
    PROVE  /\ Has(q, A) <=> (q[1] \in A \/ Has(Tail(q), A))
           /\ Ends(q, A, B) => /\ Ends(Tail(q), A, B)
                               /\ q[1] \in A => (q[1] \in B \/ Has(Tail(q), B))
           /\ Leads(q, A, B) => /\ q[1] \in A => q[1] \in B
                                /\ (q[1] \in B \/ Leads(Tail(q), A, B))
           /\ Apart(q, A, B) => /\ Apart(Tail(q), A, B)
                                /\ q[1] \in A => ~Has(Tail(q), B)
<1> DEFINE t == Tail(q)
<1>1. /\ 1 \in DOMAIN q /\ DOMAIN q \subseteq Nat \ {0}
      /\ \A i \in DOMAIN t : i \in Nat /\ i + 1 \in DOMAIN q /\ t[i] = q[i + 1]
      /\ \A i \in DOMAIN q : i # 1 => i - 1 \in DOMAIN t /\ i > 1 /\ t[i - 1] = q[i]
    BY TailPlaces
<1> HIDE DEF t
<1>2. Has(q, A) <=> q[1] \in A \/ Has(t, A)
  <2>1. ASSUME Has(q, A) PROVE q[1] \in A \/ Has(t, A)
    <3>1. PICK i \in DOMAIN q : q[i] \in A
      BY <2>1 DEF Has
    <3>. QED
      BY <1>1, <3>1 DEF Has
  <2>2. q[1] \in A => Has(q, A)
    BY <1>1 DEF Has
  <2>3. Has(t, A) => Has(q, A)
    BY <1>1 DEF Has
  <2>. QED
    BY <2>1, <2>2, <2>3
<1>3. ASSUME Ends(q, A, B) PROVE Ends(t, A, B) /\ (q[1] \in A => q[1] \in B \/ Has(t, B))
  <2>1. ASSUME NEW i \in DOMAIN t, t[i] \in A PROVE \E j \in DOMAIN t : j >= i /\ t[j] \in B
    <3>1. PICK k \in DOMAIN q : k >= i + 1 /\ q[k] \in B
      BY <1>1, <1>3, <2>1 DEF Ends
    <3>2. k # 1 /\ k - 1 >= i
      BY <1>1, <2>1, <3>1
    <3>. QED
      BY <1>1, <3>1, <3>2
  <2>2. ASSUME q[1] \in A, q[1] \notin B PROVE Has(t, B)
    <3>1. PICK k \in DOMAIN q : k >= 1 /\ q[k] \in B
      BY <1>1, <1>3, <2>2 DEF Ends
    <3>. QED
      BY <1>1, <2>2, <3>1 DEF Has
  <2>. QED
    BY <2>1, <2>2 DEF Ends
<1>4. ASSUME Leads(q, A, B)
      PROVE  (q[1] \in A => q[1] \in B) /\ (q[1] \in B \/ Leads(t, A, B))
  <2>1. ASSUME q[1] \in A PROVE q[1] \in B
    <3>1. PICK k \in DOMAIN q : k <= 1 /\ q[k] \in B
      BY <1>1, <1>4, <2>1 DEF Leads
    <3>2. k = 1
      BY <1>1, <3>1
    <3>. QED
      BY <3>1, <3>2
  <2>2. ASSUME q[1] \notin B, NEW i \in DOMAIN t, t[i] \in A PROVE \E j \in DOMAIN t : j <= i /\ t[j] \in B
    <3>1. PICK k \in DOMAIN q : k <= i + 1 /\ q[k] \in B
      BY <1>1, <1>4, <2>2 DEF Leads
    <3>2. k # 1 /\ k - 1 <= i
      BY <1>1, <2>2, <3>1
    <3>. QED
      BY <1>1, <3>1, <3>2
  <2>. QED
    BY <2>1, <2>2 DEF Leads
<1>5. ASSUME Apart(q, A, B) PROVE Apart(t, A, B) /\ (q[1] \in A => ~Has(t, B))
  <2>1. ASSUME NEW i \in DOMAIN t, NEW j \in DOMAIN t, i < j, t[i] \in A PROVE t[j] \notin B
    <3>1. i + 1 < j + 1
      BY <1>1, <2>1
    <3>. QED
      BY <1>1, <1>5, <2>1, <3>1 DEF Apart
  <2>2. ASSUME q[1] \in A, NEW j \in DOMAIN t PROVE t[j] \notin B
    <3>1. 1 < j + 1
      <4>1. j + 1 \in Nat \ {0} /\ j \in Nat /\ j # 0
        <5>1. j \in Nat /\ j + 1 \in DOMAIN q
          BY <1>1
        <5>2. j # 0
          BY <1>1, TailPlaces, LenProperties, HeadTailProperties DEF t
        <5>. QED
          BY <5>1, <5>2
      <4>. QED
        BY <4>1
    <3>. QED
      BY <1>1, <1>5, <2>2, <3>1 DEF Apart
  <2>. QED
    BY <2>1, <2>2 DEF Apart, Has
<1>. QED
    BY <1>2, <1>3, <1>4, <1>5 DEF t

\* Nothing, and one frame.
LEMMA NoneAndOne ==
    ASSUME NEW f, NEW A, NEW B
    PROVE  /\ ~Has(<<>>, A) /\ Ends(<<>>, A, B) /\ Leads(<<>>, A, B) /\ Apart(<<>>, A, B)
           /\ Has(<<f>>, A) <=> f \in A
           /\ (f \in A => f \in B) => (Ends(<<f>>, A, B) /\ Leads(<<f>>, A, B))
           /\ Apart(<<f>>, A, B)
<1>1. DOMAIN <<f>> = {1} /\ <<f>>[1] = f
    OBVIOUS
<1>2. DOMAIN <<>> = {}
    OBVIOUS
<1>. QED
    BY <1>1, <1>2 DEF Has, Ends, Leads, Apart

-----------------------------------------------------------------------------
(* SyncStore: which updates may be missing *)

\* The frames about row ts: its body; one reaction to it; any of them.
RowsOf(ts)   == {f \in RowFrames : f.ts = ts}
EditsOf(ts)  == {f \in EditFrames : f.ts = ts}
ReactsOf(ts) == {f \in ReactsFrames : f.ts = ts}
TellsOf(ts)  == RowsOf(ts) \union EditsOf(ts)
SaysOf(k, ts, x) == ReactsOf(ts) \union {f \in RowsOf(ts) : k = "channel" /\ f.ets > 0}
                                 \union {f \in ReactFrames : f.ts = ts /\ f.x = x}
StirsOf(ts)  == RowsOf(ts) \union ReactsOf(ts) \union {f \in ReactFrames : f.ts = ts}

\* Those of them that are as server s has it.
Said(f, x) == IF f.t = "react" THEN f.add ELSE x \in f.reacts
ToldNow(s, ts)    == {f \in TellsOf(ts) : f.body = s[ts].edts}
SaidNow(k, s, ts, x) == {f \in SaysOf(k, ts, x) : Said(f, x) <=> x \in s[ts].reacts}
StirredNow(s, ts) == {f \in StirsOf(ts) : f.ets = s[ts].ets}

Peer(ts) == ts \in DOMAIN srv /\ srv[ts].from = "peer"

\* Of what is on its way to the server, or being written: an edit is of a row of
\* ours, a row is one the server has not, and each is there once.
OwnFrame(f) ==
    /\ f.t = "edit" => f.ts <= clock /\ ~Peer(f.ts) /\ f.edts > 0 /\ f.edts <= clock
    /\ f.t = "row" => f.body = 0 /\ ~f.gap
    /\ f.t = "react" => f.ets \in Nat /\ f.ets <= clock
    /\ f.t \in {"cu", "cpb"} => kind = "channel"
UpFrame(f) ==
    /\ OwnFrame(f)
    /\ f.t = "row" => /\ f.ts \notin DOMAIN srv
                      /\ f.ts <= db.cur["post"] \/ f = unsaved
                      /\ unsaved.t = "row" /\ unsaved.ts = f.ts => f = unsaved
OwnStore(d) ==
    /\ \A ts \in Held(d) : d.rows[ts].from = "me" => ~Peer(ts)
    /\ kind = "channel" => \A ts \in Held(d) : ts <= d.cur["post"]
OwnInv ==
    /\ OwnFrame(unsaved)
    /\ \A i \in DOMAIN up : UpFrame(up[i])
    /\ \A i, j \in DOMAIN up : i < j /\ up[i].t = "row" /\ up[j].t = "row" => up[i].ts # up[j].ts
    /\ online /\ unsaved.t = "row" => unsaved.ts \notin DOMAIN srv
    /\ held => kind = "channel"
    /\ OwnStore(db)

\* No stamp is ahead of the clock, and what is on its way is of the server's rows.
StoreStamped(d) ==
    /\ \A ts \in Held(d) : d.rows[ts].edts <= clock /\ d.rows[ts].ets <= clock
    /\ \A c \in Cursors : d.cur[c] <= clock
DownStamped(f) ==
    /\ f.ts \in DOMAIN srv
    /\ f.t \in {"row", "edit"} => f.body <= clock
    /\ f.t = "edit" => f.edts <= clock
    /\ f.t # "edit" => f.ets <= clock
    /\ f.t \in {"react", "reacts"} => f.ets > 0
StampInv ==
    /\ \A ts \in DOMAIN srv : srv[ts].edts <= clock /\ srv[ts].ets <= clock
    /\ StoreStamped(db)
    /\ \A i \in DOMAIN down : DownStamped(down[i])

\* The last that is said on the way is what the server has; reactions other than
\* ours are there only where the server has had one.
WordInv ==
    /\ \A ts \in DOMAIN srv :
          /\ Peer(ts) => Ends(down, TellsOf(ts), ToldNow(srv, ts))
          /\ Ends(down, StirsOf(ts), StirredNow(srv, ts))
          /\ \A x \in Times :
                /\ Ends(down, SaysOf(kind, ts, x), SaidNow(kind, srv, ts, x))
                /\ Has(down, SaysOf(kind, ts, x)) => srv[ts].ets > 0
                /\ x \in srv[ts].reacts => srv[ts].ets > 0
    /\ \A ts \in Times, x \in Times : x \in db.emojis[ts] => ts \in DOMAIN srv /\ srv[ts].ets > 0

\* The direct messages: a row after the cursor is on its way, before its edits
\* and not after its reactions.
DmInv ==
    kind = "dm" =>
        /\ \A ts \in DOMAIN srv :
              /\ online => ts <= db.cur["post"] \/ Has(down, RowsOf(ts))
              /\ ts <= db.cur["post"] \/ Leads(down, EditsOf(ts), RowsOf(ts))
              /\ Apart(down, ReactsOf(ts), RowsOf(ts))
        /\ \A ts \in Held(db) : Peer(ts) => ts <= db.cur["post"] \/ <<"edit", ts>> \in missed

\* How far an operation of ours that is not written yet will move a cursor.
Raises(f) == CASE f.t = "row" -> f.ts [] f.t = "edit" -> f.edts [] f.t = "react" -> f.ets
               [] OTHER -> 0

Agree(ts, x) == x \in db.emojis[ts] <=> x \in srv[ts].reacts
BodyWaits(ts) ==
    \/ db.rows[ts].body = srv[ts].edts
    \/ online /\ Has(down, TellsOf(ts))
    \/ ~online /\ srv[ts].edts > Led(db) /\ srv[ts].edts > Raises(unsaved)
    \/ <<"edit", ts>> \in missed
SayingWaits(ts, x) ==
    \/ Agree(ts, x)
    \/ online /\ Has(down, SaysOf(kind, ts, x))
    \/ ~online /\ srv[ts].ets > Le(db) /\ srv[ts].ets > Raises(unsaved)
    \/ <<"react", ts>> \in missed
\* The rows whose reactions are known, or will be.
Heard(ts) ==
    \/ ts \in Held(db)
    \/ online /\ Has(down, RowsOf(ts))
    \/ ~online /\ kind = "dm" /\ ts > db.cur["post"]
    \/ ~online /\ unsaved.t = "row" /\ unsaved.ts = ts
NewsInv ==
    /\ \A ts \in Held(db) : Peer(ts) => BodyWaits(ts)
    /\ \A ts \in DOMAIN srv : Heard(ts) => \A x \in Times : SayingWaits(ts, x)

-----------------------------------------------------------------------------
(* The store: which stamps, bodies and reactions its transactions write *)

\* The stamps of e are those of d, or E for an edit and R for a reaction; a gap is
\* that of d, or there is a new one.
Marked(d, e, E, R, G) ==
    /\ \A ts \in Held(e) :
          /\ (ts \in Held(d) /\ e.rows[ts].edts = d.rows[ts].edts) \/ e.rows[ts].edts \in {0, E}
          /\ (ts \in Held(d) /\ e.rows[ts].ets = d.rows[ts].ets) \/ e.rows[ts].ets \in {0, R}
          /\ e.rows[ts].gap => G \/ (ts \in Held(d) /\ d.rows[ts].gap)
    /\ e.cur["edit"] \in {d.cur["edit"], E} /\ e.cur["emoji"] \in {d.cur["emoji"], R}

LEMMA MarkedTrans ==
    ASSUME NEW d, NEW e, NEW g, NEW E, NEW R, NEW G, Marked(d, e, E, R, G), Marked(e, g, E, R, G)
    PROVE  Marked(d, g, E, R, G)
BY DEF Marked

LEMMA MarkedSame ==
    ASSUME NEW d, NEW e, NEW E, NEW R, NEW G, e.rows = d.rows, e.cur = d.cur
    PROVE  Marked(d, e, E, R, G)
BY DEF Marked, Held

LEMMA BumpMarks ==
    ASSUME NEW d \in Stores, NEW c \in Cursors, NEW ts \in Stamps0, NEW E, NEW R, NEW G,
           c = "edit" => ts = E, c = "emoji" => ts = R
    PROVE  Marked(d, Bump(d, c, ts), E, R, G)
<1> DEFINE e == Bump(d, c, ts)
<1>1. /\ e.rows = d.rows /\ e.cur[c] \in {d.cur[c], ts}
      /\ \A b \in Cursors : b # c => e.cur[b] = d.cur[b]
    BY BumpFacts
<1> HIDE DEF e
<1>2. /\ e.cur["edit"] \in {d.cur["edit"], E} /\ e.cur["emoji"] \in {d.cur["emoji"], R}
    BY <1>1 DEF Cursors
<1>. QED
    BY <1>1, <1>2 DEF Marked, Held, e

LEMMA UpsertedMarks ==
    ASSUME NEW d \in Stores, NEW ts \in Times, NEW row \in Row, NEW E, NEW R,
           row.edts \in {0, E}, row.ets \in {0, R}
    PROVE  Marked(d, Upserted(d, ts, row), E, R, row.gap)
<1> DEFINE new == IF ts \in Held(d) THEN Merged(d.rows[ts], row) ELSE row
           e == Upserted(d, ts, row)
           D == Held(d) \union {ts}
<1>1. \A r \in Row : r.edts \in Nat /\ r.ets \in Nat /\ r.gap \in BOOLEAN
    BY SyncAssumption DEF Row
<1>2. ASSUME ts \in Held(d)
      PROVE  LET m == Merged(d.rows[ts], row)
             IN  /\ m.edts \in {d.rows[ts].edts, row.edts} /\ m.ets \in {d.rows[ts].ets, row.ets}
                 /\ m.gap => d.rows[ts].gap \/ row.gap
  <2> DEFINE old == d.rows[ts]
             m == Max({old.ets, row.ets})
  <2>1. old \in Row
    BY <1>2, StoreFacts
  <2>2. m \in {old.ets, row.ets}
    BY <1>1, <2>1, MaxPair
  <2>3. Merged(old, row) = [from |-> old.from, body |-> row.body, edts |-> Stamp(row.edts, old.edts),
                            ets |-> m, gap |-> old.gap \/ row.gap]
    BY DEF Merged
  <2>4. Stamp(row.edts, old.edts) \in {old.edts, row.edts}
    BY DEF Stamp
  <2> DEFINE s == Stamp(row.edts, old.edts)
             g == old.gap \/ row.gap
             z == Merged(old, row)
  <2>5. z = [from |-> old.from, body |-> row.body, edts |-> s, ets |-> m, gap |-> g]
    BY <2>3
  <2> HIDE DEF m, s, g, z
  <2>6. z.edts = s /\ z.ets = m /\ z.gap = g
    BY <2>5
  <2>7. z.gap => old.gap \/ row.gap
    BY <2>6 DEF g
  <2>. QED
    BY <2>2, <2>4, <2>6, <2>7 DEF s, z
<1>3. e.rows = [x \in D |-> IF x = ts THEN new ELSE d.rows[x]] /\ e.cur = d.cur
    BY DEF Upserted, WithRow, Stores
<1>4. /\ (ts \in Held(d) /\ new.edts = d.rows[ts].edts) \/ new.edts \in {0, E}
      /\ (ts \in Held(d) /\ new.ets = d.rows[ts].ets) \/ new.ets \in {0, R}
      /\ new.gap => row.gap \/ (ts \in Held(d) /\ d.rows[ts].gap)
  <2>1. CASE ts \in Held(d)
    <3> DEFINE m == Merged(d.rows[ts], row)
    <3>1. new = m
      BY <2>1
    <3>2. /\ m.edts \in {d.rows[ts].edts, row.edts} /\ m.ets \in {d.rows[ts].ets, row.ets}
          /\ m.gap => d.rows[ts].gap \/ row.gap
      BY <1>2, <2>1
    <3> HIDE DEF m, new
    <3>. QED
      BY <2>1, <3>1, <3>2
  <2>2. CASE ts \notin Held(d)
    BY <2>2
  <2>. QED
    BY <2>1, <2>2
<1> HIDE DEF new, e
<1>5. Held(e) = D /\ e.rows[ts] = new /\ \A x \in Held(d) : x # ts => e.rows[x] = d.rows[x]
    BY <1>3 DEF Held
<1>. QED
    BY <1>3, <1>4, <1>5 DEF Marked, e

LEMMA EditedMarks ==
    ASSUME NEW d \in Stores, NEW ts \in Times, NEW body \in Stamps0, NEW E \in Stamps0, NEW R, NEW G
    PROVE  Marked(d, Edited(d, ts, body, E), E, R, G)
<1>1. CASE ts \in Held(d)
  <2> DEFINE old == d.rows[ts]
             m == Max({old.edts, E})
             row == [old EXCEPT !.body = body, !.edts = m]
             e == [d EXCEPT !.rows[ts] = row]
  <2>1. d.rows \in [Held(d) -> Row] /\ old \in Row
    BY <1>1, StoreFacts
  <2>2. m \in {old.edts, E}
    <3>1. old.edts \in Nat /\ E \in Nat
      BY <2>1, SyncAssumption DEF Row, Stamps0
    <3>. QED
      BY <3>1, MaxPair
  <2>3. Edited(d, ts, body, E) = e
    <3>1. Edited(d, ts, body, E) =
              [d EXCEPT !.rows[ts].body = body, !.rows[ts].edts = Max({@, E})]
      BY <1>1, Zenon DEF Edited
    <3>. QED
      BY <1>1, <2>1, <3>1, StoreFacts DEF Stores, Row
  <2> HIDE DEF m
  <2>4. row.edts = m /\ row.ets = old.ets /\ row.gap = old.gap
    BY <2>1 DEF Row
  <2>5. e.rows = [d.rows EXCEPT ![ts] = row] /\ e.cur = d.cur
    BY DEF Stores
  <2> HIDE DEF row, e
  <2>6. Held(e) = Held(d) /\ e.rows[ts] = row /\ \A x \in Held(d) : x # ts => e.rows[x] = d.rows[x]
    BY <1>1, <2>1, <2>5 DEF Held
  <2>. QED
    BY <1>1, <2>2, <2>3, <2>4, <2>5, <2>6 DEF Marked
<1>2. CASE ts \notin Held(d)
    BY <1>2, MarkedSame DEF Edited
<1>. QED
    BY <1>1, <1>2

LEMMA WithEtsMarks ==
    ASSUME NEW d \in Stores, NEW ts \in Times, NEW R \in Stamps0, NEW E, NEW G
    PROVE  Marked(d, WithEts(d, ts, R), E, R, G)
<1>1. CASE ts \in Held(d)
  <2> DEFINE old == d.rows[ts]
             m == Max({old.ets, R})
             row == [old EXCEPT !.ets = m]
             e == [d EXCEPT !.rows[ts] = row]
  <2>1. d.rows \in [Held(d) -> Row] /\ old \in Row
    BY <1>1, StoreFacts
  <2>2. m \in {old.ets, R}
    <3>1. old.ets \in Nat /\ R \in Nat
      BY <2>1, SyncAssumption DEF Row, Stamps0
    <3>. QED
      BY <3>1, MaxPair
  <2>3. WithEts(d, ts, R) = e
    <3>1. WithEts(d, ts, R) = [d EXCEPT !.rows[ts].ets = m]
      BY <1>1 DEF WithEts
    <3>. QED
      BY <3>1
  <2> HIDE DEF m
  <2>4. row.edts = old.edts /\ row.ets = m /\ row.gap = old.gap
    BY <2>1 DEF Row
  <2>5. e.rows = [d.rows EXCEPT ![ts] = row] /\ e.cur = d.cur
    BY DEF Stores
  <2> HIDE DEF row, e
  <2>6. Held(e) = Held(d) /\ e.rows[ts] = row /\ \A x \in Held(d) : x # ts => e.rows[x] = d.rows[x]
    BY <1>1, <2>1, <2>5 DEF Held
  <2>. QED
    BY <1>1, <2>2, <2>3, <2>4, <2>5, <2>6 DEF Marked
<1>2. CASE ts \notin Held(d)
    BY <1>2, MarkedSame DEF WithEts
<1>. QED
    BY <1>1, <1>2

LEMMA ReactionsSetMarks ==
    ASSUME NEW d \in Stores, NEW ts \in Times, NEW all \in SUBSET Stamps0, NEW R \in Stamps0, NEW E, NEW G
    PROVE  Marked(d, ReactionsSet(d, ts, all, R), E, R, G)
<1> DEFINE a == [d EXCEPT !.emojis[ts] = all]
           b == WithEts(a, ts, R)
           e == Bump(b, "emoji", R)
<1>1. a \in Stores /\ a.cur = d.cur /\ a.rows = d.rows
    BY EmojisFacts DEF Grown
<1>2. e = ReactionsSet(d, ts, all, R)
    BY DEF ReactionsSet
<1> HIDE DEF a
<1>3. Marked(d, a, E, R, G)
    BY <1>1, MarkedSame
<1>4. Marked(a, b, E, R, G) /\ b \in Stores
    BY <1>1, WithEtsMarks, WithEtsFacts DEF Grown
<1> HIDE DEF b
<1>5. Marked(b, e, E, R, G)
    BY <1>4, BumpMarks DEF Cursors
<1> HIDE DEF e
<1>. QED
    BY <1>2, <1>3, <1>4, <1>5, MarkedTrans

LEMMA ReactedMarks ==
    ASSUME NEW d \in Stores, NEW ts \in Times, NEW x \in Stamps0, NEW add \in BOOLEAN,
           NEW R \in Stamps0, NEW E, NEW G
    PROVE  Marked(d, Reacted(d, ts, x, add, R), E, R, G)
<1>1. CASE add
  <2> DEFINE all == d.emojis[ts] \union {x}
  <2>1. all \in SUBSET Stamps0
    BY StoreFacts
  <2>2. Reacted(d, ts, x, add, R) = ReactionsSet(d, ts, all, R)
    BY <1>1 DEF Reacted, ReactionsSet
  <2> HIDE DEF all
  <2>. QED
    BY <2>1, <2>2, ReactionsSetMarks
<1>2. CASE ~add
  <2> DEFINE all == d.emojis[ts] \ {x}
             e == [d EXCEPT !.emojis[ts] = all]
  <2>1. all \in SUBSET Stamps0
    BY StoreFacts
  <2>2. Reacted(d, ts, x, add, R) = e
    BY <1>2 DEF Reacted
  <2>3. e.cur = d.cur /\ e.rows = d.rows
    BY <2>1, EmojisFacts
  <2> HIDE DEF e
  <2>. QED
    BY <2>2, <2>3, MarkedSame
<1>. QED
    BY <1>1, <1>2

\* What a transaction of f leaves alone; and, in the last of them, what it writes.
LeftAlone(d, e, f) ==
    /\ \A ts \in Held(d) : ts # f.ts \/ f.t \notin {"row", "edit"} => e.rows[ts].body = d.rows[ts].body
    /\ f.t = "row" /\ kind = "channel" => f.ts <= e.cur["post"]
SaidAlone(d, e, f) ==
    \A ts \in Times, x \in Times : f \in SaysOf(kind, ts, x) \/ (x \in e.emojis[ts] <=> x \in d.emojis[ts])
Effective(d, f, x) == f \in SaysOf(kind, f.ts, x) /\ (kind = "channel" \/ f.ts \in Held(d) \/ f.t = "react")
Written(d, e, f) ==
    /\ f.t \in {"row", "edit"} /\ f.ts \in Held(e) => e.rows[f.ts].body = f.body
    /\ f.t = "row" => f.ts <= e.cur["post"]
    /\ \A x \in Stamps0 : x \in e.emojis[f.ts] <=> (IF Effective(d, f, x) THEN Said(f, x) ELSE x \in d.emojis[f.ts])

LEMMA ReactionsSetWrites ==
    ASSUME NEW d \in Stores, NEW ts \in Times, NEW all \in SUBSET Stamps0, NEW R \in Stamps0
    PROVE  LET e == ReactionsSet(d, ts, all, R)
           IN  /\ e \in Stores /\ Held(e) = Held(d) /\ e.cur["post"] = d.cur["post"]
               /\ e.emojis[ts] = all /\ \A x \in Times : x # ts => e.emojis[x] = d.emojis[x]
               /\ \A x \in Held(d) : e.rows[x].body = d.rows[x].body
<1> DEFINE e == ReactionsSet(d, ts, all, R)
<1>2. /\ SameRowsHeld(d, e) /\ e.emojis = [d.emojis EXCEPT ![ts] = all]
      /\ \A x \in Held(d) : e.rows[x].body = d.rows[x].body
      /\ e.cur["edit"] = d.cur["edit"]
      /\ e.cur["emoji"] = (IF d.cur["emoji"] >= R THEN d.cur["emoji"] ELSE R)
    BY ReactionsSetFacts
<1>3. d.emojis \in [Times -> SUBSET Stamps0]
    BY StoreFacts
<1> HIDE DEF e
<1>4. e.emojis[ts] = all /\ \A x \in Times : x # ts => e.emojis[x] = d.emojis[x]
    BY <1>2, <1>3
<1>. QED
    BY <1>2, <1>4 DEF SameRowsHeld, Grown, e

LEMMA RowComesWrites ==
    ASSUME NEW d \in Stores, NEW f \in RowFrames, kind \in {"channel", "dm"}
    PROVE  /\ \A i \in DOMAIN RowComes(d, f) : /\ Marked(d, RowComes(d, f)[i], f.body, f.ets, f.gap)
                                               /\ LeftAlone(d, RowComes(d, f)[i], f)
                                               /\ SaidAlone(d, RowComes(d, f)[i], f)
           /\ Written(d, Last(RowComes(d, f)), f)
           /\ f.ets = 0 => \A i \in DOMAIN RowComes(d, f) : RowComes(d, f)[i].emojis = d.emojis
           /\ kind = "channel" /\ f.ets = 0 => Len(RowComes(d, f)) = 1
<1> DEFINE r == RowOf(f)
           row == Upserted(d, f.ts, r)
           bumped == Bump(row, "post", f.ts)
           all == ReactionsSet(bumped, f.ts, f.reacts, f.ets)
<1>1. /\ f.ts \in Times /\ f.ts \in Stamps0 /\ f.from \in {"me", "peer"} /\ f.body \in Stamps0
      /\ f.reacts \in SUBSET Stamps0 /\ f.ets \in Stamps0 /\ f.gap \in BOOLEAN /\ f.t = "row"
      /\ f.ts \in Nat /\ f.ets \in Nat
    BY SyncAssumption DEF RowFrames, Times, Stamps0
<1>2. r \in Row /\ r.gap = f.gap /\ r.edts = f.body /\ r.body = f.body /\ r.ets \in {0, f.ets}
  <2>1. (IF kind = "dm" THEN 0 ELSE f.ets) \in Stamps0
    BY <1>1, SyncAssumption DEF Stamps0
  <2>. QED
    BY <1>1, <2>1 DEF RowOf, Row, Stamps0
<1> HIDE DEF r
<1>3. /\ Marked(d, row, f.body, f.ets, f.gap) /\ row \in Stores /\ row.emojis = d.emojis
      /\ Held(row) = Held(d) \union {f.ts} /\ row.rows[f.ts].body = f.body
      /\ \A x \in Held(d) : x # f.ts => row.rows[x] = d.rows[x]
  <2>1. Marked(d, row, f.body, f.ets, f.gap)
    BY <1>1, <1>2, UpsertedMarks
  <2>2. /\ Grown(d, row) /\ row.emojis = d.emojis
        /\ Held(row) = Held(d) \union {f.ts} /\ row.rows[f.ts].body = r.body
        /\ \A x \in Held(d) : x # f.ts => row.rows[x] = d.rows[x]
    BY <1>1, <1>2, UpsertedFacts
  <2>. QED
    BY <1>2, <2>1, <2>2 DEF Grown
<1> HIDE DEF row
<1>4. /\ Marked(row, bumped, f.body, f.ets, f.gap) /\ bumped \in Stores
      /\ bumped.emojis = row.emojis /\ bumped.rows = row.rows /\ f.ts <= bumped.cur["post"]
  <2>1. Marked(row, bumped, f.body, f.ets, f.gap)
    BY <1>1, <1>3, BumpMarks DEF Cursors
  <2>2. /\ Grown(row, bumped) /\ bumped.rows = row.rows /\ bumped.emojis = row.emojis
        /\ bumped.cur["post"] = (IF row.cur["post"] >= f.ts THEN row.cur["post"] ELSE f.ts)
    BY <1>1, <1>3, BumpFacts DEF Cursors
  <2>3. row.cur["post"] \in Nat
    BY <1>3, StoreFacts DEF Cursors
  <2>4. f.ts <= bumped.cur["post"]
    BY <1>1, <2>2, <2>3
  <2>. QED
    BY <2>1, <2>2, <2>4 DEF Grown
<1> HIDE DEF bumped
<1>5. /\ Marked(bumped, all, f.body, f.ets, f.gap) /\ all \in Stores
      /\ Held(all) = Held(bumped) /\ all.cur["post"] = bumped.cur["post"]
      /\ all.emojis[f.ts] = f.reacts /\ \A x \in Times : x # f.ts => all.emojis[x] = bumped.emojis[x]
      /\ \A x \in Held(bumped) : all.rows[x].body = bumped.rows[x].body
  <2>1. Marked(bumped, all, f.body, f.ets, f.gap)
    BY <1>1, <1>4, ReactionsSetMarks
  <2>0. bumped \in Stores /\ f.ts \in Times /\ f.reacts \in SUBSET Stamps0 /\ f.ets \in Stamps0
    BY <1>1, <1>4
  <2>2. LET e == ReactionsSet(bumped, f.ts, f.reacts, f.ets)
        IN  /\ e \in Stores /\ Held(e) = Held(bumped) /\ e.cur["post"] = bumped.cur["post"]
            /\ e.emojis[f.ts] = f.reacts /\ \A x \in Times : x # f.ts => e.emojis[x] = bumped.emojis[x]
            /\ \A x \in Held(bumped) : e.rows[x].body = bumped.rows[x].body
    BY <2>0, ReactionsSetWrites
  <2>. QED
    BY <2>1, <2>2
<1> HIDE DEF all
<1>6. Held(bumped) = Held(row)
    BY <1>4 DEF Held
<1>7. /\ Marked(d, bumped, f.body, f.ets, f.gap) /\ Marked(d, all, f.body, f.ets, f.gap)
    BY <1>3, <1>4, <1>5, MarkedTrans
<1>8. d.emojis \in [Times -> SUBSET Stamps0]
    BY StoreFacts
<1>9. f.t # "edit" /\ f.t \in {"row", "edit"}
    BY <1>1
<1>10. (kind = "channel" \/ LeftAlone(d, row, f)) /\ SaidAlone(d, row, f)
    BY <1>1, <1>3 DEF LeftAlone, SaidAlone
<1>11. LeftAlone(d, bumped, f) /\ SaidAlone(d, bumped, f)
    BY <1>1, <1>3, <1>4 DEF LeftAlone, SaidAlone
<1>12. LeftAlone(d, all, f) /\ (kind = "channel" /\ f.ets # 0 => SaidAlone(d, all, f))
  <2>1. \A x \in Held(d) : x # f.ts => all.rows[x].body = d.rows[x].body
    BY <1>3, <1>4, <1>5, <1>6
  <2>2. \A ts \in Times : ts # f.ts => all.emojis[ts] = d.emojis[ts]
    BY <1>3, <1>4, <1>5
  <2>3. kind = "channel" /\ f.ets # 0 => \A x : f \in SaysOf(kind, f.ts, x)
    BY <1>1 DEF SaysOf, RowsOf
  <2>4. kind = "channel" /\ f.ets # 0 => SaidAlone(d, all, f)
    BY <2>2, <2>3 DEF SaidAlone
  <2>. QED
    BY <1>1, <1>4, <1>5, <2>1, <2>4 DEF LeftAlone
<1>13. ASSUME NEW x PROVE f \in SaysOf(kind, f.ts, x) <=> kind = "channel" /\ f.ets > 0
    BY <1>1 DEF SaysOf, RowsOf, ReactsOf, ReactsFrames, ReactFrames
<1>14. kind = "dm" \/ f.ets = 0 => Written(d, bumped, f)
  <2> SUFFICES ASSUME kind = "dm" \/ f.ets = 0 PROVE Written(d, bumped, f)
    OBVIOUS
  <2>1. \A x : ~Effective(d, f, x)
    BY <1>1, <1>13 DEF Effective
  <2>2. bumped.rows[f.ts].body = f.body /\ bumped.emojis = d.emojis
    BY <1>3, <1>4
  <2>. QED
    BY <1>4, <2>1, <2>2 DEF Written
<1>15. kind = "channel" /\ f.ets # 0 => Written(d, all, f)
  <2> SUFFICES ASSUME kind = "channel", f.ets # 0 PROVE Written(d, all, f)
    OBVIOUS
  <2>1. \A x : Effective(d, f, x)
    BY <1>1, <1>13 DEF Effective
  <2>2. all.rows[f.ts].body = f.body
    BY <1>3, <1>4, <1>5, <1>6
  <2>3. all.emojis[f.ts] = f.reacts
    BY <1>5
  <2>4. \A x : Said(f, x) <=> x \in f.reacts
    BY <1>1 DEF Said
  <2>. QED
    BY <1>4, <1>5, <2>1, <2>2, <2>3, <2>4 DEF Written
<1>16. CASE kind = "dm"
  <2>1. RowComes(d, f) = <<row, bumped>>
    BY <1>16 DEF RowComes, row, bumped, r
  <2>2. Last(<<row, bumped>>) = bumped /\ DOMAIN <<row, bumped>> = {1, 2}
    BY DEF Last
  <2>. QED
    BY <1>3, <1>4, <1>7, <1>10, <1>11, <1>14, <1>16, <2>1, <2>2
<1>17. CASE kind = "channel" /\ f.ets = 0
  <2>1. RowComes(d, f) = <<bumped>>
    BY <1>17 DEF RowComes, row, bumped, r
  <2>2. Last(<<bumped>>) = bumped /\ DOMAIN <<bumped>> = {1} /\ Len(<<bumped>>) = 1
    BY DEF Last
  <2>. QED
    BY <1>3, <1>4, <1>7, <1>11, <1>14, <1>17, <2>1, <2>2
<1>18. CASE kind = "channel" /\ f.ets # 0
  <2>1. RowComes(d, f) = <<bumped, all>>
    BY <1>18 DEF RowComes, row, bumped, all, r
  <2>2. Last(<<bumped, all>>) = all /\ DOMAIN <<bumped, all>> = {1, 2}
    BY DEF Last
  <2>. QED
    BY <1>7, <1>11, <1>12, <1>15, <1>18, <2>1, <2>2
<1>. QED
    BY <1>16, <1>17, <1>18

LEMMA EditComesWrites ==
    ASSUME NEW d \in Stores, NEW f \in EditFrames, clock \in Stamps0
    PROVE  /\ \A i \in 1 .. 2 : /\ Marked(d, EditComes(d, f)[i], Stamp(f.edts, clock), 0, FALSE)
                                /\ LeftAlone(d, EditComes(d, f)[i], f)
                                /\ EditComes(d, f)[i].emojis = d.emojis
           /\ Written(d, Last(EditComes(d, f)), f)
<1> DEFINE E == Stamp(f.edts, clock)
           row == Edited(d, f.ts, f.body, E)
           e == Bump(row, "edit", E)
<1>1. f.ts \in Times /\ f.body \in Stamps0 /\ E \in Stamps0 /\ f.t = "edit"
    BY DEF EditFrames, Stamp
<1>2. EditComes(d, f) = <<row, e>>
    BY DEF EditComes
<1> HIDE DEF E
<1>3. /\ Marked(d, row, E, 0, FALSE) /\ row \in Stores /\ Held(row) = Held(d) /\ row.emojis = d.emojis
      /\ f.ts \in Held(d) => row.rows[f.ts].body = f.body
      /\ \A x \in Held(d) : x # f.ts => row.rows[x] = d.rows[x]
  <2>1. Marked(d, row, E, 0, FALSE)
    BY <1>1, EditedMarks
  <2>2. /\ Grown(d, row) /\ Held(row) = Held(d) /\ row.emojis = d.emojis
        /\ f.ts \in Held(d) => row.rows[f.ts].body = f.body
        /\ \A x \in Held(d) : x # f.ts => row.rows[x] = d.rows[x]
    BY <1>1, EditedFacts
  <2> HIDE DEF row
  <2>. QED
    BY <2>1, <2>2 DEF Grown
<1> HIDE DEF row
<1>4. Marked(row, e, E, 0, FALSE)
    BY <1>1, <1>3, BumpMarks DEF Cursors
<1>5. e.rows = row.rows /\ e.emojis = row.emojis /\ e \in Stores
    BY <1>1, <1>3, BumpFacts DEF Cursors, Grown
<1> HIDE DEF e
<1>6. Marked(d, e, E, 0, FALSE)
    BY <1>3, <1>4, MarkedTrans
<1>7. LeftAlone(d, row, f) /\ LeftAlone(d, e, f)
    BY <1>1, <1>3, <1>5 DEF LeftAlone
<1>8. Written(d, e, f)
  <2>1. \A x : f \notin SaysOf(kind, f.ts, x)
    BY <1>1 DEF SaysOf, RowsOf, ReactsOf, RowFrames, ReactsFrames, ReactFrames
  <2>2. Held(e) = Held(d)
    BY <1>3, <1>5 DEF Held
  <2>. QED
    BY <1>1, <1>3, <1>5, <2>1, <2>2 DEF Written, Effective
<1>9. Last(<<row, e>>) = e /\ <<row, e>>[1] = row /\ <<row, e>>[2] = e /\ 1 .. 2 = {1, 2}
    BY DEF Last
<1> DEFINE p == EditComes(d, f)
<1>10. Last(p) = e /\ p[1] = row /\ p[2] = e
    BY <1>2, <1>9
<1> HIDE DEF p
<1>11. \A i \in 1 .. 2 : Marked(d, p[i], E, 0, FALSE) /\ LeftAlone(d, p[i], f) /\ p[i].emojis = d.emojis
    BY <1>3, <1>5, <1>6, <1>7, <1>9, <1>10
<1>12. Written(d, Last(p), f)
    BY <1>8, <1>10
<1>. QED
    BY <1>11, <1>12 DEF E, p

LEMMA ReactionsComeWrites ==
    ASSUME NEW d \in Stores, NEW f \in ReactsFrames, kind \in {"channel", "dm"}
    PROVE  /\ \A i \in DOMAIN ReactionsCome(d, f) : /\ Marked(d, ReactionsCome(d, f)[i], 0, f.ets, FALSE)
                                                    /\ LeftAlone(d, ReactionsCome(d, f)[i], f)
                                                    /\ SaidAlone(d, ReactionsCome(d, f)[i], f)
           /\ Written(d, Last(ReactionsCome(d, f)), f)
<1> DEFINE all == ReactionsSet(d, f.ts, f.reacts, f.ets)
           row == [d EXCEPT !.emojis[f.ts] = f.reacts]
           e == Bump(row, "emoji", f.ets)
<1>1. f.ts \in Times /\ f.reacts \in SUBSET Stamps0 /\ f.ets \in Stamps0 /\ f.t = "reacts"
    BY DEF ReactsFrames
<1>2. d.emojis \in [Times -> SUBSET Stamps0]
    BY StoreFacts
<1>3. /\ \A x : f \in SaysOf(kind, f.ts, x) /\ (Said(f, x) <=> x \in f.reacts)
      /\ f.t \notin {"row", "edit"}
    BY <1>1 DEF SaysOf, ReactsOf, Said
<1>4. CASE kind = "channel"
  <2>1. ReactionsCome(d, f) = <<all>>
    BY <1>4 DEF ReactionsCome
  <2>2. /\ Marked(d, all, 0, f.ets, FALSE) /\ Held(all) = Held(d)
        /\ all.emojis[f.ts] = f.reacts /\ \A x \in Times : x # f.ts => all.emojis[x] = d.emojis[x]
        /\ \A x \in Held(d) : all.rows[x].body = d.rows[x].body
    <3>1. Marked(d, all, 0, f.ets, FALSE)
      BY <1>1, ReactionsSetMarks
    <3>2. LET a == ReactionsSet(d, f.ts, f.reacts, f.ets)
          IN  /\ a \in Stores /\ Held(a) = Held(d) /\ a.cur["post"] = d.cur["post"]
              /\ a.emojis[f.ts] = f.reacts /\ \A x \in Times : x # f.ts => a.emojis[x] = d.emojis[x]
              /\ \A x \in Held(d) : a.rows[x].body = d.rows[x].body
      BY <1>1, ReactionsSetWrites
    <3>. QED
      BY <3>1, <3>2
  <2> HIDE DEF all, row, e
  <2>3. LeftAlone(d, all, f) /\ SaidAlone(d, all, f)
    BY <1>1, <1>3, <2>2 DEF LeftAlone, SaidAlone
  <2>4. \A x : Effective(d, f, x)
    BY <1>3, <1>4 DEF Effective
  <2>5. Written(d, all, f)
    BY <1>1, <1>2, <1>3, <2>2, <2>4 DEF Written
  <2>6. Last(<<all>>) = all /\ DOMAIN <<all>> = {1} /\ <<all>>[1] = all
    BY DEF Last
  <2>. QED
    BY <2>1, <2>2, <2>3, <2>5, <2>6
<1>5. CASE kind = "dm" /\ f.ts \notin Held(d)
  <2>1. ReactionsCome(d, f) = <<d>>
    BY <1>5 DEF ReactionsCome
  <2>2. Marked(d, d, 0, f.ets, FALSE)
    BY MarkedSame
  <2>3. LeftAlone(d, d, f) /\ SaidAlone(d, d, f)
    BY <1>1 DEF LeftAlone, SaidAlone
  <2>4. \A x : ~Effective(d, f, x)
    BY <1>1, <1>5 DEF Effective
  <2>5. Written(d, d, f)
    BY <1>1, <2>4 DEF Written
  <2> HIDE DEF all, row, e
  <2>6. Last(<<d>>) = d /\ DOMAIN <<d>> = {1} /\ <<d>>[1] = d
    BY DEF Last
  <2>. QED
    BY <2>1, <2>2, <2>3, <2>5, <2>6
<1>6. CASE kind = "dm" /\ f.ts \in Held(d)
  <2>1. ReactionsCome(d, f) = <<row, e>>
    BY <1>6 DEF ReactionsCome
  <2>2. /\ row.rows = d.rows /\ row.cur = d.cur /\ row \in Stores
        /\ row.emojis = [d.emojis EXCEPT ![f.ts] = f.reacts]
    <3>1. f.ts \in Times /\ f.reacts \in SUBSET Stamps0
      BY <1>1
    <3>2. /\ Grown(d, row) /\ row.cur = d.cur /\ row.rows = d.rows
          /\ row.emojis = [d.emojis EXCEPT ![f.ts] = f.reacts]
      BY <3>1, EmojisFacts
    <3>. QED
      BY <3>2 DEF Grown
  <2> HIDE DEF row
  <2>3. Marked(d, row, 0, f.ets, FALSE)
    BY <2>2, MarkedSame
  <2>4. Marked(row, e, 0, f.ets, FALSE)
    BY <1>1, <2>2, BumpMarks DEF Cursors
  <2>5. e.rows = d.rows /\ e.emojis = row.emojis
    BY <1>1, <2>2, BumpFacts DEF Cursors
  <2> HIDE DEF e
  <2>6. Marked(d, e, 0, f.ets, FALSE)
    BY <2>3, <2>4, MarkedTrans
  <2>7. LeftAlone(d, row, f) /\ LeftAlone(d, e, f) /\ SaidAlone(d, row, f) /\ SaidAlone(d, e, f)
    BY <1>1, <1>2, <1>3, <2>2, <2>5 DEF LeftAlone, SaidAlone
  <2>8. \A x : Effective(d, f, x)
    BY <1>3, <1>6 DEF Effective
  <2>9. Written(d, e, f)
    BY <1>1, <1>2, <1>3, <2>2, <2>5, <2>8 DEF Written
  <2> HIDE DEF all
  <2>10. Last(<<row, e>>) = e /\ DOMAIN <<row, e>> = {1, 2} /\ <<row, e>>[1] = row /\ <<row, e>>[2] = e
    BY DEF Last
  <2>. QED
    BY <2>1, <2>3, <2>6, <2>7, <2>9, <2>10
<1>. QED
    BY <1>4, <1>5, <1>6

\* A reaction is added or taken back, by another station or by us.
LEMMA ReactedWrites ==
    ASSUME NEW d \in Stores, NEW f, f.t = "react", f.ts \in Times, f.x \in Stamps0, f.add \in BOOLEAN,
           NEW R \in Stamps0
    PROVE  LET e == Reacted(d, f.ts, f.x, f.add, R)
           IN  /\ Marked(d, e, 0, R, FALSE) /\ LeftAlone(d, e, f)
               /\ \A x : x \in e.emojis[f.ts] <=> (IF x = f.x THEN f.add ELSE x \in d.emojis[f.ts])
               /\ \A ts \in Times : ts # f.ts => e.emojis[ts] = d.emojis[ts]
<1> DEFINE e == Reacted(d, f.ts, f.x, f.add, R)
<1>1. Marked(d, e, 0, R, FALSE)
    BY ReactedMarks
<1>2. /\ e.emojis = [d.emojis EXCEPT ![f.ts] = IF f.add THEN @ \union {f.x} ELSE @ \ {f.x}]
      /\ \A y \in Held(d) : e.rows[y].body = d.rows[y].body
    BY ReactedFacts
<1>3. d.emojis \in [Times -> SUBSET Stamps0]
    BY StoreFacts
<1> HIDE DEF e
<1>4. LeftAlone(d, e, f)
    BY <1>2, <1>3 DEF LeftAlone
<1>5. e.emojis[f.ts] = IF f.add THEN d.emojis[f.ts] \union {f.x} ELSE d.emojis[f.ts] \ {f.x}
    BY <1>2, <1>3
<1>6. \A x : x \in e.emojis[f.ts] <=> (IF x = f.x THEN f.add ELSE x \in d.emojis[f.ts])
    BY <1>5
<1>7. \A ts \in Times : ts # f.ts => e.emojis[ts] = d.emojis[ts]
    BY <1>2, <1>3
<1>. QED
    BY <1>1, <1>4, <1>6, <1>7 DEF e

\* The stamp a frame gives a row's body, and its reactions.
SetsEdts(f) == CASE f.t = "row" -> f.body [] f.t = "edit" -> Stamp(f.edts, clock) [] OTHER -> 0
SetsEts(f) == IF f.t = "edit" THEN 0 ELSE f.ets
OwnEts(f) == IF f.t = "react" THEN f.ets ELSE 0

LEMMA HandledWrites ==
    ASSUME NEW d \in Stores, NEW f \in DownFrames, clock \in Stamps0, kind \in {"channel", "dm"}
    PROVE  /\ \A i \in DOMAIN Handled(d, f) :
                  /\ \E G \in BOOLEAN : Marked(d, Handled(d, f)[i], SetsEdts(f), SetsEts(f), G)
                  /\ LeftAlone(d, Handled(d, f)[i], f) /\ SaidAlone(d, Handled(d, f)[i], f)
           /\ Written(d, Last(Handled(d, f)), f)
<1> DEFINE h == Handled(d, f)
<1>1. CASE f \in RowFrames
  <2>1. f.t = "row" /\ f.gap \in BOOLEAN
    BY <1>1 DEF RowFrames
  <2>2. h = RowComes(d, f) /\ SetsEdts(f) = f.body /\ SetsEts(f) = f.ets
    BY <2>1 DEF Handled, SetsEdts, SetsEts
  <2> HIDE DEF h
  <2>3. /\ \A i \in DOMAIN h : /\ Marked(d, h[i], f.body, f.ets, f.gap)
                               /\ LeftAlone(d, h[i], f) /\ SaidAlone(d, h[i], f)
        /\ Written(d, Last(h), f)
    BY <1>1, <2>2, RowComesWrites
  <2>. QED
    BY <2>1, <2>2, <2>3 DEF h
<1>2. CASE f \in EditFrames
  <2>1. f.t = "edit"
    BY <1>2 DEF EditFrames
  <2>2. h = EditComes(d, f) /\ SetsEdts(f) = Stamp(f.edts, clock) /\ SetsEts(f) = 0
    BY <2>1 DEF Handled, SetsEdts, SetsEts
  <2>3. DOMAIN EditComes(d, f) = 1 .. 2
    BY <1>2, EditComesFacts
  <2> HIDE DEF h
  <2>4. /\ \A i \in 1 .. 2 : /\ Marked(d, h[i], Stamp(f.edts, clock), 0, FALSE)
                             /\ LeftAlone(d, h[i], f) /\ h[i].emojis = d.emojis
        /\ Written(d, Last(h), f)
    BY <1>2, <2>2, EditComesWrites
  <2>5. \A i \in 1 .. 2 : SaidAlone(d, h[i], f)
    BY <2>4 DEF SaidAlone
  <2>. QED
    BY <2>2, <2>3, <2>4, <2>5 DEF h
<1>3. CASE f \in ReactsFrames
  <2>1. f.t = "reacts"
    BY <1>3 DEF ReactsFrames
  <2>2. h = ReactionsCome(d, f) /\ SetsEdts(f) = 0 /\ SetsEts(f) = f.ets
    BY <2>1 DEF Handled, SetsEdts, SetsEts
  <2> HIDE DEF h
  <2>3. /\ \A i \in DOMAIN h : /\ Marked(d, h[i], 0, f.ets, FALSE)
                               /\ LeftAlone(d, h[i], f) /\ SaidAlone(d, h[i], f)
        /\ Written(d, Last(h), f)
    BY <1>3, <2>2, ReactionsComeWrites
  <2>. QED
    BY <2>2, <2>3 DEF h
<1>4. CASE f \in ReactFrames
  <2>1. /\ f.t = "react" /\ f.ts \in Times /\ f.x \in Stamps0 /\ f.add \in BOOLEAN /\ f.ets \in Stamps0
    BY <1>4 DEF ReactFrames
  <2> DEFINE e == Reacted(d, f.ts, f.x, f.add, f.ets)
  <2>2. h = <<e>> /\ SetsEdts(f) = 0 /\ SetsEts(f) = f.ets
    BY <2>1 DEF Handled, SetsEdts, SetsEts
  <2>3. LET g == Reacted(d, f.ts, f.x, f.add, f.ets)
        IN  /\ Marked(d, g, 0, f.ets, FALSE) /\ LeftAlone(d, g, f)
            /\ \A x : x \in g.emojis[f.ts] <=> (IF x = f.x THEN f.add ELSE x \in d.emojis[f.ts])
            /\ \A ts \in Times : ts # f.ts => g.emojis[ts] = d.emojis[ts]
    BY <2>1, ReactedWrites
  <2>4. /\ Marked(d, e, 0, f.ets, FALSE) /\ LeftAlone(d, e, f)
        /\ \A x : x \in e.emojis[f.ts] <=> (IF x = f.x THEN f.add ELSE x \in d.emojis[f.ts])
        /\ \A ts \in Times : ts # f.ts => e.emojis[ts] = d.emojis[ts]
    BY <2>3
  <2> HIDE DEF e, h
  <2>5. \A x : f \in SaysOf(kind, f.ts, x) <=> x = f.x
    BY <1>4, <2>1 DEF SaysOf, ReactsOf, ReactsFrames, RowsOf, RowFrames
  <2>6. SaidAlone(d, e, f)
    BY <2>4, <2>5 DEF SaidAlone
  <2>7. \A x : Effective(d, f, x) <=> x = f.x
    BY <2>1, <2>5 DEF Effective
  <2>8. Written(d, e, f)
    BY <2>1, <2>4, <2>7 DEF Written, Said
  <2>9. DOMAIN <<e>> = {1} /\ <<e>>[1] = e /\ Last(<<e>>) = e
    BY DEF Last
  <2>. QED
    BY <2>2, <2>4, <2>6, <2>8, <2>9 DEF h
<1>. QED
    BY <1>1, <1>2, <1>3, <1>4 DEF DownFrames

\* What is written of an operation of ours: no reaction but our own.
OthersAlone(d, e) == \A ts \in Times, x \in Times : x \in e.emojis[ts] <=> x \in d.emojis[ts]

\* A reaction of ours is added or taken back.
LEMMA OurReactionWrites ==
    ASSUME NEW d \in Stores, NEW f \in OwnReacts
    PROVE  \A i \in DOMAIN OurReaction(d, f) :
               /\ Marked(d, OurReaction(d, f)[i], 0, f.ets, FALSE)
               /\ LeftAlone(d, OurReaction(d, f)[i], f) /\ OthersAlone(d, OurReaction(d, f)[i])
<1> DEFINE S == IF f.add THEN d.emojis[f.ts] \union {f.x} ELSE d.emojis[f.ts] \ {f.x}
           row == [d EXCEPT !.emojis[f.ts] = S]
           e == Bump(row, "emoji", f.ets)
           one == Reacted(d, f.ts, f.x, f.add, f.ets)
<1>1. /\ f.t = "react" /\ f.ts \in Times /\ f.x = 0 /\ f.x \in Stamps0 /\ f.add \in BOOLEAN /\ f.ets \in Stamps0
    BY SyncAssumption DEF OwnReacts, Stamps0
<1>2. S \in SUBSET Stamps0 /\ d.emojis \in [Times -> SUBSET Stamps0]
    BY <1>1, StoreFacts
<1>3. \A x \in Times : x # f.x
    BY <1>1, SyncAssumption DEF Times
<1>4. OurReaction(d, f) \in {<<one>>, <<row, e>>}
    BY DEF OurReaction, one, row, e
<1>5. Marked(d, one, 0, f.ets, FALSE) /\ LeftAlone(d, one, f) /\ OthersAlone(d, one)
  <2>1. LET g == Reacted(d, f.ts, f.x, f.add, f.ets)
        IN  /\ Marked(d, g, 0, f.ets, FALSE) /\ LeftAlone(d, g, f)
            /\ \A x : x \in g.emojis[f.ts] <=> (IF x = f.x THEN f.add ELSE x \in d.emojis[f.ts])
            /\ \A ts \in Times : ts # f.ts => g.emojis[ts] = d.emojis[ts]
    BY <1>1, ReactedWrites
  <2>2. /\ Marked(d, one, 0, f.ets, FALSE) /\ LeftAlone(d, one, f)
        /\ \A x : x \in one.emojis[f.ts] <=> (IF x = f.x THEN f.add ELSE x \in d.emojis[f.ts])
        /\ \A ts \in Times : ts # f.ts => one.emojis[ts] = d.emojis[ts]
    BY <2>1
  <2> HIDE DEF one
  <2>. QED
    BY <1>3, <2>2 DEF OthersAlone
<1>6. \A x \in Times : x \in S <=> x \in d.emojis[f.ts]
    BY <1>1, <1>3
<1> HIDE DEF S, one
<1>7. /\ row.rows = d.rows /\ row.cur = d.cur /\ row \in Stores
      /\ row.emojis = [d.emojis EXCEPT ![f.ts] = S]
  <2>1. /\ Grown(d, row) /\ row.cur = d.cur /\ row.rows = d.rows
        /\ row.emojis = [d.emojis EXCEPT ![f.ts] = S]
    BY <1>1, <1>2, EmojisFacts
  <2>. QED
    BY <2>1 DEF Grown
<1> HIDE DEF row
<1>8. Marked(d, row, 0, f.ets, FALSE)
    BY <1>7, MarkedSame
<1>9. Marked(row, e, 0, f.ets, FALSE)
    BY <1>1, <1>7, BumpMarks DEF Cursors
<1>10. e.rows = d.rows /\ e.emojis = row.emojis
    BY <1>1, <1>7, BumpFacts DEF Cursors
<1> HIDE DEF e
<1>11. Marked(d, e, 0, f.ets, FALSE)
    BY <1>8, <1>9, MarkedTrans
<1>12. LeftAlone(d, row, f) /\ LeftAlone(d, e, f)
    BY <1>1, <1>7, <1>10 DEF LeftAlone
<1>13. OthersAlone(d, row) /\ OthersAlone(d, e)
    BY <1>1, <1>2, <1>6, <1>7, <1>10 DEF OthersAlone
<1>14. CASE OurReaction(d, f) = <<one>>
  <2>1. DOMAIN <<one>> = {1} /\ <<one>>[1] = one
    OBVIOUS
  <2>. QED
    BY <1>5, <1>14, <2>1
<1>15. CASE OurReaction(d, f) = <<row, e>>
  <2>1. DOMAIN <<row, e>> = {1, 2} /\ <<row, e>>[1] = row /\ <<row, e>>[2] = e
    OBVIOUS
  <2>. QED
    BY <1>8, <1>11, <1>12, <1>13, <1>15, <2>1
<1>. QED
    BY <1>4, <1>14, <1>15

LEMMA PersistedWrites ==
    ASSUME NEW d \in Stores, NEW f \in OwnFrames, clock \in Stamps0, kind \in {"channel", "dm"},
           f.t = "row" => f.body = 0 /\ ~f.gap
    PROVE  /\ \A i \in DOMAIN Persisted(d, f) :
                  /\ Marked(d, Persisted(d, f)[i], SetsEdts(f), OwnEts(f), FALSE)
                  /\ LeftAlone(d, Persisted(d, f)[i], f) /\ OthersAlone(d, Persisted(d, f)[i])
           /\ f.t = "row" => f.ts <= Last(Persisted(d, f)).cur["post"]
           /\ kind = "channel" /\ f.t = "row" => Len(Persisted(d, f)) = 1
<1> DEFINE h == Persisted(d, f)
<1>1. CASE f \in RowFrames
  <2> DEFINE g == [f EXCEPT !.ets = 0]
  <2>1. /\ f.t = "row" /\ g \in RowFrames /\ g.ts = f.ts /\ g.body = 0 /\ g.gap = FALSE /\ g.ets = 0 /\ g.t = "row"
    BY <1>1, SyncAssumption DEF RowFrames, Stamps0
  <2>2. h = RowComes(d, g) /\ SetsEdts(f) = 0 /\ OwnEts(f) = 0
    BY <1>1, <2>1 DEF Persisted, SetsEdts, OwnEts
  <2> HIDE DEF g, h
  <2>3. /\ \A i \in DOMAIN h : /\ Marked(d, h[i], 0, 0, FALSE)
                               /\ LeftAlone(d, h[i], g) /\ h[i].emojis = d.emojis
        /\ Written(d, Last(h), g) /\ (kind = "channel" => Len(h) = 1)
    <3>1. /\ \A i \in DOMAIN RowComes(d, g) : /\ Marked(d, RowComes(d, g)[i], g.body, g.ets, g.gap)
                                               /\ LeftAlone(d, RowComes(d, g)[i], g)
                                               /\ SaidAlone(d, RowComes(d, g)[i], g)
          /\ Written(d, Last(RowComes(d, g)), g)
          /\ g.ets = 0 => \A i \in DOMAIN RowComes(d, g) : RowComes(d, g)[i].emojis = d.emojis
          /\ kind = "channel" /\ g.ets = 0 => Len(RowComes(d, g)) = 1
      BY <2>1, RowComesWrites
    <3>. QED
      BY <2>1, <2>2, <3>1
  <2>4. \A i \in DOMAIN h : LeftAlone(d, h[i], f) /\ OthersAlone(d, h[i])
    BY <2>1, <2>3 DEF LeftAlone, OthersAlone
  <2>5. f.ts <= Last(h).cur["post"]
    BY <2>1, <2>3 DEF Written
  <2>. QED
    BY <2>1, <2>2, <2>3, <2>4, <2>5 DEF h
<1>2. CASE f \in EditFrames
  <2>1. f.t = "edit"
    BY <1>2 DEF EditFrames
  <2>2. h = EditComes(d, f) /\ SetsEdts(f) = Stamp(f.edts, clock) /\ OwnEts(f) = 0
    BY <2>1 DEF Persisted, SetsEdts, OwnEts
  <2>3. DOMAIN EditComes(d, f) = 1 .. 2
    BY <1>2, EditComesFacts
  <2> HIDE DEF h
  <2>4. /\ \A i \in 1 .. 2 : /\ Marked(d, h[i], Stamp(f.edts, clock), 0, FALSE)
                             /\ LeftAlone(d, h[i], f) /\ h[i].emojis = d.emojis
    BY <1>2, <2>2, EditComesWrites
  <2>5. \A i \in 1 .. 2 : OthersAlone(d, h[i])
    BY <2>4 DEF OthersAlone
  <2>. QED
    BY <2>1, <2>2, <2>3, <2>4, <2>5 DEF h
<1>3. CASE f \in OwnReacts
  <2>1. f.t = "react"
    BY <1>3 DEF OwnReacts
  <2>2. h = OurReaction(d, f) /\ SetsEdts(f) = 0 /\ OwnEts(f) = f.ets
    BY <2>1 DEF Persisted, SetsEdts, OwnEts
  <2>3. \A i \in DOMAIN OurReaction(d, f) :
              /\ Marked(d, OurReaction(d, f)[i], 0, f.ets, FALSE)
              /\ LeftAlone(d, OurReaction(d, f)[i], f) /\ OthersAlone(d, OurReaction(d, f)[i])
    BY <1>3, OurReactionWrites
  <2> HIDE DEF h
  <2>4. \A i \in DOMAIN h : /\ Marked(d, h[i], SetsEdts(f), OwnEts(f), FALSE)
                            /\ LeftAlone(d, h[i], f) /\ OthersAlone(d, h[i])
    BY <2>2, <2>3
  <2>. QED
    BY <2>1, <2>4 DEF h
<1>. QED
    BY <1>1, <1>2, <1>3 DEF OwnFrames

\* A cursor of the connect record, and what bounds it.
FloorOf(d, column) ==
    IF kind # "dm" THEN Floor(d, column) ELSE IF column = "ets" THEN Held(d) ELSE {}
Floored(d, c, column) == Largest({d.cur[c]} \union FloorOf(d, column))

LEMMA LargestFacts ==
    ASSUME NEW S \in SUBSET Stamps0
    PROVE  Largest(S) \in Nat /\ Largest(S) \in S \union {0} /\ \A y \in S : y <= Largest(S)
<1> DEFINE T == S \union {0}
<1>1. T \in SUBSET (0 .. MaxClock) /\ T # {} /\ MaxClock \in Nat
    BY SyncAssumption DEF Stamps0
<1> HIDE DEF T
<1>2. Max(T) \in T /\ \A y \in T : Max(T) >= y
    BY <1>1, MaxFacts
<1>3. \A y \in 0 .. MaxClock : y \in Nat
    BY <1>1
<1>4. Max(T) \in Nat /\ \A y \in T : y \in Nat
    BY <1>1, <1>2, <1>3
<1>. QED
    BY <1>2, <1>4 DEF Largest, T

LEMMA FlooredStamps ==
    ASSUME NEW d \in Stores, NEW c \in Cursors, NEW column \in {"edts", "ets"}
    PROVE  /\ FloorOf(d, column) \in SUBSET Stamps0 /\ d.cur[c] \in Stamps0
           /\ Floored(d, c, column) \in Nat
           /\ \A M \in Nat : Floored(d, c, column) <= M <=>
                                 /\ d.cur[c] <= M
                                 /\ \A y \in FloorOf(d, column) : y <= M
<1>1. /\ d.cur \in [Cursors -> Stamps0] /\ Held(d) \in SUBSET Times /\ Times \subseteq Stamps0 /\ 0 \in Stamps0
      /\ \A ts \in Held(d) : d.rows[ts] \in Row
    BY StoreFacts, SyncAssumption DEF Times, Stamps0
<1>2. \A r \in Row : r["edts"] \in Stamps0 /\ r["ets"] \in Stamps0
    BY DEF Row, Stamps0
<1>3. Floor(d, column) \in SUBSET Stamps0
  <2>1. \A ts \in Held(d) : d.rows[ts][column] \in Stamps0
    BY <1>1, <1>2
  <2>2. Gaps(d) \subseteq Stamps0
    BY <1>1 DEF Gaps
  <2>. QED
    BY <1>1, <2>1, <2>2 DEF Floor
<1> DEFINE S == {d.cur[c]} \union FloorOf(d, column)
<1>4. S \in SUBSET Stamps0 /\ FloorOf(d, column) \in SUBSET Stamps0
    BY <1>1, <1>3 DEF FloorOf
<1>5. \A y \in Stamps0 : y \in Nat
    BY SyncAssumption DEF Stamps0
<1> HIDE DEF S
<1>6. Largest(S) \in Nat /\ Largest(S) \in S \union {0} /\ \A y \in S : y <= Largest(S)
    BY <1>4, LargestFacts
<1>7. Floored(d, c, column) = Largest(S)
    BY DEF Floored, S
<1>8. \A M \in Nat : Largest(S) <= M <=> \A y \in S : y <= M
    BY <1>4, <1>5, <1>6
<1>9. \A M \in Nat : (\A y \in S : y <= M) <=> (d.cur[c] <= M /\ \A y \in FloorOf(d, column) : y <= M)
    BY DEF S
<1>. QED
    BY <1>1, <1>4, <1>6, <1>7, <1>8, <1>9

\* A step that marks no new gap moves a cursor no further than it stamps.
LEMMA AskedGrows ==
    ASSUME NEW d \in Stores, NEW e \in Stores, Held(d) \subseteq Held(e), Gaps(e) = Gaps(d),
           NEW c \in Cursors, NEW column \in {"edts", "ets"}, NEW V \in Nat, NEW M \in Nat,
           e.cur[c] \in {d.cur[c], V},
           \A ts \in Held(e) : (ts \in Held(d) /\ e.rows[ts][column] = d.rows[ts][column]) \/ e.rows[ts][column] \in {0, V},
           V <= M, \A ts \in Held(e) \ Held(d) : ts <= M, Floored(d, c, column) <= M
    PROVE  Floored(e, c, column) <= M
<1>1. /\ d.cur[c] <= M
      /\ kind # "dm" => \A y \in Floor(d, column) : y <= M
      /\ kind = "dm" /\ column = "ets" => \A y \in Held(d) : y <= M
  <2>1. d.cur[c] <= M /\ \A y \in FloorOf(d, column) : y <= M
    BY FlooredStamps
  <2>. QED
    BY <2>1 DEF FloorOf
<1>2. e.cur[c] <= M
    BY <1>1
<1>3. ASSUME kind # "dm", NEW y \in Floor(e, column) PROVE y <= M
  <2>1. CASE Gaps(d) # {}
    <3>1. y \in Gaps(d) \/ \E ts \in Held(e) : y = e.rows[ts][column]
      BY <1>3, <2>1 DEF Floor
    <3>2. CASE y \in Gaps(d)
      <4>1. y \in Floor(d, column)
        BY <2>1, <3>2 DEF Floor
      <4>. QED
        BY <1>1, <1>3, <4>1
    <3>3. ASSUME NEW ts \in Held(e), y = e.rows[ts][column] PROVE y <= M
      <4>1. CASE ts \in Held(d) /\ e.rows[ts][column] = d.rows[ts][column]
        <5>1. y \in Floor(d, column)
          BY <2>1, <3>3, <4>1 DEF Floor
        <5>. QED
          BY <1>1, <1>3, <5>1
      <4>2. CASE e.rows[ts][column] \in {0, V}
        BY <3>3, <4>2
      <4>. QED
        BY <4>1, <4>2
    <3>. QED
      BY <3>1, <3>2, <3>3
  <2>2. CASE Gaps(d) = {}
    <3>1. y \in Held(e)
      BY <1>3, <2>2 DEF Floor
    <3>2. CASE y \in Held(d)
      <4>1. y \in Floor(d, column)
        BY <2>2, <3>2 DEF Floor
      <4>. QED
        BY <1>1, <1>3, <4>1
    <3>. QED
      BY <3>1, <3>2
  <2>. QED
    BY <2>1, <2>2
<1>4. ASSUME kind = "dm", column = "ets", NEW y \in Held(e) PROVE y <= M
    BY <1>1, <1>4
<1>5. \A y \in FloorOf(e, column) : y <= M
    BY <1>3, <1>4 DEF FloorOf
<1>. QED
    BY <1>2, <1>5, FlooredStamps

LEMMA CursorsGrow ==
    ASSUME NEW d \in Stores, NEW e \in Stores, Grown(d, e), NEW E \in Nat, NEW R \in Nat,
           Marked(d, e, E, R, FALSE), NEW M \in Nat, \A ts \in Held(e) \ Held(d) : ts <= M
    PROVE  /\ E <= M /\ Led(d) <= M => Led(e) <= M
           /\ R <= M /\ Le(d) <= M => Le(e) <= M
<1>1. Held(d) \subseteq Held(e) /\ Gaps(e) = Gaps(d)
    BY DEF Grown, Marked, Gaps
<1>2. /\ Led(d) = Floored(d, "edit", "edts") /\ Led(e) = Floored(e, "edit", "edts")
      /\ Le(d) = Floored(d, "emoji", "ets") /\ Le(e) = Floored(e, "emoji", "ets")
    BY DEF Led, Le, Floored, FloorOf
<1>3. /\ e.cur["edit"] \in {d.cur["edit"], E} /\ e.cur["emoji"] \in {d.cur["emoji"], R}
      /\ \A ts \in Held(e) : (ts \in Held(d) /\ e.rows[ts]["edts"] = d.rows[ts]["edts"]) \/ e.rows[ts]["edts"] \in {0, E}
      /\ \A ts \in Held(e) : (ts \in Held(d) /\ e.rows[ts]["ets"] = d.rows[ts]["ets"]) \/ e.rows[ts]["ets"] \in {0, R}
    BY DEF Marked
<1>4. E <= M /\ Floored(d, "edit", "edts") <= M => Floored(e, "edit", "edts") <= M
    BY <1>1, <1>3, AskedGrows DEF Cursors
<1>5. R <= M /\ Floored(d, "emoji", "ets") <= M => Floored(e, "emoji", "ets") <= M
    BY <1>1, <1>3, AskedGrows DEF Cursors
<1>. QED
    BY <1>2, <1>4, <1>5

\* The cursors a connect record sends are not ahead of the clock.
LEMMA CursorsClocked ==
    ASSUME NEW d \in Stores, clock \in Nat, StoreStamped(d), \A ts \in Held(d) : ts <= clock
    PROVE  Led(d) \in Nat /\ Le(d) \in Nat /\ Led(d) <= clock /\ Le(d) <= clock
<1>1. Led(d) = Floored(d, "edit", "edts") /\ Le(d) = Floored(d, "emoji", "ets")
    BY DEF Led, Le, Floored, FloorOf
<1>2. d.cur["edit"] <= clock /\ d.cur["emoji"] <= clock
    BY DEF StoreStamped, Cursors
<1>3. \A y \in Gaps(d) : y <= clock
    BY DEF Gaps
<1>4. \A ts \in Held(d) : d.rows[ts]["edts"] <= clock /\ d.rows[ts]["ets"] <= clock
    BY DEF StoreStamped
<1>5. \A y \in Floor(d, "edts") : y <= clock
    BY <1>3, <1>4 DEF Floor
<1>6. \A y \in Floor(d, "ets") : y <= clock
    BY <1>3, <1>4 DEF Floor
<1>7. /\ \A y \in FloorOf(d, "edts") : y <= clock
      /\ \A y \in FloorOf(d, "ets") : y <= clock
    BY <1>5, <1>6 DEF FloorOf
<1>8. Floored(d, "edit", "edts") \in Nat /\ Floored(d, "edit", "edts") <= clock
    BY <1>2, <1>7, FlooredStamps DEF Cursors
<1>9. Floored(d, "emoji", "ets") \in Nat /\ Floored(d, "emoji", "ets") <= clock
    BY <1>2, <1>7, FlooredStamps DEF Cursors
<1>. QED
    BY <1>1, <1>8, <1>9

\* What a step writes is stamped no later than now.
LEMMA MarkedStamped ==
    ASSUME NEW d \in Stores, NEW e \in Stores, NEW E \in Nat, NEW R \in Nat, NEW G,
           Marked(d, e, E, R, G), StoreStamped(d), clock \in Nat, E <= clock, R <= clock, e.cur["post"] <= clock
    PROVE  StoreStamped(e)
<1>1. \A ts \in Held(e) : e.rows[ts].edts <= clock /\ e.rows[ts].ets <= clock
    BY DEF Marked, StoreStamped
<1>2. \A c \in Cursors : e.cur[c] <= clock
    BY DEF Marked, StoreStamped, Cursors
<1>. QED
    BY <1>1, <1>2 DEF StoreStamped

-----------------------------------------------------------------------------
(* What the store may become, and the frames of ours *)

LEMMA SyncFacts ==
    ASSUME CursorInv
    PROVE  /\ SyncTypes /\ db \in Stores /\ clock \in Stamps0 /\ clock \in Nat /\ kind \in {"channel", "dm"}
           /\ down \in Seq(DownFrames) /\ unsaved \in OwnFrames \union {Nothing}
           /\ srv \in [DOMAIN srv -> SrvRows] /\ DOMAIN srv \in SUBSET Times
           /\ \A x \in Times : x \in Nat /\ x > 0 /\ x \in Stamps0
<1>1. SyncTypes
    BY DEF CursorInv
<1>2. \A x \in Times : x \in Nat /\ x > 0 /\ x \in Stamps0
    BY SyncAssumption DEF Times, Stamps0
<1>3. clock \in Nat
    BY ClockFacts
<1>4. kind \in {"channel", "dm"}
    BY <1>1, SyncAssumption DEF SyncTypes
<1>. QED
    BY <1>1, <1>2, <1>3, <1>4, ServerFacts DEF SyncTypes

\* After some transactions of the handler of the first frame; after some of an
\* operation's.
HandledTo(d) ==
    /\ down # <<>> /\ Came(db, d, down[1])
    /\ \E G \in BOOLEAN : Marked(db, d, SetsEdts(down[1]), SetsEts(down[1]), G)
    /\ LeftAlone(db, d, down[1]) /\ SaidAlone(db, d, down[1])
WrittenTo(d) ==
    /\ unsaved # Nothing /\ Came(db, d, unsaved)
    /\ Marked(db, d, SetsEdts(unsaved), OwnEts(unsaved), FALSE)
    /\ LeftAlone(db, d, unsaved) /\ OthersAlone(db, d)

LEMMA HandleSteps ==
    ASSUME CursorInv, down # <<>>
    PROVE  /\ down[1] \in DownFrames /\ DownRow(down[1]) /\ Head(down) = down[1] /\ online /\ ~held
           /\ \A i \in 1 .. Len(Handled(db, down[1])) : HandledTo(Handled(db, down[1])[i])
           /\ HandledTo(Last(Handled(db, down[1]))) /\ Written(db, Last(Handled(db, down[1])), down[1])
<1> DEFINE h == Handled(db, down[1])
<1>1. /\ down[1] \in DownFrames /\ Head(down) = down[1] /\ online /\ ~held /\ 1 \in DOMAIN down
      /\ Len(h) \in {1, 2} /\ \A i \in 1 .. Len(h) : Came(db, h[i], down[1])
    BY HandledBecomes
<1>2. db \in Stores /\ clock \in Stamps0 /\ kind \in {"channel", "dm"}
    BY SyncFacts
<1>3. DOMAIN h = 1 .. Len(h)
    BY <1>1, <1>2, HandledFacts
<1>4. /\ \A i \in DOMAIN h :
              /\ \E G \in BOOLEAN : Marked(db, h[i], SetsEdts(down[1]), SetsEts(down[1]), G)
              /\ LeftAlone(db, h[i], down[1]) /\ SaidAlone(db, h[i], down[1])
      /\ Written(db, Last(h), down[1])
    BY <1>1, <1>2, HandledWrites
<1>5. DownRow(down[1])
    BY <1>1 DEF CursorInv, DownRows
<1>6. Last(h) = h[Len(h)]
    BY DEF Last
<1> HIDE DEF h
<1>7. \A i \in 1 .. Len(h) : HandledTo(h[i])
    BY <1>1, <1>3, <1>4 DEF HandledTo
<1>8. HandledTo(Last(h))
    BY <1>1, <1>6, <1>7
<1>. QED
    BY <1>1, <1>4, <1>5, <1>7, <1>8 DEF h

LEMMA PersistSteps ==
    ASSUME CursorInv, OwnFrame(unsaved), unsaved # Nothing
    PROVE  /\ unsaved \in OwnFrames
           /\ \A i \in 1 .. Len(Persisted(db, unsaved)) : WrittenTo(Persisted(db, unsaved)[i])
           /\ WrittenTo(Last(Persisted(db, unsaved)))
           /\ unsaved.t = "row" => unsaved.ts <= Last(Persisted(db, unsaved)).cur["post"]
<1> DEFINE h == Persisted(db, unsaved)
<1>1. /\ Len(h) \in {1, 2} /\ \A i \in 1 .. Len(h) : Came(db, h[i], unsaved)
      /\ Last(h) = h[Len(h)]
    BY PersistBecomes
<1>2. db \in Stores /\ clock \in Stamps0 /\ kind \in {"channel", "dm"} /\ unsaved \in OwnFrames
    BY SyncFacts
<1>3. DOMAIN h = 1 .. Len(h)
    BY <1>1, <1>2, PersistedFacts
<1>4. unsaved.t = "row" => unsaved.body = 0 /\ ~unsaved.gap
    BY DEF OwnFrame
<1>5. /\ \A i \in DOMAIN h : /\ Marked(db, h[i], SetsEdts(unsaved), OwnEts(unsaved), FALSE)
                             /\ LeftAlone(db, h[i], unsaved) /\ OthersAlone(db, h[i])
      /\ unsaved.t = "row" => unsaved.ts <= Last(h).cur["post"]
    BY <1>2, <1>4, PersistedWrites
<1> HIDE DEF h
<1>6. \A i \in 1 .. Len(h) : WrittenTo(h[i])
    BY <1>1, <1>3, <1>5 DEF WrittenTo
<1>7. WrittenTo(Last(h))
    BY <1>1, <1>6
<1>. QED
    BY <1>2, <1>5, <1>6, <1>7 DEF h

LEMMA OwnStoreKeeps ==
    ASSUME CursorInv, OwnInv, NEW d, d = db \/ HandledTo(d) \/ WrittenTo(d)
    PROVE  OwnStore(d)
<1>0. OwnStore(db)
    BY DEF OwnInv
<1>1. ASSUME NEW f, Came(db, d, f), LeftAlone(db, d, f), f.t = "row" /\ f.from = "me" => ~Peer(f.ts)
      PROVE  OwnStore(d)
  <2>1. Grown(db, d) /\ d \in Stores /\ db \in Stores
    BY <1>1, SyncFacts DEF Came, RowIsHeld, SameRowsHeld, Grown
  <2>2. \A ts \in Held(d) : ts \in Held(db) \/ (f.t = "row" /\ ts = f.ts /\ ts \notin Held(db) /\ d.rows[ts].from = f.from)
    BY <1>1 DEF Came, RowIsHeld, SameRowsHeld
  <2>3. \A ts \in Held(db) : d.rows[ts].from = db.rows[ts].from
    BY <2>1 DEF Grown
  <2>4. \A ts \in Held(d) : d.rows[ts].from = "me" => ~Peer(ts)
    BY <1>0, <1>1, <2>2, <2>3 DEF OwnStore
  <2>5. db.cur["post"] \in Nat /\ d.cur["post"] \in Nat /\ db.cur["post"] <= d.cur["post"]
    BY <2>1, StoreFacts DEF Grown, Cursors
  <2>6. \A ts \in Held(db) : ts \in Nat
    BY <2>1, StoreFacts
  <2>7. kind = "channel" => \A ts \in Held(d) : ts <= d.cur["post"]
    BY <1>0, <1>1, <2>2, <2>5, <2>6 DEF OwnStore, LeftAlone
  <2>. QED
    BY <2>4, <2>7 DEF OwnStore
<1>2. CASE d = db
    BY <1>0, <1>2
<1>3. CASE HandledTo(d)
  <2>1. DownRow(down[1])
    BY <1>3, HandleSteps DEF HandledTo
  <2>2. down[1].t = "row" /\ down[1].from = "me" => ~Peer(down[1].ts)
    BY <2>1 DEF DownRow, Peer
  <2>. QED
    BY <1>1, <1>3, <2>2 DEF HandledTo
<1>4. CASE WrittenTo(d)
  <2>1. unsaved.t = "row" /\ unsaved.from = "me" => ~Peer(unsaved.ts)
    BY DEF CursorInv, UpRows, OwnRow, Peer
  <2>. QED
    BY <1>1, <1>4, <2>1 DEF WrittenTo
<1>. QED
    BY <1>2, <1>3, <1>4

\* Rows of the server's that are new are ours, or newer than the clock.
LEMMA OwnFrameKeeps ==
    ASSUME CursorInv, clock' \in Nat, clock <= clock', kind' = kind,
           \A x \in DOMAIN srv' : x <= clock => srv'[x].from # "peer" \/ Peer(x)
    PROVE  \A f : OwnFrame(f) /\ (f.t = "edit" => f.ts \in Nat /\ f.edts \in Nat) => OwnFrame(f)'
<1> SUFFICES ASSUME NEW f, OwnFrame(f), f.t = "edit" => f.ts \in Nat /\ f.edts \in Nat
             PROVE  OwnFrame(f)'
    OBVIOUS
<1>1. clock \in Nat
    BY SyncFacts
<1>2. f.t = "edit" => f.ts <= clock' /\ f.edts > 0 /\ f.edts <= clock'
    BY <1>1 DEF OwnFrame
<1>3. f.t = "edit" => ~Peer(f.ts)'
    BY DEF OwnFrame, Peer
<1>4. f.t = "react" => f.ets \in Nat /\ f.ets <= clock'
    BY <1>1 DEF OwnFrame
<1>. QED
    BY <1>2, <1>3, <1>4 DEF OwnFrame

LEMMA FrameNats ==
    ASSUME CursorInv
    PROVE  /\ \A f \in OwnFrames : f.ts \in Nat /\ (f.t = "edit" => f.ts \in Nat /\ f.edts \in Nat)
           /\ unsaved.t = "edit" => unsaved.ts \in Nat /\ unsaved.edts \in Nat
           /\ unsaved.t = "row" => unsaved.ts \in Nat /\ unsaved.ts <= clock
           /\ \A i \in DOMAIN up : /\ up[i].t = "edit" => up[i].ts \in Nat /\ up[i].edts \in Nat
                                   /\ up[i].t = "row" => up[i].ts \in Nat /\ up[i].ts <= clock
<1>1. \A x \in Times : x \in Nat
    BY SyncFacts
<1>2. \A x \in Stamps0 : x \in Nat
    BY SyncAssumption DEF Stamps0
<1>3. \A f \in OwnFrames : f.ts \in Nat /\ (f.t = "edit" => f.ts \in Nat /\ f.edts \in Nat)
    BY <1>1, <1>2 DEF OwnFrames, RowFrames, EditFrames, OwnReacts
<1>4. unsaved \in OwnFrames \union {Nothing} /\ OwnRow(unsaved)
    BY SyncFacts DEF CursorInv, UpRows
<1>5. \A i \in DOMAIN up : up[i] \in UpFrames /\ OwnRow(up[i])
    BY ElementOfSeq, LenProperties DEF CursorInv, UpRows, SyncTypes
<1>6. \A f \in UpFrames : f.t \in {"edit", "row"} => f \in OwnFrames
    BY DEF UpFrames, Requests
<1>. QED
    BY <1>3, <1>4, <1>5, <1>6 DEF Nothing, OwnRow

-----------------------------------------------------------------------------
(* OwnInv, step by step *)

\* Another station's news: the rows it makes are newer than the clock.
LEMMA OwnAfterNews ==
    ASSUME CursorInv, OwnInv, UNCHANGED <<kind, db, unsaved, online, up, held>>,
           clock' \in Nat, clock <= clock',
           \A x \in DOMAIN srv' : x <= clock => x \in DOMAIN srv /\ srv'[x].from = srv[x].from
    PROVE  OwnInv'
<1>1. \A f : OwnFrame(f) /\ (f.t = "edit" => f.ts \in Nat /\ f.edts \in Nat) => OwnFrame(f)'
    BY OwnFrameKeeps DEF Peer
<1>2. OwnFrame(unsaved)'
    BY <1>1, FrameNats DEF OwnInv
<1>3. \A i \in DOMAIN up' : UpFrame(up[i])'
    BY <1>1, FrameNats DEF OwnInv, UpFrame
<1>4. \A ts \in Held(db) : ts <= clock
    BY DEF CursorInv, Clocked
<1>5. OwnStore(db)'
    BY <1>4 DEF OwnInv, OwnStore, Peer
<1>6. (online /\ unsaved.t = "row" => unsaved.ts \notin DOMAIN srv)'
    BY FrameNats DEF OwnInv
<1>. QED
    BY <1>2, <1>3, <1>5, <1>6 DEF OwnInv

LEMMA PeerWritesRows ==
    ASSUME CursorInv, PeerWrites
    PROVE  /\ clock + 1 \in Times /\ clock + 1 \notin DOMAIN srv /\ clock + 1 \notin Held(db)
           /\ srv' = With(srv, clock + 1, NewRow("peer"))
           /\ DOMAIN srv' = DOMAIN srv \union {clock + 1} /\ srv'[clock + 1] = NewRow("peer")
           /\ \A x \in DOMAIN srv : x # clock + 1 /\ srv'[x] = srv[x]
<1>1. clock + 1 \in Times /\ clock \in Nat
    BY TickFacts DEF PeerWrites
<1>2. \A x \in DOMAIN srv \union Held(db) : x # clock + 1
    BY <1>1, ClockFacts DEF CursorInv, Clocked
<1>3. NewRow("peer") \in SrvRows
    BY SyncAssumption DEF NewRow, SrvRows, Stamps0
<1>4. srv' = With(srv, clock + 1, NewRow("peer")) /\ SyncTypes
    BY DEF PeerWrites, CursorInv
<1>5. /\ DOMAIN With(srv, clock + 1, NewRow("peer")) = DOMAIN srv \union {clock + 1}
      /\ With(srv, clock + 1, NewRow("peer"))[clock + 1] = NewRow("peer")
      /\ \A x \in DOMAIN srv : x # clock + 1 => With(srv, clock + 1, NewRow("peer"))[x] = srv[x]
    BY <1>1, <1>3, <1>4, WithFacts
<1>. QED
    BY <1>1, <1>2, <1>4, <1>5

LEMMA PeerWritesOwn ==
    ASSUME CursorInv, OwnInv, PeerWrites
    PROVE  OwnInv'
<1>1. UNCHANGED <<kind, db, unsaved, online, up, held>>
    BY DEF PeerWrites, Relay
<1>2. clock' \in Nat /\ clock <= clock' /\ clock \in Nat
    BY TickFacts DEF PeerWrites
<1>3. \A x \in DOMAIN srv' : x <= clock => x \in DOMAIN srv /\ srv'[x].from = srv[x].from
    BY <1>2, PeerWritesRows
<1>. QED
    BY <1>1, <1>2, <1>3, OwnAfterNews

LEMMA PeerEditsOwn ==
    ASSUME CursorInv, OwnInv, PeerEdits
    PROVE  OwnInv'
<1>1. PICK ts \in DOMAIN srv : /\ Tick /\ srv' = [srv EXCEPT ![ts].edts = clock + 1]
                               /\ Relay(EditFrame(srv', ts, TRUE))
    BY DEF PeerEdits
<1>2. UNCHANGED <<kind, db, unsaved, online, up, held>>
    BY <1>1 DEF Relay
<1>3. clock' \in Nat /\ clock <= clock'
    BY <1>1, TickFacts
<1>4. \A x \in DOMAIN srv' : x \in DOMAIN srv /\ srv'[x].from = srv[x].from
    BY <1>1, SyncFacts DEF SrvRows
<1>. QED
    BY <1>2, <1>3, <1>4, OwnAfterNews

LEMMA PeerReactsOwn ==
    ASSUME CursorInv, OwnInv, PeerReacts
    PROVE  OwnInv'
<1>1. PICK ts \in DOMAIN srv, add \in BOOLEAN :
          \E x \in {clock + 1} \union srv[ts].reacts :
              /\ Tick
              /\ srv' = [srv EXCEPT ![ts].reacts = IF add THEN @ \union {x} ELSE @ \ {x},
                                    ![ts].ets = clock + 1]
              /\ Relay(IF kind = "dm" THEN ReactsFrame(srv', ts)
                       ELSE [t |-> "react", ts |-> ts, x |-> x, add |-> add, ets |-> clock + 1])
    BY DEF PeerReacts
<1>2. UNCHANGED <<kind, db, unsaved, online, up, held>>
    BY <1>1 DEF Relay
<1>3. clock' \in Nat /\ clock <= clock'
    BY <1>1, TickFacts
<1>4. \A x \in DOMAIN srv' : x \in DOMAIN srv /\ srv'[x].from = srv[x].from
    BY <1>1, SyncFacts DEF SrvRows
<1>. QED
    BY <1>2, <1>3, <1>4, OwnAfterNews

LEMMA ServerTakesOwn ==
    ASSUME CursorInv, OwnInv, ServerTakes
    PROVE  OwnInv'
<1>0. PICK g : g = up[1]
    OBVIOUS
<1>1. /\ up # <<>> /\ g # unsaved /\ up' = Tail(up) /\ srv' = Taken(srv, g)
      /\ UNCHANGED <<kind, clock, db, unsaved, online>> /\ (held' = held \/ ~held')
    BY <1>0, HeadUp DEF ServerTakes
<1>2. /\ g \in UpFrames /\ OwnRow(g) /\ 1 \in DOMAIN up
      /\ \A i \in DOMAIN Tail(up) : i + 1 \in DOMAIN up /\ Tail(up)[i] = up[i + 1]
    BY <1>0, <1>1, HeadUp
<1>3. /\ ServerKeeps(srv')
      /\ \A x \in DOMAIN srv' \ DOMAIN srv : g.t = "row" /\ x = g.ts /\ srv'[x].from = "me"
    BY <1>1, <1>2, TakenServer DEF CursorInv
<1>4. \A x \in DOMAIN srv' : srv'[x].from # "peer" \/ Peer(x)
    BY <1>3 DEF ServerKeeps, Peer
<1>5. \A f : OwnFrame(f) /\ (f.t = "edit" => f.ts \in Nat /\ f.edts \in Nat) => OwnFrame(f)'
    BY <1>1, <1>4, SyncFacts, OwnFrameKeeps
<1>6. OwnFrame(unsaved)'
    BY <1>1, <1>5, FrameNats DEF OwnInv
<1>7. up \in Seq(UpFrames)
    BY DEF CursorInv, SyncTypes
<1>8. \A i \in DOMAIN Tail(up) : i \in Nat /\ i # 0
    BY <1>1, <1>7, HeadTailProperties, LenProperties
<1>9. ASSUME NEW i \in DOMAIN Tail(up)
      PROVE  /\ i + 1 \in DOMAIN up /\ 1 < i + 1 /\ Tail(up)[i] = up[i + 1]
             /\ up[i + 1].t = "row" => up[i + 1].ts \notin DOMAIN srv'
  <2>1. i + 1 \in DOMAIN up /\ 1 < i + 1 /\ Tail(up)[i] = up[i + 1]
    BY <1>2, <1>8
  <2>2. up[i + 1].t = "row" => up[i + 1].ts \notin DOMAIN srv
    BY <2>1 DEF OwnInv, UpFrame
  <2>3. g.t = "row" /\ up[i + 1].t = "row" => up[i + 1].ts # g.ts
    BY <1>0, <1>2, <2>1 DEF OwnInv
  <2>. QED
    BY <1>3, <2>1, <2>2, <2>3
<1>10. (\A i \in DOMAIN up : UpFrame(up[i]))'
  <2>1. ASSUME NEW i \in DOMAIN Tail(up), NEW f, f = Tail(up)[i] PROVE UpFrame(f)'
    <3>1. f = up[i + 1] /\ i + 1 \in DOMAIN up /\ (f.t = "row" => f.ts \notin DOMAIN srv')
      BY <1>9, <2>1
    <3>2. UpFrame(f) /\ OwnFrame(f)'
      BY <1>5, <3>1, FrameNats DEF OwnInv, UpFrame
    <3>. QED
      BY <1>1, <3>1, <3>2 DEF UpFrame
  <2>2. \A i \in DOMAIN up' : \A f : f = up'[i] => UpFrame(f)'
    BY <1>1, <2>1
  <2>. QED
    BY <2>2 DEF UpFrame, OwnFrame, Peer
<1>11. \A i, j \in DOMAIN up' : i < j /\ up'[i].t = "row" /\ up'[j].t = "row" => up'[i].ts # up'[j].ts
  <2> SUFFICES ASSUME NEW i \in DOMAIN Tail(up), NEW j \in DOMAIN Tail(up), i < j,
                      up[i + 1].t = "row", up[j + 1].t = "row"
               PROVE  up[i + 1].ts # up[j + 1].ts
    BY <1>1, <1>9
  <2>1. i + 1 < j + 1
    BY <1>8
  <2>. QED
    BY <1>9, <2>1 DEF OwnInv
<1>12. (online /\ unsaved.t = "row" => unsaved.ts \notin DOMAIN srv)'
  <2> SUFFICES ASSUME online, unsaved.t = "row" PROVE unsaved.ts \notin DOMAIN srv'
    BY <1>1
  <2>1. unsaved.ts \notin DOMAIN srv
    BY DEF OwnInv
  <2>2. g.t = "row" => unsaved.ts # g.ts
    BY <1>0, <1>1, <1>2 DEF OwnInv, UpFrame
  <2>. QED
    BY <1>3, <2>1, <2>2
<1>13. OwnStore(db)'
    BY <1>1, <1>4 DEF OwnInv, OwnStore, Peer
<1>14. (held => kind = "channel")'
    BY <1>1 DEF OwnInv
<1>. QED
    BY <1>6, <1>10, <1>11, <1>12, <1>13, <1>14 DEF OwnInv

\* One frame of ours more is under way.
LEMMA OwnAfterSend ==
    ASSUME CursorInv, OwnInv, NEW f \in UpFrames, up' = Append(up, f), UNCHANGED <<kind, db, online, held, srv>>,
           clock' \in Nat, clock <= clock', OwnFrame(f)',
           f.t = "row" => f.ts > clock /\ f = unsaved',
           unsaved' = unsaved \/ (unsaved = Nothing /\ unsaved' = f)
    PROVE  OwnInv'
<1>1. \A g : OwnFrame(g) /\ (g.t = "edit" => g.ts \in Nat /\ g.edts \in Nat) => OwnFrame(g)'
    BY OwnFrameKeeps DEF Peer
<1>2. OwnFrame(unsaved)'
    BY <1>1, FrameNats DEF OwnInv
<1>3. clock \in Nat /\ \A x \in DOMAIN srv : x \in Nat /\ x <= clock
    BY SyncFacts, ClockFacts DEF CursorInv, Clocked
<1>4. f.t = "row" => f.ts \in Nat
  <2>1. f.t = "row" => f \in OwnFrames
    BY DEF UpFrames, Requests
  <2>. QED
    BY <2>1, FrameNats
<1>5. UpFrame(f)'
    BY <1>3, <1>4 DEF UpFrame
<1>6. ASSUME NEW i \in DOMAIN up, NEW g, g = up[i] PROVE UpFrame(g)'
  <2>2. UpFrame(g) /\ OwnFrame(g)' /\ (g.t = "row" => g.ts \in Nat /\ g.ts <= clock)
    BY <1>1, <1>6, FrameNats DEF OwnInv, UpFrame
  <2>3. g.t = "row" => g.ts <= db.cur["post"] \/ g = unsaved'
    BY <2>2 DEF UpFrame, Nothing
  <2>4. g.t = "row" /\ f.t = "row" => f.ts # g.ts
    BY <1>3, <1>4, <2>2
  <2>5. g.t = "row" => ((unsaved.t = "row" /\ unsaved.ts = g.ts) => g = unsaved)'
    BY <2>2, <2>4 DEF UpFrame
  <2>. QED
    BY <2>2, <2>3, <2>5 DEF UpFrame
<1>7. /\ Len(up) \in Nat /\ DOMAIN up = 1 .. Len(up) /\ DOMAIN up' = 1 .. Len(up) + 1
      /\ up'[Len(up) + 1] = f /\ \A i \in 1 .. Len(up) : up'[i] = up[i]
  <2>1. up \in Seq(UpFrames)
    BY DEF CursorInv, SyncTypes
  <2>. QED
    BY <2>1, AppendProperties, LenProperties
<1>8. \A i \in DOMAIN up' : (i \in DOMAIN up /\ up'[i] = up[i]) \/ (i = Len(up) + 1 /\ up'[i] = f)
    BY <1>7
<1>9. (\A i \in DOMAIN up : UpFrame(up[i]))'
  <2>1. ASSUME NEW i \in DOMAIN up', NEW g, g = up'[i] PROVE UpFrame(g)'
    BY <1>5, <1>6, <1>8, <2>1
  <2>. QED
    BY <2>1 DEF UpFrame, OwnFrame, Peer
<1>10. \A i, j \in DOMAIN up' : i < j /\ up'[i].t = "row" /\ up'[j].t = "row" => up'[i].ts # up'[j].ts
  <2> SUFFICES ASSUME NEW i \in DOMAIN up', NEW j \in DOMAIN up', i < j, up'[i].t = "row", up'[j].t = "row"
               PROVE  up'[i].ts # up'[j].ts
    OBVIOUS
  <2>1. i \in DOMAIN up /\ up'[i] = up[i]
    BY <1>7
  <2>2. up[i].ts \in Nat /\ up[i].ts <= clock
    BY <2>1, FrameNats
  <2>3. CASE j \in DOMAIN up /\ up'[j] = up[j]
    BY <2>1, <2>3 DEF OwnInv
  <2>4. CASE up'[j] = f
    BY <1>3, <1>4, <2>1, <2>2, <2>4
  <2>. QED
    BY <1>8, <2>3, <2>4
<1>11. (online /\ unsaved.t = "row" => unsaved.ts \notin DOMAIN srv)'
    BY <1>3, <1>4 DEF OwnInv
<1>12. OwnStore(db)' /\ (held => kind = "channel")'
    BY DEF OwnInv, OwnStore, Peer
<1>. QED
    BY <1>2, <1>9, <1>10, <1>11, <1>12 DEF OwnInv

LEMMA WritesOwn ==
    ASSUME CursorInv, OwnInv, NEW f \in OwnFrames, Writes(f),
           f.t = "row" => f.ts = clock + 1 /\ f.body = 0 /\ ~f.gap,
           f.t = "edit" => f.ts \in Held(db) /\ db.rows[f.ts].from = "me" /\ f.edts = clock + 1,
           f.t = "react" => f.ets \in Nat /\ f.ets <= clock + 1
    PROVE  OwnInv'
<1>1. clock' \in Nat /\ clock <= clock' /\ clock' = clock + 1 /\ clock \in Nat
    BY TickFacts DEF Writes
<1>2. f \in UpFrames /\ f.t \notin {"cu", "cpb"}
    BY DEF UpFrames, OwnFrames, RowFrames, EditFrames, OwnReacts
<1>3. f.t = "edit" => f.ts \in Nat /\ f.ts <= clock /\ ~Peer(f.ts)
    BY ClockFacts DEF CursorInv, Clocked, OwnInv, OwnStore
<1>4. srv' = srv /\ UNCHANGED <<kind, db, online, held>>
    BY DEF Writes, serverVars
<1>5. OwnFrame(f)'
    BY <1>1, <1>2, <1>3, <1>4 DEF OwnFrame, Peer
<1>6. f.t = "row" => f.ts > clock
    BY <1>1
<1>7. up' = Append(up, f) /\ unsaved = Nothing /\ unsaved' = f
    BY DEF Writes
<1>. QED
    BY <1>1, <1>2, <1>4, <1>5, <1>6, <1>7, OwnAfterSend

LEMMA WeWriteOwn ==
    ASSUME CursorInv, OwnInv, WeWrite
    PROVE  OwnInv'
<1>1. PICK f : f = [t |-> "row", ts |-> clock + 1, from |-> "me", body |-> 0,
                    reacts |-> {}, ets |-> 0, gap |-> FALSE]
    OBVIOUS
<1>2. Writes(f)
    BY <1>1 DEF WeWrite
<1>3. clock + 1 \in Times /\ 0 \in Stamps0
    BY <1>2, TickFacts, SyncAssumption DEF Writes, Stamps0
<1>4. /\ f \in OwnFrames /\ f.t = "row" /\ f.ts = clock + 1 /\ f.body = 0 /\ ~f.gap
    BY <1>1, <1>3 DEF OwnFrames, RowFrames
<1>. QED
    BY <1>2, <1>4, WritesOwn

LEMMA WeEditOwn ==
    ASSUME CursorInv, OwnInv, WeEdit
    PROVE  OwnInv'
<1>0. PICK ts \in Held(db) : /\ db.rows[ts].from = "me"
                             /\ Writes([t |-> "edit", ts |-> ts, body |-> clock + 1, edts |-> clock + 1])
    BY DEF WeEdit
<1>1. PICK f : f = [t |-> "edit", ts |-> ts, body |-> clock + 1, edts |-> clock + 1] /\ Writes(f)
    BY <1>0
<1>2. clock + 1 \in Stamps0 /\ ts \in Times
    BY <1>1, TickFacts, StoreFacts DEF Writes, CursorInv, SyncTypes
<1>3. f \in OwnFrames /\ f.t = "edit" /\ f.ts = ts /\ f.edts = clock + 1
    BY <1>1, <1>2 DEF OwnFrames, EditFrames
<1>. QED
    BY <1>0, <1>1, <1>3, WritesOwn

LEMMA WeReactOwn ==
    ASSUME CursorInv, OwnInv, WeReact
    PROVE  OwnInv'
<1>0. PICK ts \in Held(db), add \in BOOLEAN :
          Writes([t |-> "react", ts |-> ts, x |-> 0, add |-> add,
                  ets |-> IF kind = "dm" THEN clock + 1 ELSE Earliest])
    BY DEF WeReact
<1>1. PICK ets : ets = IF kind = "dm" THEN clock + 1 ELSE Earliest
    OBVIOUS
<1>2. PICK f : f = [t |-> "react", ts |-> ts, x |-> 0, add |-> add, ets |-> ets] /\ Writes(f)
    BY <1>0, <1>1
<1>3. ts \in Times /\ clock + 1 \in Stamps0 /\ Earliest \in Stamps0
    BY <1>2, StoreFacts, TickFacts, SyncAssumption DEF CursorInv, SyncTypes, Writes, Earliest, Stamps0
<1>4. f \in OwnFrames /\ f.t = "react" /\ f.ets = ets
    BY <1>1, <1>2, <1>3 DEF OwnFrames, OwnReacts
<1>5. ets \in Nat /\ ets <= clock + 1
    BY <1>1, <1>2, TickFacts DEF Earliest, Writes
<1>. QED
    BY <1>2, <1>4, <1>5, WritesOwn

LEMMA AsksOwn ==
    ASSUME CursorInv, OwnInv, Asks
    PROVE  OwnInv'
<1>0. PICK n \in Counts : up' = Append(up, [t |-> IF held THEN "cu" ELSE "cpb", n |-> n])
    BY DEF Asks
<1>1. PICK f : f = [t |-> IF held THEN "cu" ELSE "cpb", n |-> n] /\ up' = Append(up, f)
    BY <1>0
<1>2. f \in UpFrames /\ f.t \notin {"row", "edit", "react"}
    BY <1>1 DEF UpFrames, Requests
<1>3. /\ kind = "channel" /\ UNCHANGED <<kind, clock, db, online, held, srv, unsaved>>
    BY DEF Asks, serverVars
<1>4. OwnFrame(f)'
    BY <1>2, <1>3 DEF OwnFrame
<1>5. clock' \in Nat /\ clock <= clock'
    BY <1>3, SyncFacts
<1>. QED
    BY <1>1, <1>2, <1>3, <1>4, <1>5, OwnAfterSend

\* Nothing new is under way, and the server's new rows are ours.
LEMMA OwnAfterStore ==
    ASSUME CursorInv, OwnInv, db' = db \/ HandledTo(db') \/ WrittenTo(db'),
           UNCHANGED <<kind, clock>>, srv' = srv \/ (~online' /\ up' = <<>> /\ ServerKeeps(srv')),
           \A x \in DOMAIN srv' \ DOMAIN srv : srv'[x].from = "me",
           up' \in {up, <<>>}, unsaved' \in {unsaved, Nothing}, held' => kind = "channel",
           online' => online \/ unsaved' = Nothing,
           unsaved' # unsaved => up' = <<>> \/ (unsaved.t = "row" => unsaved.ts <= db'.cur["post"])
    PROVE  OwnInv'
<1>1. \A x \in DOMAIN srv' : srv'[x].from # "peer" \/ Peer(x)
    BY DEF ServerKeeps, Peer
<1>2. clock \in Nat
    BY SyncFacts
<1>3. \A f : OwnFrame(f) /\ (f.t = "edit" => f.ts \in Nat /\ f.edts \in Nat) => OwnFrame(f)'
    BY <1>1, <1>2, OwnFrameKeeps
<1>4. OwnFrame(unsaved)'
    BY <1>3, FrameNats DEF OwnInv, OwnFrame, Nothing
<1>5. OwnStore(db)'
  <2>1. PICK d : d = db'
    OBVIOUS
  <2>2. OwnStore(d)
    BY <2>1, OwnStoreKeeps
  <2>. QED
    BY <1>1, <2>1, <2>2 DEF OwnStore, Peer
<1>6. db.cur["post"] \in Nat /\ db'.cur["post"] \in Nat /\ db.cur["post"] <= db'.cur["post"]
  <2>1. PICK d : d = db'
    OBVIOUS
  <2>2. d = db \/ Grown(db, d)
    BY <2>1 DEF HandledTo, WrittenTo, Came, RowIsHeld, SameRowsHeld
  <2>3. db \in Stores
    BY SyncFacts
  <2>4. \A c \in Cursors : db.cur[c] \in Nat /\ db.cur[c] <= d.cur[c] /\ d.cur[c] \in Nat
    BY <2>2, <2>3, StoreFacts DEF Grown
  <2>. QED
    BY <2>1, <2>4 DEF Cursors
<1>7. (\A i \in DOMAIN up : UpFrame(up[i]))'
  <2>1. ASSUME NEW i \in DOMAIN up', NEW f, f = up'[i] PROVE UpFrame(f)'
    <3>1. up' = up /\ srv' = srv /\ i \in DOMAIN up /\ f = up[i]
      BY <2>1
    <3>2. UpFrame(f) /\ OwnFrame(f)' /\ (f.t = "row" => f.ts \in Nat)
      BY <1>3, <3>1, FrameNats DEF OwnInv, UpFrame
    <3>3. f.t = "row" => f.ts <= db'.cur["post"] \/ f = unsaved'
      BY <1>6, <3>1, <3>2 DEF UpFrame
    <3>4. (unsaved.t = "row" /\ unsaved.ts = f.ts)' /\ f.t = "row" => f = unsaved'
      BY <3>2 DEF UpFrame, Nothing
    <3>. QED
      BY <3>1, <3>2, <3>3, <3>4 DEF UpFrame
  <2>. QED
    BY <2>1 DEF UpFrame, OwnFrame, Peer
<1>8. (\A i, j \in DOMAIN up : i < j /\ up[i].t = "row" /\ up[j].t = "row" => up[i].ts # up[j].ts)'
    BY DEF OwnInv
<1>9. (online /\ unsaved.t = "row" => unsaved.ts \notin DOMAIN srv)'
    BY DEF OwnInv, Nothing
<1>. QED
    BY <1>4, <1>5, <1>7, <1>8, <1>9 DEF OwnInv

LEMMA WePersistSteps ==
    ASSUME CursorInv, OwnInv, WePersist
    PROVE  /\ WrittenTo(db') /\ (unsaved.t = "row" => unsaved.ts <= db'.cur["post"]) /\ unsaved \in OwnFrames
           /\ unsaved' = Nothing /\ unsaved # Nothing
           /\ UNCHANGED <<kind, clock, online, up, down, srv, held, since, missed>>
<1>1. /\ unsaved # Nothing /\ db' = Last(Persisted(db, unsaved)) /\ unsaved' = Nothing
      /\ UNCHANGED <<kind, clock, online, up, down, srv, held, since, missed>>
    BY DEF WePersist, linkVars, serverVars
<1>. QED
    BY <1>1, PersistSteps DEF OwnInv

LEMMA WePersistOwn ==
    ASSUME CursorInv, OwnInv, WePersist
    PROVE  OwnInv'
<1>1. held => kind = "channel"
    BY DEF OwnInv
<1>. QED
    BY <1>1, WePersistSteps, OwnAfterStore

LEMMA WriteFailsOwn ==
    ASSUME CursorInv, OwnInv, WriteFails
    PROVE  OwnInv'
<1>1. /\ ~online /\ unsaved' = Nothing /\ UNCHANGED <<kind, clock, db, online, up, srv, held>>
    BY DEF WriteFails, linkVars, serverVars
<1>2. up' = <<>>
    BY <1>1 DEF CursorInv, LinkOff
<1>3. held => kind = "channel"
    BY DEF OwnInv
<1>. QED
    BY <1>1, <1>2, <1>3, OwnAfterStore

LEMMA ConnectOwn ==
    ASSUME CursorInv, OwnInv, Connect
    PROVE  OwnInv'
<1>1. unsaved' = Nothing /\ UNCHANGED <<kind, clock, db, unsaved, up, srv>> /\ (held' => kind = "channel")
    BY DEF Connect
<1>. QED
    BY <1>1, OwnAfterStore

LEMMA ReceiveSteps ==
    ASSUME CursorInv, Receive
    PROVE  /\ HandledTo(db') /\ Written(db, db', down[1]) /\ down[1] \in DownFrames /\ DownRow(down[1])
           /\ down # <<>> /\ down' = Tail(down) /\ missed' = missed \ Restores(down[1])
           /\ online /\ ~held /\ UNCHANGED <<kind, clock, unsaved, online, up, srv, held, since>>
<1>1. /\ down # <<>> /\ db' = Last(Handled(db, Head(down))) /\ down' = Tail(down)
      /\ missed' = missed \ Restores(Head(down))
      /\ UNCHANGED <<kind, clock, unsaved, online, up, srv, held, since>>
    BY DEF Receive, serverVars
<1>. QED
    BY <1>1, HandleSteps

LEMMA ReceiveOwn ==
    ASSUME CursorInv, OwnInv, Receive
    PROVE  OwnInv'
<1>1. held => kind = "channel"
    BY DEF OwnInv
<1>. QED
    BY <1>1, ReceiveSteps, OwnAfterStore

\* The link goes, with what has been made of the store.
LossOfLink ==
    /\ LinkEnds /\ UNCHANGED <<kind, clock>> /\ unsaved' \in {unsaved, Nothing}
    /\ db' = db \/ HandledTo(db') \/ (WrittenTo(db') /\ unsaved' = Nothing)

LEMMA LossSteps ==
    ASSUME CursorInv, OwnInv, LinkDrops \/ DiesInHandler \/ DiesInOperation
    PROVE  LossOfLink
<1>1. CASE LinkDrops
    BY <1>1 DEF LinkDrops, LossOfLink
<1>2. CASE DiesInHandler
    BY <1>2, HandleSteps DEF DiesInHandler, LossOfLink
<1>3. CASE DiesInOperation
    BY <1>3, PersistSteps DEF DiesInOperation, LossOfLink, OwnInv
<1>. QED
    BY <1>1, <1>2, <1>3

LEMMA LossServer ==
    ASSUME CursorInv, LossOfLink
    PROVE  /\ online' = FALSE /\ up' = <<>> /\ down' = <<>> /\ held' = FALSE
           /\ missed' = missed \union OnTheWay
           /\ srv' = srv \/ (unsaved # Nothing /\ up # <<>> /\ srv' = Taken(srv, unsaved))
           /\ ServerKeeps(srv')
           /\ \A x \in DOMAIN srv' \ DOMAIN srv : unsaved.t = "row" /\ x = unsaved.ts /\ srv'[x].from = "me"
<1>1. /\ online' = FALSE /\ up' = <<>> /\ down' = <<>> /\ held' = FALSE
      /\ missed' = missed \union OnTheWay
      /\ srv' = srv \/ (unsaved # Nothing /\ up # <<>> /\ srv' = Taken(srv, unsaved))
    BY DEF LossOfLink, LinkEnds
<1>2. CASE srv' = srv
    BY <1>1, <1>2 DEF ServerKeeps
<1>3. CASE unsaved # Nothing /\ srv' = Taken(srv, unsaved)
  <2>1. unsaved \in UpFrames /\ OwnRow(unsaved) /\ SyncTypes
    BY <1>3, SyncFacts DEF CursorInv, UpRows, UpFrames
  <2>. QED
    BY <1>1, <1>3, <2>1, TakenServer
<1>. QED
    BY <1>1, <1>2, <1>3

LEMMA LossOwn ==
    ASSUME CursorInv, OwnInv, LossOfLink
    PROVE  OwnInv'
<1>1. /\ db' = db \/ HandledTo(db') \/ WrittenTo(db')
      /\ UNCHANGED <<kind, clock>> /\ unsaved' \in {unsaved, Nothing}
    BY DEF LossOfLink
<1>. QED
    BY <1>1, LossServer, OwnAfterStore

LEMMA OwnInvNext ==
    ASSUME CursorInv, OwnInv, [SyncNext]_syncVars
    PROVE  OwnInv'
<1>1. CASE PeerWrites
    BY <1>1, PeerWritesOwn
<1>2. CASE PeerEdits
    BY <1>2, PeerEditsOwn
<1>3. CASE PeerReacts
    BY <1>3, PeerReactsOwn
<1>4. CASE ServerTakes
    BY <1>4, ServerTakesOwn
<1>5. CASE WeWrite
    BY <1>5, WeWriteOwn
<1>6. CASE WeEdit
    BY <1>6, WeEditOwn
<1>7. CASE WeReact
    BY <1>7, WeReactOwn
<1>8. CASE WePersist
    BY <1>8, WePersistOwn
<1>9. CASE WriteFails
    BY <1>9, WriteFailsOwn
<1>10. CASE Asks
    BY <1>10, AsksOwn
<1>11. CASE Connect
    BY <1>11, ConnectOwn
<1>12. CASE LinkDrops \/ DiesInHandler \/ DiesInOperation
    BY <1>12, LossSteps, LossOwn
<1>13. CASE Receive
    BY <1>13, ReceiveOwn
<1>14. CASE UNCHANGED syncVars
  <2>1. UNCHANGED <<kind, clock, db, unsaved, online, up, down, srv, held, since, missed>>
    BY <1>14 DEF syncVars, linkVars, serverVars
  <2>. QED
    BY <2>1 DEF OwnInv, UpFrame, OwnFrame, OwnStore, Peer
<1>. QED
    BY <1>1, <1>2, <1>3, <1>4, <1>5, <1>6, <1>7, <1>8, <1>9, <1>10, <1>11, <1>12, <1>13, <1>14 DEF SyncNext

-----------------------------------------------------------------------------
(* Steps that send something back, and leave the store alone *)

UpdateInv == CursorInv /\ OwnInv /\ StampInv /\ WordInv /\ DmInv /\ NewsInv

LEMMA FrameKinds ==
    ASSUME NEW f \in DownFrames, NEW ts
    PROVE  /\ f.t \in {"row", "edit", "reacts", "react"} /\ f.ts \in Times
           /\ f \in RowsOf(ts) <=> (f.t = "row" /\ f.ts = ts)
           /\ f \in EditsOf(ts) <=> (f.t = "edit" /\ f.ts = ts)
           /\ f \in ReactsOf(ts) <=> (f.t = "reacts" /\ f.ts = ts)
           /\ f \in TellsOf(ts) <=> (f.t \in {"row", "edit"} /\ f.ts = ts)
           /\ f \in StirsOf(ts) <=> (f.t # "edit" /\ f.ts = ts)
           /\ \A k, x : f \in SaysOf(k, ts, x) <=>
                  /\ f.ts = ts
                  /\ f.t = "reacts" \/ (f.t = "row" /\ k = "channel" /\ f.ets > 0) \/ (f.t = "react" /\ f.x = x)
<1>1. CASE f \in RowFrames
  <2>1. f.t = "row" /\ f.ts \in Times /\ f \notin EditFrames /\ f \notin ReactsFrames /\ f \notin ReactFrames
    BY <1>1 DEF RowFrames, EditFrames, ReactsFrames, ReactFrames
  <2>. QED
    BY <1>1, <2>1 DEF RowsOf, EditsOf, ReactsOf, TellsOf, StirsOf, SaysOf
<1>2. CASE f \in EditFrames
  <2>1. f.t = "edit" /\ f.ts \in Times /\ f \notin RowFrames /\ f \notin ReactsFrames /\ f \notin ReactFrames
    BY <1>2 DEF RowFrames, EditFrames, ReactsFrames, ReactFrames
  <2>. QED
    BY <1>2, <2>1 DEF RowsOf, EditsOf, ReactsOf, TellsOf, StirsOf, SaysOf
<1>3. CASE f \in ReactsFrames
  <2>1. f.t = "reacts" /\ f.ts \in Times /\ f \notin RowFrames /\ f \notin EditFrames /\ f \notin ReactFrames
    BY <1>3 DEF RowFrames, EditFrames, ReactsFrames, ReactFrames
  <2>. QED
    BY <1>3, <2>1 DEF RowsOf, EditsOf, ReactsOf, TellsOf, StirsOf, SaysOf
<1>4. CASE f \in ReactFrames
  <2>1. f.t = "react" /\ f.ts \in Times /\ f \notin RowFrames /\ f \notin EditFrames /\ f \notin ReactsFrames
    BY <1>4 DEF RowFrames, EditFrames, ReactsFrames, ReactFrames
  <2>. QED
    BY <1>4, <2>1 DEF RowsOf, EditsOf, ReactsOf, TellsOf, StirsOf, SaysOf
<1>. QED
    BY <1>1, <1>2, <1>3, <1>4 DEF DownFrames

LEMMA AboutOne ==
    ASSUME NEW ts
    PROVE  /\ \A f \in RowsOf(ts) \union EditsOf(ts) \union ReactsOf(ts) \union TellsOf(ts) \union StirsOf(ts) :
                  f \in DownFrames /\ f.ts = ts
           /\ \A k, x : \A f \in SaysOf(k, ts, x) : f \in DownFrames /\ f.ts = ts /\ f \in StirsOf(ts)
           /\ RowsOf(ts) \subseteq TellsOf(ts) /\ EditsOf(ts) \subseteq TellsOf(ts)
BY DEF RowsOf, EditsOf, ReactsOf, TellsOf, StirsOf, SaysOf, DownFrames

LEMMA DownTypes ==
    ASSUME NEW f \in DownFrames
    PROVE  /\ f.t # "edit" => f.ets \in Nat
           /\ f.t \in {"row", "edit"} => f.body \in Nat
           /\ f.t = "edit" => f.edts \in Nat
           /\ f.t = "react" => f.add \in BOOLEAN
<1>1. \A x \in Stamps0 : x \in Nat
    BY SyncAssumption DEF Stamps0
<1>. QED
    BY <1>1 DEF DownFrames, RowFrames, EditFrames, ReactsFrames, ReactFrames

\* Frame f is as server s has it.
Current(f, s) ==
    /\ f.ts \in DOMAIN s
    /\ f.t \in {"row", "edit"} => f.body = s[f.ts].edts
    /\ f.t = "edit" => f.edts \in {0, s[f.ts].edts}
    /\ f.t # "edit" => f.ets = s[f.ts].ets
    /\ f.t \in {"row", "reacts"} => f.reacts = s[f.ts].reacts
    /\ f.t = "react" => (f.add <=> f.x \in s[f.ts].reacts)
    /\ f.t \in {"react", "reacts"} => f.ets > 0

LEMMA CurrentNow ==
    ASSUME NEW s, NEW f \in DownFrames, Current(f, s), NEW ts
    PROVE  /\ f \in TellsOf(ts) => f \in ToldNow(s, ts)
           /\ f \in StirsOf(ts) => f \in StirredNow(s, ts)
           /\ \A k, x : f \in SaysOf(k, ts, x) => f \in SaidNow(k, s, ts, x) /\ s[ts].ets > 0
           /\ f \in RowsOf(ts) /\ s[ts].ets > 0 => \A x : f \in SaysOf("channel", ts, x)
<1>1. /\ f \in TellsOf(ts) <=> (f.t \in {"row", "edit"} /\ f.ts = ts)
      /\ f \in StirsOf(ts) <=> (f.t # "edit" /\ f.ts = ts)
      /\ f \in RowsOf(ts) <=> (f.t = "row" /\ f.ts = ts)
      /\ \A k, x : f \in SaysOf(k, ts, x) <=>
                  /\ f.ts = ts
                  /\ f.t = "reacts" \/ (f.t = "row" /\ k = "channel" /\ f.ets > 0) \/ (f.t = "react" /\ f.x = x)
    BY FrameKinds
<1>2. f \in TellsOf(ts) => f \in ToldNow(s, ts)
    BY <1>1 DEF Current, ToldNow
<1>3. f \in StirsOf(ts) => f \in StirredNow(s, ts)
    BY <1>1 DEF Current, StirredNow
<1>4. ASSUME NEW k, NEW x, f \in SaysOf(k, ts, x) PROVE f \in SaidNow(k, s, ts, x) /\ s[ts].ets > 0
  <2>1. f.ts = ts /\ f.t # "edit" /\ f.ets > 0
    BY <1>1, <1>4 DEF Current
  <2>2. Said(f, x) <=> x \in s[ts].reacts
    BY <1>1, <1>4, <2>1 DEF Current, Said
  <2>. QED
    BY <1>4, <2>1, <2>2 DEF Current, SaidNow
<1>5. f \in RowsOf(ts) /\ s[ts].ets > 0 => \A x : f \in SaysOf("channel", ts, x)
    BY <1>1 DEF Current
<1>. QED
    BY <1>2, <1>3, <1>4, <1>5

LEMMA EndsMore ==
    ASSUME NEW p, NEW A, NEW B, NEW C
    PROVE  /\ ~Has(p, A) => Ends(p, A, C)
           /\ Ends(p, A, B) /\ B \subseteq C => Ends(p, A, C)
           /\ Ends(p, A, B) /\ Has(p, A) => Has(p, B)
BY DEF Has, Ends

LEMMA EndsGoes ==
    ASSUME NEW S, NEW p \in Seq(S), NEW q \in Seq(S), NEW A, NEW B,
           \A i \in DOMAIN q : q[i] \in A => q[i] \in B,
           Ends(p, A, B) \/ ~Has(p, A) \/ Has(q, A)
    PROVE  Ends(p \o q, A, B)
<1>1. \A i \in DOMAIN q : i >= i
  <2>1. DOMAIN q \subseteq Nat
    BY LenProperties
  <2>. QED
    BY <2>1
<1>2. Ends(q, A, B)
    BY <1>1 DEF Ends
<1>3. Has(q, A) => Has(q, B)
    BY DEF Has
<1>4. Ends(p, A, B) \/ Has(q, B)
    BY <1>3, EndsMore
<1>. QED
    BY <1>2, <1>4, EndsConcat

\* Of a row the server has not, nothing is on its way.
LEMMA NoneAbout ==
    ASSUME StampInv, NEW ts, ts \notin DOMAIN srv, NEW A, \A f \in A : f.ts = ts
    PROVE  ~Has(down, A)
BY DEF StampInv, DownStamped, Has

LEMMA SyncNumbers ==
    ASSUME CursorInv, OwnInv, StampInv
    PROVE  /\ Led(db) \in Nat /\ Le(db) \in Nat /\ Led(db) <= clock /\ Le(db) <= clock
           /\ Raises(unsaved) \in Nat /\ Raises(unsaved) <= clock /\ Raises(Nothing) = 0
           /\ \A ts \in DOMAIN srv : /\ srv[ts].edts \in Nat /\ srv[ts].ets \in Nat
                                     /\ srv[ts].edts <= clock /\ srv[ts].ets <= clock
           /\ clock \in Nat
<1>1. clock \in Nat /\ db \in Stores /\ \A ts \in Held(db) : ts <= clock
    BY SyncFacts DEF CursorInv, Clocked
<1>2. Led(db) \in Nat /\ Le(db) \in Nat /\ Led(db) <= clock /\ Le(db) <= clock
    BY <1>1, CursorsClocked DEF StampInv
<1>3. Raises(unsaved) \in Nat /\ Raises(unsaved) <= clock
    BY <1>1, FrameNats DEF Raises, OwnInv, OwnFrame
<1>4. Raises(Nothing) = 0
    BY DEF Raises, Nothing
<1>5. \A ts \in DOMAIN srv : srv[ts].edts \in Nat /\ srv[ts].ets \in Nat
    BY SyncFacts, SyncAssumption DEF SrvRows, Stamps0
<1>. QED
    BY <1>1, <1>2, <1>3, <1>4, <1>5 DEF StampInv

\* What is new is on its way, or the link is off, or it is remembered as missed.
Spread(q, A, m) == Has(q, A) \/ (down = <<>> /\ q = <<>> /\ (~online \/ m \in missed'))

\* What a step makes of a row the server has, and of one it has not.
RowSpreads(q, ts) ==
    /\ ts \in DOMAIN srv' /\ srv'[ts].from = srv[ts].from
    /\ \/ srv'[ts].edts = srv[ts].edts
       \/ ~Peer(ts)
       \/ srv'[ts].edts > clock /\ Spread(q, EditsOf(ts), <<"edit", ts>>)
    /\ \/ srv'[ts].ets = srv[ts].ets
       \/ srv'[ts].ets > clock /\ Spread(q, StirsOf(ts), <<"react", ts>>)
    /\ \A x \in Times :
          \/ x \in srv'[ts].reacts <=> x \in srv[ts].reacts
          \/ srv'[ts].ets > clock /\ Spread(q, SaysOf(kind, ts, x), <<"react", ts>>)
RowAppears(q, ts) ==
    /\ srv'[ts].edts = 0 /\ srv'[ts].ets = 0 /\ srv'[ts].reacts = {}
    /\ srv'[ts].from = "peer" => ts \notin Held(db)
    /\ kind = "dm" /\ online => ts <= db.cur["post"] \/ Has(q, RowsOf(ts))

\* A step that sends q back.
Goes(q) ==
    /\ q \in Seq(DownFrames) /\ down' = down \o q /\ UNCHANGED <<kind, db, online>>
    /\ clock' \in Nat /\ clock <= clock' /\ missed \subseteq missed'
    /\ ~online => q = <<>>
    /\ unsaved' = unsaved \/ unsaved' = Nothing \/ online
    /\ \A i \in DOMAIN q : Current(q[i], srv')
    /\ kind = "dm" => \A ts \in Times : /\ Has(q, RowsOf(ts)) => ts \notin DOMAIN srv
                                        /\ Has(q, EditsOf(ts)) => ts \in DOMAIN srv
                                        /\ Apart(q, ReactsOf(ts), RowsOf(ts))
    /\ DOMAIN srv' \subseteq Times
    /\ \A ts \in DOMAIN srv' : srv'[ts].edts \in 0 .. clock' /\ srv'[ts].ets \in 0 .. clock'
    /\ \A ts \in DOMAIN srv : RowSpreads(q, ts)
    /\ \A ts \in DOMAIN srv' \ DOMAIN srv : RowAppears(q, ts)

LEMMA GoesParts ==
    ASSUME UpdateInv, NEW q, Goes(q)
    PROVE  /\ down \in Seq(DownFrames) /\ q \in Seq(DownFrames) /\ down' = down \o q
           /\ \A i \in DOMAIN q : q[i] \in DownFrames /\ Current(q[i], srv')
           /\ \A A : Has(down', A) <=> (Has(down, A) \/ Has(q, A))
           /\ clock \in Nat /\ clock' \in Nat /\ clock <= clock'
           /\ \A ts \in DOMAIN srv : ts \in Times /\ ts \in DOMAIN srv' /\ srv'[ts].from = srv[ts].from
           /\ \A ts \in DOMAIN srv' : ts \in Times /\ srv'[ts].edts \in Nat /\ srv'[ts].ets \in Nat
           /\ \A ts \in DOMAIN srv : srv'[ts].ets = srv[ts].ets \/ srv'[ts].ets > clock
           /\ down # <<>> => online
<1>1. down \in Seq(DownFrames) /\ q \in Seq(DownFrames) /\ down' = down \o q
    BY SyncFacts DEF Goes, UpdateInv
<1>2. \A i \in DOMAIN q : q[i] \in DownFrames
    BY <1>1, ElementOfSeq, LenProperties
<1>3. \A A : Has(down', A) <=> (Has(down, A) \/ Has(q, A))
    BY <1>1, HasConcat
<1>4. clock \in Nat /\ DOMAIN srv \subseteq Times
    BY SyncFacts DEF UpdateInv
<1>5. clock' \in Nat /\ \A ts \in DOMAIN srv' : srv'[ts].edts \in 0 .. clock' /\ srv'[ts].ets \in 0 .. clock'
    BY DEF Goes
<1>6. \A ts \in DOMAIN srv' : srv'[ts].edts \in Nat /\ srv'[ts].ets \in Nat
    BY <1>5
<1>7. down # <<>> => online
    BY DEF UpdateInv, CursorInv, LinkOff
<1>. QED
    BY <1>1, <1>2, <1>3, <1>4, <1>6, <1>7 DEF Goes, RowSpreads

LEMMA GoesStamp ==
    ASSUME UpdateInv, NEW q, Goes(q)
    PROVE  StampInv'
<1>1. /\ down \in Seq(DownFrames) /\ q \in Seq(DownFrames) /\ down' = down \o q
      /\ \A i \in DOMAIN q : q[i] \in DownFrames /\ Current(q[i], srv')
      /\ clock \in Nat /\ clock' \in Nat /\ clock <= clock' /\ DOMAIN srv \subseteq DOMAIN srv'
    BY GoesParts
<1>2. \A ts \in DOMAIN srv' : srv'[ts].edts <= clock' /\ srv'[ts].ets <= clock' /\ srv'[ts].edts \in Nat
    BY <1>1 DEF Goes
<1>3. StoreStamped(db)'
  <2>1. db \in Stores /\ StoreStamped(db) /\ db' = db
    BY SyncFacts DEF UpdateInv, StampInv, Goes
  <2>2. \A ts \in Held(db) : db.rows[ts].edts \in Nat /\ db.rows[ts].ets \in Nat
    BY <2>1, StoreFacts, SyncAssumption DEF Row
  <2>3. \A c \in Cursors : db.cur[c] \in Nat
    BY <2>1, StoreFacts
  <2>. QED
    BY <1>1, <2>1, <2>2, <2>3 DEF StoreStamped
<1>4. ASSUME NEW f \in DownFrames, DownStamped(f) PROVE DownStamped(f)'
    BY <1>1, <1>4, DownTypes DEF DownStamped
<1>5. ASSUME NEW f \in DownFrames, Current(f, srv') PROVE DownStamped(f)'
    BY <1>1, <1>2, <1>5 DEF Current, DownStamped
<1>6. \A i \in DOMAIN down : down[i] \in DownFrames /\ DownStamped(down[i])
    BY <1>1, ElementOfSeq, LenProperties DEF UpdateInv, StampInv
<1>7. \A i \in DOMAIN (down \o q) : \/ i \in DOMAIN down /\ (down \o q)[i] = down[i]
                                    \/ i - Len(down) \in DOMAIN q /\ (down \o q)[i] = q[i - Len(down)]
    BY <1>1, ConcatPlaces
<1>8. (\A i \in DOMAIN down : DownStamped(down[i]))'
  <2>1. ASSUME NEW i \in DOMAIN down', NEW f, f = down'[i] PROVE DownStamped(f)'
    BY <1>1, <1>4, <1>5, <1>6, <1>7, <2>1
  <2>. QED
    BY <2>1 DEF DownStamped
<1>. QED
    BY <1>2, <1>3, <1>8 DEF StampInv

LEMMA GoesWord ==
    ASSUME UpdateInv, NEW q, Goes(q)
    PROVE  WordInv'
<1>1. /\ down \in Seq(DownFrames) /\ q \in Seq(DownFrames) /\ down' = down \o q
      /\ \A i \in DOMAIN q : q[i] \in DownFrames /\ Current(q[i], srv')
      /\ \A A : Has(down', A) <=> (Has(down, A) \/ Has(q, A))
      /\ clock \in Nat /\ clock' \in Nat /\ clock <= clock'
      /\ \A ts \in DOMAIN srv : ts \in Times /\ ts \in DOMAIN srv' /\ srv'[ts].from = srv[ts].from
      /\ \A ts \in DOMAIN srv' : ts \in Times /\ srv'[ts].edts \in Nat /\ srv'[ts].ets \in Nat
      /\ \A ts \in DOMAIN srv : srv'[ts].ets = srv[ts].ets \/ srv'[ts].ets > clock
    BY GoesParts
<1>2. kind' = kind /\ db' = db
    BY DEF Goes
<1>3. \A A : ~Has(<<>>, A)
    BY DEF Has
<1>4. /\ StampInv /\ WordInv /\ \A ts \in DOMAIN srv : srv[ts].ets \in Nat /\ srv[ts].ets <= clock
    BY SyncNumbers DEF UpdateInv
<1>5. ASSUME NEW ts \in DOMAIN srv', Peer(ts)' PROVE Ends(down', TellsOf(ts), ToldNow(srv', ts))
  <2> DEFINE A == TellsOf(ts)
             B == ToldNow(srv', ts)
  <2>1. \A i \in DOMAIN q : q[i] \in A => q[i] \in B
    BY <1>1, CurrentNow
  <2>2. Ends(down, A, B) \/ ~Has(down, A) \/ Has(q, A)
    <3>1. CASE ts \notin DOMAIN srv
      BY <1>4, <3>1, NoneAbout, AboutOne
    <3>2. CASE ts \in DOMAIN srv
      <4>1. Peer(ts) /\ RowSpreads(q, ts)
        BY <1>1, <1>5, <3>2 DEF Peer, Goes
      <4>2. CASE srv'[ts].edts = srv[ts].edts
        <5>1. B = ToldNow(srv, ts)
          BY <4>2 DEF ToldNow
        <5>. QED
          BY <1>4, <3>2, <4>1, <5>1 DEF WordInv
      <4>3. CASE Spread(q, EditsOf(ts), <<"edit", ts>>)
        <5>1. EditsOf(ts) \subseteq A
          BY AboutOne
        <5>. QED
          BY <1>3, <4>3, <5>1 DEF Spread, Has
      <4>. QED
        BY <4>1, <4>2, <4>3 DEF RowSpreads
    <3>. QED
      BY <3>1, <3>2
  <2> HIDE DEF A, B
  <2>3. Ends(down \o q, A, B)
    BY <1>1, <2>1, <2>2, EndsGoes
  <2>. QED
    BY <1>1, <2>3 DEF A, B
<1>6. ASSUME NEW ts \in DOMAIN srv' PROVE Ends(down', StirsOf(ts), StirredNow(srv', ts))
  <2> DEFINE A == StirsOf(ts)
             B == StirredNow(srv', ts)
  <2>1. \A i \in DOMAIN q : q[i] \in A => q[i] \in B
    BY <1>1, CurrentNow
  <2>2. Ends(down, A, B) \/ ~Has(down, A) \/ Has(q, A)
    <3>1. CASE ts \notin DOMAIN srv
      BY <1>4, <3>1, NoneAbout, AboutOne
    <3>2. CASE ts \in DOMAIN srv
      <4>1. RowSpreads(q, ts)
        BY <3>2 DEF Goes
      <4>2. CASE srv'[ts].ets = srv[ts].ets
        <5>1. B = StirredNow(srv, ts)
          BY <4>2 DEF StirredNow
        <5>. QED
          BY <1>4, <3>2, <5>1 DEF WordInv
      <4>3. CASE Spread(q, StirsOf(ts), <<"react", ts>>)
        BY <1>3, <4>3 DEF Spread
      <4>. QED
        BY <4>1, <4>2, <4>3 DEF RowSpreads
    <3>. QED
      BY <3>1, <3>2
  <2> HIDE DEF A, B
  <2>3. Ends(down \o q, A, B)
    BY <1>1, <2>1, <2>2, EndsGoes
  <2>. QED
    BY <1>1, <2>3 DEF A, B
<1>7. ASSUME NEW ts \in DOMAIN srv', NEW x \in Times
      PROVE  Ends(down', SaysOf(kind, ts, x), SaidNow(kind, srv', ts, x))
  <2> DEFINE A == SaysOf(kind, ts, x)
             B == SaidNow(kind, srv', ts, x)
  <2>1. \A i \in DOMAIN q : q[i] \in A => q[i] \in B
    BY <1>1, CurrentNow
  <2>2. Ends(down, A, B) \/ ~Has(down, A) \/ Has(q, A)
    <3>1. CASE ts \notin DOMAIN srv
      BY <1>4, <3>1, NoneAbout, AboutOne
    <3>2. CASE ts \in DOMAIN srv
      <4>1. RowSpreads(q, ts)
        BY <3>2 DEF Goes
      <4>2. CASE x \in srv'[ts].reacts <=> x \in srv[ts].reacts
        <5>1. B = SaidNow(kind, srv, ts, x)
          BY <4>2 DEF SaidNow
        <5>. QED
          BY <1>4, <3>2, <5>1 DEF WordInv
      <4>3. CASE Spread(q, SaysOf(kind, ts, x), <<"react", ts>>)
        BY <1>3, <4>3 DEF Spread
      <4>. QED
        BY <4>1, <4>2, <4>3 DEF RowSpreads
    <3>. QED
      BY <3>1, <3>2
  <2> HIDE DEF A, B
  <2>3. Ends(down \o q, A, B)
    BY <1>1, <2>1, <2>2, EndsGoes
  <2>. QED
    BY <1>1, <2>3 DEF A, B
<1>8. ASSUME NEW ts \in DOMAIN srv', NEW x \in Times, Has(down', SaysOf(kind, ts, x)) PROVE srv'[ts].ets > 0
  <2>1. CASE Has(down, SaysOf(kind, ts, x))
    <3>1. ts \in DOMAIN srv
      BY <1>4, <2>1, NoneAbout, AboutOne
    <3>2. srv[ts].ets > 0
      BY <1>4, <1>8, <2>1, <3>1 DEF WordInv
    <3>. QED
      BY <1>1, <1>4, <3>1, <3>2
  <2>2. CASE Has(q, SaysOf(kind, ts, x))
    BY <1>1, <2>2, CurrentNow DEF Has
  <2>. QED
    BY <1>1, <1>8, <2>1, <2>2
<1>9. ASSUME NEW ts \in DOMAIN srv', NEW x \in Times, x \in srv'[ts].reacts PROVE srv'[ts].ets > 0
  <2>1. ts \in DOMAIN srv
    BY <1>9 DEF Goes, RowAppears
  <2>2. srv'[ts].ets > clock \/ x \in srv[ts].reacts
    BY <1>9, <2>1 DEF Goes, RowSpreads
  <2>3. x \in srv[ts].reacts => srv[ts].ets > 0
    BY <1>4, <2>1 DEF WordInv
  <2>. QED
    BY <1>1, <1>4, <2>1, <2>2, <2>3
<1>10. ASSUME NEW ts \in Times, NEW x \in Times, x \in db.emojis[ts]
       PROVE  ts \in DOMAIN srv' /\ srv'[ts].ets > 0
  <2>1. ts \in DOMAIN srv /\ srv[ts].ets > 0
    BY <1>4, <1>10 DEF WordInv
  <2>. QED
    BY <1>1, <1>4, <2>1
<1>. QED
    BY <1>2, <1>5, <1>6, <1>7, <1>8, <1>9, <1>10 DEF WordInv

LEMMA GoesDm ==
    ASSUME UpdateInv, NEW q, Goes(q)
    PROVE  DmInv'
<1> SUFFICES ASSUME kind = "dm" PROVE DmInv'
    BY DEF Goes, DmInv
<1>1. /\ down \in Seq(DownFrames) /\ q \in Seq(DownFrames) /\ down' = down \o q
      /\ \A A : Has(down', A) <=> (Has(down, A) \/ Has(q, A))
      /\ \A ts \in DOMAIN srv : ts \in DOMAIN srv' /\ srv'[ts].from = srv[ts].from
      /\ DOMAIN srv' \subseteq Times
    BY GoesParts
<1>2. kind' = kind /\ db' = db /\ online' = online /\ missed \subseteq missed' /\ (~online => q = <<>>)
    BY DEF Goes
<1>3. StampInv /\ DmInv
    BY DEF UpdateInv
<1>4. ASSUME NEW ts \in DOMAIN srv', online PROVE ts <= db.cur["post"] \/ Has(down', RowsOf(ts))
    BY <1>1, <1>3, <1>4 DEF DmInv, Goes, RowAppears
<1>5. ASSUME NEW ts \in DOMAIN srv' PROVE ts <= db.cur["post"] \/ Leads(down', EditsOf(ts), RowsOf(ts))
  <2> SUFFICES ASSUME ~(ts <= db.cur["post"]) PROVE Leads(down', EditsOf(ts), RowsOf(ts))
    OBVIOUS
  <2>1. Leads(down, EditsOf(ts), RowsOf(ts))
    <3>1. CASE ts \in DOMAIN srv
      BY <1>3, <3>1 DEF DmInv
    <3>2. CASE ts \notin DOMAIN srv
      <4>1. ~Has(down, EditsOf(ts))
        BY <1>3, <3>2, NoneAbout, AboutOne
      <4>. QED
        BY <4>1 DEF Has, Leads
    <3>. QED
      BY <3>1, <3>2
  <2>2. Leads(q, EditsOf(ts), RowsOf(ts)) \/ Has(down, RowsOf(ts))
    <3>1. CASE Has(q, EditsOf(ts))
      <4>1. q # <<>> /\ ts \in DOMAIN srv
        BY <1>1, <3>1 DEF Has, Goes
      <4>. QED
        BY <1>2, <1>3, <4>1 DEF DmInv
    <3>2. CASE ~Has(q, EditsOf(ts))
      BY <3>2 DEF Has, Leads
    <3>. QED
      BY <3>1, <3>2
  <2>. QED
    BY <1>1, <2>1, <2>2, LeadsConcat
<1>6. ASSUME NEW ts \in DOMAIN srv' PROVE Apart(down', ReactsOf(ts), RowsOf(ts))
  <2>1. Apart(down, ReactsOf(ts), RowsOf(ts)) /\ (ts \notin DOMAIN srv => ~Has(down, ReactsOf(ts)))
    <3>1. ts \notin DOMAIN srv => ~Has(down, ReactsOf(ts))
      BY <1>3, NoneAbout, AboutOne
    <3>2. ~Has(down, ReactsOf(ts)) => Apart(down, ReactsOf(ts), RowsOf(ts))
      BY DEF Has, Apart
    <3>. QED
      BY <1>3, <3>1, <3>2 DEF DmInv
  <2>2. Apart(q, ReactsOf(ts), RowsOf(ts)) /\ (Has(q, RowsOf(ts)) => ts \notin DOMAIN srv)
    BY <1>1 DEF Goes
  <2>. QED
    BY <1>1, <2>1, <2>2, ApartConcat
<1>7. ASSUME NEW ts \in Held(db), Peer(ts)' PROVE ts <= db.cur["post"] \/ <<"edit", ts>> \in missed'
  <2>1. ts \in DOMAIN srv
    BY <1>7 DEF Goes, RowAppears, Peer
  <2>2. Peer(ts)
    BY <1>1, <1>7, <2>1 DEF Peer
  <2>. QED
    BY <1>2, <1>3, <2>2 DEF DmInv
<1>. QED
    BY <1>2, <1>4, <1>5, <1>6, <1>7 DEF DmInv

LEMMA GoesNews ==
    ASSUME UpdateInv, NEW q, Goes(q)
    PROVE  NewsInv'
<1>1. /\ \A i \in DOMAIN q : q[i] \in DownFrames /\ Current(q[i], srv')
      /\ \A A : Has(down', A) <=> (Has(down, A) \/ Has(q, A))
      /\ \A ts \in DOMAIN srv : ts \in Times /\ ts \in DOMAIN srv' /\ srv'[ts].from = srv[ts].from
      /\ \A ts \in DOMAIN srv' : ts \in Times /\ srv'[ts].edts \in Nat /\ srv'[ts].ets \in Nat
      /\ \A ts \in DOMAIN srv : srv'[ts].ets = srv[ts].ets \/ srv'[ts].ets > clock
    BY GoesParts
<1>2. /\ kind' = kind /\ db' = db /\ online' = online /\ missed \subseteq missed' /\ (~online => q = <<>>)
      /\ unsaved' = unsaved \/ unsaved' = Nothing \/ online
    BY DEF Goes
<1>3. /\ Led(db) \in Nat /\ Le(db) \in Nat /\ Led(db) <= clock /\ Le(db) <= clock
      /\ Raises(unsaved) \in Nat /\ Raises(unsaved) <= clock /\ Raises(Nothing) = 0
      /\ \A ts \in DOMAIN srv : /\ srv[ts].edts \in Nat /\ srv[ts].ets \in Nat
      /\ clock \in Nat /\ WordInv /\ NewsInv
    BY SyncNumbers DEF UpdateInv
<1>4. \A A : ~Has(<<>>, A)
    BY DEF Has
<1>5. Led(db)' = Led(db) /\ Le(db)' = Le(db)
    BY <1>2 DEF Led, Le
<1>6. \A n \in Nat : ~online /\ n > Raises(unsaved) => n > Raises(unsaved')
    BY <1>2, <1>3
<1>7. \A n \in Nat : ~online /\ n > clock => n > Led(db) /\ n > Le(db) /\ n > Raises(unsaved')
    BY <1>3, <1>6
<1>8. ASSUME NEW ts \in Held(db), Peer(ts)' PROVE BodyWaits(ts)'
  <2>1. ts \in DOMAIN srv
    BY <1>8 DEF Goes, RowAppears, Peer
  <2>2. Peer(ts) /\ BodyWaits(ts) /\ RowSpreads(q, ts)
    BY <1>1, <1>3, <1>8, <2>1 DEF Peer, NewsInv, Goes
  <2>3. CASE srv'[ts].edts = srv[ts].edts
    BY <1>1, <1>2, <1>3, <1>5, <1>6, <2>1, <2>2, <2>3 DEF BodyWaits
  <2>4. CASE srv'[ts].edts > clock /\ Has(q, EditsOf(ts))
    <3>1. Has(q, TellsOf(ts)) /\ online
      BY <1>2, <1>4, <2>4, AboutOne DEF Has
    <3>. QED
      BY <1>1, <1>2, <3>1 DEF BodyWaits
  <2>5. CASE srv'[ts].edts > clock /\ (~online \/ <<"edit", ts>> \in missed')
    BY <1>1, <1>2, <1>5, <1>7, <2>1, <2>5 DEF BodyWaits
  <2>. QED
    BY <2>2, <2>3, <2>4, <2>5 DEF RowSpreads, Spread
<1>9. ASSUME NEW ts \in DOMAIN srv', Heard(ts)', NEW x \in Times PROVE SayingWaits(ts, x)'
  <2>1. CASE ts \notin DOMAIN srv
    <3>1. srv'[ts].reacts = {} /\ x \notin db.emojis[ts]
      BY <1>1, <1>3, <2>1 DEF Goes, RowAppears, WordInv
    <3>. QED
      BY <1>2, <3>1 DEF SayingWaits, Agree
  <2>2. CASE ts \in DOMAIN srv /\ Heard(ts)
    <3>1. SayingWaits(ts, x) /\ RowSpreads(q, ts)
      BY <1>3, <2>2 DEF NewsInv, Goes
    <3>3. CASE x \in srv'[ts].reacts <=> x \in srv[ts].reacts
      <4>1. CASE Agree(ts, x)
        BY <1>2, <3>3, <4>1 DEF SayingWaits, Agree
      <4>2. CASE online /\ Has(down, SaysOf(kind, ts, x))
        BY <1>1, <1>2, <4>2 DEF SayingWaits
      <4>3. CASE ~online /\ srv[ts].ets > Le(db) /\ srv[ts].ets > Raises(unsaved)
        <5>1. srv'[ts].ets > Le(db) /\ srv'[ts].ets > Raises(unsaved')
          BY <1>1, <1>3, <1>6, <1>7, <2>2, <4>3
        <5>. QED
          BY <1>2, <1>5, <4>3, <5>1 DEF SayingWaits
      <4>4. CASE <<"react", ts>> \in missed
        BY <1>2, <4>4 DEF SayingWaits
      <4>. QED
        BY <3>1, <4>1, <4>2, <4>3, <4>4 DEF SayingWaits
    <3>4. CASE srv'[ts].ets > clock /\ Has(q, SaysOf(kind, ts, x))
      <4>1. online
        BY <1>2, <1>4, <3>4
      <4>. QED
        BY <1>1, <1>2, <3>4, <4>1 DEF SayingWaits
    <3>5. CASE srv'[ts].ets > clock /\ (~online \/ <<"react", ts>> \in missed')
      BY <1>1, <1>2, <1>5, <1>7, <3>5 DEF SayingWaits
    <3>. QED
      BY <3>1, <3>3, <3>4, <3>5 DEF RowSpreads, Spread
  <2>3. CASE ts \in DOMAIN srv /\ ~Heard(ts)
    <3>1. online /\ Has(q, RowsOf(ts))
      BY <1>1, <1>2, <1>9, <2>3 DEF Heard, Nothing
    <3>2. kind # "dm"
      BY <1>1, <2>3, <3>1 DEF Goes
    <3>3. kind = "channel"
      BY <3>2, SyncFacts DEF UpdateInv
    <3>4. CASE srv'[ts].ets > 0
      <4>1. Has(q, SaysOf(kind, ts, x))
        BY <1>1, <3>1, <3>3, <3>4, CurrentNow DEF Has
      <4>. QED
        BY <1>1, <1>2, <3>1, <4>1 DEF SayingWaits
    <3>5. CASE ~(srv'[ts].ets > 0)
      <4>1. srv'[ts].ets = srv[ts].ets
        BY <1>1, <1>3, <2>3, <3>5
      <4>2. x \notin srv[ts].reacts /\ x \notin db.emojis[ts]
        BY <1>1, <1>3, <2>3, <3>5, <4>1 DEF WordInv
      <4>3. ~(srv'[ts].ets > clock)
        BY <1>1, <1>3, <3>5
      <4>4. RowSpreads(q, ts)
        BY <2>3 DEF Goes
      <4>5. x \notin srv'[ts].reacts
        BY <4>2, <4>3, <4>4 DEF RowSpreads
      <4>. QED
        BY <1>2, <4>2, <4>5 DEF SayingWaits, Agree
    <3>. QED
      BY <3>4, <3>5
  <2>. QED
    BY <2>1, <2>2, <2>3
<1>. QED
    BY <1>2, <1>8, <1>9 DEF NewsInv

\* The server's rows after a step are rows of a server.
LEMMA ServerTyped ==
    ASSUME CursorInv, CursorInv'
    PROVE  /\ DOMAIN srv' \subseteq Times /\ \A ts \in DOMAIN srv' : srv'[ts] \in SrvRows
           /\ \A ts \in DOMAIN srv' : srv'[ts].edts \in Nat /\ srv'[ts].ets \in Nat
           /\ clock' \in Nat /\ clock \in Nat
<1>1. srv' \in UNION {[D -> SrvRows] : D \in SUBSET Times} /\ clock' \in Stamps0
    BY DEF CursorInv, SyncTypes
<1>2. PICK D \in SUBSET Times : srv' \in [D -> SrvRows]
    BY <1>1
<1>3. DOMAIN srv' = D
    BY <1>2
<1>4. \A r \in SrvRows : r.edts \in Nat /\ r.ets \in Nat
    BY SyncAssumption DEF SrvRows, Stamps0
<1>5. clock' \in Nat /\ clock \in Nat
    BY <1>1, SyncFacts, SyncAssumption DEF Stamps0
<1>6. \A ts \in DOMAIN srv' : srv'[ts] \in SrvRows
    BY <1>2, <1>3
<1>. QED
    BY <1>3, <1>4, <1>5, <1>6

LEMMA RelaySpreads ==
    ASSUME CursorInv, NEW f \in DownFrames, Relay(f)
    PROVE  \E q \in Seq(DownFrames) :
               /\ q = <<>> \/ q = <<f>>
               /\ down' = down \o q /\ (~online => q = <<>>) /\ (online /\ ~held => q = <<f>>)
               /\ UNCHANGED <<kind, db, online, unsaved>> /\ missed \subseteq missed'
               /\ f.t # "row" => \A A, m : f \in A /\ m \in Carries(f) => Spread(q, A, m)
<1>1. /\ down' = (IF online /\ ~held THEN Append(down, f) ELSE down)
      /\ missed' = (IF online /\ held /\ f.t # "row" THEN missed \union Carries(f) ELSE missed)
      /\ UNCHANGED <<kind, db, online, unsaved>>
    BY DEF Relay
<1>2. down \in Seq(DownFrames) /\ (~(online /\ ~held) => down = <<>>)
    BY DEF CursorInv, SyncTypes, LinkOff
<1>3. Append(down, f) = down \o <<f>> /\ down \o <<>> = down
    BY <1>2, AppendIsConcat, ConcatEmptySeq
<1>4. <<f>> \in Seq(DownFrames) /\ <<>> \in Seq(DownFrames)
    OBVIOUS
<1>5. CASE online /\ ~held
  <2>1. down' = down \o <<f>>
    BY <1>1, <1>3, <1>5
  <2>2. missed \subseteq missed'
    BY <1>1
  <2>3. \A A, m : f \in A => Spread(<<f>>, A, m)
    BY NoneAndOne DEF Spread
  <2>. QED
    BY <1>1, <1>4, <1>5, <2>1, <2>2, <2>3
<1>6. CASE ~(online /\ ~held)
  <2>1. down' = down \o <<>> /\ down = <<>>
    BY <1>1, <1>2, <1>3, <1>6
  <2>2. missed \subseteq missed'
    BY <1>1
  <2>3. f.t # "row" => \A A, m : m \in Carries(f) => Spread(<<>>, A, m)
    BY <1>1, <1>6, <2>1 DEF Spread
  <2>. QED
    BY <1>1, <1>4, <1>6, <2>1, <2>2, <2>3
<1>. QED
    BY <1>5, <1>6

\* Rows that stay as they are.
LEMMA SameRowSpreads ==
    ASSUME NEW ts \in DOMAIN srv', srv'[ts] = srv[ts], NEW q
    PROVE  RowSpreads(q, ts)
BY DEF RowSpreads

LEMMA GoesNothing ==
    ASSUME UpdateInv, UNCHANGED <<kind, db, online, down, srv, missed>>, clock' \in Nat, clock <= clock',
           unsaved' = unsaved \/ unsaved' = Nothing \/ online
    PROVE  Goes(<<>>)
<1>1. <<>> \in Seq(DownFrames) /\ DOMAIN <<>> = {}
    OBVIOUS
<1>2. down' = down \o <<>>
    BY ConcatEmptySeq, SyncFacts DEF UpdateInv
<1>3. kind = "dm" => \A ts \in Times : /\ ~Has(<<>>, RowsOf(ts)) /\ ~Has(<<>>, EditsOf(ts))
                                       /\ Apart(<<>>, ReactsOf(ts), RowsOf(ts))
    BY <1>1 DEF Has, Apart
<1>4. /\ DOMAIN srv' \subseteq Times
      /\ \A ts \in DOMAIN srv' : srv'[ts].edts \in 0 .. clock' /\ srv'[ts].ets \in 0 .. clock'
  <2>1. /\ \A ts \in DOMAIN srv : /\ srv[ts].edts \in Nat /\ srv[ts].ets \in Nat
                                  /\ srv[ts].edts <= clock /\ srv[ts].ets <= clock
        /\ clock \in Nat /\ DOMAIN srv \subseteq Times
    BY SyncNumbers, SyncFacts DEF UpdateInv
  <2>. QED
    BY <2>1
<1>5. \A ts \in DOMAIN srv : RowSpreads(<<>>, ts)
    BY SameRowSpreads
<1>. QED
    BY <1>1, <1>2, <1>3, <1>4, <1>5 DEF Goes

LEMMA PeerWritesGoes ==
    ASSUME UpdateInv, CursorInv', PeerWrites
    PROVE  \E q : Goes(q)
<1> DEFINE ts == clock + 1
           f == RowFrame(srv', ts, FALSE)
<1>1. /\ ts \in Times /\ ts \notin DOMAIN srv /\ ts \notin Held(db)
      /\ DOMAIN srv' = DOMAIN srv \union {ts} /\ srv'[ts] = NewRow("peer")
      /\ \A x \in DOMAIN srv : x # ts /\ srv'[x] = srv[x]
    BY PeerWritesRows DEF UpdateInv
<1>2. /\ DOMAIN srv' \subseteq Times /\ \A x \in DOMAIN srv' : srv'[x] \in SrvRows
      /\ \A x \in DOMAIN srv' : srv'[x].edts \in Nat /\ srv'[x].ets \in Nat
    BY ServerTyped DEF UpdateInv
<1>3. f \in RowFrames /\ f \in DownFrames
    BY <1>1, <1>2, FrameFacts DEF DownFrames
<1>4. Relay(f) /\ clock' = clock + 1 /\ clock \in Nat
    BY SyncFacts DEF PeerWrites, Tick, UpdateInv
<1>5. Current(f, srv') /\ f.t = "row" /\ f.ts = ts
    BY <1>1 DEF Current, RowFrame
<1> HIDE DEF f
<1>6. PICK q \in Seq(DownFrames) :
               /\ q = <<>> \/ q = <<f>>
               /\ down' = down \o q /\ (~online => q = <<>>) /\ (online /\ ~held => q = <<f>>)
               /\ UNCHANGED <<kind, db, online, unsaved>> /\ missed \subseteq missed'
    BY <1>3, <1>4, RelaySpreads DEF UpdateInv
<1>7. \A i \in DOMAIN q : q[i] = f
    BY <1>6
<1>8. \A x : /\ f \in RowsOf(x) <=> x = ts
             /\ f \notin EditsOf(x) /\ f \notin ReactsOf(x)
    BY <1>3, <1>5, FrameKinds
<1>9. \A x : /\ Has(q, RowsOf(x)) => x = ts
             /\ ~Has(q, EditsOf(x)) /\ Apart(q, ReactsOf(x), RowsOf(x))
    BY <1>7, <1>8 DEF Has, Apart
<1>10. \A x \in DOMAIN srv : RowSpreads(q, x)
    BY <1>1, SameRowSpreads
<1>11. RowAppears(q, ts)
  <2>1. kind = "dm" /\ online => Has(q, RowsOf(ts))
    <3>1. kind = "dm" => ~held
      BY DEF UpdateInv, OwnInv
    <3>. QED
      BY <1>6, <1>8, <3>1, NoneAndOne
  <2>. QED
    BY <1>1, <2>1 DEF RowAppears, NewRow
<1>12. \A x \in DOMAIN srv' : srv'[x].edts \in 0 .. clock' /\ srv'[x].ets \in 0 .. clock'
  <2>1. \A x \in DOMAIN srv : srv[x].edts <= clock /\ srv[x].ets <= clock
    BY DEF UpdateInv, StampInv
  <2>2. srv'[ts].edts = 0 /\ srv'[ts].ets = 0
    BY <1>1 DEF NewRow
  <2>. QED
    BY <1>1, <1>2, <1>4, <2>1, <2>2
<1>13. clock' \in Nat /\ clock <= clock'
    BY <1>4
<1>14. \A i \in DOMAIN q : Current(q[i], srv')
    BY <1>5, <1>7
<1>15. \A x \in DOMAIN srv' \ DOMAIN srv : RowAppears(q, x)
    BY <1>1, <1>11
<1>. QED
    BY <1>1, <1>2, <1>6, <1>9, <1>10, <1>12, <1>13, <1>14, <1>15 DEF Goes

\* The news of a row the server has: f is sent, the row is r.
LEMMA NewsGoes ==
    ASSUME UpdateInv, CursorInv', Tick, NEW f \in DownFrames, f.t # "row", Relay(f), f.ts \in DOMAIN srv,
           DOMAIN srv' = DOMAIN srv, \A x \in DOMAIN srv : x # f.ts => srv'[x] = srv[x],
           Current(f, srv'), srv'[f.ts].from = srv[f.ts].from,
           \/ srv'[f.ts].edts = srv[f.ts].edts
           \/ srv'[f.ts].edts = clock + 1 /\ f \in EditsOf(f.ts),
           \/ srv'[f.ts].ets = srv[f.ts].ets
           \/ srv'[f.ts].ets = clock + 1 /\ f \in StirsOf(f.ts),
           \A x \in Times : \/ x \in srv'[f.ts].reacts <=> x \in srv[f.ts].reacts
                            \/ srv'[f.ts].ets = clock + 1 /\ f \in SaysOf(kind, f.ts, x)
    PROVE  \E q : Goes(q)
<1>1. PICK q \in Seq(DownFrames) :
               /\ q = <<>> \/ q = <<f>>
               /\ down' = down \o q /\ (~online => q = <<>>)
               /\ UNCHANGED <<kind, db, online, unsaved>> /\ missed \subseteq missed'
               /\ \A A, m : f \in A /\ m \in Carries(f) => Spread(q, A, m)
    BY RelaySpreads DEF UpdateInv
<1>2. \A i \in DOMAIN q : q[i] = f
    BY <1>1
<1>3. \A x : /\ f \notin RowsOf(x) /\ (f \in EditsOf(x) => x = f.ts)
    BY FrameKinds
<1>4. \A x : ~Has(q, RowsOf(x)) /\ (Has(q, EditsOf(x)) => x \in DOMAIN srv) /\ Apart(q, ReactsOf(x), RowsOf(x))
    BY <1>2, <1>3 DEF Has, Apart
<1>5. clock' = clock + 1 /\ clock \in Nat /\ clock' \in Nat /\ clock <= clock'
    BY TickFacts DEF UpdateInv
<1>6. /\ f \in EditsOf(f.ts) => <<"edit", f.ts>> \in Carries(f)
      /\ f \in StirsOf(f.ts) => <<"react", f.ts>> \in Carries(f)
      /\ \A x : f \in SaysOf(kind, f.ts, x) => <<"react", f.ts>> \in Carries(f)
    BY FrameKinds DEF Carries
<1>7. RowSpreads(q, f.ts)
  <2>1. \/ srv'[f.ts].edts = srv[f.ts].edts
        \/ srv'[f.ts].edts > clock /\ Spread(q, EditsOf(f.ts), <<"edit", f.ts>>)
    BY <1>1, <1>5, <1>6
  <2>2. \/ srv'[f.ts].ets = srv[f.ts].ets
        \/ srv'[f.ts].ets > clock /\ Spread(q, StirsOf(f.ts), <<"react", f.ts>>)
    BY <1>1, <1>5, <1>6
  <2>3. clock + 1 > clock
    BY <1>5
  <2>4. \A x \in Times : \/ x \in srv'[f.ts].reacts <=> x \in srv[f.ts].reacts
                         \/ srv'[f.ts].ets > clock /\ Spread(q, SaysOf(kind, f.ts, x), <<"react", f.ts>>)
    BY <1>1, <1>6, <2>3
  <2>. QED
    BY <2>1, <2>2, <2>4 DEF RowSpreads
<1>8. \A x \in DOMAIN srv : RowSpreads(q, x)
    BY <1>7, SameRowSpreads
<1>9. \A x \in DOMAIN srv' : srv'[x].edts \in 0 .. clock' /\ srv'[x].ets \in 0 .. clock'
  <2>1. \A x \in DOMAIN srv : srv[x].edts <= clock /\ srv[x].ets <= clock
    BY DEF UpdateInv, StampInv
  <2>2. \A x \in DOMAIN srv' : srv'[x].edts \in Nat /\ srv'[x].ets \in Nat
    BY ServerTyped DEF UpdateInv
  <2>3. \A x \in DOMAIN srv' : srv'[x].edts <= clock + 1 /\ srv'[x].ets <= clock + 1
    <3> SUFFICES ASSUME NEW x \in DOMAIN srv PROVE srv'[x].edts <= clock + 1 /\ srv'[x].ets <= clock + 1
      OBVIOUS
    <3>1. /\ srv'[x].edts = srv[x].edts \/ srv'[x].edts = clock + 1
          /\ srv'[x].ets = srv[x].ets \/ srv'[x].ets = clock + 1
      OBVIOUS
    <3>2. srv[x].edts \in Nat /\ srv[x].ets \in Nat
      BY SyncNumbers DEF UpdateInv
    <3>. QED
      BY <1>5, <2>1, <3>1, <3>2
  <2>. QED
    BY <1>5, <2>2, <2>3
<1>10. DOMAIN srv' \subseteq Times
    BY ServerTyped DEF UpdateInv
<1>11. \A i \in DOMAIN q : Current(q[i], srv')
    BY <1>2
<1>12. \A x \in DOMAIN srv' \ DOMAIN srv : RowAppears(q, x)
    OBVIOUS
<1>. QED
    BY <1>1, <1>4, <1>5, <1>8, <1>9, <1>10, <1>11, <1>12 DEF Goes

LEMMA PeerEditsGoes ==
    ASSUME UpdateInv, CursorInv', PeerEdits
    PROVE  \E q : Goes(q)
<1>1. PICK ts \in DOMAIN srv : /\ Tick /\ srv' = [srv EXCEPT ![ts].edts = clock + 1]
                               /\ Relay(EditFrame(srv', ts, TRUE))
    BY DEF PeerEdits
<1>2. /\ DOMAIN srv' = DOMAIN srv /\ \A x \in DOMAIN srv : x # ts => srv'[x] = srv[x]
      /\ srv'[ts] = [srv[ts] EXCEPT !.edts = clock + 1]
    BY <1>1
<1>3. srv[ts] \in SrvRows
    BY SyncFacts DEF UpdateInv
<1>4. /\ srv'[ts].edts = clock + 1 /\ srv'[ts].from = srv[ts].from /\ srv'[ts].ets = srv[ts].ets
      /\ srv'[ts].reacts = srv[ts].reacts
    BY <1>2, <1>3 DEF SrvRows
<1>5. PICK f : f = EditFrame(srv', ts, TRUE)
    OBVIOUS
<1>6. ts \in Times /\ srv'[ts] \in SrvRows
    BY <1>2, ServerTyped DEF UpdateInv
<1>7. f \in EditFrames /\ f \in DownFrames
    BY <1>5, <1>6, FrameFacts DEF DownFrames
<1>8. f.t = "edit" /\ f.ts = ts /\ Current(f, srv')
    BY <1>2, <1>5 DEF EditFrame, Current
<1>9. f \in EditsOf(ts)
    BY <1>7, <1>8 DEF EditsOf
<1>. QED
    BY <1>1, <1>2, <1>4, <1>5, <1>7, <1>8, <1>9, NewsGoes

LEMMA PeerReactsGoes ==
    ASSUME UpdateInv, CursorInv', PeerReacts
    PROVE  \E q : Goes(q)
<1>1. PICK ts \in DOMAIN srv, add \in BOOLEAN :
          \E x \in {clock + 1} \union srv[ts].reacts :
              /\ x # 0 /\ (add <=> x = clock + 1)
              /\ Tick
              /\ srv' = [srv EXCEPT ![ts].reacts = IF add THEN @ \union {x} ELSE @ \ {x},
                                    ![ts].ets = clock + 1]
              /\ Relay(IF kind = "dm" THEN ReactsFrame(srv', ts)
                       ELSE [t |-> "react", ts |-> ts, x |-> x, add |-> add, ets |-> clock + 1])
    BY DEF PeerReacts
<1>2. PICK x \in {clock + 1} \union srv[ts].reacts :
              /\ Tick
              /\ srv' = [srv EXCEPT ![ts].reacts = IF add THEN @ \union {x} ELSE @ \ {x},
                                    ![ts].ets = clock + 1]
              /\ Relay(IF kind = "dm" THEN ReactsFrame(srv', ts)
                       ELSE [t |-> "react", ts |-> ts, x |-> x, add |-> add, ets |-> clock + 1])
    BY <1>1
<1>3. srv[ts] \in SrvRows /\ srv \in [DOMAIN srv -> SrvRows]
    BY SyncFacts DEF UpdateInv
<1>4. /\ DOMAIN srv' = DOMAIN srv /\ \A y \in DOMAIN srv : y # ts => srv'[y] = srv[y]
      /\ srv'[ts] = [srv[ts] EXCEPT !.reacts = IF add THEN @ \union {x} ELSE @ \ {x}, !.ets = clock + 1]
    BY <1>2, <1>3
<1>5. /\ srv'[ts].edts = srv[ts].edts /\ srv'[ts].from = srv[ts].from /\ srv'[ts].ets = clock + 1
      /\ srv'[ts].reacts = IF add THEN srv[ts].reacts \union {x} ELSE srv[ts].reacts \ {x}
    BY <1>3, <1>4 DEF SrvRows
<1>6. PICK f : f = IF kind = "dm" THEN ReactsFrame(srv', ts)
                   ELSE [t |-> "react", ts |-> ts, x |-> x, add |-> add, ets |-> clock + 1]
    OBVIOUS
<1>7. clock + 1 \in Stamps0 /\ clock + 1 > 0
    BY <1>2, TickFacts, SyncFacts DEF UpdateInv
<1>8. ts \in Times /\ srv'[ts] \in SrvRows /\ x \in Stamps0
    BY <1>3, <1>4, <1>7, ServerTyped DEF UpdateInv, SrvRows
<1>9. f.ts = ts /\ f \in DownFrames /\ f.t # "row" /\ Current(f, srv') /\ f \in StirsOf(ts)
  <2>1. CASE kind = "dm"
    <3>1. f = ReactsFrame(srv', ts)
      BY <1>6, <2>1
    <3>2. f \in ReactsFrames
      BY <1>8, <3>1, FrameFacts
    <3>3. f.t = "reacts" /\ f.ts = ts /\ f.reacts = srv'[ts].reacts /\ f.ets = srv'[ts].ets
      BY <3>1 DEF ReactsFrame
    <3>4. Current(f, srv')
      BY <1>4, <1>5, <1>7, <3>3 DEF Current
    <3>. QED
      BY <3>2, <3>3, <3>4 DEF DownFrames, StirsOf, ReactsOf
  <2>2. CASE kind # "dm"
    <3>1. f = [t |-> "react", ts |-> ts, x |-> x, add |-> add, ets |-> clock + 1]
      BY <1>6, <2>2
    <3>2. f \in ReactFrames
      BY <1>1, <1>7, <1>8, <3>1 DEF ReactFrames
    <3>3. f.t = "react" /\ f.ts = ts /\ f.x = x /\ f.add = add /\ f.ets = clock + 1
      BY <3>1
    <3>4. add <=> x \in srv'[ts].reacts
      BY <1>5
    <3>5. Current(f, srv')
      BY <1>4, <1>5, <1>7, <3>3, <3>4 DEF Current
    <3>. QED
      BY <3>2, <3>3, <3>5 DEF DownFrames, StirsOf
  <2>. QED
    BY <2>1, <2>2
<1>10. \A y \in Times : (y \in srv'[ts].reacts <=> y \in srv[ts].reacts) \/ f \in SaysOf(kind, ts, y)
  <2>1. CASE kind = "dm"
    <3>1. f.t = "reacts"
      BY <1>6, <2>1 DEF ReactsFrame
    <3>. QED
      BY <1>9, <3>1, FrameKinds
  <2>2. CASE kind # "dm"
    <3>1. f.t = "react" /\ f.x = x
      BY <1>6, <2>2
    <3>2. f \in SaysOf(kind, ts, x)
      BY <1>9, <3>1, FrameKinds
    <3>3. \A y : y # x => (y \in srv'[ts].reacts <=> y \in srv[ts].reacts)
      BY <1>5
    <3>. QED
      BY <3>2, <3>3
  <2>. QED
    BY <2>1, <2>2
<1>. QED
    BY <1>2, <1>4, <1>5, <1>6, <1>9, <1>10, NewsGoes

\* What the server makes of a frame of ours: the bodies of other stations stay,
\* and so do all reactions but our own.
LEMMA TakenWrites ==
    ASSUME CursorInv, OwnInv, StampInv, NEW f \in UpFrames, OwnRow(f), OwnFrame(f),
           f.t = "row" => f.ts \notin DOMAIN srv, NEW s, s = Taken(srv, f)
    PROVE  /\ DOMAIN s \subseteq Times
           /\ \A ts \in DOMAIN s : s[ts].edts \in 0 .. clock /\ s[ts].ets \in 0 .. clock
           /\ \A ts \in DOMAIN srv : /\ ts \in DOMAIN s /\ s[ts].from = srv[ts].from /\ s[ts].ets = srv[ts].ets
                                     /\ s[ts].edts = srv[ts].edts \/ ~Peer(ts)
                                     /\ \A x \in Times : x \in s[ts].reacts <=> x \in srv[ts].reacts
           /\ \A ts \in DOMAIN s \ DOMAIN srv : f.t = "row" /\ ts = f.ts /\ s[ts] = NewRow("me")
<1>1. /\ srv \in [DOMAIN srv -> SrvRows] /\ DOMAIN srv \subseteq Times /\ clock \in Nat /\ SyncTypes
      /\ \A ts \in DOMAIN srv : /\ srv[ts].edts \in Nat /\ srv[ts].ets \in Nat
                                /\ srv[ts].edts <= clock /\ srv[ts].ets <= clock
    BY SyncFacts, SyncNumbers
<1>2. \A ts \in DOMAIN srv : srv[ts].edts \in 0 .. clock /\ srv[ts].ets \in 0 .. clock
    BY <1>1
<1>3. CASE f.t = "row"
  <2>1. f \in RowFrames
    BY <1>3 DEF UpFrames, OwnFrames, EditFrames, OwnReacts, Requests
  <2>2. f.ts \in Times /\ NewRow("me") \in SrvRows
    BY <2>1, SyncAssumption DEF RowFrames, NewRow, SrvRows, Stamps0
  <2>3. s = With(srv, f.ts, NewRow("me"))
    BY <1>3 DEF Taken
  <2>4. /\ DOMAIN s = DOMAIN srv \union {f.ts} /\ s[f.ts] = NewRow("me")
        /\ \A x \in DOMAIN srv : x # f.ts => s[x] = srv[x]
    <3> DEFINE w == With(srv, f.ts, NewRow("me"))
    <3>1. /\ DOMAIN w = DOMAIN srv \union {f.ts} /\ w[f.ts] = NewRow("me")
          /\ \A x \in DOMAIN srv : x # f.ts => w[x] = srv[x]
      BY <1>1, <2>2, WithFacts
    <3> HIDE DEF w
    <3>. QED
      BY <2>3, <3>1 DEF w
  <2>5. NewRow("me").edts = 0 /\ NewRow("me").ets = 0 /\ 0 \in 0 .. clock
    BY <1>1 DEF NewRow
  <2>6. \A x \in DOMAIN srv : s[x] = srv[x]
    BY <1>3, <2>4
  <2>7. \A x \in DOMAIN s \ DOMAIN srv : x = f.ts
    BY <2>4
  <2>8. \A ts \in DOMAIN s : s[ts].edts \in 0 .. clock /\ s[ts].ets \in 0 .. clock
    BY <1>2, <2>4, <2>5, <2>6, <2>7
  <2>. QED
    BY <1>1, <1>3, <2>2, <2>4, <2>6, <2>7, <2>8
<1>4. CASE f.t = "edit" /\ f.ts \in DOMAIN srv
  <2>1. f \in EditFrames
    BY <1>4 DEF UpFrames, OwnFrames, RowFrames, OwnReacts, Requests
  <2>2. f.edts \in Nat /\ f.edts <= clock /\ ~Peer(f.ts)
    BY <1>4, <2>1, SyncAssumption DEF EditFrames, Stamps0, OwnFrame
  <2>3. s = [srv EXCEPT ![f.ts].edts = f.edts]
    BY <1>4 DEF Taken
  <2>4. DOMAIN s = DOMAIN srv /\ \A x \in DOMAIN srv : x # f.ts => s[x] = srv[x]
    BY <1>1, <2>3
  <2>5. s[f.ts] = [srv[f.ts] EXCEPT !.edts = f.edts]
    BY <1>1, <1>4, <2>3
  <2>6. srv[f.ts] \in SrvRows
    BY <1>1, <1>4
  <2>7. /\ s[f.ts].edts = f.edts /\ s[f.ts].from = srv[f.ts].from /\ s[f.ts].ets = srv[f.ts].ets
        /\ s[f.ts].reacts = srv[f.ts].reacts
    BY <2>5, <2>6 DEF SrvRows
  <2>8. f.edts \in 0 .. clock
    BY <1>1, <2>2
  <2>9. \A ts \in DOMAIN s : s[ts].edts \in 0 .. clock /\ s[ts].ets \in 0 .. clock
    BY <1>2, <1>4, <2>4, <2>7, <2>8
  <2>. QED
    BY <1>1, <2>2, <2>4, <2>7, <2>9
<1>5. CASE f.t = "react" /\ f.ts \in DOMAIN srv
  <2> DEFINE r == IF f.add THEN srv[f.ts].reacts \union {0} ELSE srv[f.ts].reacts \ {0}
  <2>1. s = [srv EXCEPT ![f.ts].reacts = IF f.add THEN @ \union {0} ELSE @ \ {0}]
    BY <1>5 DEF Taken
  <2>2. DOMAIN s = DOMAIN srv /\ \A x \in DOMAIN srv : x # f.ts => s[x] = srv[x]
    BY <1>1, <2>1
  <2>3. s[f.ts] = [srv[f.ts] EXCEPT !.reacts = r]
    BY <1>1, <1>5, <2>1
  <2>4. 0 \notin Times
    BY SyncAssumption DEF Times
  <2>5. \A x \in Times : x \in r <=> x \in srv[f.ts].reacts
    BY <2>4
  <2> HIDE DEF r
  <2>6. srv[f.ts] \in SrvRows
    BY <1>1, <1>5
  <2>7. /\ s[f.ts].edts = srv[f.ts].edts /\ s[f.ts].from = srv[f.ts].from /\ s[f.ts].ets = srv[f.ts].ets
        /\ s[f.ts].reacts = r
    BY <2>3, <2>6 DEF SrvRows
  <2>8. \A ts \in DOMAIN s : s[ts].edts \in 0 .. clock /\ s[ts].ets \in 0 .. clock
    BY <1>2, <1>5, <2>2, <2>7
  <2>. QED
    BY <1>1, <2>2, <2>5, <2>7, <2>8
<1>6. CASE ~(f.t = "row") /\ ~(f.t = "edit" /\ f.ts \in DOMAIN srv) /\ ~(f.t = "react" /\ f.ts \in DOMAIN srv)
  <2>1. s = srv
    BY <1>6 DEF Taken
  <2>. QED
    BY <1>1, <1>2, <2>1
<1>. QED
    BY <1>3, <1>4, <1>5, <1>6

\* A batch is the rows as the server has them.
LEMMA BatchCurrent ==
    ASSUME SyncTypes, NEW S \in SUBSET DOMAIN srv, NEW n \in Nat \ {0}
    PROVE  \A i \in DOMAIN Batch(S, n) : Current(Batch(S, n)[i], srv) /\ Batch(S, n)[i].t = "row"
<1> DEFINE o == Ascending(S)
           m == Len(o)
           k == IF n < m THEN m - n ELSE 0
           B == [i \in 1 .. m - k |-> RowFrame(srv, o[k + i], k > 0 /\ i = 1)]
<1>1. m \in Nat /\ DOMAIN o = 1 .. m /\ \A i \in 1 .. m : o[i] \in S
  <2>1. S \in SUBSET Nat /\ IsFiniteSet(S)
    BY ServerFacts, TimesFinite
  <2>. QED
    BY <2>1, AscendingFacts
<1>2. Batch(S, n) = B
    BY DEF Batch
<1> HIDE DEF m
<1>3. k \in Nat /\ k <= m
    BY <1>1
<1> HIDE DEF k, o
<1>4. \A i \in 1 .. m - k : k + i \in 1 .. m
    BY <1>1, <1>3
<1>5. \A i \in 1 .. m - k : B[i] = RowFrame(srv, o[k + i], k > 0 /\ i = 1) /\ o[k + i] \in DOMAIN srv
    BY <1>1, <1>4
<1>6. DOMAIN B = 1 .. m - k
    OBVIOUS
<1> HIDE DEF B
<1>7. \A gap : \A ts \in DOMAIN srv : Current(RowFrame(srv, ts, gap), srv) /\ RowFrame(srv, ts, gap).t = "row"
    BY DEF Current, RowFrame
<1>. QED
    BY <1>2, <1>5, <1>6, <1>7

\* Nothing of the server's but a row or a change of ours is new, and q is sent back.
LEMMA TakesGoes ==
    ASSUME UpdateInv, NEW f \in UpFrames, OwnRow(f), UpFrame(f), f # unsaved, srv' = Taken(srv, f),
           NEW q \in Seq(DownFrames), down' = down \o q, online,
           UNCHANGED <<kind, clock, db, unsaved, online, missed>>,
           \A i \in DOMAIN q : Current(q[i], srv) /\ f.t # "row" /\ kind = "channel" /\ srv' = srv
    PROVE  Goes(q)
<1>1. CursorInv /\ OwnInv /\ StampInv /\ clock \in Nat /\ kind \in {"channel", "dm"}
    BY SyncFacts DEF UpdateInv
<1>2. OwnFrame(f) /\ (f.t = "row" => f.ts \notin DOMAIN srv /\ f.ts <= db.cur["post"])
    BY DEF UpFrame
<1>3. /\ DOMAIN srv' \subseteq Times
      /\ \A ts \in DOMAIN srv' : srv'[ts].edts \in 0 .. clock /\ srv'[ts].ets \in 0 .. clock
      /\ \A ts \in DOMAIN srv : /\ ts \in DOMAIN srv' /\ srv'[ts].from = srv[ts].from /\ srv'[ts].ets = srv[ts].ets
                                /\ srv'[ts].edts = srv[ts].edts \/ ~Peer(ts)
                                /\ \A x \in Times : x \in srv'[ts].reacts <=> x \in srv[ts].reacts
      /\ \A ts \in DOMAIN srv' \ DOMAIN srv : f.t = "row" /\ ts = f.ts /\ srv'[ts] = NewRow("me")
    BY <1>1, <1>2, TakenWrites
<1>4. \A ts \in DOMAIN srv : RowSpreads(q, ts)
    BY <1>3 DEF RowSpreads
<1>5. \A ts \in DOMAIN srv' \ DOMAIN srv : RowAppears(q, ts)
  <2>1. /\ NewRow("me").edts = 0 /\ NewRow("me").ets = 0 /\ NewRow("me").reacts = {}
        /\ NewRow("me").from # "peer"
    BY DEF NewRow
  <2>. QED
    BY <1>2, <1>3, <2>1 DEF RowAppears
<1>6. kind = "dm" => q = <<>>
  <2>1. kind = "dm" => DOMAIN q = {}
    OBVIOUS
  <2>2. DOMAIN q = 1 .. Len(q) /\ Len(q) \in Nat
    BY LenProperties
  <2>3. DOMAIN q = {} => Len(q) = 0
    BY <2>2
  <2>. QED
    BY <2>1, <2>3, EmptySeq
<1>7. kind = "dm" => \A ts \in Times : /\ Has(q, RowsOf(ts)) => ts \notin DOMAIN srv
                                       /\ Has(q, EditsOf(ts)) => ts \in DOMAIN srv
                                       /\ Apart(q, ReactsOf(ts), RowsOf(ts))
    BY <1>6 DEF Has, Apart
<1>8. \A i \in DOMAIN q : Current(q[i], srv')
    OBVIOUS
<1>9. clock' \in Nat /\ clock <= clock'
    BY <1>1
<1>. QED
    BY <1>3, <1>4, <1>5, <1>7, <1>8, <1>9 DEF Goes

LEMMA ServerTakesGoes ==
    ASSUME UpdateInv, ServerTakes
    PROVE  \E q : Goes(q)
<1>0. PICK f : f = up[1]
    OBVIOUS
<1>1. /\ up # <<>> /\ f # unsaved /\ up' = Tail(up) /\ srv' = Taken(srv, f)
      /\ UNCHANGED <<kind, clock, db, unsaved, online, since, missed>>
    BY <1>0, HeadUp DEF ServerTakes, UpdateInv
<1>2. \/ /\ held /\ f.t = "cu"
         /\ down' = down \o Batch({ts \in DOMAIN srv : ts > since}, f.n)
      \/ /\ ~held /\ f.t = "cpb"
         /\ down' = down \o Batch(DOMAIN srv, f.n)
      \/ UNCHANGED down
    BY <1>0, <1>1, HeadUp DEF ServerTakes, UpdateInv
<1>3. /\ SyncTypes /\ f \in UpFrames /\ OwnRow(f) /\ online /\ UpFrame(f)
      /\ down \in Seq(DownFrames)
  <2>1. CursorInv /\ OwnInv
    BY DEF UpdateInv
  <2>2. f \in UpFrames /\ OwnRow(f) /\ online /\ 1 \in DOMAIN up
    BY <1>0, <1>1, <2>1, HeadUp
  <2>. QED
    BY <1>0, <2>1, <2>2, SyncFacts DEF OwnInv
<1>4. ASSUME f.t \in {"cu", "cpb"}, NEW S \in SUBSET DOMAIN srv, down' = down \o Batch(S, f.n)
      PROVE  \E q : Goes(q)
  <2>1. f.n \in Nat \ {0}
    BY <1>3, <1>4, SyncAssumption DEF UpFrames, OwnFrames, RowFrames, EditFrames, OwnReacts, Requests
  <2>2. PICK q : q = Batch(S, f.n)
    OBVIOUS
  <2>3. q \in Seq(DownFrames)
    BY <1>3, <2>1, <2>2, BatchFacts
  <2>4. \A i \in DOMAIN q : Current(q[i], srv)
    BY <1>3, <2>1, <2>2, BatchCurrent
  <2>5. kind = "channel" /\ srv' = srv
    BY <1>1, <1>3, <1>4 DEF UpFrame, OwnFrame, Taken
  <2>6. Goes(q)
    BY <1>1, <1>3, <1>4, <2>2, <2>3, <2>4, <2>5, TakesGoes
  <2>. QED
    BY <2>6
<1>5. CASE UNCHANGED down
  <2>1. <<>> \in Seq(DownFrames) /\ DOMAIN <<>> = {} /\ down' = down \o <<>>
    BY <1>3, <1>5, ConcatEmptySeq
  <2>2. Goes(<<>>)
    BY <1>1, <1>3, <2>1, TakesGoes
  <2>. QED
    BY <2>2
<1>. QED
    BY <1>2, <1>4, <1>5

LEMMA WritesGoes ==
    ASSUME UpdateInv, NEW f, Writes(f)
    PROVE  Goes(<<>>)
<1>1. UNCHANGED <<kind, db, online, down, srv, missed>> /\ online /\ Tick
    BY DEF Writes, serverVars
<1>2. clock' \in Nat /\ clock <= clock'
    BY <1>1, TickFacts DEF UpdateInv
<1>. QED
    BY <1>1, <1>2, GoesNothing

\* The steps that send something back or nothing, and leave the store alone.
QuietStep == \/ PeerWrites \/ PeerEdits \/ PeerReacts \/ ServerTakes
             \/ WeWrite \/ WeEdit \/ WeReact \/ WriteFails \/ Asks

LEMMA QuietKeeps ==
    ASSUME UpdateInv, CursorInv', QuietStep \/ UNCHANGED syncVars
    PROVE  StampInv' /\ WordInv' /\ DmInv' /\ NewsInv'
<1>0. clock \in Nat /\ clock <= clock
    BY SyncFacts DEF UpdateInv
<1>1. \E q : Goes(q)
  <2>1. CASE PeerWrites
    BY <2>1, PeerWritesGoes
  <2>2. CASE PeerEdits
    BY <2>2, PeerEditsGoes
  <2>3. CASE PeerReacts
    BY <2>3, PeerReactsGoes
  <2>4. CASE ServerTakes
    BY <2>4, ServerTakesGoes
  <2>5. CASE WeWrite
    BY <2>5, WritesGoes DEF WeWrite
  <2>6. CASE WeEdit
    BY <2>6, WritesGoes DEF WeEdit
  <2>7. CASE WeReact
    BY <2>7, WritesGoes DEF WeReact
  <2>8. CASE WriteFails
    BY <1>0, <2>8, GoesNothing DEF WriteFails, linkVars, serverVars
  <2>9. CASE Asks
    BY <1>0, <2>9, GoesNothing DEF Asks, serverVars
  <2>10. CASE UNCHANGED syncVars
    BY <1>0, <2>10, GoesNothing DEF syncVars, linkVars, serverVars
  <2>. QED
    BY <2>1, <2>2, <2>3, <2>4, <2>5, <2>6, <2>7, <2>8, <2>9, <2>10 DEF QuietStep
<1>2. PICK q : Goes(q)
    BY <1>1
<1>. QED
    BY <1>2, GoesStamp, GoesWord, GoesDm, GoesNews

\* What a handler or an operation may make of the store, as far as it has come:
\* what is new comes from what is on its way, or it is ours.
Moves(d) ==
    /\ Grown(db, d) /\ StoreStamped(d) /\ OwnStore(d)
    /\ \A ts \in Held(d) \ Held(db) : Has(down, RowsOf(ts)) \/ (unsaved.t = "row" /\ unsaved.ts = ts /\ ~Peer(ts))
    /\ \A ts \in Held(db) : Peer(ts) => d.rows[ts].body = db.rows[ts].body \/ Has(down, TellsOf(ts))
    /\ \A ts \in Times, x \in Times :
           (x \in d.emojis[ts] <=> x \in db.emojis[ts]) \/ Has(down, SaysOf(kind, ts, x))
    /\ ~online => \A n \in Nat : n > Raises(unsaved) => /\ n > Led(db) => n > Led(d)
                                                        /\ n > Le(db) => n > Le(d)

\* The stamps that a frame of ours and one from the server write.
LEMMA OwnStamps ==
    ASSUME CursorInv, OwnInv, unsaved # Nothing
    PROVE  /\ SetsEdts(unsaved) \in Nat /\ SetsEdts(unsaved) <= clock /\ SetsEdts(unsaved) <= Raises(unsaved)
           /\ OwnEts(unsaved) \in Nat /\ OwnEts(unsaved) <= clock /\ OwnEts(unsaved) <= Raises(unsaved)
           /\ Raises(unsaved) \in Nat /\ (unsaved.t = "row" => Raises(unsaved) = unsaved.ts)
<1>1. clock \in Nat /\ unsaved \in OwnFrames /\ OwnFrame(unsaved)
    BY SyncFacts DEF OwnInv
<1>2. unsaved.ts \in Nat /\ (unsaved.t = "edit" => unsaved.edts \in Nat)
    BY <1>1, FrameNats
<1>3. CASE unsaved.t = "row"
    BY <1>1, <1>2, <1>3 DEF SetsEdts, OwnEts, Raises, OwnFrame
<1>4. CASE unsaved.t = "edit"
    BY <1>1, <1>2, <1>4 DEF SetsEdts, OwnEts, Raises, OwnFrame, Stamp
<1>5. CASE unsaved.t = "react"
    BY <1>1, <1>2, <1>5 DEF SetsEdts, OwnEts, Raises, OwnFrame
<1>6. CASE unsaved.t \notin {"row", "edit", "react"}
    BY <1>1, <1>6 DEF SetsEdts, OwnEts, Raises
<1>. QED
    BY <1>3, <1>4, <1>5, <1>6

LEMMA ComingStamps ==
    ASSUME CursorInv, NEW f \in DownFrames, DownStamped(f)
    PROVE  /\ SetsEdts(f) \in Nat /\ SetsEdts(f) <= clock
           /\ SetsEts(f) \in Nat /\ SetsEts(f) <= clock
<1>1. clock \in Nat
    BY SyncFacts
<1>2. f.t = "edit" => Stamp(f.edts, clock) \in Nat /\ Stamp(f.edts, clock) <= clock
    BY <1>1, DownTypes DEF Stamp, DownStamped
<1>3. f.t = "row" => f.body \in Nat /\ f.body <= clock
    BY DownTypes DEF DownStamped
<1>4. f.t # "edit" => f.ets \in Nat /\ f.ets <= clock
    BY DownTypes DEF DownStamped
<1>5. SetsEdts(f) = (IF f.t = "row" THEN f.body ELSE IF f.t = "edit" THEN Stamp(f.edts, clock) ELSE 0)
    BY DEF SetsEdts
<1>. QED
    BY <1>1, <1>2, <1>3, <1>4, <1>5 DEF SetsEts

LEMMA WrittenMoves ==
    ASSUME UpdateInv, NEW d, WrittenTo(d)
    PROVE  /\ Moves(d) /\ OthersAlone(db, d)
           /\ \A ts \in Held(d) \ Held(db) : unsaved.t = "row" /\ unsaved.ts = ts /\ ~Peer(ts)
<1>1. /\ CursorInv /\ OwnInv /\ StampInv /\ db \in Stores /\ clock \in Nat
      /\ unsaved # Nothing /\ unsaved \in OwnFrames /\ OwnFrame(unsaved) /\ OwnRow(unsaved)
    BY SyncFacts DEF UpdateInv, WrittenTo, OwnInv, CursorInv, UpRows
<1>2. /\ Came(db, d, unsaved) /\ Marked(db, d, SetsEdts(unsaved), OwnEts(unsaved), FALSE)
      /\ LeftAlone(db, d, unsaved) /\ OthersAlone(db, d)
    BY DEF WrittenTo
<1>3. /\ Grown(db, d) /\ d \in Stores /\ d.cur["post"] \in Nat
      /\ \A x \in Held(d) : x <= clock
      /\ d.cur["post"] # 0 => d.cur["post"] \in Held(d)
    BY <1>1, <1>2, BecomesFacts DEF Becomes
<1>4. /\ SetsEdts(unsaved) \in Nat /\ SetsEdts(unsaved) <= clock /\ SetsEdts(unsaved) <= Raises(unsaved)
      /\ OwnEts(unsaved) \in Nat /\ OwnEts(unsaved) <= clock /\ OwnEts(unsaved) <= Raises(unsaved)
      /\ Raises(unsaved) \in Nat /\ (unsaved.t = "row" => Raises(unsaved) = unsaved.ts)
    BY <1>1, OwnStamps
<1>5. StoreStamped(d)
  <2>1. d.cur["post"] <= clock
    BY <1>1, <1>3
  <2>. QED
    BY <1>1, <1>2, <1>3, <1>4, <2>1, MarkedStamped DEF StampInv
<1>6. \A ts \in Held(d) \ Held(db) : unsaved.t = "row" /\ unsaved.ts = ts
    BY <1>2 DEF Came, SameRowsHeld, RowIsHeld
<1>7. OwnStore(d)
    BY <1>1, OwnStoreKeeps
<1>8. \A ts \in Held(d) \ Held(db) : ~Peer(ts)
    BY <1>1, <1>6 DEF OwnRow, Peer
<1>9. \A ts \in Held(db) : Peer(ts) => d.rows[ts].body = db.rows[ts].body
  <2> SUFFICES ASSUME NEW ts \in Held(db), Peer(ts) PROVE d.rows[ts].body = db.rows[ts].body
    OBVIOUS
  <2>1. unsaved.t = "row" => unsaved.ts # ts
    BY <1>1 DEF OwnRow, Peer
  <2>2. unsaved.t = "edit" => unsaved.ts # ts
    BY <1>1 DEF OwnFrame
  <2>. QED
    BY <1>2, <2>1, <2>2 DEF LeftAlone
<1>10. ASSUME NEW n \in Nat, n > Raises(unsaved)
       PROVE  (n > Led(db) => n > Led(d)) /\ (n > Le(db) => n > Le(d))
  <2>1. PICK M \in Nat : n = M + 1
    <3>1. n - 1 \in Nat /\ n = (n - 1) + 1
      BY <1>4, <1>10
    <3>. QED
      BY <3>1
  <2>2. \A ts \in Held(d) \ Held(db) : ts <= M
    BY <1>4, <1>6, <1>10, <2>1
  <2>3. SetsEdts(unsaved) <= M /\ OwnEts(unsaved) <= M
    BY <1>4, <1>10, <2>1
  <2>4. (Led(db) <= M => Led(d) <= M) /\ (Le(db) <= M => Le(d) <= M)
    BY <1>1, <1>2, <1>3, <1>4, <2>1, <2>2, <2>3, CursorsGrow
  <2>5. Led(db) \in Nat /\ Le(db) \in Nat /\ Led(d) \in Nat /\ Le(d) \in Nat
    BY <1>1, <1>3, <1>5, CursorsClocked, SyncNumbers
  <2>. QED
    BY <2>1, <2>4, <2>5
<1>. QED
    BY <1>2, <1>3, <1>5, <1>6, <1>7, <1>8, <1>9, <1>10 DEF Moves, OthersAlone

LEMMA HandledMoves ==
    ASSUME UpdateInv, NEW d, HandledTo(d)
    PROVE  /\ Moves(d) /\ SaidAlone(db, d, down[1]) /\ LeftAlone(db, d, down[1])
           /\ \A ts \in Held(d) \ Held(db) : down[1] \in RowsOf(ts)
           /\ down[1] \in DownFrames /\ DownStamped(down[1]) /\ 1 \in DOMAIN down
<1>1. /\ CursorInv /\ OwnInv /\ StampInv /\ db \in Stores /\ clock \in Nat
      /\ down # <<>> /\ down[1] \in DownFrames /\ online
    BY SyncFacts, HandleSteps DEF UpdateInv, HandledTo
<1>2. PICK f : f = down[1]
    OBVIOUS
<1>3. /\ 1 \in DOMAIN down /\ DownStamped(f) /\ f \in DownFrames
    BY <1>1, <1>2, HandledBecomes DEF StampInv
<1>4. /\ Came(db, d, f) /\ \E G \in BOOLEAN : Marked(db, d, SetsEdts(f), SetsEts(f), G)
      /\ LeftAlone(db, d, f) /\ SaidAlone(db, d, f)
    BY <1>2 DEF HandledTo
<1>5. PICK G \in BOOLEAN : Marked(db, d, SetsEdts(f), SetsEts(f), G)
    BY <1>4
<1>6. /\ Grown(db, d) /\ d \in Stores /\ d.cur["post"] \in Nat
      /\ \A x \in Held(d) : x <= clock
      /\ d.cur["post"] # 0 => d.cur["post"] \in Held(d)
    BY <1>1, <1>2, <1>4, BecomesFacts DEF Becomes
<1>7. StoreStamped(d)
  <2>1. d.cur["post"] <= clock
    BY <1>1, <1>6
  <2>2. /\ SetsEdts(f) \in Nat /\ SetsEdts(f) <= clock
        /\ SetsEts(f) \in Nat /\ SetsEts(f) <= clock
    BY <1>1, <1>3, ComingStamps
  <2>. QED
    BY <1>1, <1>5, <1>6, <2>1, <2>2, MarkedStamped DEF StampInv
<1>8. OwnStore(d)
    BY <1>1, OwnStoreKeeps
<1>9. \A ts : /\ f \in RowsOf(ts) <=> (f.t = "row" /\ f.ts = ts)
              /\ f \in TellsOf(ts) <=> (f.t \in {"row", "edit"} /\ f.ts = ts)
    BY <1>3, FrameKinds
<1>10. \A ts \in Held(d) \ Held(db) : f \in RowsOf(ts)
    BY <1>4, <1>9 DEF Came, SameRowsHeld, RowIsHeld
<1>11. \A A : f \in A => Has(down, A)
    BY <1>2, <1>3 DEF Has
<1>12. \A ts \in Held(db) : d.rows[ts].body = db.rows[ts].body \/ Has(down, TellsOf(ts))
    BY <1>4, <1>9, <1>11 DEF LeftAlone
<1>13. \A ts \in Times, x \in Times :
           (x \in d.emojis[ts] <=> x \in db.emojis[ts]) \/ Has(down, SaysOf(kind, ts, x))
    BY <1>4, <1>11 DEF SaidAlone
<1>. QED
    BY <1>1, <1>2, <1>3, <1>4, <1>6, <1>7, <1>8, <1>10, <1>11, <1>12, <1>13 DEF Moves

LEMMA StandsMoves ==
    ASSUME UpdateInv
    PROVE  Moves(db)
<1>1. db \in Stores /\ StoreStamped(db) /\ OwnStore(db)
    BY SyncFacts DEF UpdateInv, StampInv, OwnInv
<1>2. Grown(db, db)
    BY <1>1, StoreFacts DEF Grown
<1>. QED
    BY <1>1, <1>2 DEF Moves

\* What such a store says of the rows, whatever else changes.
LEMMA MovesFacts ==
    ASSUME UpdateInv, NEW d, Moves(d)
    PROVE  /\ db.cur["post"] \in Nat /\ d.cur["post"] \in Nat /\ db.cur["post"] <= d.cur["post"]
           /\ Held(db) \subseteq Held(d) /\ Held(d) \subseteq Times /\ d \in Stores
           /\ \A ts \in Times : ts \in Nat
           /\ \A ts \in Times, x \in Times : x \in d.emojis[ts] => ts \in DOMAIN srv /\ srv[ts].ets > 0
<1>1. db \in Stores /\ d \in Stores /\ CursorInv /\ StampInv /\ WordInv /\ Grown(db, d)
    BY SyncFacts DEF UpdateInv, Moves, Grown
<1>2. db.cur["post"] \in Nat /\ d.cur["post"] \in Nat /\ Held(d) \subseteq Times
    BY <1>1, StoreFacts DEF Cursors
<1>3. db.cur["post"] <= d.cur["post"] /\ Held(db) \subseteq Held(d)
    BY <1>1 DEF Grown, Cursors
<1>4. ASSUME NEW ts \in Times, NEW x \in Times, x \in d.emojis[ts] PROVE ts \in DOMAIN srv /\ srv[ts].ets > 0
  <2>1. CASE x \in db.emojis[ts]
    BY <1>1, <2>1 DEF WordInv
  <2>2. CASE Has(down, SaysOf(kind, ts, x))
    <3>1. ts \in DOMAIN srv
      BY <1>1, <2>2, NoneAbout, AboutOne
    <3>. QED
      BY <1>1, <2>2, <3>1 DEF WordInv
  <2>. QED
    BY <1>4, <2>1, <2>2 DEF Moves
<1>5. \A ts \in Times : ts \in Nat
    BY <1>1, SyncFacts
<1>. QED
    BY <1>1, <1>2, <1>3, <1>4, <1>5

\* What is on its way stays there while the store becomes another.
LEMMA MovesStamp ==
    ASSUME UpdateInv, Moves(db'), UNCHANGED <<clock, down, srv>>
    PROVE  StampInv'
<1>1. StampInv /\ StoreStamped(db')
    BY DEF UpdateInv, Moves
<1>2. StoreStamped(db)'
    BY <1>1 DEF StoreStamped
<1>3. (\A i \in DOMAIN down : DownStamped(down[i]))'
    BY <1>1 DEF StampInv, DownStamped
<1>. QED
    BY <1>1, <1>2, <1>3 DEF StampInv

LEMMA MovesWord ==
    ASSUME UpdateInv, Moves(db'), UNCHANGED <<kind, down, srv>>
    PROVE  WordInv'
<1>1. WordInv
    BY DEF UpdateInv
<1>2. \A ts \in Times, x \in Times : x \in db'.emojis[ts] => ts \in DOMAIN srv /\ srv[ts].ets > 0
    BY MovesFacts
<1>. QED
    BY <1>1, <1>2 DEF WordInv, ToldNow, StirredNow, SaidNow, Peer

\* An operation of ours is written: our own row, body or reaction.
LEMMA WePersistKept ==
    ASSUME UpdateInv, WePersist
    PROVE  StampInv' /\ WordInv' /\ DmInv' /\ NewsInv'
<1>1. /\ WrittenTo(db') /\ unsaved' = Nothing /\ CursorInv /\ OwnInv
      /\ UNCHANGED <<kind, clock, online, up, down, srv, missed>>
    BY WePersistSteps DEF UpdateInv
<1>2. /\ Moves(db') /\ OthersAlone(db, db')
      /\ \A ts \in Held(db') \ Held(db) : unsaved.t = "row" /\ unsaved.ts = ts /\ ~Peer(ts)
    BY <1>1, WrittenMoves
<1>3. /\ db.cur["post"] \in Nat /\ db'.cur["post"] \in Nat /\ db.cur["post"] <= db'.cur["post"]
      /\ Held(db) \subseteq Held(db') /\ Held(db') \subseteq Times /\ \A ts \in Times : ts \in Nat
    BY <1>2, MovesFacts
<1>4. DmInv /\ NewsInv /\ StampInv
    BY DEF UpdateInv
<1>5. /\ Led(db) \in Nat /\ Le(db) \in Nat /\ Raises(unsaved) \in Nat /\ Raises(Nothing) = 0
      /\ \A ts \in DOMAIN srv : srv[ts].edts \in Nat /\ srv[ts].ets \in Nat
    BY <1>1, <1>4, SyncNumbers
<1>6. \A ts \in DOMAIN srv : ts \in Times
    BY <1>1, SyncFacts
<1>7. \A ts \in Times : ts <= db.cur["post"] => ts <= db'.cur["post"]
    BY <1>3
<1>8. DmInv'
  <2>1. ASSUME kind = "dm", NEW ts \in DOMAIN srv
        PROVE  /\ online => ts <= db'.cur["post"] \/ Has(down, RowsOf(ts))
               /\ ts <= db'.cur["post"] \/ Leads(down, EditsOf(ts), RowsOf(ts))
               /\ Apart(down, ReactsOf(ts), RowsOf(ts))
    BY <1>4, <1>6, <1>7, <2>1 DEF DmInv
  <2>2. ASSUME kind = "dm", NEW ts \in Held(db'), Peer(ts)
        PROVE  ts <= db'.cur["post"] \/ <<"edit", ts>> \in missed
    BY <1>2, <1>3, <1>4, <1>7, <2>2 DEF DmInv
  <2>. QED
    BY <1>1, <2>1, <2>2 DEF DmInv, Peer
<1>9. \A n \in Nat : ~online /\ n > Raises(unsaved) =>
          n > Raises(Nothing) /\ (n > Led(db) => n > Led(db')) /\ (n > Le(db) => n > Le(db'))
    BY <1>2, <1>5 DEF Moves
<1>10. Led(db)' = Led(db') /\ Le(db)' = Le(db')
    BY <1>1 DEF Led, Le, Floor, Gaps, Held
<1>11. ASSUME NEW ts \in Held(db'), Peer(ts) PROVE BodyWaits(ts)'
  <2>1. ts \in Held(db) /\ BodyWaits(ts) /\ ts \in DOMAIN srv
    BY <1>2, <1>4, <1>11 DEF NewsInv, Peer
  <2>2. db'.rows[ts].body = db.rows[ts].body \/ Has(down, TellsOf(ts))
    BY <1>2, <1>11, <2>1 DEF Moves
  <2>3. down # <<>> => online
    BY <1>1 DEF CursorInv, LinkOff
  <2>4. Has(down, TellsOf(ts)) => online
    BY <2>3 DEF Has
  <2>. QED
    BY <1>1, <1>5, <1>9, <1>10, <2>1, <2>2, <2>4 DEF BodyWaits
<1>12. ASSUME NEW ts \in DOMAIN srv, Heard(ts)', NEW x \in Times PROVE SayingWaits(ts, x)'
  <2>1. Heard(ts)
    <3>1. CASE ts \in Held(db') \ Held(db)
      <4>1. unsaved.t = "row" /\ unsaved.ts = ts
        BY <1>2, <3>1
      <4>2. ~online
        BY <1>1, <4>1 DEF OwnInv
      <4>. QED
        BY <4>1, <4>2 DEF Heard
    <3>2. CASE ts \notin Held(db') \ Held(db)
      <4>1. ~(unsaved'.t = "row")
        BY <1>1 DEF Nothing
      <4>2. ts > db'.cur["post"] => ts > db.cur["post"]
        BY <1>3, <1>6
      <4>. QED
        BY <1>1, <1>12, <3>2, <4>1, <4>2 DEF Heard
    <3>. QED
      BY <3>1, <3>2
  <2>2. SayingWaits(ts, x)
    BY <1>4, <2>1 DEF NewsInv
  <2>3. x \in db'.emojis[ts] <=> x \in db.emojis[ts]
    BY <1>2, <1>6 DEF OthersAlone
  <2>. QED
    BY <1>1, <1>5, <1>9, <1>10, <2>2, <2>3 DEF SayingWaits, Agree
<1>13. NewsInv'
    BY <1>1, <1>11, <1>12 DEF NewsInv, Peer
<1>. QED
    BY <1>1, <1>2, <1>8, <1>13, MovesStamp, MovesWord

\* The link goes: what was on its way is remembered as missed, and nothing of the
\* server's has changed but by what we were writing.
LEMMA LossFacts ==
    ASSUME UpdateInv, LossOfLink
    PROVE  /\ Moves(db') /\ UNCHANGED <<kind, clock>> /\ unsaved' \in {unsaved, Nothing}
           /\ ~online' /\ down' = <<>> /\ missed \subseteq missed'
           /\ DOMAIN srv' \subseteq Times
           /\ \A ts \in DOMAIN srv' : srv'[ts].edts \in 0 .. clock /\ srv'[ts].ets \in 0 .. clock
           /\ \A ts \in DOMAIN srv : /\ ts \in DOMAIN srv' /\ srv'[ts].from = srv[ts].from
                                     /\ srv'[ts].ets = srv[ts].ets
                                     /\ srv'[ts].edts = srv[ts].edts \/ ~Peer(ts)
                                     /\ \A x \in Times : x \in srv'[ts].reacts <=> x \in srv[ts].reacts
           /\ \A ts \in DOMAIN srv' \ DOMAIN srv : srv'[ts] = NewRow("me")
           /\ \A ts : Has(down, TellsOf(ts)) => <<"edit", ts>> \in missed'
           /\ \A ts : Has(down, StirsOf(ts)) => <<"react", ts>> \in missed'
<1>1. CursorInv /\ OwnInv /\ StampInv
    BY DEF UpdateInv
<1>2. /\ online' = FALSE /\ up' = <<>> /\ down' = <<>> /\ missed' = missed \union OnTheWay
      /\ srv' = srv \/ (unsaved # Nothing /\ up # <<>> /\ srv' = Taken(srv, unsaved))
    BY <1>1, LossServer
<1>3. Moves(db') /\ UNCHANGED <<kind, clock>> /\ unsaved' \in {unsaved, Nothing}
    BY StandsMoves, HandledMoves, WrittenMoves DEF LossOfLink
<1>4. /\ clock \in Nat /\ DOMAIN srv \subseteq Times /\ down \in Seq(DownFrames)
      /\ \A ts \in DOMAIN srv : /\ srv[ts].edts \in Nat /\ srv[ts].ets \in Nat
                                /\ srv[ts].edts <= clock /\ srv[ts].ets <= clock
    BY <1>1, SyncFacts, SyncNumbers
<1>5. /\ DOMAIN srv' \subseteq Times
      /\ \A ts \in DOMAIN srv' : srv'[ts].edts \in 0 .. clock /\ srv'[ts].ets \in 0 .. clock
      /\ \A ts \in DOMAIN srv : /\ ts \in DOMAIN srv' /\ srv'[ts].from = srv[ts].from
                                /\ srv'[ts].ets = srv[ts].ets
                                /\ srv'[ts].edts = srv[ts].edts \/ ~Peer(ts)
                                /\ \A x \in Times : x \in srv'[ts].reacts <=> x \in srv[ts].reacts
      /\ \A ts \in DOMAIN srv' \ DOMAIN srv : srv'[ts] = NewRow("me")
  <2>1. CASE srv' = srv
    <3>1. \A ts \in DOMAIN srv : srv[ts].edts \in 0 .. clock /\ srv[ts].ets \in 0 .. clock
      BY <1>4
    <3>. QED
      BY <1>4, <2>1, <3>1
  <2>2. CASE unsaved # Nothing /\ up # <<>> /\ srv' = Taken(srv, unsaved)
    <3>1. unsaved \in UpFrames /\ OwnRow(unsaved) /\ OwnFrame(unsaved)
      BY <1>1, <2>2, SyncFacts DEF UpFrames, OwnInv, CursorInv, UpRows
    <3>2. unsaved.t = "row" => unsaved.ts \notin DOMAIN srv
      BY <1>1, <2>2 DEF CursorInv, LinkOff, OwnInv
    <3>. QED
      BY <1>1, <2>2, <3>1, <3>2, TakenWrites
  <2>. QED
    BY <1>2, <2>1, <2>2
<1>6. ASSUME NEW i \in DOMAIN down, NEW m \in Carries(down[i]) PROVE m \in missed'
  <2>1. DOMAIN down = 1 .. Len(down)
    BY <1>4, LenProperties
  <2>. QED
    BY <1>2, <1>6, <2>1 DEF OnTheWay
<1>7. \A i \in DOMAIN down : down[i] \in DownFrames
    BY <1>4, ElementOfSeq, LenProperties
<1>8. ASSUME NEW ts, Has(down, TellsOf(ts)) PROVE <<"edit", ts>> \in missed'
  <2>1. PICK i \in DOMAIN down : down[i] \in TellsOf(ts)
    BY <1>8 DEF Has
  <2>2. down[i].t \in {"row", "edit"} /\ down[i].ts = ts
    BY <1>7, <2>1, FrameKinds
  <2>3. <<"edit", ts>> \in Carries(down[i])
    BY <2>2 DEF Carries
  <2>. QED
    BY <1>6, <2>3
<1>9. ASSUME NEW ts, Has(down, StirsOf(ts)) PROVE <<"react", ts>> \in missed'
  <2>1. PICK i \in DOMAIN down : down[i] \in StirsOf(ts)
    BY <1>9 DEF Has
  <2>2. down[i].t # "edit" /\ down[i].ts = ts
    BY <1>7, <2>1, FrameKinds
  <2>3. <<"react", ts>> \in Carries(down[i])
    BY <2>2 DEF Carries
  <2>. QED
    BY <1>6, <2>3
<1>. QED
    BY <1>2, <1>3, <1>5, <1>8, <1>9

LEMMA LossKept ==
    ASSUME UpdateInv, LossOfLink
    PROVE  StampInv' /\ WordInv' /\ DmInv' /\ NewsInv'
<1>1. /\ Moves(db') /\ kind' = kind /\ clock' = clock /\ unsaved' \in {unsaved, Nothing}
      /\ ~online' /\ down' = <<>> /\ missed \subseteq missed'
      /\ DOMAIN srv' \subseteq Times
      /\ \A ts \in DOMAIN srv' : srv'[ts].edts \in 0 .. clock /\ srv'[ts].ets \in 0 .. clock
      /\ \A ts \in DOMAIN srv : /\ ts \in DOMAIN srv' /\ srv'[ts].from = srv[ts].from
                                /\ srv'[ts].ets = srv[ts].ets
                                /\ srv'[ts].edts = srv[ts].edts \/ ~Peer(ts)
                                /\ \A x \in Times : x \in srv'[ts].reacts <=> x \in srv[ts].reacts
      /\ \A ts \in DOMAIN srv' \ DOMAIN srv : srv'[ts] = NewRow("me")
      /\ \A ts : Has(down, TellsOf(ts)) => <<"edit", ts>> \in missed'
      /\ \A ts : Has(down, StirsOf(ts)) => <<"react", ts>> \in missed'
    BY LossFacts
<1>2. /\ db.cur["post"] \in Nat /\ db'.cur["post"] \in Nat /\ db.cur["post"] <= db'.cur["post"]
      /\ Held(db) \subseteq Held(db') /\ Held(db') \subseteq Times
      /\ \A ts \in Times : ts \in Nat
      /\ \A ts \in Times, x \in Times : x \in db'.emojis[ts] => ts \in DOMAIN srv /\ srv[ts].ets > 0
    BY <1>1, MovesFacts
<1>3. CursorInv /\ OwnInv /\ StampInv /\ WordInv /\ DmInv /\ NewsInv
    BY DEF UpdateInv
<1>4. /\ Led(db) \in Nat /\ Le(db) \in Nat /\ Raises(unsaved) \in Nat /\ Raises(Nothing) = 0 /\ clock \in Nat
      /\ \A ts \in DOMAIN srv : ts \in Times /\ srv[ts].edts \in Nat /\ srv[ts].ets \in Nat
    BY <1>3, SyncNumbers, SyncFacts
<1>5. NewRow("me").from # "peer" /\ NewRow("me").reacts = {}
    BY DEF NewRow
<1>6. \A ts : Peer(ts)' => Peer(ts)
    BY <1>1, <1>5 DEF Peer
<1>7. \A A, B : ~Has(<<>>, A) /\ Ends(<<>>, A, B) /\ Leads(<<>>, A, B) /\ Apart(<<>>, A, B)
    BY DEF Has, Ends, Leads, Apart
<1>8. \A ts : /\ Has(down, RowsOf(ts)) => Has(down, TellsOf(ts)) /\ Has(down, StirsOf(ts))
              /\ \A k, x : Has(down, SaysOf(k, ts, x)) => Has(down, StirsOf(ts))
    BY AboutOne DEF Has, StirsOf
<1>9. \A A : Has(down, A) => online
    BY <1>3 DEF CursorInv, LinkOff, Has
<1>10. StampInv'
  <2>1. StoreStamped(db)'
    BY <1>1 DEF Moves, StoreStamped
  <2>2. \A ts \in DOMAIN srv' : srv'[ts].edts <= clock /\ srv'[ts].ets <= clock
    BY <1>1, <1>4
  <2>3. DOMAIN down' = {}
    BY <1>1
  <2>. QED
    BY <1>1, <2>1, <2>2, <2>3 DEF StampInv
<1>11. WordInv'
  <2>1. \A ts \in DOMAIN srv', x \in Times : x \in srv'[ts].reacts => srv'[ts].ets > 0
    BY <1>1, <1>3, <1>5 DEF WordInv
  <2>2. \A ts \in Times, x \in Times : x \in db'.emojis[ts] => ts \in DOMAIN srv' /\ srv'[ts].ets > 0
    BY <1>1, <1>2
  <2>. QED
    BY <1>1, <1>7, <2>1, <2>2 DEF WordInv
<1>12. DmInv'
  <2>1. ASSUME kind = "dm", NEW ts \in Held(db'), Peer(ts)
        PROVE  ts <= db'.cur["post"] \/ <<"edit", ts>> \in missed'
    <3>1. CASE ts \in Held(db)
      <4>1. ts <= db.cur["post"] \/ <<"edit", ts>> \in missed
        BY <1>3, <2>1, <3>1 DEF DmInv
      <4>. QED
        BY <1>1, <1>2, <4>1
    <3>2. CASE ts \notin Held(db)
      BY <1>1, <1>8, <2>1, <3>2 DEF Moves
    <3>. QED
      BY <3>1, <3>2
  <2>. QED
    BY <1>1, <1>6, <1>7, <2>1 DEF DmInv
<1>13. \A n \in Nat : ~online /\ n > Raises(unsaved) =>
          n > Raises(unsaved') /\ (n > Led(db) => n > Led(db')) /\ (n > Le(db) => n > Le(db'))
    BY <1>1, <1>4 DEF Moves
<1>14. Led(db)' = Led(db') /\ Le(db)' = Le(db')
    BY <1>1 DEF Led, Le, Floor, Gaps, Held
<1>15. ASSUME NEW ts \in Held(db'), Peer(ts)' PROVE BodyWaits(ts)'
  <2>1. Peer(ts) /\ ts \in DOMAIN srv /\ srv'[ts].edts = srv[ts].edts
    BY <1>1, <1>6, <1>15 DEF Peer
  <2>2. CASE Has(down, TellsOf(ts))
    BY <1>1, <2>2 DEF BodyWaits
  <2>3. CASE ~Has(down, TellsOf(ts))
    <3>1. ts \in Held(db)
      BY <1>1, <1>8, <2>1, <2>3 DEF Moves
    <3>2. BodyWaits(ts) /\ db'.rows[ts].body = db.rows[ts].body
      BY <1>1, <1>3, <2>1, <2>3, <3>1 DEF Moves, NewsInv
    <3>. QED
      BY <1>1, <1>4, <1>13, <1>14, <2>1, <2>3, <3>2 DEF BodyWaits
  <2>. QED
    BY <2>2, <2>3
<1>16. ASSUME NEW ts \in DOMAIN srv, Heard(ts)' PROVE Heard(ts)
  <2>1. CASE ts \in Held(db') \ Held(db)
    <3>1. CASE Has(down, RowsOf(ts))
      BY <1>9, <3>1 DEF Heard
    <3>2. CASE unsaved.t = "row" /\ unsaved.ts = ts
      BY <1>3, <3>2 DEF Heard, OwnInv
    <3>. QED
      BY <1>1, <2>1, <3>1, <3>2 DEF Moves
  <2>2. CASE kind = "dm" /\ ts > db'.cur["post"]
    <3>1. kind = "dm" /\ ts > db.cur["post"]
      BY <1>2, <1>4, <2>2
    <3>2. ~(ts <= db.cur["post"])
      BY <1>2, <1>4, <3>1
    <3>. QED
      BY <1>3, <3>1, <3>2 DEF DmInv, Heard
  <2>3. CASE unsaved'.t = "row" /\ unsaved'.ts = ts
    <3>1. unsaved.t = "row" /\ unsaved.ts = ts
      BY <1>1, <2>3 DEF Nothing
    <3>. QED
      BY <1>3, <3>1 DEF Heard, OwnInv
  <2>. QED
    BY <1>1, <1>16, <2>1, <2>2, <2>3 DEF Heard
<1>17. ASSUME NEW ts \in DOMAIN srv', Heard(ts)', NEW x \in Times PROVE SayingWaits(ts, x)'
  <2>1. CASE ts \notin DOMAIN srv
    <3>1. x \notin srv'[ts].reacts /\ x \notin db'.emojis[ts]
      BY <1>1, <1>2, <1>5, <2>1
    <3>. QED
      BY <3>1 DEF SayingWaits, Agree
  <2>2. CASE ts \in DOMAIN srv /\ Has(down, StirsOf(ts))
    BY <1>1, <2>2 DEF SayingWaits
  <2>3. CASE ts \in DOMAIN srv /\ ~Has(down, StirsOf(ts))
    <3>1. SayingWaits(ts, x)
      BY <1>3, <1>16, <1>17, <2>3 DEF NewsInv
    <3>2. ~Has(down, SaysOf(kind, ts, x))
      BY <1>8, <2>3
    <3>3. x \in db'.emojis[ts] <=> x \in db.emojis[ts]
      BY <1>1, <2>3, <3>2 DEF Moves
    <3>4. (x \in srv'[ts].reacts <=> x \in srv[ts].reacts) /\ srv'[ts].ets = srv[ts].ets /\ srv[ts].ets \in Nat
      BY <1>1, <1>4, <2>3
    <3>. QED
      BY <1>1, <1>13, <1>14, <3>1, <3>2, <3>3, <3>4 DEF SayingWaits, Agree
  <2>. QED
    BY <2>1, <2>2, <2>3
<1>18. NewsInv'
    BY <1>15, <1>17 DEF NewsInv
<1>. QED
    BY <1>10, <1>11, <1>12, <1>18

\* A frame is handled: what it says is written, or more of it is on its way.
LEMMA ReceiveFacts ==
    ASSUME UpdateInv, Receive, NEW f, f = down[1]
    PROVE  /\ Moves(db') /\ SaidAlone(db, db', f) /\ LeftAlone(db, db', f) /\ Written(db, db', f)
           /\ \A ts \in Held(db') \ Held(db) : f \in RowsOf(ts)
           /\ f \in DownFrames /\ online /\ missed' = missed \ Restores(f)
           /\ UNCHANGED <<kind, clock, unsaved, online, srv>> /\ down' = Tail(down)
           /\ down # <<>> /\ down \in Seq(DownFrames)
           /\ \A A : Has(down, A) <=> (f \in A \/ Has(down', A))
<1>1. CursorInv
    BY DEF UpdateInv
<1>2. /\ HandledTo(db') /\ Written(db, db', down[1]) /\ down[1] \in DownFrames
      /\ down # <<>> /\ down' = Tail(down) /\ missed' = missed \ Restores(down[1])
      /\ online /\ UNCHANGED <<kind, clock, unsaved, online, srv>>
    BY <1>1, ReceiveSteps
<1>3. /\ Moves(db') /\ SaidAlone(db, db', down[1]) /\ LeftAlone(db, db', down[1])
      /\ \A ts \in Held(db') \ Held(db) : down[1] \in RowsOf(ts)
    BY <1>2, HandledMoves
<1>4. down \in Seq(DownFrames)
    BY <1>1, SyncFacts
<1>5. \A A : Has(down, A) <=> (f \in A \/ Has(Tail(down), A))
    BY <1>2, <1>4, TailFacts
<1>. QED
    BY <1>2, <1>3, <1>4, <1>5

LEMMA ReceiveKept ==
    ASSUME UpdateInv, Receive
    PROVE  StampInv' /\ WordInv' /\ DmInv' /\ NewsInv'
<1>0. PICK f : f = down[1]
    OBVIOUS
<1>1. /\ Moves(db') /\ SaidAlone(db, db', f) /\ LeftAlone(db, db', f) /\ Written(db, db', f)
      /\ \A ts \in Held(db') \ Held(db) : f \in RowsOf(ts)
      /\ f \in DownFrames /\ online /\ missed' = missed \ Restores(f)
      /\ kind' = kind /\ clock' = clock /\ unsaved' = unsaved /\ online' = online /\ srv' = srv
      /\ down' = Tail(down) /\ down # <<>> /\ down \in Seq(DownFrames)
      /\ \A A : Has(down, A) <=> (f \in A \/ Has(down', A))
    BY <1>0, ReceiveFacts
<1>2. /\ db.cur["post"] \in Nat /\ db'.cur["post"] \in Nat /\ db.cur["post"] <= db'.cur["post"]
      /\ Held(db) \subseteq Held(db') /\ Held(db') \subseteq Times
      /\ \A ts \in Times : ts \in Nat
      /\ \A ts \in Times, x \in Times : x \in db'.emojis[ts] => ts \in DOMAIN srv /\ srv[ts].ets > 0
    BY <1>1, MovesFacts
<1>3. CursorInv /\ StampInv /\ WordInv /\ DmInv /\ NewsInv /\ \A ts \in DOMAIN srv : ts \in Times
    BY SyncFacts DEF UpdateInv
<1>4. \A ts : /\ f \in RowsOf(ts) <=> (f.t = "row" /\ f.ts = ts)
              /\ f \in EditsOf(ts) <=> (f.t = "edit" /\ f.ts = ts)
              /\ f \in ReactsOf(ts) <=> (f.t = "reacts" /\ f.ts = ts)
              /\ f \in TellsOf(ts) <=> (f.t \in {"row", "edit"} /\ f.ts = ts)
              /\ \A k, x : f \in SaysOf(k, ts, x) <=>
                  /\ f.ts = ts
                  /\ f.t = "reacts" \/ (f.t = "row" /\ k = "channel" /\ f.ets > 0) \/ (f.t = "react" /\ f.x = x)
    BY <1>1, FrameKinds
<1>5. \A ts : /\ <<"edit", ts>> \in Restores(f) => f \in TellsOf(ts)
              /\ <<"react", ts>> \in Restores(f) => \A x : f \in SaysOf(kind, ts, x)
    BY <1>4 DEF Restores
<1>6. \A A, B : Ends(down, A, B) => Ends(down', A, B) /\ (f \in A => f \in B \/ Has(down', B))
    BY <1>0, <1>1, TailFacts
<1>7. \A A, B : Leads(down, A, B) => (f \in A => f \in B) /\ (f \in B \/ Leads(down', A, B))
    BY <1>0, <1>1, TailFacts
<1>8. \A A, B : Apart(down, A, B) => Apart(down', A, B) /\ (f \in A => ~Has(down', B))
    BY <1>0, <1>1, TailFacts
<1>9. StampInv'
  <2>1. StoreStamped(db)'
    BY <1>1 DEF Moves, StoreStamped
  <2>2. \A i \in DOMAIN Tail(down) : i + 1 \in DOMAIN down /\ Tail(down)[i] = down[i + 1]
    BY <1>1, TailPlaces
  <2>3. ASSUME NEW i \in DOMAIN down', NEW g, g = down'[i] PROVE DownStamped(g)'
    BY <1>1, <1>3, <2>2, <2>3 DEF StampInv, DownStamped
  <2>4. (\A i \in DOMAIN down : DownStamped(down[i]))'
    BY <2>3 DEF DownStamped
  <2>. QED
    BY <1>1, <1>3, <2>1, <2>4 DEF StampInv
<1>10. WordInv'
  <2>1. ASSUME NEW ts \in DOMAIN srv
        PROVE  /\ Peer(ts) => Ends(down', TellsOf(ts), ToldNow(srv, ts))
               /\ Ends(down', StirsOf(ts), StirredNow(srv, ts))
               /\ \A x \in Times :
                     /\ Ends(down', SaysOf(kind, ts, x), SaidNow(kind, srv, ts, x))
                     /\ Has(down', SaysOf(kind, ts, x)) => srv[ts].ets > 0
                     /\ x \in srv[ts].reacts => srv[ts].ets > 0
    BY <1>1, <1>3, <1>6, <2>1 DEF WordInv
  <2>. QED
    BY <1>1, <1>2, <2>1 DEF WordInv, Peer
<1>11. \A ts : f \in RowsOf(ts) => ts <= db'.cur["post"]
    BY <1>1, <1>4 DEF Written
<1>12. \A ts \in Times : ts <= db.cur["post"] => ts <= db'.cur["post"]
    BY <1>2
<1>13. DmInv'
  <2>1. ASSUME kind = "dm", NEW ts \in DOMAIN srv
        PROVE  /\ ts <= db'.cur["post"] \/ Has(down', RowsOf(ts))
               /\ ts <= db'.cur["post"] \/ Leads(down', EditsOf(ts), RowsOf(ts))
               /\ Apart(down', ReactsOf(ts), RowsOf(ts))
    <3>1. /\ ts <= db.cur["post"] \/ Has(down, RowsOf(ts))
          /\ ts <= db.cur["post"] \/ Leads(down, EditsOf(ts), RowsOf(ts))
          /\ Apart(down, ReactsOf(ts), RowsOf(ts))
      BY <1>1, <1>3, <2>1 DEF DmInv
    <3>. QED
      BY <1>1, <1>3, <1>7, <1>8, <1>11, <1>12, <3>1
  <2>2. ASSUME kind = "dm", NEW ts \in Held(db'), Peer(ts)
        PROVE  ts <= db'.cur["post"] \/ <<"edit", ts>> \in missed'
    <3>1. CASE f \in RowsOf(ts)
      BY <1>11, <3>1
    <3>2. CASE f \notin RowsOf(ts) /\ ts <= db.cur["post"]
      BY <1>2, <1>12, <3>2
    <3>3. CASE f \notin RowsOf(ts) /\ ~(ts <= db.cur["post"])
      <4>1. ts \in Held(db) /\ <<"edit", ts>> \in missed
        BY <1>1, <1>3, <2>2, <3>3 DEF DmInv
      <4>2. Leads(down, EditsOf(ts), RowsOf(ts))
        BY <1>3, <2>2, <3>3 DEF DmInv, Peer
      <4>3. f \notin TellsOf(ts)
        BY <1>7, <3>3, <4>2 DEF TellsOf
      <4>. QED
        BY <1>1, <1>5, <4>1, <4>3
    <3>. QED
      BY <3>1, <3>2, <3>3
  <2>. QED
    BY <1>1, <2>1, <2>2 DEF DmInv, Peer
<1>14. ASSUME NEW ts \in Held(db'), Peer(ts) PROVE BodyWaits(ts)'
  <2>1. ts \in DOMAIN srv
    BY <1>14 DEF Peer
  <2>2. CASE f \in TellsOf(ts)
    <3>1. db'.rows[ts].body = f.body
      BY <1>1, <1>4, <1>14, <2>2 DEF Written
    <3>2. Ends(down, TellsOf(ts), ToldNow(srv, ts))
      BY <1>3, <1>14, <2>1 DEF WordInv
    <3>3. f \in ToldNow(srv, ts) \/ Has(down', ToldNow(srv, ts))
      BY <1>6, <2>2, <3>2
    <3>4. CASE f \in ToldNow(srv, ts)
      BY <1>1, <3>1, <3>4 DEF ToldNow, BodyWaits
    <3>5. CASE Has(down', ToldNow(srv, ts))
      <4>1. Has(down', TellsOf(ts))
        BY <3>5 DEF Has, ToldNow
      <4>. QED
        BY <1>1, <4>1 DEF BodyWaits
    <3>. QED
      BY <3>3, <3>4, <3>5
  <2>3. CASE f \notin TellsOf(ts)
    <3>1. f \notin RowsOf(ts)
      BY <2>3, AboutOne
    <3>2. ts \in Held(db) /\ BodyWaits(ts)
      BY <1>1, <1>3, <1>14, <3>1 DEF NewsInv
    <3>3. db'.rows[ts].body = db.rows[ts].body
      BY <1>1, <1>4, <2>3, <3>2 DEF LeftAlone
    <3>4. <<"edit", ts>> \in missed => <<"edit", ts>> \in missed'
      BY <1>1, <1>5, <2>3
    <3>5. Has(down, TellsOf(ts)) => Has(down', TellsOf(ts))
      BY <1>1, <2>3
    <3>. QED
      BY <1>1, <3>2, <3>3, <3>4, <3>5 DEF BodyWaits
  <2>. QED
    BY <2>2, <2>3
<1>15. ASSUME NEW ts \in DOMAIN srv, Heard(ts)', NEW x \in Times PROVE SayingWaits(ts, x)'
  <2>1. ts \in Held(db') \/ Has(down', RowsOf(ts))
    BY <1>1, <1>15 DEF Heard
  <2>2. Heard(ts) /\ SayingWaits(ts, x)
    <3>1. Heard(ts)
      BY <1>1, <2>1 DEF Heard
    <3>. QED
      BY <1>3, <3>1 DEF NewsInv
  <2>3. CASE f \in SaysOf(kind, ts, x) /\ Effective(db, f, x)
    <3>1. x \in Stamps0 /\ f.ts = ts
      BY <1>3, <1>4, <2>3, SyncFacts
    <3>2. x \in db'.emojis[ts] <=> Said(f, x)
      BY <1>1, <2>3, <3>1 DEF Written
    <3>3. Ends(down, SaysOf(kind, ts, x), SaidNow(kind, srv, ts, x))
      BY <1>3, <1>15 DEF WordInv
    <3>4. f \in SaidNow(kind, srv, ts, x) \/ Has(down', SaidNow(kind, srv, ts, x))
      BY <1>6, <2>3, <3>3
    <3>5. CASE f \in SaidNow(kind, srv, ts, x)
      BY <1>1, <3>2, <3>5 DEF SaidNow, SayingWaits, Agree
    <3>6. CASE Has(down', SaidNow(kind, srv, ts, x))
      <4>1. Has(down', SaysOf(kind, ts, x))
        BY <3>6 DEF Has, SaidNow
      <4>. QED
        BY <1>1, <4>1 DEF SayingWaits
    <3>. QED
      BY <3>4, <3>5, <3>6
  <2>4. CASE f \in SaysOf(kind, ts, x) /\ ~Effective(db, f, x)
    <3>1. f.ts = ts /\ kind # "channel" /\ ts \notin Held(db) /\ f.t # "react"
      BY <1>4, <2>4 DEF Effective
    <3>2. kind = "dm"
      BY <1>3, <3>1, SyncFacts
    <3>3. f \in ReactsOf(ts) /\ f \notin RowsOf(ts)
      BY <1>4, <2>4, <3>1
    <3>4. ts \notin Held(db')
      BY <1>1, <3>1, <3>3
    <3>5. Apart(down, ReactsOf(ts), RowsOf(ts))
      BY <1>3, <1>15, <3>2 DEF DmInv
    <3>. QED
      BY <1>8, <2>1, <3>3, <3>4, <3>5
  <2>5. CASE f \notin SaysOf(kind, ts, x)
    <3>1. x \in db'.emojis[ts] <=> x \in db.emojis[ts]
      BY <1>1, <1>3, <1>15, <2>5 DEF SaidAlone
    <3>2. <<"react", ts>> \in missed => <<"react", ts>> \in missed'
      BY <1>1, <1>5, <2>5
    <3>3. Has(down, SaysOf(kind, ts, x)) => Has(down', SaysOf(kind, ts, x))
      BY <1>1, <2>5
    <3>. QED
      BY <1>1, <2>2, <3>1, <3>2, <3>3 DEF SayingWaits, Agree
  <2>. QED
    BY <2>3, <2>4, <2>5
<1>16. NewsInv'
    BY <1>1, <1>14, <1>15 DEF NewsInv, Peer
<1>. QED
    BY <1>9, <1>10, <1>13, <1>16

\* The frames F of some of the server's rows, one after the other.
Listed(q, S, F) ==
    /\ S \in SUBSET DOMAIN srv /\ \A ts \in S : F[ts] \in DownFrames
    /\ q = [i \in 1 .. Len(Ascending(S)) |-> F[Ascending(S)[i]]]

LEMMA ListedFrames ==
    ASSUME SyncTypes, NEW S, NEW F, NEW q, Listed(q, S, F)
    PROVE  /\ q \in Seq(DownFrames)
           /\ \A i \in DOMAIN q : \E ts \in S : q[i] = F[ts]
           /\ \A ts \in S : \E i \in DOMAIN q : q[i] = F[ts]
<1> DEFINE o == Ascending(S)
           n == Len(o)
<1>1. /\ n \in Nat /\ \A i \in 1 .. n : o[i] \in S
      /\ \A ts \in S : \E i \in 1 .. n : o[i] = ts
  <2>1. S \in SUBSET Nat /\ IsFiniteSet(S)
    BY ServerFacts, TimesFinite DEF Listed
  <2>. QED
    BY <2>1, AscendingFacts
<1>2. q = [i \in 1 .. n |-> F[o[i]]]
    BY DEF Listed
<1> HIDE DEF n, o
<1>3. DOMAIN q = 1 .. n /\ \A i \in 1 .. n : q[i] = F[o[i]]
    BY <1>2
<1>4. q = [i \in 1 .. n |-> q[i]]
    BY <1>2
<1>5. q \in Seq(DownFrames)
  <2>1. \A i \in 1 .. n : q[i] \in DownFrames
    BY <1>1, <1>3 DEF Listed
  <2>. QED
    BY <1>1, <1>4, <2>1, MadeSequence
<1>6. \A i \in DOMAIN q : \E ts \in S : q[i] = F[ts]
    BY <1>1, <1>3
<1>7. ASSUME NEW ts \in S PROVE \E i \in DOMAIN q : q[i] = F[ts]
  <2>1. PICK i \in 1 .. n : o[i] = ts
    BY <1>1
  <2>2. i \in DOMAIN q /\ q[i] = F[ts]
    BY <1>3, <2>1
  <2>. QED
    BY <2>2
<1>. QED
    BY <1>5, <1>6, <1>7

\* The replay is of rows as the server has them: the rows after the row cursor,
\* the edits and the reactions after theirs.
LEMMA ReplayNews ==
    ASSUME CursorInv, NEW lp \in Stamps0, NEW led \in Stamps0, NEW le \in Stamps0,
           NEW q, q = Replay(lp, led, le)
    PROVE  /\ q \in Seq(DownFrames) /\ \A i \in DOMAIN q : q[i] \in DownFrames /\ Current(q[i], srv)
           /\ \A ts \in DOMAIN srv : /\ Has(q, RowsOf(ts)) <=> ts > lp
                                     /\ Has(q, EditsOf(ts)) <=> (ts <= lp /\ srv[ts].edts > led)
                                     /\ Has(q, ReactsOf(ts)) <=> (kind = "dm" \/ ts <= lp) /\ srv[ts].ets > le
           /\ \A ts : Apart(q, ReactsOf(ts), RowsOf(ts))
<1> DEFINE old == {ts \in DOMAIN srv : ts <= lp}
           SA == {ts \in DOMAIN srv : ts > lp}
           SB == {ts \in old : srv[ts].edts > led}
           SC == {ts \in (IF kind = "dm" THEN DOMAIN srv ELSE old) : srv[ts].ets > le}
           FA == [ts \in DOMAIN srv |-> RowFrame(srv, ts, FALSE)]
           FB == [ts \in DOMAIN srv |-> EditFrame(srv, ts, FALSE)]
           FC == [ts \in DOMAIN srv |-> ReactsFrame(srv, ts)]
           A == [i \in 1 .. Len(Ascending(SA)) |-> RowFrame(srv, Ascending(SA)[i], FALSE)]
           B == [i \in 1 .. Len(Ascending(SB)) |-> EditFrame(srv, Ascending(SB)[i], FALSE)]
           C == [i \in 1 .. Len(Ascending(SC)) |-> ReactsFrame(srv, Ascending(SC)[i])]
<1>1. q = (A \o B) \o C
    BY DEF Replay, Frames
<1>2. SA \subseteq DOMAIN srv /\ SB \subseteq DOMAIN srv /\ SC \subseteq DOMAIN srv
    OBVIOUS
<1>3. /\ SyncTypes /\ \A ts \in DOMAIN srv : ts \in Times /\ srv[ts] \in SrvRows /\ ts \in Nat
      /\ \A x \in Stamps0 : x \in Nat
    BY SyncFacts, SyncAssumption DEF Stamps0
<1>4. \A S \in SUBSET DOMAIN srv : \A i \in 1 .. Len(Ascending(S)) : Ascending(S)[i] \in DOMAIN srv
  <2> SUFFICES ASSUME NEW S \in SUBSET DOMAIN srv
               PROVE  \A i \in 1 .. Len(Ascending(S)) : Ascending(S)[i] \in DOMAIN srv
    OBVIOUS
  <2>1. S \in SUBSET Nat /\ IsFiniteSet(S)
    BY <1>3, ServerFacts, TimesFinite
  <2>. QED
    BY <2>1, AscendingFacts
<1>5. /\ \A ts \in SA : ts \in DOMAIN srv /\ ts > lp
      /\ \A ts \in SB : ts \in DOMAIN srv /\ ts <= lp /\ srv[ts].edts > led
      /\ \A ts \in SC : ts \in DOMAIN srv /\ (kind = "dm" \/ ts <= lp) /\ srv[ts].ets > le
      /\ \A ts \in DOMAIN srv : /\ ts > lp => ts \in SA
                                /\ ts <= lp /\ srv[ts].edts > led => ts \in SB
                                /\ (kind = "dm" \/ ts <= lp) /\ srv[ts].ets > le => ts \in SC
    OBVIOUS
<1>6. /\ A = [i \in 1 .. Len(Ascending(SA)) |-> FA[Ascending(SA)[i]]]
      /\ B = [i \in 1 .. Len(Ascending(SB)) |-> FB[Ascending(SB)[i]]]
      /\ C = [i \in 1 .. Len(Ascending(SC)) |-> FC[Ascending(SC)[i]]]
    BY <1>2, <1>4
<1>7. \A ts \in DOMAIN srv : /\ FA[ts] = RowFrame(srv, ts, FALSE) /\ FB[ts] = EditFrame(srv, ts, FALSE)
                             /\ FC[ts] = ReactsFrame(srv, ts)
    OBVIOUS
<1> HIDE DEF A, B, C, SA, SB, SC, FA, FB, FC
<1>8. \A ts \in DOMAIN srv : /\ RowFrame(srv, ts, FALSE) \in RowsOf(ts) \intersect DownFrames
                             /\ EditFrame(srv, ts, FALSE) \in EditsOf(ts) \intersect DownFrames
                             /\ ReactsFrame(srv, ts) \in ReactsOf(ts) \intersect DownFrames
  <2> SUFFICES ASSUME NEW ts \in DOMAIN srv
               PROVE  /\ RowFrame(srv, ts, FALSE) \in RowsOf(ts) \intersect DownFrames
                      /\ EditFrame(srv, ts, FALSE) \in EditsOf(ts) \intersect DownFrames
                      /\ ReactsFrame(srv, ts) \in ReactsOf(ts) \intersect DownFrames
    OBVIOUS
  <2>1. /\ RowFrame(srv, ts, FALSE) \in RowFrames /\ EditFrame(srv, ts, FALSE) \in EditFrames
        /\ ReactsFrame(srv, ts) \in ReactsFrames
    BY <1>3, FrameFacts
  <2>. QED
    BY <2>1 DEF RowsOf, EditsOf, ReactsOf, RowFrame, EditFrame, ReactsFrame, DownFrames
<1>9. /\ A \in Seq(DownFrames) /\ \A i \in DOMAIN A : \E ts \in SA : A[i] = RowFrame(srv, ts, FALSE)
      /\ \A ts \in SA : \E i \in DOMAIN A : A[i] = RowFrame(srv, ts, FALSE)
  <2>1. \A ts \in SA : FA[ts] \in DownFrames /\ FA[ts] = RowFrame(srv, ts, FALSE)
    BY <1>2, <1>7, <1>8
  <2>2. /\ A \in Seq(DownFrames) /\ \A i \in DOMAIN A : \E ts \in SA : A[i] = FA[ts]
        /\ \A ts \in SA : \E i \in DOMAIN A : A[i] = FA[ts]
    <3>1. SyncTypes /\ Listed(A, SA, FA)
      BY <1>2, <1>3, <1>6, <2>1 DEF Listed
    <3>. QED
      BY <3>1, ListedFrames
  <2>. QED
    BY <2>1, <2>2
<1>10. /\ B \in Seq(DownFrames) /\ \A i \in DOMAIN B : \E ts \in SB : B[i] = EditFrame(srv, ts, FALSE)
       /\ \A ts \in SB : \E i \in DOMAIN B : B[i] = EditFrame(srv, ts, FALSE)
  <2>1. \A ts \in SB : FB[ts] \in DownFrames /\ FB[ts] = EditFrame(srv, ts, FALSE)
    BY <1>2, <1>7, <1>8
  <2>2. /\ B \in Seq(DownFrames) /\ \A i \in DOMAIN B : \E ts \in SB : B[i] = FB[ts]
        /\ \A ts \in SB : \E i \in DOMAIN B : B[i] = FB[ts]
    <3>1. SyncTypes /\ Listed(B, SB, FB)
      BY <1>2, <1>3, <1>6, <2>1 DEF Listed
    <3>. QED
      BY <3>1, ListedFrames
  <2>. QED
    BY <2>1, <2>2
<1>11. /\ C \in Seq(DownFrames) /\ \A i \in DOMAIN C : \E ts \in SC : C[i] = ReactsFrame(srv, ts)
       /\ \A ts \in SC : \E i \in DOMAIN C : C[i] = ReactsFrame(srv, ts)
  <2>1. \A ts \in SC : FC[ts] \in DownFrames /\ FC[ts] = ReactsFrame(srv, ts)
    BY <1>2, <1>7, <1>8
  <2>2. /\ C \in Seq(DownFrames) /\ \A i \in DOMAIN C : \E ts \in SC : C[i] = FC[ts]
        /\ \A ts \in SC : \E i \in DOMAIN C : C[i] = FC[ts]
    <3>1. SyncTypes /\ Listed(C, SC, FC)
      BY <1>2, <1>3, <1>6, <2>1 DEF Listed
    <3>. QED
      BY <3>1, ListedFrames
  <2>. QED
    BY <2>1, <2>2
<1>12. \A ts \in DOMAIN srv :
           /\ Current(RowFrame(srv, ts, FALSE), srv)
           /\ Current(EditFrame(srv, ts, FALSE), srv)
           /\ srv[ts].ets > le => Current(ReactsFrame(srv, ts), srv)
  <2> SUFFICES ASSUME NEW ts \in DOMAIN srv
               PROVE  /\ Current(RowFrame(srv, ts, FALSE), srv)
                      /\ Current(EditFrame(srv, ts, FALSE), srv)
                      /\ srv[ts].ets > le => Current(ReactsFrame(srv, ts), srv)
    OBVIOUS
  <2>1. srv[ts].ets > le => srv[ts].ets > 0
    <3>1. srv[ts].ets \in Nat /\ le \in Nat
      BY <1>3 DEF SrvRows
    <3>. QED
      BY <3>1
  <2>. QED
    BY <2>1 DEF Current, RowFrame, EditFrame, ReactsFrame
<1>13. A \o B \in Seq(DownFrames) /\ q \in Seq(DownFrames)
    BY <1>1, <1>9, <1>10, <1>11, ConcatPlaces
<1>14. \A X : Has(q, X) <=> (Has(A, X) \/ Has(B, X) \/ Has(C, X))
  <2>1. \A X : Has(A \o B, X) <=> (Has(A, X) \/ Has(B, X))
    BY <1>9, <1>10, HasConcat
  <2>2. \A X : Has(q, X) <=> (Has(A \o B, X) \/ Has(C, X))
    <3> DEFINE p == A \o B
    <3>1. p \in Seq(DownFrames) /\ C \in Seq(DownFrames) /\ q = p \o C
      BY <1>1, <1>11, <1>13
    <3> HIDE DEF p
    <3>2. \A X : Has(q, X) <=> (Has(p, X) \/ Has(C, X))
      BY <3>1, HasConcat
    <3>. QED
      BY <3>2 DEF p
  <2>. QED
    BY <2>1, <2>2
<1>15. \A i \in DOMAIN q : q[i] \in DownFrames /\ Current(q[i], srv)
  <2>1. \A i \in DOMAIN q : q[i] \in DownFrames
    BY <1>13, ElementOfSeq, LenProperties
  <2> DEFINE X == {f \in DownFrames : ~Current(f, srv)}
  <2>2. ~Has(A, X) /\ ~Has(B, X) /\ ~Has(C, X)
    <3>1. /\ \A i \in DOMAIN A : Current(A[i], srv)
          /\ \A i \in DOMAIN B : Current(B[i], srv)
          /\ \A i \in DOMAIN C : Current(C[i], srv)
      BY <1>5, <1>9, <1>10, <1>11, <1>12
    <3>. QED
      BY <3>1 DEF Has
  <2>3. ~Has(q, X)
    BY <1>14, <2>2
  <2>. QED
    BY <2>1, <2>3 DEF Has
<1>16. \A ts, x :
           /\ /\ RowFrame(srv, x, FALSE) \in RowsOf(ts) => x = ts
              /\ RowFrame(srv, x, FALSE) \notin EditsOf(ts) /\ RowFrame(srv, x, FALSE) \notin ReactsOf(ts)
           /\ /\ EditFrame(srv, x, FALSE) \in EditsOf(ts) => x = ts
              /\ EditFrame(srv, x, FALSE) \notin RowsOf(ts) /\ EditFrame(srv, x, FALSE) \notin ReactsOf(ts)
           /\ /\ ReactsFrame(srv, x) \in ReactsOf(ts) => x = ts
              /\ ReactsFrame(srv, x) \notin RowsOf(ts) /\ ReactsFrame(srv, x) \notin EditsOf(ts)
  <2>1. \A x : /\ RowFrame(srv, x, FALSE).t = "row" /\ RowFrame(srv, x, FALSE).ts = x
               /\ EditFrame(srv, x, FALSE).t = "edit" /\ EditFrame(srv, x, FALSE).ts = x
               /\ ReactsFrame(srv, x).t = "reacts" /\ ReactsFrame(srv, x).ts = x
    BY DEF RowFrame, EditFrame, ReactsFrame
  <2>2. \A ts, f : /\ f \in RowsOf(ts) => f.t = "row" /\ f.ts = ts
                   /\ f \in EditsOf(ts) => f.t = "edit" /\ f.ts = ts
                   /\ f \in ReactsOf(ts) => f.t = "reacts" /\ f.ts = ts
    BY DEF RowsOf, EditsOf, ReactsOf, RowFrames, EditFrames, ReactsFrames
  <2> SUFFICES ASSUME NEW ts, NEW x
               PROVE  /\ /\ RowFrame(srv, x, FALSE) \in RowsOf(ts) => x = ts
                         /\ RowFrame(srv, x, FALSE) \notin EditsOf(ts) /\ RowFrame(srv, x, FALSE) \notin ReactsOf(ts)
                      /\ /\ EditFrame(srv, x, FALSE) \in EditsOf(ts) => x = ts
                         /\ EditFrame(srv, x, FALSE) \notin RowsOf(ts) /\ EditFrame(srv, x, FALSE) \notin ReactsOf(ts)
                      /\ /\ ReactsFrame(srv, x) \in ReactsOf(ts) => x = ts
                         /\ ReactsFrame(srv, x) \notin RowsOf(ts) /\ ReactsFrame(srv, x) \notin EditsOf(ts)
    OBVIOUS
  <2>3. PICK f, g, h : f = RowFrame(srv, x, FALSE) /\ g = EditFrame(srv, x, FALSE) /\ h = ReactsFrame(srv, x)
    OBVIOUS
  <2>4. f.t = "row" /\ f.ts = x /\ g.t = "edit" /\ g.ts = x /\ h.t = "reacts" /\ h.ts = x
    BY <2>1, <2>3
  <2>5. /\ (f \in RowsOf(ts) => x = ts) /\ f \notin EditsOf(ts) /\ f \notin ReactsOf(ts)
        /\ (g \in EditsOf(ts) => x = ts) /\ g \notin RowsOf(ts) /\ g \notin ReactsOf(ts)
        /\ (h \in ReactsOf(ts) => x = ts) /\ h \notin RowsOf(ts) /\ h \notin EditsOf(ts)
    BY <2>2, <2>4
  <2>. QED
    BY <2>3, <2>5
<1>17. ASSUME NEW ts
       PROVE  /\ ~Has(B, RowsOf(ts)) /\ ~Has(C, RowsOf(ts))
              /\ ~Has(A, EditsOf(ts)) /\ ~Has(C, EditsOf(ts))
              /\ ~Has(A, ReactsOf(ts)) /\ ~Has(B, ReactsOf(ts))
  <2>1. ~Has(A, EditsOf(ts)) /\ ~Has(A, ReactsOf(ts))
    BY <1>9, <1>16 DEF Has
  <2>2. ~Has(B, RowsOf(ts)) /\ ~Has(B, ReactsOf(ts))
    BY <1>10, <1>16 DEF Has
  <2>3. ~Has(C, RowsOf(ts)) /\ ~Has(C, EditsOf(ts))
    BY <1>11, <1>16 DEF Has
  <2>. QED
    BY <2>1, <2>2, <2>3
<1>18. ASSUME NEW ts \in DOMAIN srv
       PROVE  /\ Has(A, RowsOf(ts)) <=> ts \in SA
              /\ Has(B, EditsOf(ts)) <=> ts \in SB
              /\ Has(C, ReactsOf(ts)) <=> ts \in SC
  <2>1. Has(A, RowsOf(ts)) <=> ts \in SA
    <3>1. ASSUME ts \in SA PROVE Has(A, RowsOf(ts))
      <4>1. PICK i \in DOMAIN A : A[i] = RowFrame(srv, ts, FALSE)
        BY <1>9, <3>1
      <4>. QED
        BY <1>8, <4>1 DEF Has
    <3>2. ASSUME Has(A, RowsOf(ts)) PROVE ts \in SA
      <4>1. PICK i \in DOMAIN A : A[i] \in RowsOf(ts)
        BY <3>2 DEF Has
      <4>. QED
        BY <1>9, <1>16, <4>1
    <3>. QED
      BY <3>1, <3>2
  <2>2. Has(B, EditsOf(ts)) <=> ts \in SB
    <3>1. ASSUME ts \in SB PROVE Has(B, EditsOf(ts))
      <4>1. PICK i \in DOMAIN B : B[i] = EditFrame(srv, ts, FALSE)
        BY <1>10, <3>1
      <4>. QED
        BY <1>8, <4>1 DEF Has
    <3>2. ASSUME Has(B, EditsOf(ts)) PROVE ts \in SB
      <4>1. PICK i \in DOMAIN B : B[i] \in EditsOf(ts)
        BY <3>2 DEF Has
      <4>. QED
        BY <1>10, <1>16, <4>1
    <3>. QED
      BY <3>1, <3>2
  <2>3. Has(C, ReactsOf(ts)) <=> ts \in SC
    <3>1. ASSUME ts \in SC PROVE Has(C, ReactsOf(ts))
      <4>1. PICK i \in DOMAIN C : C[i] = ReactsFrame(srv, ts)
        BY <1>11, <3>1
      <4>. QED
        BY <1>8, <4>1 DEF Has
    <3>2. ASSUME Has(C, ReactsOf(ts)) PROVE ts \in SC
      <4>1. PICK i \in DOMAIN C : C[i] \in ReactsOf(ts)
        BY <3>2 DEF Has
      <4>. QED
        BY <1>11, <1>16, <4>1
    <3>. QED
      BY <3>1, <3>2
  <2>. QED
    BY <2>1, <2>2, <2>3
<1>19. ASSUME NEW ts
       PROVE  Apart(q, ReactsOf(ts), RowsOf(ts))
  <2>1. ~Has(A \o B, ReactsOf(ts))
    BY <1>9, <1>10, <1>17, HasConcat
  <2>2. Apart(A \o B, ReactsOf(ts), RowsOf(ts)) /\ Apart(C, ReactsOf(ts), RowsOf(ts))
    BY <1>17, <2>1 DEF Has, Apart
  <2>. QED
    BY <1>1, <1>11, <1>13, <2>1, <2>2, ApartConcat
<1>20. \A ts \in DOMAIN srv : /\ Has(q, RowsOf(ts)) <=> ts > lp
                              /\ Has(q, EditsOf(ts)) <=> (ts <= lp /\ srv[ts].edts > led)
                              /\ Has(q, ReactsOf(ts)) <=> (kind = "dm" \/ ts <= lp) /\ srv[ts].ets > le
    BY <1>5, <1>14, <1>17, <1>18
<1>. QED
    BY <1>13, <1>15, <1>19, <1>20

\* A new connect record: the answer makes good what is not known, or, of a channel
\* that is held back, it is remembered as missed.
LEMMA ConnectFacts ==
    ASSUME UpdateInv, Connect
    PROVE  /\ ~online /\ unsaved = Nothing /\ online' = TRUE /\ UNCHANGED <<kind, clock, db, unsaved, srv>>
           /\ missed \subseteq missed' /\ (kind = "dm" => missed' = missed)
           /\ down' \in Seq(DownFrames) /\ \A i \in DOMAIN down' : down'[i] \in DownFrames /\ Current(down'[i], srv)
           /\ \A ts \in DOMAIN srv :
                 /\ Has(down', RowsOf(ts)) => ts > db.cur["post"]
                 /\ kind = "dm" /\ ts > db.cur["post"] => Has(down', RowsOf(ts))
                 /\ Has(down', EditsOf(ts)) => ts <= db.cur["post"]
                 /\ ts <= db.cur["post"] /\ srv[ts].edts > Led(db) =>
                        Has(down', EditsOf(ts)) \/ <<"edit", ts>> \in missed'
                 /\ (kind = "dm" \/ ts <= db.cur["post"]) /\ srv[ts].ets > Le(db) =>
                        Has(down', ReactsOf(ts)) \/ <<"react", ts>> \in missed'
           /\ \A ts : Apart(down', ReactsOf(ts), RowsOf(ts))
<1>1. PICK R : R = Replay(Lp(db), Led(db), Le(db))
    OBVIOUS
<1>2. /\ ~online /\ unsaved = Nothing /\ online' = TRUE /\ UNCHANGED <<kind, clock, db, unsaved, srv>>
    BY DEF Connect
<1>3. CursorInv /\ SyncTypes
    BY SyncFacts DEF UpdateInv
<1>4. Lp(db) \in Stamps0 /\ Led(db) \in Stamps0 /\ Le(db) \in Stamps0 /\ Lp(db) = db.cur["post"]
    BY <1>3, CursorsAreStamps DEF Lp
<1>5. /\ R \in Seq(DownFrames) /\ \A i \in DOMAIN R : R[i] \in DownFrames /\ Current(R[i], srv)
      /\ \A ts \in DOMAIN srv : /\ Has(R, RowsOf(ts)) <=> ts > Lp(db)
                                /\ Has(R, EditsOf(ts)) <=> (ts <= Lp(db) /\ srv[ts].edts > Led(db))
                                /\ Has(R, ReactsOf(ts)) <=> (kind = "dm" \/ ts <= Lp(db)) /\ srv[ts].ets > Le(db)
      /\ \A ts : Apart(R, ReactsOf(ts), RowsOf(ts))
    BY <1>1, <1>3, <1>4, ReplayNews
<1>6. PICK hold \in BOOLEAN :
         /\ hold => kind = "channel"
         /\ IF hold
            THEN /\ down' = <<>>
                 /\ missed' = missed \union
                      UNION {Carries(R[i]) : i \in {j \in 1 .. Len(R) : R[j].t # "row"}}
            ELSE down' = R /\ UNCHANGED missed
    BY <1>1 DEF Connect
<1>7. CASE hold
  <2>1. DOMAIN down' = {} /\ down' \in Seq(DownFrames)
    BY <1>6, <1>7
  <2>2. kind = "channel" /\ missed \subseteq missed'
    BY <1>6, <1>7
  <2>3. DOMAIN R = 1 .. Len(R)
    BY <1>5, LenProperties
  <2>4. ASSUME NEW i \in DOMAIN R, R[i].t # "row", NEW m \in Carries(R[i]) PROVE m \in missed'
    BY <1>6, <1>7, <2>3, <2>4
  <2>5. ASSUME NEW ts, Has(R, EditsOf(ts)) PROVE <<"edit", ts>> \in missed'
    <3>1. PICK i \in DOMAIN R : R[i] \in EditsOf(ts)
      BY <2>5 DEF Has
    <3>2. R[i].t = "edit" /\ R[i].ts = ts
      BY <3>1 DEF EditsOf, EditFrames
    <3>3. <<"edit", ts>> \in Carries(R[i])
      BY <3>2 DEF Carries
    <3>. QED
      BY <2>4, <3>2, <3>3
  <2>6. ASSUME NEW ts, Has(R, ReactsOf(ts)) PROVE <<"react", ts>> \in missed'
    <3>1. PICK i \in DOMAIN R : R[i] \in ReactsOf(ts)
      BY <2>6 DEF Has
    <3>2. R[i].t = "reacts" /\ R[i].ts = ts
      BY <3>1 DEF ReactsOf, ReactsFrames
    <3>3. <<"react", ts>> \in Carries(R[i])
      BY <3>2 DEF Carries
    <3>. QED
      BY <2>4, <3>2, <3>3
  <2>7. \A X, Y : ~Has(down', X) /\ Apart(down', X, Y)
    BY <2>1 DEF Has, Apart
  <2>8. kind # "dm"
    BY <2>2
  <2>. QED
    BY <1>2, <1>4, <1>5, <2>1, <2>2, <2>5, <2>6, <2>7, <2>8
<1>8. CASE ~hold
  <2>1. down' = R /\ missed' = missed
    BY <1>6, <1>8
  <2>. QED
    BY <1>2, <1>4, <1>5, <2>1
<1>. QED
    BY <1>7, <1>8

LEMMA ConnectKept ==
    ASSUME UpdateInv, Connect
    PROVE  StampInv' /\ WordInv' /\ DmInv' /\ NewsInv'
<1>1. /\ ~online /\ unsaved = Nothing /\ online' = TRUE
      /\ kind' = kind /\ clock' = clock /\ db' = db /\ unsaved' = unsaved /\ srv' = srv
      /\ missed \subseteq missed' /\ (kind = "dm" => missed' = missed)
      /\ down' \in Seq(DownFrames) /\ \A i \in DOMAIN down' : down'[i] \in DownFrames /\ Current(down'[i], srv)
      /\ \A ts \in DOMAIN srv :
            /\ Has(down', RowsOf(ts)) => ts > db.cur["post"]
            /\ kind = "dm" /\ ts > db.cur["post"] => Has(down', RowsOf(ts))
            /\ Has(down', EditsOf(ts)) => ts <= db.cur["post"]
            /\ ts <= db.cur["post"] /\ srv[ts].edts > Led(db) =>
                   Has(down', EditsOf(ts)) \/ <<"edit", ts>> \in missed'
            /\ (kind = "dm" \/ ts <= db.cur["post"]) /\ srv[ts].ets > Le(db) =>
                   Has(down', ReactsOf(ts)) \/ <<"react", ts>> \in missed'
      /\ \A ts : Apart(down', ReactsOf(ts), RowsOf(ts))
    BY ConnectFacts
<1>2. CursorInv /\ StampInv /\ WordInv /\ DmInv /\ NewsInv /\ OwnStore(db)
    BY DEF UpdateInv, OwnInv
<1>3. /\ db.cur["post"] \in Nat /\ kind \in {"channel", "dm"}
      /\ \A ts \in DOMAIN srv : /\ ts \in Times /\ ts \in Nat /\ srv[ts].edts \in Nat /\ srv[ts].ets \in Nat
                                /\ srv[ts].edts <= clock /\ srv[ts].ets <= clock
    BY <1>2, SyncFacts, StoreFacts, SyncNumbers DEF UpdateInv, Cursors
<1>4. StampInv'
  <2>1. ASSUME NEW i \in DOMAIN down', NEW g, g = down'[i] PROVE DownStamped(g)'
    <3>1. Current(g, srv) /\ g \in DownFrames
      BY <1>1, <2>1
    <3>2. clock \in Nat
      BY SyncFacts DEF UpdateInv
    <3>. QED
      BY <1>1, <1>3, <3>1, <3>2 DEF Current, DownStamped
  <2>2. (\A i \in DOMAIN down : DownStamped(down[i]))'
    BY <2>1 DEF DownStamped
  <2>3. StoreStamped(db)'
    BY <1>1, <1>2 DEF StampInv, StoreStamped
  <2>. QED
    BY <1>1, <1>2, <2>2, <2>3 DEF StampInv
<1>5. \A A, B : (\A i \in DOMAIN down' : down'[i] \in A => down'[i] \in B) => Ends(down', A, B)
  <2>1. \A i \in DOMAIN down' : i >= i
    <3>1. DOMAIN down' \subseteq Nat
      BY <1>1, LenProperties
    <3>. QED
      BY <3>1
  <2>. QED
    BY <2>1 DEF Ends
<1>6. WordInv'
  <2>1. ASSUME NEW ts \in DOMAIN srv
        PROVE  /\ Ends(down', TellsOf(ts), ToldNow(srv, ts))
               /\ Ends(down', StirsOf(ts), StirredNow(srv, ts))
    <3>1. /\ \A i \in DOMAIN down' : down'[i] \in TellsOf(ts) => down'[i] \in ToldNow(srv, ts)
          /\ \A i \in DOMAIN down' : down'[i] \in StirsOf(ts) => down'[i] \in StirredNow(srv, ts)
      BY <1>1, CurrentNow
    <3>. QED
      BY <1>5, <3>1
  <2>2. ASSUME NEW ts \in DOMAIN srv, NEW x \in Times
        PROVE  /\ Ends(down', SaysOf(kind, ts, x), SaidNow(kind, srv, ts, x))
               /\ Has(down', SaysOf(kind, ts, x)) => srv[ts].ets > 0
    <3>1. \A i \in DOMAIN down' : down'[i] \in SaysOf(kind, ts, x) =>
              down'[i] \in SaidNow(kind, srv, ts, x) /\ srv[ts].ets > 0
      BY <1>1, CurrentNow
    <3>. QED
      BY <1>5, <3>1 DEF Has
  <2>. QED
    BY <1>1, <1>2, <2>1, <2>2 DEF WordInv, Peer
<1>7. DmInv'
  <2>1. ASSUME kind = "dm", NEW ts \in DOMAIN srv
        PROVE  /\ ts <= db.cur["post"] \/ Has(down', RowsOf(ts))
               /\ ts <= db.cur["post"] \/ Leads(down', EditsOf(ts), RowsOf(ts))
    <3>1. ts <= db.cur["post"] \/ ts > db.cur["post"]
      BY <1>3
    <3>2. ~Has(down', EditsOf(ts)) => Leads(down', EditsOf(ts), RowsOf(ts))
      BY DEF Has, Leads
    <3>. QED
      BY <1>1, <2>1, <3>1, <3>2
  <2>. QED
    BY <1>1, <1>2, <2>1 DEF DmInv, Peer
<1>8. \A ts : /\ Has(down', EditsOf(ts)) => Has(down', TellsOf(ts))
              /\ Has(down', RowsOf(ts)) => Has(down', TellsOf(ts))
              /\ Has(down', ReactsOf(ts)) => \A x : Has(down', SaysOf(kind, ts, x))
    BY DEF Has, TellsOf, SaysOf
<1>9. ASSUME NEW ts \in Held(db), Peer(ts) PROVE BodyWaits(ts)'
  <2>1. BodyWaits(ts) /\ ts \in DOMAIN srv
    BY <1>2, <1>9 DEF NewsInv, Peer
  <2>2. CASE srv[ts].edts > Led(db)
    <3>1. CASE ts <= db.cur["post"]
      BY <1>1, <1>8, <2>1, <2>2, <3>1 DEF BodyWaits
    <3>2. CASE ~(ts <= db.cur["post"])
      <4>1. kind = "dm" /\ ts > db.cur["post"]
        BY <1>2, <1>3, <2>1, <3>2 DEF OwnStore
      <4>. QED
        BY <1>1, <1>8, <2>1, <4>1 DEF BodyWaits
    <3>. QED
      BY <3>1, <3>2
  <2>3. CASE ~(srv[ts].edts > Led(db))
    BY <1>1, <2>1, <2>3 DEF BodyWaits
  <2>. QED
    BY <2>2, <2>3
<1>10. ASSUME NEW ts \in DOMAIN srv, Heard(ts)', NEW x \in Times PROVE SayingWaits(ts, x)'
  <2>1. CASE Heard(ts)
    <3>1. SayingWaits(ts, x)
      BY <1>2, <2>1 DEF NewsInv
    <3>2. CASE srv[ts].ets > Le(db)
      <4>1. kind = "dm" \/ ts <= db.cur["post"]
        BY <1>1, <1>2, <1>3, <2>1 DEF Heard, Nothing, OwnStore
      <4>. QED
        BY <1>1, <1>8, <3>2, <4>1 DEF SayingWaits
    <3>3. CASE ~(srv[ts].ets > Le(db))
      BY <1>1, <3>1, <3>3 DEF SayingWaits, Agree
    <3>. QED
      BY <3>2, <3>3
  <2>2. CASE ~Heard(ts)
    <3>1. Has(down', RowsOf(ts))
      BY <1>1, <1>10, <2>2 DEF Heard
    <3>2. kind = "channel"
      BY <1>1, <1>3, <2>2, <3>1 DEF Heard
    <3>3. CASE srv[ts].ets > 0
      <4>1. Has(down', SaysOf("channel", ts, x))
        BY <1>1, <3>1, <3>3, CurrentNow DEF Has
      <4>. QED
        BY <1>1, <3>2, <4>1 DEF SayingWaits
    <3>4. CASE ~(srv[ts].ets > 0)
      <4>1. x \notin srv[ts].reacts /\ x \notin db.emojis[ts]
        BY <1>2, <1>3, <3>4 DEF WordInv
      <4>. QED
        BY <1>1, <4>1 DEF SayingWaits, Agree
    <3>. QED
      BY <3>3, <3>4
  <2>. QED
    BY <2>1, <2>2
<1>11. NewsInv'
    BY <1>1, <1>9, <1>10 DEF NewsInv, Peer
<1>. QED
    BY <1>4, <1>6, <1>7, <1>11

-----------------------------------------------------------------------------
(* The updates that may be missing *)

LEMMA UpdateInvInit ==
    ASSUME SyncInit
    PROVE  UpdateInv
<1>1. /\ clock = 0 /\ db = EmptyStore /\ unsaved = Nothing /\ online = FALSE
      /\ up = <<>> /\ down = <<>> /\ srv = <<>> /\ held = FALSE
    BY DEF SyncInit
<1>2. DOMAIN srv = {} /\ DOMAIN up = {} /\ DOMAIN down = {}
    BY <1>1
<1>3. /\ Held(db) = {} /\ \A ts \in Times : db.emojis[ts] = {}
      /\ \A c \in Cursors : db.cur[c] = 0
    BY <1>1 DEF EmptyStore, Held, Cursors
<1>4. CursorInv
    BY CursorInvInit
<1>5. OwnInv
    BY <1>1, <1>2, <1>3 DEF OwnInv, OwnFrame, OwnStore, Nothing
<1>6. StampInv /\ WordInv
    BY <1>1, <1>2, <1>3 DEF StampInv, StoreStamped, WordInv
<1>7. DmInv /\ NewsInv
    BY <1>1, <1>2, <1>3 DEF DmInv, NewsInv
<1>. QED
    BY <1>4, <1>5, <1>6, <1>7 DEF UpdateInv

LEMMA UpdateInvNext ==
    ASSUME UpdateInv, [SyncNext]_syncVars
    PROVE  UpdateInv'
<1>1. CursorInv /\ OwnInv
    BY DEF UpdateInv
<1>2. CursorInv' /\ OwnInv'
    BY <1>1, CursorInvNext, OwnInvNext
<1>3. CASE QuietStep \/ UNCHANGED syncVars
  <2>1. StampInv' /\ WordInv' /\ DmInv' /\ NewsInv'
    BY <1>2, <1>3, QuietKeeps
  <2>. QED
    BY <1>2, <2>1 DEF UpdateInv
<1>4. CASE WePersist
  <2>1. StampInv' /\ WordInv' /\ DmInv' /\ NewsInv'
    BY <1>4, WePersistKept
  <2>. QED
    BY <1>2, <2>1 DEF UpdateInv
<1>5. CASE Connect
  <2>1. StampInv' /\ WordInv' /\ DmInv' /\ NewsInv'
    BY <1>5, ConnectKept
  <2>. QED
    BY <1>2, <2>1 DEF UpdateInv
<1>6. CASE Receive
  <2>1. StampInv' /\ WordInv' /\ DmInv' /\ NewsInv'
    BY <1>6, ReceiveKept
  <2>. QED
    BY <1>2, <2>1 DEF UpdateInv
<1>7. CASE LinkDrops \/ DiesInHandler \/ DiesInOperation
  <2>1. LossOfLink
    BY <1>1, <1>7, LossSteps
  <2>2. StampInv' /\ WordInv' /\ DmInv' /\ NewsInv'
    BY <2>1, LossKept
  <2>. QED
    BY <1>2, <2>2 DEF UpdateInv
<1>. QED
    BY <1>3, <1>4, <1>5, <1>6, <1>7 DEF SyncNext, QuietStep

\* The inductive invariant under the next theorem.  A row of another station that
\* is held shows the body the server has, or word of it is on its way, or the edit
\* floor of the next connect record is below it and no operation of ours that is
\* still being written will raise that floor past it, or it went with a link; so
\* does every reaction to a row the store has, or is about to have; and the last
\* word on the way is always that of the server (store.py, connect_record, the
\* cursor bumps of on_ced, on_cem and of the user's own operations in client.py).
THEOREM UpdateInvariance == SyncSpec => []UpdateInv
<1>1. SyncInit => UpdateInv
    BY UpdateInvInit
<1>2. UpdateInv /\ [SyncNext]_syncVars => UpdateInv'
    BY UpdateInvNext
<1>. QED
    BY <1>1, <1>2, PTL DEF SyncSpec

\* A body that differs is on its way, or will be asked for, or went with a link.
LEMMA EditsThatWait ==
    ASSUME UpdateInv, NEW ts \in DOMAIN srv \intersect Held(db), srv[ts].from = "peer",
           db.rows[ts].body # srv[ts].edts
    PROVE  EditIsComing(ts)
<1>1. Peer(ts) /\ BodyWaits(ts)
    BY DEF UpdateInv, NewsInv, Peer
<1>2. CASE online /\ Has(down, TellsOf(ts))
  <2>1. Ends(down, TellsOf(ts), ToldNow(srv, ts))
    BY <1>1 DEF UpdateInv, WordInv
  <2>2. Has(down, ToldNow(srv, ts))
    BY <1>2, <2>1, EndsMore
  <2>3. DOMAIN down = 1 .. Len(down) /\ \A i \in DOMAIN down : down[i] \in DownFrames
    BY ElementOfSeq DEF UpdateInv, CursorInv, SyncTypes
  <2>4. PICK i \in DOMAIN down : down[i] \in ToldNow(srv, ts)
    BY <2>2 DEF Has
  <2>5. down[i] \in TellsOf(ts) /\ down[i].body = srv[ts].edts
    BY <2>4 DEF ToldNow
  <2>6. down[i].t \in {"row", "edit"} /\ down[i].ts = ts
    BY <2>3, <2>5, FrameKinds
  <2>. QED
    BY <2>3, <2>5, <2>6 DEF EditIsComing
<1>3. CASE ~online /\ srv[ts].edts > Led(db)
  <2>1. ts <= db.cur["post"] \/ <<"edit", ts>> \in missed
    <3>1. kind \in {"dm", "channel"}
      BY SyncAssumption DEF UpdateInv, CursorInv, SyncTypes
    <3>2. CASE kind = "dm"
      BY <1>1, <3>2 DEF UpdateInv, DmInv
    <3>3. CASE kind = "channel"
      BY <3>3 DEF UpdateInv, OwnInv, OwnStore
    <3>. QED
      BY <3>1, <3>2, <3>3
  <2>. QED
    BY <1>3, <2>1 DEF EditIsComing, Lp
<1>. QED
    BY <1>1, <1>2, <1>3 DEF BodyWaits, EditIsComing

\* And so are reactions that differ.
LEMMA ReactionsThatWait ==
    ASSUME UpdateInv, NEW ts \in DOMAIN srv \intersect Held(db),
           Others(db.emojis[ts]) # Others(srv[ts].reacts)
    PROVE  ReactionIsComing(ts)
<1>1. ts \in Times /\ db.emojis[ts] \subseteq Stamps0 /\ srv[ts].reacts \subseteq Stamps0
  <2>1. db \in Stores /\ ts \in Held(db) /\ srv[ts] \in SrvRows
    BY ServerFacts DEF UpdateInv, CursorInv, SyncTypes
  <2>. QED
    BY <2>1, StoreFacts DEF SrvRows
<1>2. PICK x \in Times : ~Agree(ts, x)
  <2>1. PICK x \in Stamps0 \ {0} : ~(x \in db.emojis[ts] <=> x \in srv[ts].reacts)
    BY <1>1 DEF Others
  <2>2. x \in Times
    BY <2>1, SyncAssumption DEF Stamps0, Times
  <2>. QED
    BY <2>1, <2>2 DEF Agree
<1>3. SayingWaits(ts, x)
  <2>1. Heard(ts)
    BY DEF Heard
  <2>. QED
    BY <1>2, <2>1 DEF UpdateInv, NewsInv
<1>4. CASE online /\ Has(down, SaysOf(kind, ts, x))
  <2>1. Ends(down, StirsOf(ts), StirredNow(srv, ts))
    BY DEF UpdateInv, WordInv
  <2>2. Has(down, StirsOf(ts))
    BY <1>4, AboutOne DEF Has
  <2>3. Has(down, StirredNow(srv, ts))
    BY <2>1, <2>2, EndsMore
  <2>4. DOMAIN down = 1 .. Len(down) /\ \A i \in DOMAIN down : down[i] \in DownFrames
    BY ElementOfSeq DEF UpdateInv, CursorInv, SyncTypes
  <2>5. PICK i \in DOMAIN down : down[i] \in StirredNow(srv, ts)
    BY <2>3 DEF Has
  <2>6. down[i] \in StirsOf(ts) /\ down[i].ets = srv[ts].ets
    BY <2>5 DEF StirredNow
  <2>7. down[i].t \in {"row", "react", "reacts"} /\ down[i].ts = ts
    BY <2>4, <2>6, FrameKinds
  <2>. QED
    BY <2>4, <2>6, <2>7 DEF ReactionIsComing
<1>. QED
    BY <1>2, <1>3, <1>4 DEF SayingWaits, ReactionIsComing

\* Another station's row that is held and shows another body than the server has,
\* or other reactions than the server has, is being told of, or will be asked for
\* by the next connect record, or was being told of when a link went: no floor, no
\* bump of a cursor and no death between two transactions hides anything else
\* (connect_record of store.py, the handlers of client.py).
THEOREM UpdatesAreNotLost == SyncSpec => []UpdatesAreMissedOnlyInTransit
<1>1. UpdateInv => UpdatesAreMissedOnlyInTransit
    BY EditsThatWait, ReactionsThatWait DEF UpdatesAreMissedOnlyInTransit
<1>. QED
    BY <1>1, UpdateInvariance, PTL

=============================================================================
