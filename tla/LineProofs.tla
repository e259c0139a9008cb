----------------------------- MODULE LineProofs -----------------------------
(***************************************************************************)
(* Theorems about LineSession, for any bounds on attempts, held-back       *)
(* events, unread rows and abandoned reader threads.                       *)
(***************************************************************************)
EXTENDS LineProps, FiniteSetTheorems, SequenceTheorems, TLAPS

Kinds == Threads \union Losses

-----------------------------------------------------------------------------
(* Counting what is held back *)

Positions(s, t) == {i \in DOMAIN s : s[i] = t}

\* The positions of a sequence that hold t are finitely many, as many at most
\* as the sequence is long, and one more when t is appended.
LEMMA PositionsFinite ==
    ASSUME NEW S, NEW s \in Seq(S), NEW t
    PROVE  /\ IsFiniteSet(Positions(s, t))
           /\ Cardinality(Positions(s, t)) \in Nat
           /\ Cardinality(Positions(s, t)) <= Len(s)
<1>1. Len(s) \in Nat /\ DOMAIN s = 1 .. Len(s)
    BY LenProperties
<1>2. IsFiniteSet(1 .. Len(s)) /\ Cardinality(1 .. Len(s)) = Len(s)
    BY <1>1, FS_Interval, 1 \in Int
<1>3. Positions(s, t) \subseteq 1 .. Len(s)
    BY <1>1 DEF Positions
<1>4. /\ IsFiniteSet(Positions(s, t))
      /\ Cardinality(Positions(s, t)) <= Cardinality(1 .. Len(s))
    BY <1>2, <1>3, FS_Subset
<1>. QED
    BY <1>2, <1>4, FS_CardinalityType

LEMMA PositionsAppend ==
    ASSUME NEW S, NEW s \in Seq(S), NEW k \in S, NEW t
    PROVE  Cardinality(Positions(Append(s, k), t))
             = Cardinality(Positions(s, t)) + (IF k = t THEN 1 ELSE 0)
<1> DEFINE a == Append(s, k)
           P == Positions(s, t)
           Q == Positions(a, t)
<1>1. /\ Len(s) \in Nat /\ DOMAIN s = 1 .. Len(s)
      /\ a \in Seq(S) /\ Len(a) = Len(s) + 1
      /\ \A i \in 1 .. Len(s) : a[i] = s[i]
      /\ a[Len(s) + 1] = k
    BY LenProperties, AppendProperties
<1>2. DOMAIN a = 1 .. Len(s) + 1
    BY <1>1, LenProperties
<1>3. IsFiniteSet(P) /\ Cardinality(P) \in Nat
    BY PositionsFinite
<1>4. Len(s) + 1 \notin P
    BY <1>1 DEF Positions
<1> HIDE DEF a
<1>5. Q = IF k = t THEN P \union {Len(s) + 1} ELSE P
    BY <1>1, <1>2 DEF Positions
<1>6. Cardinality(Q) = Cardinality(P) + (IF k = t THEN 1 ELSE 0)
  <2> HIDE DEF P, Q
  <2>1. CASE k = t
    BY <2>1, <1>3, <1>4, <1>5, FS_AddElement
  <2>2. CASE k # t
    BY <2>2, <1>3, <1>5
  <2>. QED
    BY <2>1, <2>2
<1>. QED
    BY <1>6 DEF a

\* How the count of a thread's held-back rows moves with pending_events.
LEMMA HeldSteps ==
    ASSUME TypeOK
    PROVE  /\ \A t : Held(t) \in Nat /\ Held(t) <= Len(pending)
           /\ UNCHANGED pending => \A t : Held(t)' = Held(t)
           /\ pending' = <<>> => \A t : Held(t)' = 0
           /\ \A k \in Kinds : pending' = Append(pending, k) =>
                  \A t : Held(t)' = Held(t) + (IF k = t THEN 1 ELSE 0)
<1>1. pending \in Seq(Kinds)
    BY DEF TypeOK, Kinds
<1>2. \A t : Held(t) \in Nat /\ Held(t) <= Len(pending)
    BY <1>1, PositionsFinite DEF Held, Positions
<1>3. ASSUME UNCHANGED pending PROVE \A t : Held(t)' = Held(t)
    BY <1>3 DEF Held
<1>4. ASSUME pending' = <<>>, NEW t PROVE Held(t)' = 0
  <2>1. {i \in DOMAIN pending' : pending'[i] = t} = {}
    BY <1>4
  <2>. QED
    BY <2>1, FS_EmptySet DEF Held
<1>5. ASSUME NEW k \in Kinds, pending' = Append(pending, k), NEW t
      PROVE  Held(t)' = Held(t) + (IF k = t THEN 1 ELSE 0)
  <2>1. Held(t)' = Cardinality(Positions(Append(pending, k), t))
    BY <1>5, Zenon DEF Held, Positions
  <2>2. Held(t) = Cardinality(Positions(pending, t))
    BY DEF Held, Positions
  <2>. QED
    BY <1>1, <2>1, <2>2, PositionsAppend
<1>. QED
    BY <1>2, <1>3, <1>4, <1>5

\* pending_events takes one more, and it is found there.
LEMMA HoldsOneMore ==
    ASSUME TypeOK, NEW k \in Kinds, pending' = Append(pending, k), Len(pending) < MaxPending
    PROVE  /\ pending' \in Seq(Kinds) /\ Len(pending') <= MaxPending
           /\ \E i \in DOMAIN pending' : pending'[i] = k
<1>1. pending \in Seq(Kinds) /\ Len(pending) \in Nat
    BY LenProperties DEF TypeOK, Kinds
<1>2. /\ pending' \in Seq(Kinds) /\ Len(pending') = Len(pending) + 1
      /\ pending'[Len(pending) + 1] = k
    BY <1>1, AppendProperties
<1>3. DOMAIN pending' = 1 .. Len(pending) + 1
    BY <1>2, LenProperties
<1>. QED
    BY <1>1, <1>2, <1>3, BoundsAssumption

-----------------------------------------------------------------------------
(* The inductive invariant *)

IInv == LineInv /\ UnreadCounted

LEMMA InitInv == Init => IInv
<1>. SUFFICES ASSUME Init PROVE IInv
    OBVIOUS
<1>1. pending \in Seq(Kinds) /\ Len(pending) = 0
    BY EmptySeq DEF Init
<1>2. TypeOK
  <2>1. pending \in Seq(Threads \union Losses) /\ Len(pending) <= MaxPending
    BY <1>1, BoundsAssumption DEF Kinds
  <2>2. unread \in [Threads -> 0 .. MaxUnread] /\ tally \in [Threads -> 0 .. MaxUnread]
    BY BoundsAssumption DEF Init
  <2>3. stale \in 0 .. MaxStale /\ attempt \in 0 .. MaxAttempts
    BY BoundsAssumption DEF Init
  <2>. QED
    BY <2>1, <2>2, <2>3 DEF Init, TypeOK, Phases, Waits
<1>3. \A t : Held(t) = 0
  <2>1. \A t : {i \in DOMAIN pending : pending[i] = t} = {}
    BY DEF Init
  <2>. QED
    BY <2>1, FS_EmptySet DEF Held
<1>. QED
    BY <1>2, <1>3, BoundsAssumption
       DEF Init, IInv, LineInv, DeadLinkStops, LossIsKnown, CountersFit,
           UnreadCounted, InUi

\* The invariant in the form the steps are proved in: what is held back enters
\* by its type, its counts and whether a loss is in it.
PendingTyped == pending \in Seq(Kinds) /\ Len(pending) <= MaxPending

LossHeld == \E i \in DOMAIN pending : Terminal(pending[i])

Scalars ==
    /\ auto \in BOOLEAN /\ picker \in BOOLEAN /\ offline \in BOOLEAN
    /\ replied \in BOOLEAN /\ stop \in BOOLEAN /\ reading \in BOOLEAN
    /\ phase \in Phases /\ link \in {"opening", "up", "retrying", "dead"}
    /\ attempt \in 0 .. MaxAttempts
    /\ reason \in {"none", "terminal"} /\ awaits \in Waits
    /\ target \in Threads \union {"none"} /\ previous \in Threads \union {"none"}

Losing ==
    /\ phase = "online" /\ (link = "dead" \/ reason = "terminal") => stop
    /\ phase = "connecting" => reason = "none"
    /\ phase = "connecting" /\ link = "dead" => LossHeld

Stale ==
    /\ stale \in 0 .. MaxStale
    /\ phase \in {"start", "connecting"} \/ (InUi /\ awaits # "returned") => stale < MaxStale

Counts ==
    /\ PendingTyped
    /\ phase = "start" => pending = <<>>
    /\ unread \in [Threads -> 0 .. MaxUnread] /\ tally \in [Threads -> 0 .. MaxUnread]
    /\ \A t \in Threads : tally[t] + Held(t) <= MaxUnread
    /\ phase = "connecting" \/ InUi => \A t \in Threads : unread[t] <= tally[t] + Held(t)

Flat == Scalars /\ Losing /\ Stale /\ Counts

LEMMA Flattened == IInv <=> Flat
BY DEF IInv, LineInv, Flat, Scalars, Losing, Stale, Counts, TypeOK, PendingTyped, LossHeld, DeadLinkStops, LossIsKnown, CountersFit,
       UnreadCounted, Kinds

\* How the three move with pending_events.
LEMMA PendingSteps ==
    ASSUME Flat
    PROVE  /\ \A t \in Threads : Held(t) \in Nat /\ Held(t) <= Len(pending)
           /\ Len(pending) \in Nat
           /\ UNCHANGED pending =>
                  PendingTyped' /\ \A t \in Threads : Held(t)' = Held(t)
           /\ UNCHANGED <<pending, auto>> => LossHeld' = LossHeld
           /\ pending' = <<>> =>
                  PendingTyped' /\ \A t \in Threads : Held(t)' = 0
           /\ \A k \in Kinds : pending' = Append(pending, k) /\ Len(pending) < MaxPending =>
                  /\ PendingTyped'
                  /\ Terminal(k)' => LossHeld'
                  /\ \A t \in Threads : Held(t)' = Held(t) + (IF k = t THEN 1 ELSE 0)
<1>1. TypeOK /\ PendingTyped
    BY Flattened DEF Flat, Counts, IInv, LineInv
<1>2. Len(pending) \in Nat
    BY <1>1, LenProperties DEF PendingTyped
<1>3. UNCHANGED pending => PendingTyped'
    BY <1>1 DEF PendingTyped
<1>4. UNCHANGED <<pending, auto>> => LossHeld' = LossHeld
    BY DEF LossHeld, Terminal
<1>5. pending' = <<>> => PendingTyped'
    BY EmptySeq, BoundsAssumption DEF PendingTyped
<1>6. ASSUME NEW k \in Kinds, pending' = Append(pending, k), Len(pending) < MaxPending
      PROVE  PendingTyped' /\ (Terminal(k)' => LossHeld')
    BY <1>1, <1>6, HoldsOneMore DEF PendingTyped, LossHeld
<1>. QED
    BY <1>1, <1>2, <1>3, <1>4, <1>5, <1>6, HeldSteps, Zenon

\* What an event leaves alone, and what it may do to the prompt.
LEMMA HookFrame ==
    ASSUME Scalars, NEW kind, NEW new, EventHook(kind, new)
    PROVE  /\ stop' \in BOOLEAN
           /\ reason' \in {"none", "terminal"}
           /\ UNCHANGED <<mode, offline, attempt, replied, awaits, reading, stale, target, previous>>
BY DEF Scalars, EventHook, RenderEvent, HoldBack, SignalTerminalLinkLoss

LEMMA ConnectsScalars ==
    ASSUME Scalars, NEW p, Connects(p) PROVE Scalars'
<1>1. attempt' \in 0 .. MaxAttempts
    BY BoundsAssumption DEF Connects
<1>2. offline' \in BOOLEAN
    BY DEF Connects
<1>. QED
    BY <1>1, <1>2 DEF Scalars, Connects, NewUi, mode, Phases, Waits

LEMMA NextScalars == Flat /\ [Next]_vars => Scalars'
<1>. SUFFICES ASSUME Scalars, [Next]_vars PROVE Scalars'
    BY DEF Flat
<1>. USE BoundsAssumption
     DEF Scalars, InUi, mode, connection, prompt, threads, Phases, Waits, Threads
<1>1. CASE PickProfile
  <2>1. CASE RunOffline
    BY <2>1 DEF RunOffline, NewUi, ReadsLine
  <2>. QED
    BY <1>1, <2>1, ConnectsScalars DEF PickProfile
<1>2. CASE Reconnect
    BY <1>2, ConnectsScalars DEF Reconnect
<1>3. CASE OpenFails
    BY <1>3 DEF OpenFails
<1>4. CASE OpenSucceeds
    BY <1>4 DEF OpenSucceeds
<1>5. CASE CancelConnect
    BY <1>5 DEF CancelConnect
<1>6. CASE Reply
    BY <1>6 DEF Reply
<1>7. CASE Reopens
    BY <1>7 DEF Reopens
<1>8. ASSUME NEW t \in Threads, NEW new \in BOOLEAN, Receives(t, new) PROVE Scalars'
    BY <1>8, HookFrame DEF Receives
<1>9. CASE Disconnects
  <2>1. link' \in {"opening", "up", "retrying", "dead"} /\ UNCHANGED phase
    BY <1>9 DEF Disconnects
  <2>2. EventHook("disconnect", FALSE)
    BY <1>9 DEF Disconnects
  <2>3. /\ stop' \in BOOLEAN /\ reason' \in {"none", "terminal"}
        /\ UNCHANGED <<auto, picker, offline, attempt, replied, awaits, reading, target, previous>>
    BY <2>2, HookFrame
  <2>. QED
    BY <2>1, <2>3
<1>10. CASE GivesUp
  <2>1. link' \in {"opening", "up", "retrying", "dead"} /\ UNCHANGED phase
    BY <1>10 DEF GivesUp
  <2>2. EventHook("giveup", FALSE)
    BY <1>10 DEF GivesUp
  <2>3. /\ stop' \in BOOLEAN /\ reason' \in {"none", "terminal"}
        /\ UNCHANGED <<auto, picker, offline, attempt, replied, awaits, reading, target, previous>>
    BY <2>2, HookFrame
  <2>. QED
    BY <2>1, <2>3
<1>11. CASE Settles
    BY <1>11 DEF Settles, Started, SignalTerminalLinkLoss
<1>12. CASE DmCommand
    BY <1>12 DEF DmCommand, Awaits, SwitchTo
<1>13. CASE ChCommand
  <2>1. target' = "ch" /\ UNCHANGED <<mode, phase, connection, stop, reason>>
    BY <1>13 DEF ChCommand, SwitchTo
  <2>2. previous' \in Threads \union {"none"}
    BY <1>13 DEF ChCommand
  <2>3. awaits' \in Waits /\ reading' \in BOOLEAN
    BY <1>13 DEF ChCommand, Awaits
  <2>. QED
    BY <2>1, <2>2, <2>3
<1>14. CASE Declines
    BY <1>14 DEF Declines, Awaits
<1>15. CASE Back
    BY <1>15 DEF Back, Awaits
<1>16. CASE OtherLine
    BY <1>16 DEF OtherLine, Awaits
<1>17. CASE CountTyped
    BY <1>17 DEF CountTyped, Awaits
<1>18. CASE HandleSub
    BY <1>18 DEF HandleSub, Awaits
<1>19. CASE SubAck
    BY <1>19 DEF SubAck, Awaits
<1>20. CASE EndOfInput
    BY <1>20 DEF EndOfInput, Awaits
<1>21. CASE Quit
    BY <1>21 DEF Quit, Awaits
<1>22. CASE StopWakes
    BY <1>22 DEF StopWakes, Woken, Awaits
<1>23. CASE RunReturns
    BY <1>23 DEF RunReturns
<1>24. CASE QuitAsked
    BY <1>24 DEF QuitAsked
<1>25. CASE Exits
    BY <1>25 DEF Exits
<1>26. CASE Swallowed
    BY <1>26 DEF Swallowed
<1>27. CASE UNCHANGED vars
    BY <1>27 DEF vars
<1>. HIDE DEF Scalars, Threads
<1>. QED
    BY <1>1, <1>2, <1>3, <1>4, <1>5, <1>6, <1>7, <1>8, <1>9, <1>10, <1>11, <1>12, <1>13, <1>14,
       <1>15, <1>16, <1>17, <1>18, <1>19, <1>20, <1>21, <1>22, <1>23, <1>24, <1>25, <1>26, <1>27
       DEF Next, User, Client, Program

LEMMA NextStale == Flat /\ [Next]_vars => Stale'
<1>. SUFFICES ASSUME Scalars, Stale, [Next]_vars PROVE Stale'
    BY DEF Flat
<1>. USE BoundsAssumption
     DEF Stale, Scalars, InUi, mode, connection, prompt, threads, At, Awaits, Taken
<1>1. CASE PickProfile \/ Reconnect
    BY <1>1 DEF PickProfile, Reconnect, Connects, RunOffline, NewUi, ReadsLine
<1>2. CASE OpenFails \/ OpenSucceeds \/ CancelConnect \/ Reply \/ Reopens
    BY <1>2 DEF OpenFails, OpenSucceeds, CancelConnect, Reply, Reopens
<1>3. ASSUME NEW t \in Threads, NEW new \in BOOLEAN, Receives(t, new) PROVE Stale'
    BY <1>3 DEF Receives, EventHook
<1>4. CASE Disconnects \/ GivesUp
    BY <1>4 DEF Disconnects, GivesUp, EventHook
<1>5. CASE Settles
    BY <1>5 DEF Settles, Started
<1>6. CASE DmCommand \/ ChCommand \/ Declines \/ Back \/ OtherLine \/ CountTyped
    BY <1>6 DEF DmCommand, ChCommand, Declines, Back, OtherLine, CountTyped
<1>7. CASE HandleSub \/ SubAck \/ EndOfInput \/ Quit
    BY <1>7 DEF HandleSub, SubAck, EndOfInput, Quit
<1>8. CASE StopWakes
    BY <1>8 DEF StopWakes, Woken
<1>9. CASE RunReturns \/ QuitAsked \/ Exits \/ Swallowed \/ UNCHANGED vars
    BY <1>9 DEF RunReturns, QuitAsked, Exits, Swallowed, vars
<1>. HIDE DEF Stale, Threads
<1>. QED
    BY <1>1, <1>2, <1>3, <1>4, <1>5, <1>6, <1>7, <1>8, <1>9 DEF Next, User, Client, Program

LEMMA NextLosing == Flat /\ [Next]_vars => Losing'
<1>. SUFFICES ASSUME Flat, [Next]_vars PROVE Losing'
    OBVIOUS
<1>h. /\ UNCHANGED <<pending, auto>> => LossHeld' = LossHeld
      /\ \A k \in Kinds : pending' = Append(pending, k) /\ Len(pending) < MaxPending =>
             (Terminal(k)' => LossHeld')
    BY PendingSteps
<1>l. Scalars /\ Losing
    BY DEF Flat
<1>. USE <1>l
     DEF Losing, Scalars, InUi, mode, connection, prompt, threads, At, Awaits, Taken
<1>1. CASE PickProfile \/ Reconnect
    BY <1>1 DEF PickProfile, Reconnect, Connects, RunOffline, NewUi, ReadsLine
<1>2. CASE OpenFails \/ OpenSucceeds \/ CancelConnect \/ Reply \/ Reopens
    BY <1>2, <1>h DEF OpenFails, OpenSucceeds, CancelConnect, Reply, Reopens
<1>3. ASSUME NEW t \in Threads, NEW new \in BOOLEAN, Receives(t, new) PROVE Losing'
    BY <1>3 DEF Receives, EventHook, RenderEvent, HoldBack, SignalTerminalLinkLoss
<1>4. CASE Disconnects
    BY <1>4, <1>h DEF Disconnects, EventHook, RenderEvent, SignalTerminalLinkLoss, Terminal,
       HoldBack, Kinds, Losses
<1>5. CASE GivesUp
    BY <1>5, <1>h DEF GivesUp, EventHook, RenderEvent, SignalTerminalLinkLoss, Terminal,
       HoldBack, Kinds, Losses
<1>6. CASE Settles
    BY <1>6 DEF Settles, Started, SignalTerminalLinkLoss, LossHeld
<1>7. CASE DmCommand \/ ChCommand \/ Declines \/ Back \/ OtherLine \/ CountTyped
    BY <1>7 DEF DmCommand, ChCommand, Declines, Back, OtherLine, CountTyped
<1>8. CASE HandleSub \/ SubAck \/ EndOfInput \/ Quit \/ StopWakes
    BY <1>8 DEF HandleSub, SubAck, EndOfInput, Quit, StopWakes, Woken
<1>9. CASE RunReturns \/ QuitAsked \/ Exits \/ Swallowed \/ UNCHANGED vars
    BY <1>9, <1>h DEF RunReturns, QuitAsked, Exits, Swallowed, vars
<1>. HIDE DEF Losing, Threads
<1>. QED
    BY <1>1, <1>2, <1>3, <1>4, <1>5, <1>6, <1>7, <1>8, <1>9 DEF Next, User, Client, Program

LEMMA NextCounts == Flat /\ [Next]_vars => Counts'
<1>. SUFFICES ASSUME Flat, [Next]_vars PROVE Counts'
    OBVIOUS
<1>h. /\ \A t \in Threads : Held(t) \in Nat /\ Held(t) <= Len(pending)
      /\ Len(pending) \in Nat
      /\ UNCHANGED pending =>
             PendingTyped' /\ \A t \in Threads : Held(t)' = Held(t)
      /\ pending' = <<>> => PendingTyped' /\ \A t \in Threads : Held(t)' = 0
      /\ \A k \in Kinds : pending' = Append(pending, k) /\ Len(pending) < MaxPending =>
             /\ PendingTyped'
             /\ \A t \in Threads : Held(t)' = Held(t) + (IF k = t THEN 1 ELSE 0)
    BY PendingSteps
<1>c. Scalars /\ Counts
    BY DEF Flat
<1>. USE BoundsAssumption
     DEF Counts, InUi, mode, connection, prompt, threads
<1>1. CASE Connects("wps") \/ Connects("offline")
    BY <1>1, <1>h, <1>c DEF Connects, NewUi
<1>2. CASE PickProfile \/ Reconnect
    BY <1>1, <1>2, <1>h, <1>c DEF PickProfile, Reconnect, RunOffline, NewUi, ReadsLine
<1>3. CASE OpenFails \/ OpenSucceeds \/ CancelConnect \/ Reply \/ Reopens
    BY <1>3, <1>h, <1>c DEF OpenFails, OpenSucceeds, CancelConnect, Reply, Reopens
<1>4. ASSUME NEW k \in Kinds, NEW new \in BOOLEAN, EventHook(k, new), UNCHANGED phase,
             Len(pending) < MaxPending, k \in Threads => Room(k)
      PROVE  Counts'
  <2>1. CASE phase = "online" /\ k \in Threads
    <3>1. HandleLive(k, new) /\ UNCHANGED pending
      BY <1>4, <2>1 DEF EventHook, RenderEvent, HandleLiveDm, HandleLivePost, Threads
    <3>2. unread[k] < MaxUnread /\ tally[k] + Held(k) < MaxUnread
      BY <1>4, <2>1, <1>h, <1>c DEF Room
    <3>3. PendingTyped' /\ \A t \in Threads : Held(t)' = Held(t)
      BY <3>1, <1>h
    <3>4. CASE target = k
      <4>1. unread' = [unread EXCEPT ![k] = 0] /\ tally' = tally
        BY <3>1, <3>4 DEF HandleLive
      <4>. QED
        BY <1>4, <2>1, <3>3, <4>1, <1>h, <1>c
    <3>5. CASE target # k
      <4>1. /\ unread' = [unread EXCEPT ![k] = IF new THEN @ + 1 ELSE @]
            /\ tally' = [tally EXCEPT ![k] = @ + 1]
        BY <3>1, <3>5 DEF HandleLive
      <4>2. unread' \in [Threads -> 0 .. MaxUnread] /\ tally' \in [Threads -> 0 .. MaxUnread]
        BY <2>1, <3>2, <4>1, <1>h, <1>c
      <4>3. ASSUME NEW t \in Threads
            PROVE  /\ tally'[t] + Held(t)' <= MaxUnread
                   /\ unread'[t] <= tally'[t] + Held(t)'
        <5>1. /\ unread[t] \in Nat /\ tally[t] \in Nat /\ Held(t) \in Nat
              /\ tally[t] + Held(t) <= MaxUnread /\ unread[t] <= tally[t] + Held(t)
          BY <2>1, <1>h, <1>c
        <5>2. CASE t = k
          BY <2>1, <3>2, <3>3, <4>1, <5>1, <5>2, <1>c
        <5>3. CASE t # k
          BY <3>3, <4>1, <5>1, <5>3, <1>c
        <5>. QED
          BY <5>2, <5>3
      <4>. QED
        BY <1>4, <2>1, <3>3, <4>2, <4>3
    <3>. QED
      BY <3>4, <3>5
  <2>2. CASE phase = "online" /\ k \notin Threads
    BY <1>4, <2>2, <1>h, <1>c DEF EventHook, RenderEvent, Threads
  <2>3. CASE phase = "connecting"
    <3>1. HoldBack(k, new)
      BY <1>4, <2>3 DEF EventHook
    <3>2. k \in Threads => unread[k] < MaxUnread /\ tally[k] + Held(k) < MaxUnread
      BY <1>4, <1>h, <1>c DEF Room
    <3>3. unread' \in [Threads -> 0 .. MaxUnread]
      BY <3>1, <3>2, <1>c DEF HoldBack
    <3>4. \A t \in Threads : Held(t)' = Held(t) + (IF k = t THEN 1 ELSE 0)
      BY <1>4, <3>1, <1>h DEF HoldBack
    <3>5. PendingTyped' /\ tally' = tally
      BY <1>4, <3>1, <1>h DEF HoldBack
    <3>6. \A t \in Threads : unread'[t] <= unread[t] + (IF k = t THEN 1 ELSE 0)
      BY <3>1, <1>c DEF HoldBack
    <3>7. ASSUME NEW t \in Threads
          PROVE  /\ tally'[t] + Held(t)' <= MaxUnread
                 /\ unread'[t] <= tally'[t] + Held(t)'
      <4>1. /\ unread[t] \in Nat /\ unread'[t] \in Nat /\ tally[t] \in Nat /\ Held(t) \in Nat
            /\ tally[t] + Held(t) <= MaxUnread /\ unread[t] <= tally[t] + Held(t)
        BY <2>3, <3>3, <1>h, <1>c
      <4>2. t = k => tally[t] + Held(t) < MaxUnread
        BY <3>2
      <4>. QED
        BY <3>4, <3>5, <3>6, <4>1, <4>2
    <3>. QED
      BY <1>4, <2>3, <3>3, <3>5, <3>7, <1>c
  <2>. QED
    BY <1>4, <2>1, <2>2, <2>3 DEF EventHook
<1>5. ASSUME NEW t \in Threads, NEW new \in BOOLEAN, Receives(t, new) PROVE Counts'
    BY <1>4, <1>5 DEF Receives, Kinds
<1>6. CASE Disconnects \/ GivesUp
    BY <1>4, <1>6 DEF Disconnects, GivesUp, Kinds, Losses, Threads
<1>7. CASE Settles
    BY <1>7, <1>h, <1>c DEF Settles, Started
<1>8. CASE DmCommand \/ ChCommand
  <2>1. ASSUME NEW t \in Threads, SwitchTo(t), InUi, UNCHANGED <<phase, pending>> PROVE Counts'
    BY <2>1, <1>h, <1>c DEF SwitchTo
  <2>. QED
    BY <1>8, <2>1 DEF DmCommand, ChCommand, At, Threads
<1>9. CASE Declines \/ Back \/ OtherLine \/ CountTyped
    BY <1>9, <1>h, <1>c DEF Declines, Back, OtherLine, CountTyped, At
<1>10. CASE HandleSub \/ SubAck \/ EndOfInput \/ Quit \/ StopWakes
    BY <1>10, <1>h, <1>c DEF HandleSub, SubAck, EndOfInput, Quit, StopWakes, Woken, At
<1>11. CASE RunReturns \/ QuitAsked \/ Exits \/ Swallowed \/ UNCHANGED vars
    BY <1>11, <1>h, <1>c DEF RunReturns, QuitAsked, Exits, Swallowed, vars
<1>. HIDE DEF Counts, Threads
<1>. QED
    BY <1>2, <1>3, <1>5, <1>6, <1>7, <1>8, <1>9, <1>10, <1>11 DEF Next, User, Client, Program

LEMMA LineInvariance == Spec => []IInv
<1>1. Flat /\ [Next]_vars => Flat'
    BY NextScalars, NextStale, NextLosing, NextCounts DEF Flat
<1>2. IInv /\ [Next]_vars => IInv'
    BY <1>1, Flattened, PTL
<1>. QED
    BY <1>2, InitInv, PTL DEF Spec

\* However a session starts, is lost and is taken up again, nobody is left at
\* the prompt of a link that will not come back: whoever was told of the loss
\* has set _stop.
THEOREM DeadLinksStop == Spec => []LineInv
<1>1. IInv => LineInv
    BY DEF IInv
<1>. QED
    BY <1>1, LineInvariance, PTL

\* No unread row is missing from the tally the notices are made of, whether it
\* was in the store before, came while the events were held back, or later.
THEOREM NothingUnreadIsMissed == Spec => []UnreadCounted
<1>1. IInv => UnreadCounted
    BY DEF IInv
<1>. QED
    BY <1>1, LineInvariance, PTL
=============================================================================
