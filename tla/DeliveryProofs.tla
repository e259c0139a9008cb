--------------------------- MODULE DeliveryProofs ---------------------------
(***************************************************************************)
(* Theorems about Delivery, for every pool of timers and every bound.       *)
(***************************************************************************)
EXTENDS DeliveryProps, TLAPS

\* What the proofs need to know of tokens and operations.
LEMMA TokenFacts ==
    /\ 0 \in Tokens
    /\ \A e \in Tokens : e \in Nat /\ Kind(e) \in Kinds
    /\ \A e \in Tokens : (e < MaxEdits) => (e + 1 \in Tokens)
BY DeliveryAssumption DEF Tokens, Kind, Kinds

LEMMA OperationFacts ==
    /\ \A o \in Operations : o.token \in Tokens /\ o.op \in {"send", "resend", "edit"}
    /\ \A o \in Operations : o.op = "send" => o.token = 0
    /\ [op |-> "send", token |-> 0] \in Operations
    /\ \A e \in Tokens : [op |-> "resend", token |-> e] \in Operations
    /\ \A e \in Tokens \ {0} : [op |-> "edit", token |-> e] \in Operations
<1>1. \A o \in Operations :
        /\ o.token \in Tokens
        /\ o.op \in {"send", "resend", "edit"}
        /\ o.op = "send" => o.token = 0
    BY TokenFacts DEF Operations
<1>2. /\ [op |-> "send", token |-> 0] \in Operations
      /\ \A e \in Tokens : [op |-> "resend", token |-> e] \in Operations
      /\ \A e \in Tokens \ {0} : [op |-> "edit", token |-> e] \in Operations
    BY DEF Operations
<1>. QED
    BY <1>1, <1>2

\* Task.cancel() keeps the type of the program counters.
LEMMA CancelType ==
    ASSUME NEW p \in {"none"} \union Live \union Cancelled
    PROVE  Cancel(p) \in {"none"} \union Live \union Cancelled
BY DEF Cancel, Live, Cancelled

-----------------------------------------------------------------------------
(* Types *)

LEMMA InitType == Init => TypeOK
<1>. SUFFICES ASSUME Init PROVE TypeOK
    OBVIOUS
<1>1. queue \in Seq(Operations)
  <2>1. [op |-> "send", token |-> 0] \in Operations
      BY TokenFacts, OperationFacts
  <2>. QED
      BY <2>1 DEF Init
<1>2. resends \in 0 .. MaxResends
    BY DeliveryAssumption DEF Init
<1>3. flight \in Seq(Tokens) /\ acks \in Seq(Tokens)
    BY DEF Init
<1>4. notices \in [Tokens -> Nat] /\ about \in [Timers -> Tokens]
    BY TokenFacts DEF Init
<1>. QED
    BY <1>1, <1>2, <1>3, <1>4, TokenFacts DEF Init, TypeOK

\* Taking the operation at the head off the queue.
LEMMA HeadTail ==
    ASSUME NEW S, NEW q \in Seq(S), q # <<>>
    PROVE  Head(q) \in S /\ Tail(q) \in Seq(S)
OBVIOUS

\* Making a timer keeps the types of the timer tables.
LEMMA ScheduleType ==
    ASSUME TypeOK, NEW e \in Tokens, Schedule(e)
    PROVE  /\ pend' \in Tokens
           /\ slot' \in [Kinds -> Timers \union {NoTimer}]
           /\ pc' \in [Timers -> {"none"} \union Live \union Cancelled]
           /\ about' \in [Timers -> Tokens]
<1>1. PICK t \in Timers :
        /\ pend' = IF e = 0 THEN pend ELSE e
        /\ pc' = [Without(Kind(e)) EXCEPT ![t] = "new"]
        /\ about' = [about EXCEPT ![t] = e]
        /\ slot' = [slot EXCEPT ![Kind(e)] = t]
    BY DEF Schedule
<1>2. Without(Kind(e)) \in [Timers -> {"none"} \union Live \union Cancelled]
  <2>1. CASE slot[Kind(e)] = NoTimer
      BY <2>1 DEF Without, TypeOK
  <2>2. CASE slot[Kind(e)] # NoTimer
    <3>1. slot[Kind(e)] \in Timers
        BY <2>2, TokenFacts DEF TypeOK
    <3>2. Cancel(pc[slot[Kind(e)]]) \in {"none"} \union Live \union Cancelled
        BY <3>1, CancelType DEF TypeOK
    <3>. QED
        BY <2>2, <3>1, <3>2 DEF Without, TypeOK
  <2>. QED
      BY <2>1, <2>2
<1>3. pc' \in [Timers -> {"none"} \union Live \union Cancelled]
    BY <1>1, <1>2 DEF Live
<1>. QED
    BY <1>1, <1>3 DEF TypeOK

\* Cancelling every timer in the slots keeps the type of the counters.
LEMMA CancelAllType ==
    ASSUME TypeOK,
           pc' = [t \in Timers |-> IF \E k \in Kinds : slot[k] = t
                                   THEN Cancel(pc[t]) ELSE pc[t]]
    PROVE  pc' \in [Timers -> {"none"} \union Live \union Cancelled]
BY CancelType DEF TypeOK

LEMMA NextType == TypeOK /\ HeadWrites /\ [Next]_vars => TypeOK'
<1>. SUFFICES ASSUME TypeOK, HeadWrites, [Next]_vars PROVE TypeOK'
    OBVIOUS
<1>. USE DEF TypeOK, storeVars, timerVars, sendVars, netVars
<1>1. ASSUME NEW t \in Timers, TimerStarts(t) PROVE TypeOK'
    BY <1>1 DEF TimerStarts, Live
<1>2. ASSUME NEW t \in Timers, TimerFires(t) PROVE TypeOK'
  <2>1. about[t] \in Tokens /\ Kind(about[t]) \in Kinds
      BY TokenFacts
  <2>2. notices[about[t]] + 1 \in Nat
      BY <2>1
  <2>3. notices' \in [Tokens -> Nat]
      BY <1>2, <2>2 DEF TimerFires
  <2>. QED
      BY <1>2, <2>1, <2>3 DEF TimerFires, Popped
<1>3. ASSUME NEW t \in Timers, TimerUnwinds(t) PROVE TypeOK'
    BY <1>3 DEF TimerUnwinds, Popped
<1>4. CASE ResendBegins
  <2>1. queue' \in Seq(Operations)
      BY <1>4, OperationFacts DEF ResendBegins
  <2>2. resends' \in 0 .. MaxResends
      BY <1>4, DeliveryAssumption DEF ResendBegins
  <2>. QED
      BY <1>4, <2>1, <2>2 DEF ResendBegins
<1>5. CASE EditBegins
  <2>1. clock' \in Tokens \ {0} /\ clock' \in Tokens
      BY <1>5, TokenFacts DEF EditBegins
  <2>2. queue' \in Seq(Operations)
      BY <1>5, <2>1, OperationFacts DEF EditBegins
  <2>. QED
      BY <1>5, <2>1, <2>2 DEF EditBegins
<1>6. CASE SendGetsLock
  <2>1. queue' \in Seq(Operations)
      BY <1>6, HeadTail DEF SendGetsLock
  <2>. QED
      BY <1>6, <2>1 DEF SendGetsLock
<1>7. CASE SendReturns
  <2>. DEFINE o == Head(queue)
  <2>1. o \in Operations /\ queue' \in Seq(Operations)
      BY <1>7, HeadTail DEF SendReturns, HeadWrites
  <2>2. o.token \in Tokens
      BY <2>1, OperationFacts
  <2>3. row' \in {"absent", "pending", "delivered"} /\ edit' \in Tokens
    <3>1. Persist(o)
        BY <1>7 DEF SendReturns
    <3>2. o.op \in {"send", "resend", "edit"}
        BY <2>1, OperationFacts
    <3>. QED
        BY <2>2, <3>1, <3>2 DEF Persist
  <2>4. Schedule(o.token)
      BY <1>7 DEF SendReturns
  <2>5. flight' \in Seq(Tokens)
      BY <1>7, <2>2 DEF SendReturns
  <2>6. silent' \in SUBSET Tokens
      BY <1>7, <2>2, TokenFacts DEF SendReturns
  <2>. QED
      BY <1>7, <2>1, <2>2, <2>3, <2>4, <2>5, <2>6, ScheduleType DEF SendReturns
<1>8. CASE SendRaises
  <2>1. queue' \in Seq(Operations)
      BY <1>8, HeadTail DEF SendRaises, HeadWrites
  <2>. QED
      BY <1>8, <2>1 DEF SendRaises
<1>9. CASE ServerTakes
    BY <1>9, HeadTail DEF ServerTakes
<1>10. CASE LinkDrops
  <2>1. flight' \in Seq(Tokens) /\ acks' \in Seq(Tokens)
      BY <1>10 DEF LinkDrops
  <2>. QED
      BY <1>10, <2>1 DEF LinkDrops
<1>11. CASE LinkReturns
    BY <1>11 DEF LinkReturns
<1>12. CASE AckArrives
  <2>1. pc' \in [Timers -> {"none"} \union Live \union Cancelled]
      BY <1>12, CancelAllType DEF AckArrives
  <2>2. acks' \in Seq(Tokens)
      BY <1>12, HeadTail DEF AckArrives
  <2>. QED
      BY <1>12, <2>1, <2>2, TokenFacts DEF AckArrives, Forget
<1>13. CASE RowComesBack
    BY <1>13 DEF RowComesBack
<1>14. CASE Close
  <2>1. pc' \in [Timers -> {"none"} \union Live \union Cancelled]
      BY <1>14, CancelAllType DEF Close
  <2>2. flight' \in Seq(Tokens) /\ acks' \in Seq(Tokens)
      BY <1>14 DEF Close
  <2>. QED
      BY <1>14, <2>1, <2>2, TokenFacts DEF Close
<1>15. CASE UNCHANGED vars
    BY <1>15 DEF vars
<1>. QED
    BY <1>1, <1>2, <1>3, <1>4, <1>5, <1>6, <1>7, <1>8, <1>9, <1>10, <1>11, <1>12,
       <1>13, <1>14, <1>15
       DEF Next, Timing, Operating, Networking

-----------------------------------------------------------------------------
(* The timer tables *)

LEMMA NextSlot == TypeOK /\ SlotIsLive /\ [Next]_vars => SlotIsLive'
<1>. SUFFICES ASSUME TypeOK, SlotIsLive, [Next]_vars PROVE SlotIsLive'
    OBVIOUS
<1>. USE DeliveryAssumption
     DEF TypeOK, SlotIsLive, Live, storeVars, timerVars, sendVars, netVars
<1>1. ASSUME NEW t \in Timers, TimerStarts(t) PROVE SlotIsLive'
    BY <1>1 DEF TimerStarts
<1>2. ASSUME NEW t \in Timers, TimerFires(t) PROVE SlotIsLive'
    BY <1>2 DEF TimerFires, Popped,  Kinds,  Kind
<1>3. ASSUME NEW t \in Timers, TimerUnwinds(t) PROVE SlotIsLive'
    BY <1>3 DEF TimerUnwinds, Popped,  Cancelled,  Kinds,  Kind
<1>4. CASE ResendBegins
    BY <1>4 DEF ResendBegins
<1>5. CASE EditBegins
    BY <1>5 DEF EditBegins
<1>6. CASE SendGetsLock
    BY <1>6 DEF SendGetsLock
<1>7. CASE SendReturns
  <2>. DEFINE e == Head(queue).token
  <2>1. PICK t \in Timers :
          /\ pc[t] = "none"
          /\ pc' = [Without(Kind(e)) EXCEPT ![t] = "new"]
          /\ about' = [about EXCEPT ![t] = e]
          /\ slot' = [slot EXCEPT ![Kind(e)] = t]
      BY <1>7 DEF SendReturns, Schedule
  <2>2. ASSUME NEW k \in Kinds, slot'[k] # NoTimer
        PROVE  pc'[slot'[k]] \in Live /\ Kind(about'[slot'[k]]) = k
    <3>1. CASE k = Kind(e)
      <4>1. slot'[k] = t
          BY <2>1, <2>2, <3>1
      <4>2. pc'[t] = "new"
          BY <2>1 DEF Without
      <4>3. about'[t] = e
          BY <2>1
      <4>. QED
          BY <3>1, <4>1, <4>2, <4>3
    <3>2. CASE k # Kind(e)
      <4>1. slot'[k] = slot[k] /\ slot[k] # NoTimer /\ slot[k] \in Timers
          BY <2>1, <2>2, <3>2
      <4>2. slot[k] # t /\ slot[k] # slot[Kind(e)]
          BY <2>1, <3>2, <4>1, TokenFacts DEF Kind, Kinds
      <4>3. pc'[slot[k]] = pc[slot[k]] /\ about'[slot[k]] = about[slot[k]]
          BY <2>1, <4>1, <4>2 DEF Without
      <4>. QED
          BY <4>1, <4>3
    <3>. QED
        BY <3>1, <3>2
  <2>. QED
      BY <2>2
<1>8. CASE SendRaises
    BY <1>8 DEF SendRaises
<1>9. CASE ServerTakes
    BY <1>9 DEF ServerTakes
<1>10. CASE LinkDrops
    BY <1>10 DEF LinkDrops
<1>11. CASE LinkReturns
    BY <1>11 DEF LinkReturns
<1>12. CASE AckArrives
    BY <1>12 DEF AckArrives
<1>13. CASE RowComesBack
    BY <1>13 DEF RowComesBack
<1>14. CASE Close
    BY <1>14 DEF Close
<1>15. CASE UNCHANGED vars
    BY <1>15 DEF vars
<1>. QED
    BY <1>1, <1>2, <1>3, <1>4, <1>5, <1>6, <1>7, <1>8, <1>9, <1>10, <1>11, <1>12,
       <1>13, <1>14, <1>15
       DEF Next, Timing, Operating, Networking

-----------------------------------------------------------------------------
(* What is waited for is unanswered *)

LEMMA NextWaits ==
    TypeOK /\ HeadWrites /\ WaitsForSilent /\ [Next]_vars
        => HeadWrites' /\ WaitsForSilent'
<1>. SUFFICES ASSUME TypeOK, HeadWrites, WaitsForSilent, [Next]_vars
              PROVE  HeadWrites' /\ WaitsForSilent'
    OBVIOUS
<1>. USE DEF HeadWrites, WaitsForSilent, storeVars, timerVars, sendVars, netVars
<1>1. ASSUME NEW t \in Timers, TimerStarts(t) PROVE HeadWrites' /\ WaitsForSilent'
    BY <1>1 DEF TimerStarts
<1>2. ASSUME NEW t \in Timers, TimerFires(t) PROVE HeadWrites' /\ WaitsForSilent'
    BY <1>2 DEF TimerFires
<1>3. ASSUME NEW t \in Timers, TimerUnwinds(t) PROVE HeadWrites' /\ WaitsForSilent'
    BY <1>3 DEF TimerUnwinds
<1>4. CASE ResendBegins
    BY <1>4 DEF ResendBegins, TypeOK
<1>5. CASE EditBegins
    BY <1>5 DEF EditBegins, TypeOK
<1>6. CASE SendGetsLock
    BY <1>6 DEF SendGetsLock
<1>7. CASE SendReturns
  <2>. DEFINE o == Head(queue)
  <2>1. Persist(o) /\ Schedule(o.token) /\ writing' = FALSE
      BY <1>7 DEF SendReturns
  <2>2. o \in Operations /\ o.token \in Tokens
      BY <1>7, HeadTail, OperationFacts DEF SendReturns, TypeOK
  <2>3. pend' = IF o.token = 0 THEN pend ELSE o.token
      BY <2>1 DEF Schedule
  <2>4. silent' = IF o.token = 0 THEN silent \union {0}
                  ELSE (silent \intersect {0}) \union {o.token}
      BY <1>7 DEF SendReturns
  <2>5. pend' # 0 => pend' \in silent'
      BY <2>3, <2>4
  <2>6. row' = "pending" => 0 \in silent'
    <3>1. row' = "pending" => row = "pending" \/ o.op = "send"
        BY <2>1, <2>2, OperationFacts DEF Persist, storeVars
    <3>2. o.op = "send" => o.token = 0
        BY <2>2, OperationFacts
    <3>. QED
        BY <2>4, <3>1, <3>2
  <2>. QED
      BY <2>1, <2>5, <2>6
<1>8. CASE SendRaises
    BY <1>8 DEF SendRaises
<1>9. CASE ServerTakes
    BY <1>9 DEF ServerTakes
<1>10. CASE LinkDrops
    BY <1>10 DEF LinkDrops
<1>11. CASE LinkReturns
    BY <1>11 DEF LinkReturns
<1>12. CASE AckArrives
    BY <1>12 DEF AckArrives, Forget
<1>13. CASE RowComesBack
    BY <1>13 DEF RowComesBack
<1>14. CASE Close
    BY <1>14 DEF Close
<1>15. CASE UNCHANGED vars
    BY <1>15 DEF vars
<1>. QED
    BY <1>1, <1>2, <1>3, <1>4, <1>5, <1>6, <1>7, <1>8, <1>9, <1>10, <1>11, <1>12,
       <1>13, <1>14, <1>15
       DEF Next, Timing, Operating, Networking

-----------------------------------------------------------------------------
(* The theorems *)

LEMMA InitDInv == Init => DInv
<1>1. Init => HeadWrites /\ WaitsForSilent /\ SlotIsLive
    BY DEF Init, HeadWrites, WaitsForSilent, SlotIsLive
<1>. QED
    BY <1>1, InitType DEF DInv

\* Every reachable state satisfies the strengthening.
THEOREM DInvariance == Spec => []DInv
<1>1. DInv /\ [Next]_vars => DInv'
    BY NextType, NextSlot, NextWaits DEF DInv
<1>. QED
    BY <1>1, InitDInv, PTL DEF Spec

\* No timer table ever names a task that has ended, was cancelled, or waits
\* for the other kind of frame.
THEOREM SlotsAreLive == Spec => []SlotIsLive
<1>1. DInv => SlotIsLive
    BY DEF DInv
<1>. QED
    BY <1>1, DInvariance, PTL

\* Only a timer that wakes reports anything, and only what is due.
LEMMA OnlyTimersReport ==
    ASSUME [Next]_vars, notices' # notices
    PROVE  \E t \in Timers :
              /\ ~closed
              /\ IsDue(about[t])
              /\ notices' = [notices EXCEPT ![about[t]] = @ + 1]
<1>1. ASSUME NEW t \in Timers, TimerFires(t)
      PROVE  /\ ~closed
             /\ IsDue(about[t])
             /\ notices' = [notices EXCEPT ![about[t]] = @ + 1]
    BY <1>1 DEF TimerFires, Silenced
<1>2. \E t \in Timers : TimerFires(t)
    BY DEF Next, Timing, Operating, Networking, TimerStarts, TimerUnwinds,
           ResendBegins, EditBegins, SendGetsLock, SendReturns, SendRaises,
           ServerTakes, LinkDrops, LinkReturns, AckArrives, RowComesBack, Close, vars
<1>. QED
    BY <1>1, <1>2

\* Whatever timers are forgotten by their table and still run, a report is
\* about a frame no ack has followed and no later edit has superseded.
THEOREM ReportsAreDeserved == Spec => NoticeIsDeserved
<1>1. DInv /\ [Next]_vars =>
        [\A e \in Tokens : notices'[e] > notices[e] => e \in silent]_vars
  <2>. SUFFICES ASSUME DInv, [Next]_vars, NEW e \in Tokens, notices'[e] > notices[e]
                PROVE  e \in silent
      OBVIOUS
  <2>1. notices' # notices
      BY DEF DInv, TypeOK
  <2>2. PICK t \in Timers :
          /\ IsDue(about[t])
          /\ notices' = [notices EXCEPT ![about[t]] = @ + 1]
      BY <2>1, OnlyTimersReport
  <2>3. e = about[t]
      BY <2>2 DEF DInv, TypeOK
  <2>. QED
      BY <2>2, <2>3 DEF DInv, WaitsForSilent, IsDue
<1>. QED
    BY <1>1, DInvariance, PTL DEF Spec, NoticeIsDeserved

\* The original send of a delivered DM is never reported.
THEOREM DeliveredStaysQuiet == Spec => DeliveredIsNotReported
<1>1. DInv /\ [Next]_vars => [row = "delivered" => notices'[0] = notices[0]]_vars
  <2>. SUFFICES ASSUME DInv, [Next]_vars, row = "delivered", notices'[0] # notices[0]
                PROVE  FALSE
      OBVIOUS
  <2>1. PICK t \in Timers :
          /\ IsDue(about[t])
          /\ notices' = [notices EXCEPT ![about[t]] = @ + 1]
      BY OnlyTimersReport
  <2>2. about[t] = 0
      BY <2>1, TokenFacts DEF DInv, TypeOK
  <2>. QED
      BY <2>1, <2>2 DEF IsDue
<1>. QED
    BY <1>1, DInvariance, PTL DEF Spec, DeliveredIsNotReported

\* A closed client reports nothing.
THEOREM CloseSilences == Spec => ClosedIsSilent
<1>1. [Next]_vars => [closed => UNCHANGED notices]_vars
    BY OnlyTimersReport
<1>. QED
    BY <1>1, PTL DEF Spec, ClosedIsSilent
=============================================================================
