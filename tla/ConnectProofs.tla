---------------------------- MODULE ConnectProofs ----------------------------
(***************************************************************************)
(* Theorems about connecting: the life of a link (WpsLink), for every pool  *)
(* of streams and every setting of the options, and the connect profiles    *)
(* that lead to it (Profile), for scripts of any length.                    *)
(***************************************************************************)
EXTENDS WpsLinkProps, ProfileProps, SequenceTheorems, WellFoundedInduction, TLAPS

-----------------------------------------------------------------------------
(* The schedule *)

\* A set of numbers has a least one: < is well-founded.
LEMMA LeastExists ==
    ASSUME NEW T \in SUBSET Nat, T # {}
    PROVE  \E x \in T : \A y \in T : x <= y
<1> DEFINE R == OpToRel(<, Nat)
<1>1. IsWellFoundedOn(R, Nat)
    BY NatLessThanWellFounded, Zenon
<1>2. \A x, y \in Nat : x < y => <<x, y>> \in R
    BY DEF OpToRel
<1> HIDE DEF R
<1>3. PICK x \in T : \A y \in T : ~(<<y, x>> \in R)
    BY <1>1, WFMin, Zenon
<1>4. ASSUME NEW y \in T PROVE x <= y
  <2>1. ~(y < x)
    <3>1. x \in Nat /\ y \in Nat
      OBVIOUS
    <3>. QED
      BY <1>2, <1>3, <3>1, Zenon
  <2>. QED
    BY <2>1
<1>. QED
    BY <1>4

LEMMA InductionOverSet ==
    ASSUME NEW S, 0 \in S, \A n \in Nat : n \in S => n + 1 \in S
    PROVE  \A n \in Nat : n \in S
<1> SUFFICES ASSUME NEW m \in Nat, m \notin S
             PROVE  FALSE
    OBVIOUS
<1> DEFINE T == {n \in Nat : n \notin S}
<1>1. T \in SUBSET Nat /\ T # {}
    OBVIOUS
<1>2. PICK x \in T : \A y \in T : x <= y
    BY <1>1, LeastExists
<1>3. x # 0 /\ x \in Nat
    OBVIOUS
<1>4. x - 1 \in Nat /\ ~(x <= x - 1)
    BY <1>3
<1>5. x - 1 \in S
    BY <1>2, <1>4
<1>6. (x - 1) + 1 \in S
    BY <1>4, <1>5
<1>. QED
    BY <1>3, <1>6

\* g begins the doubling.
Doubles(g, n) ==
    /\ g \in [0 .. n -> Nat] /\ g[0] = InitialBackoff
    /\ \A k \in 1 .. n : g[k] = 2 * g[k - 1]

LEMMA DoublesExist ==
    \A n \in Nat : \E g : Doubles(g, n)
<1> DEFINE G == {n \in Nat : \E g : Doubles(g, n)}
<1>1. 0 \in G
  <2> DEFINE g == [k \in 0 .. 0 |-> InitialBackoff]
  <2>1. Doubles(g, 0)
    BY LinkAssumption DEF Doubles
  <2>. QED
    BY <2>1
<1>2. ASSUME NEW n \in Nat, n \in G PROVE n + 1 \in G
  <2>1. PICK f : Doubles(f, n)
    BY <1>2
  <2> DEFINE g == [k \in 0 .. n + 1 |-> IF k <= n THEN f[k] ELSE 2 * f[n]]
  <2>2. f \in [0 .. n -> Nat] /\ f[0] = InitialBackoff /\ \A k \in 1 .. n : f[k] = 2 * f[k - 1]
    BY <2>1 DEF Doubles
  <2>3. f[n] \in Nat
    BY <2>2
  <2>4. g \in [0 .. n + 1 -> Nat] /\ g[0] = InitialBackoff
    BY <2>2, <2>3
  <2>5. ASSUME NEW k \in 1 .. n + 1 PROVE g[k] = 2 * g[k - 1]
    <3>1. CASE k \in 1 .. n
      BY <2>2, <3>1
    <3>2. CASE k = n + 1
      BY <3>2
    <3>. QED
      BY <3>1, <3>2
  <2> HIDE DEF g
  <2>6. Doubles(g, n + 1)
    BY <2>4, <2>5 DEF Doubles
  <2>. QED
    BY <2>6
<1> HIDE DEF G
<1>3. \A n \in Nat : n \in G
    BY <1>1, <1>2, InductionOverSet
<1>. QED
    BY <1>3 DEF G

LEMMA DoublesAgree ==
    ASSUME NEW n \in Nat, NEW m \in Nat, NEW g, NEW h, Doubles(g, n), Doubles(h, m)
    PROVE  \A k \in Nat : k <= n /\ k <= m => g[k] = h[k]
<1> DEFINE G == {k \in Nat : k <= n /\ k <= m => g[k] = h[k]}
<1>1. 0 \in G
    BY DEF Doubles
<1>2. ASSUME NEW k \in Nat, k \in G PROVE k + 1 \in G
  <2> SUFFICES ASSUME k + 1 <= n, k + 1 <= m PROVE g[k + 1] = h[k + 1]
    OBVIOUS
  <2>1. k + 1 \in 1 .. n /\ k + 1 \in 1 .. m /\ (k + 1) - 1 = k
    OBVIOUS
  <2>2. g[k + 1] = 2 * g[k] /\ h[k + 1] = 2 * h[k]
    BY <2>1 DEF Doubles
  <2>3. g[k] = h[k]
    BY <1>2
  <2>. QED
    BY <2>2, <2>3
<1> HIDE DEF G
<1>3. \A k \in Nat : k \in G
    BY <1>1, <1>2, InductionOverSet
<1>. QED
    BY <1>3 DEF G

\* The definition of Doubling has a solution, so it says what it seems to.
LEMMA DoublingFacts ==
    /\ Doubling[0] = InitialBackoff
    /\ \A n \in Nat : Doubling[n] \in Nat /\ Doubling[n + 1] = 2 * Doubling[n]
<1> DEFINE Made(n) == CHOOSE g : Doubles(g, n)
           f == [n \in Nat |-> Made(n)[n]]
<1>1. \A n \in Nat : Doubles(Made(n), n)
    BY DoublesExist
<1> HIDE DEF Made
<1>2. f[0] = InitialBackoff
    BY <1>1 DEF Doubles
<1>3. ASSUME NEW n \in Nat PROVE f[n] \in Nat /\ f[n + 1] = 2 * f[n]
  <2>1. Doubles(Made(n), n) /\ Doubles(Made(n + 1), n + 1) /\ n <= n /\ n <= n + 1
    BY <1>1
  <2>2. Made(n + 1)[n] = Made(n)[n]
    BY <2>1, DoublesAgree
  <2>3. n + 1 \in 1 .. n + 1 /\ (n + 1) - 1 = n /\ n \in 0 .. n
    OBVIOUS
  <2>4. Made(n + 1)[n + 1] = 2 * Made(n + 1)[n] /\ Made(n)[n] \in Nat
    BY <2>1, <2>3 DEF Doubles
  <2>. QED
    BY <2>2, <2>4
<1>4. f = [n \in Nat |-> IF n = 0 THEN InitialBackoff ELSE 2 * f[n - 1]]
  <2> DEFINE h == [n \in Nat |-> IF n = 0 THEN InitialBackoff ELSE 2 * f[n - 1]]
  <2>1. ASSUME NEW n \in Nat PROVE f[n] = h[n]
    <3>1. CASE n # 0
      <4>1. n - 1 \in Nat /\ (n - 1) + 1 = n
        BY <3>1
      <4>2. f[(n - 1) + 1] = 2 * f[n - 1]
        BY <1>3, <4>1
      <4>. QED
        BY <3>1, <4>1, <4>2
    <3>. QED
      BY <1>2, <3>1
  <2>2. f = [n \in Nat |-> f[n]] /\ h = [n \in Nat |-> h[n]]
    OBVIOUS
  <2>. QED
    BY <2>1
<1> HIDE DEF f
<1>5. Doubling = [n \in Nat |-> IF n = 0 THEN InitialBackoff ELSE 2 * Doubling[n - 1]]
    BY <1>4 DEF Doubling
<1>6. Doubling[0] = InitialBackoff
    BY <1>5
<1>7. \A n \in Nat : Doubling[n + 1] = 2 * Doubling[n]
  <2> TAKE n \in Nat
  <2>1. n + 1 \in Nat /\ n + 1 # 0 /\ (n + 1) - 1 = n
    OBVIOUS
  <2>. QED
    BY <1>5, <2>1
<1> DEFINE G == {n \in Nat : Doubling[n] \in Nat}
<1>8. 0 \in G
    BY <1>6, LinkAssumption
<1>9. ASSUME NEW n \in Nat, n \in G PROVE n + 1 \in G
    BY <1>7, <1>9
<1> HIDE DEF G
<1>10. \A n \in Nat : n \in G
    BY <1>8, <1>9, InductionOverSet
<1>. QED
    BY <1>6, <1>7, <1>10 DEF G

\* The delay of an attempt, doubled and capped, is that of the next one.
LEMMA ScheduledNext ==
    /\ Scheduled(0) = InitialBackoff
    /\ \A n \in Nat : Scheduled(n + 1) = Doubled(Scheduled(n))
<1>1. \A n \in Nat : Doubling[n] \in Nat /\ Doubling[n + 1] = 2 * Doubling[n]
    BY DoublingFacts
<1>2. Doubling[0] = InitialBackoff
    BY DoublingFacts
<1>3. Scheduled(0) = InitialBackoff
    BY <1>2, LinkAssumption DEF Scheduled
<1>4. ASSUME NEW n \in Nat PROVE Scheduled(n + 1) = Doubled(Scheduled(n))
    BY <1>1, LinkAssumption DEF Scheduled, Doubled
<1>. QED
    BY <1>3, <1>4

-----------------------------------------------------------------------------
(* Types *)

\* The backoff delay never leaves its bounds.
LEMMA DoubledInRange ==
    ASSUME NEW d \in 1 .. MaxBackoff
    PROVE  Doubled(d) \in 1 .. MaxBackoff
BY LinkAssumption DEF Doubled

\* Counting an attempt stays within the bound.
LEMMA BumpInRange ==
    ASSUME NEW n \in 0 .. AttemptBound
    PROVE  Bump(n) \in 0 .. AttemptBound
BY LinkAssumption DEF Bump

\* The loop announces no attempt beyond the cap.
LEMMA AnnouncedUnderCap ==
    ASSUME NEW n \in 0 .. AttemptBound, ~GiveUpDue(n)
    PROVE  MaxRetries > 0 => Bump(n) <= MaxRetries
BY LinkAssumption DEF GiveUpDue, Bump

\* One program counter of the two drivers is moved.
LEMMA TaskUpdate ==
    ASSUME NEW f \in [Drivers -> TaskStates], NEW d \in Drivers, NEW pc \in TaskStates
    PROVE  [f EXCEPT ![d] = pc] \in [Drivers -> TaskStates]
OBVIOUS

\* _handshake() up to its first await keeps the types.
LEMMA HandshakeBeginType ==
    ASSUME TypeOK, NEW d \in Drivers, HandshakeBegin(d)
    PROVE  /\ task' \in [Drivers -> TaskStates]
           /\ sock' \in [Streams -> SocketStates]
           /\ stream' \in Streams \union {NoStream}
           /\ greeted' \in SUBSET Streams
           /\ facts' \in SUBSET Streams
           /\ quiet' \in BOOLEAN
<1>1. PICK s \in Streams :
        /\ stream' = s
        /\ sock' = [sock EXCEPT ![s] = "opening"]
        /\ greeted' = greeted \ {s}
        /\ ForgetSession
        /\ quiet' = FALSE
        /\ task' = [task EXCEPT ![d] = "opening"]
    BY DEF HandshakeBegin
<1>2. task' \in [Drivers -> TaskStates]
    BY <1>1, TaskUpdate DEF TypeOK, TaskStates, Stages
<1>3. sock' \in [Streams -> SocketStates]
    BY <1>1 DEF TypeOK, SocketStates
<1>. QED
    BY <1>1, <1>2, <1>3 DEF TypeOK, ForgetSession

LEMMA InitType == Init => TypeOK
<1>1. Init => delay \in 1 .. MaxBackoff /\ attempt \in 0 .. AttemptBound
    BY LinkAssumption DEF Init
<1>. QED
    BY <1>1 DEF Init, TypeOK, SocketStates, ReaderStates, KaStates, TaskStates, Drivers,
           Closers, Events

LEMMA NextType == TypeOK /\ DriversAlternate /\ [Next]_vars => TypeOK'
<1>. SUFFICES ASSUME TypeOK, DriversAlternate, [Next]_vars PROVE TypeOK'
    OBVIOUS
<1>. USE DEF TypeOK, handshakeVars, retryVars, readerVars, kaVars, sendVars,
            SocketStates, ReaderStates, KaStates, Drivers, Closers, Events
<1>1. CASE OpenBegin
    BY <1>1, HandshakeBeginType DEF OpenBegin
<1>2. CASE OpenFails
    BY <1>2, TaskUpdate DEF OpenFails, CloseHalfBuilt, TaskStates
<1>3. ASSUME NEW d \in Drivers, StageDone(d) PROVE TypeOK'
  <2>1. StageAfter(task[d]) \in TaskStates
    BY <1>3 DEF StageAfter, TaskStates, Stages
  <2>2. task' \in [Drivers -> TaskStates]
    BY <1>3, <2>1, TaskUpdate DEF StageDone
  <2>3. sock' \in [Streams -> SocketStates]
    BY <1>3 DEF StageDone
  <2>. QED
    BY <1>3, <2>1, <2>2, <2>3 DEF StageDone
<1>4. ASSUME NEW d \in Drivers, HandshakeDone(d) PROVE TypeOK'
  <2>1. task' \in [Drivers -> TaskStates]
    BY <1>4, TaskUpdate DEF HandshakeDone, RetryEnds, TaskStates
  <2>2. ka' \in [Streams -> KaStates] /\ kaTask' \in Streams \union {NoStream}
    BY <1>4 DEF HandshakeDone, SpawnKeepalive, KaStates
  <2>3. reader' \in [Streams -> ReaderStates] /\ readerTask' \in Streams \union {NoStream}
    BY <1>4 DEF HandshakeDone, ReaderStates
  <2>4. stream \in Streams
    BY <1>4 DEF HandshakeDone, DriversAlternate, Stages
  <2>5. greeted' \in SUBSET Streams /\ connected' \in BOOLEAN /\ event' \in Events
    BY <1>4, <2>4 DEF HandshakeDone
  <2>. QED
    BY <1>4, <2>1, <2>2, <2>3, <2>4, <2>5 DEF HandshakeDone
<1>5. CASE RetryStart
  <2>1. task' \in [Drivers -> TaskStates]
    BY <1>5, TaskUpdate DEF RetryStart, NextAttempt, RetryEnds, TaskStates
  <2>2. attempt' \in 0 .. AttemptBound
    BY <1>5, BumpInRange, LinkAssumption DEF RetryStart, NextAttempt
  <2>3. delay' \in 1 .. MaxBackoff /\ event' \in Events
    BY <1>5, LinkAssumption DEF RetryStart, NextAttempt
  <2>. QED
    BY <1>5, <2>1, <2>2, <2>3 DEF RetryStart
<1>6. CASE RetryWake
    BY <1>6, HandshakeBeginType DEF RetryWake
<1>7. CASE RetryFails
  <2>1. task' \in [Drivers -> TaskStates]
    BY <1>7, TaskUpdate DEF RetryFails, NextAttempt, RetryEnds, TaskStates
  <2>2. attempt' \in 0 .. AttemptBound
    BY <1>7, BumpInRange DEF RetryFails, NextAttempt
  <2>3. delay' \in 1 .. MaxBackoff /\ event' \in Events
    BY <1>7, DoubledInRange DEF RetryFails, NextAttempt
  <2>4. sock' \in [Streams -> SocketStates] /\ stream' \in Streams \union {NoStream}
    BY <1>7 DEF RetryFails, CloseHalfBuilt
  <2>. QED
    BY <1>7, <2>1, <2>2, <2>3, <2>4 DEF RetryFails
<1>8. CASE RetryUnwind
  <2>1. task' \in [Drivers -> TaskStates]
    BY <1>8, TaskUpdate DEF RetryUnwind, RetryEnds, TaskStates
  <2>2. sock' \in [Streams -> SocketStates] /\ stream' \in Streams \union {NoStream}
    BY <1>8 DEF RetryUnwind, CloseHalfBuilt
  <2>. QED
    BY <1>8, <2>1, <2>2 DEF RetryUnwind
<1>9. ASSUME NEW s \in Streams, ReaderFrame(s) PROVE TypeOK'
    BY <1>9 DEF ReaderFrame
<1>10. ASSUME NEW s \in Streams, ReaderLoses(s) PROVE TypeOK'
    BY <1>10 DEF ReaderLoses, TakeDown, WireAfterCancel, Cancelled
<1>11. ASSUME NEW s \in Streams, ReaderLost(s) PROVE TypeOK'
  <2>1. task' \in [Drivers -> TaskStates]
    BY <1>11, TaskUpdate DEF ReaderLost, TaskStates
  <2>. QED
    BY <1>11, <2>1 DEF ReaderLost
<1>12. ASSUME NEW s \in Streams, ReaderUnwind(s) PROVE TypeOK'
    BY <1>12 DEF ReaderUnwind
<1>13. ASSUME NEW s \in Streams, KeepaliveHangsUp(s) PROVE TypeOK'
    BY <1>13 DEF KeepaliveHangsUp
<1>14. ASSUME NEW s \in Streams, KeepaliveWakes(s) PROVE TypeOK'
    BY <1>14 DEF KeepaliveWakes
<1>15. ASSUME NEW s \in Streams, KeepaliveSends(s) PROVE TypeOK'
    BY <1>15 DEF KeepaliveSends, MaySend, LockFree
<1>16. ASSUME NEW s \in Streams, KeepaliveSent(s) PROVE TypeOK'
    BY <1>16 DEF KeepaliveSent
<1>17. ASSUME NEW s \in Streams, KeepaliveUnwind(s) PROVE TypeOK'
    BY <1>17 DEF KeepaliveUnwind
<1>18. ASSUME NEW s \in Streams, LinkBreaks(s) PROVE TypeOK'
    BY <1>18 DEF LinkBreaks
<1>19. CASE UserSends
    BY <1>19 DEF UserSends
<1>20. CASE SendWrites
    BY <1>20 DEF SendWrites, MaySend, LockFree
<1>21. CASE SendReturns
    BY <1>21 DEF SendReturns
<1>22. ASSUME NEW c \in Closers, CloseBegin(c) PROVE TypeOK'
    BY <1>22 DEF CloseBegin, Cancelled, WireAfterCancel, CancelledReader, CancelledRetry, TaskStates, Stages
<1>23. ASSUME NEW c \in Closers, CloseEnd(c) PROVE TypeOK'
    BY <1>23 DEF CloseEnd, TasksEnded, KaStates
<1>24. CASE TimePasses
    BY <1>24 DEF TimePasses
<1>25. CASE Stopped
    BY <1>25 DEF Stopped, vars
<1>26. CASE UNCHANGED vars
    BY <1>26 DEF vars
<1>. QED
    BY <1>1, <1>2, <1>3, <1>4, <1>5, <1>6, <1>7, <1>8, <1>9, <1>10, <1>11, <1>12, <1>13, <1>14, <1>15, <1>16, <1>17, <1>18, <1>19, <1>20, <1>21, <1>22, <1>23, <1>24, <1>25, <1>26
       DEF Next, Handshaking, Retrying, Reading, Keeping, Sending, Closing

LEMMA InitTasks == Init => TasksInv
<1>. SUFFICES ASSUME Init PROVE TasksInv
    OBVIOUS
<1>1. TypeOK
    BY InitType
<1>. QED
    BY <1>1, LinkAssumption
       DEF Init, TasksInv, SocketOwned, Alive, DriversAlternate, ReaderOwnsStream,
           ConnectedIsWhole, KeepaliveIsKept, CloseIsAnnounced, FramesFollowRecord,
           FactsAreCurrent, CloseIsComplete, EventTellsState, Drivers, Stages, Running, Closers

LEMMA NextTasks == TasksInv /\ [Next]_vars => TasksInv'
<1>. SUFFICES ASSUME TasksInv, [Next]_vars PROVE TasksInv'
    OBVIOUS
<1>t. TypeOK'
    BY NextType DEF TasksInv
<1>. USE LinkAssumption
     DEF TasksInv, TypeOK, handshakeVars, retryVars, readerVars, kaVars, sendVars,
         SocketOwned, Alive, DriversAlternate, ReaderOwnsStream,
         ConnectedIsWhole, KeepaliveIsKept, CloseIsAnnounced, FramesFollowRecord,
         FactsAreCurrent, CloseIsComplete, EventTellsState, Drivers, Stages, Running, Closers
<1>1. CASE OpenBegin
    BY <1>t, <1>1 DEF OpenBegin, HandshakeBegin, ForgetSession, Unused
<1>2. CASE OpenFails
    BY <1>t, <1>2 DEF OpenFails, CloseHalfBuilt
<1>3. ASSUME NEW d \in Drivers, StageDone(d) PROVE TasksInv'
    BY <1>t, <1>3 DEF StageDone, StageAfter
<1>4. ASSUME NEW d \in Drivers, HandshakeDone(d) PROVE TasksInv'
    BY <1>t, <1>4 DEF HandshakeDone, SpawnKeepalive, RetryEnds
<1>5. CASE RetryStart
  <2>1. ~GiveUpDue(0) => (MaxRetries > 0 => Bump(0) <= MaxRetries)
    BY AnnouncedUnderCap, 0 \in 0 .. AttemptBound
  <2>. QED
    BY <1>t, <1>5, <2>1 DEF RetryStart, NextAttempt, RetryEnds
<1>6. CASE RetryWake
    BY <1>t, <1>6 DEF RetryWake, HandshakeBegin, ForgetSession, Unused
<1>7. CASE RetryFails
  <2>1. ~GiveUpDue(attempt) => (MaxRetries > 0 => Bump(attempt) <= MaxRetries)
    BY AnnouncedUnderCap
  <2>. QED
    BY <1>t, <1>7, <2>1 DEF RetryFails, CloseHalfBuilt, NextAttempt, RetryEnds
<1>8. CASE RetryUnwind
    BY <1>t, <1>8 DEF RetryUnwind, CloseHalfBuilt, RetryEnds
<1>9. ASSUME NEW s \in Streams, ReaderFrame(s) PROVE TasksInv'
    BY <1>t, <1>9 DEF ReaderFrame
<1>10. ASSUME NEW s \in Streams, ReaderLoses(s) PROVE TasksInv'
    BY <1>t, <1>10 DEF ReaderLoses, TakeDown, WireAfterCancel, Cancelled
<1>11. ASSUME NEW s \in Streams, ReaderLost(s) PROVE TasksInv'
    BY <1>t, <1>11 DEF ReaderLost
<1>12. ASSUME NEW s \in Streams, ReaderUnwind(s) PROVE TasksInv'
    BY <1>t, <1>12 DEF ReaderUnwind
<1>13. ASSUME NEW s \in Streams, KeepaliveHangsUp(s) PROVE TasksInv'
    BY <1>t, <1>13 DEF KeepaliveHangsUp
<1>14. ASSUME NEW s \in Streams, KeepaliveWakes(s) PROVE TasksInv'
    BY <1>t, <1>14 DEF KeepaliveWakes
<1>15. ASSUME NEW s \in Streams, KeepaliveSends(s) PROVE TasksInv'
    BY <1>t, <1>15 DEF KeepaliveSends, MaySend, LockFree
<1>16. ASSUME NEW s \in Streams, KeepaliveSent(s) PROVE TasksInv'
    BY <1>t, <1>16 DEF KeepaliveSent
<1>17. ASSUME NEW s \in Streams, KeepaliveUnwind(s) PROVE TasksInv'
    BY <1>t, <1>17 DEF KeepaliveUnwind
<1>18. ASSUME NEW s \in Streams, LinkBreaks(s) PROVE TasksInv'
    BY <1>t, <1>18 DEF LinkBreaks
<1>19. CASE UserSends
    BY <1>t, <1>19 DEF UserSends
<1>20. CASE SendWrites
    BY <1>t, <1>20 DEF SendWrites, MaySend, LockFree
<1>21. CASE SendReturns
    BY <1>t, <1>21 DEF SendReturns
<1>22. ASSUME NEW c \in Closers, CloseBegin(c) PROVE TasksInv'
    BY <1>t, <1>22 DEF CloseBegin, Cancelled, WireAfterCancel, CancelledReader, CancelledRetry
<1>23. ASSUME NEW c \in Closers, CloseEnd(c) PROVE TasksInv'
    BY <1>t, <1>23 DEF CloseEnd, TasksEnded, KaStates
<1>24. CASE TimePasses
    BY <1>t, <1>24 DEF TimePasses
<1>25. CASE Stopped
    BY <1>t, <1>25 DEF Stopped, vars
<1>26. CASE UNCHANGED vars
    BY <1>t, <1>26 DEF vars
<1>. QED
    BY <1>1, <1>2, <1>3, <1>4, <1>5, <1>6, <1>7, <1>8, <1>9, <1>10, <1>11, <1>12, <1>13, <1>14, <1>15, <1>16, <1>17, <1>18, <1>19, <1>20, <1>21, <1>22, <1>23, <1>24, <1>25, <1>26
       DEF Next, Handshaking, Retrying, Reading, Keeping, Sending, Closing

\* The loop starts the schedule, goes on with it, or leaves it alone.
LEMMA NextCounted == TypeOK /\ AttemptsAreCounted /\ [Next]_vars => AttemptsAreCounted'
<1>. SUFFICES ASSUME TypeOK, AttemptsAreCounted, [Next]_vars PROVE AttemptsAreCounted'
    OBVIOUS
<1>1. attempt \in Nat /\ task \in [Drivers -> TaskStates] /\ "retry" \in Drivers
    BY DEF TypeOK, Drivers
<1>2. CASE RetryStart
  <2>1. \/ task'["retry"] = "none"
        \/ attempt' = Bump(0) /\ delay' = Scheduled(0)
    BY <1>1, <1>2, ScheduledNext DEF RetryStart, NextAttempt, RetryEnds
  <2>2. Bump(0) = 1
    BY LinkAssumption DEF Bump
  <2>. QED
    BY <2>1, <2>2 DEF AttemptsAreCounted, Stages
<1>3. CASE RetryFails
  <2>1. /\ task["retry"] \in Stages
        /\ delay' = Doubled(delay)
        /\ \/ task'["retry"] = "none"
           \/ attempt' = Bump(attempt)
    BY <1>1, <1>3 DEF RetryFails, NextAttempt, RetryEnds
  <2>2. attempt # 0 /\ (attempt < AttemptBound => delay = Scheduled(attempt - 1))
    BY <2>1 DEF AttemptsAreCounted
  <2>3. /\ Bump(attempt) # 0
        /\ Bump(attempt) < AttemptBound => Bump(attempt) - 1 = attempt /\ attempt < AttemptBound
    BY <1>1, <2>2, LinkAssumption DEF Bump
  <2>4. attempt - 1 \in Nat /\ (attempt - 1) + 1 = attempt
    BY <1>1, <2>2
  <2>5. Doubled(Scheduled(attempt - 1)) = Scheduled(attempt)
    BY <2>4, ScheduledNext
  <2>. QED
    BY <2>1, <2>2, <2>3, <2>5 DEF AttemptsAreCounted, Stages
<1>4. CASE /\ UNCHANGED <<attempt, delay>>
           /\ task'["retry"] \in Stages \union {"sleep"} => task["retry"] \in Stages \union {"sleep"}
    BY <1>4 DEF AttemptsAreCounted
<1>. USE DEF handshakeVars, retryVars, readerVars, kaVars, sendVars, Stages
<1>5. CASE OpenBegin \/ OpenFails
    BY <1>1, <1>4, <1>5 DEF OpenBegin, OpenFails, HandshakeBegin
<1>6. ASSUME NEW d \in Drivers, Handshaking(d) PROVE AttemptsAreCounted'
    BY <1>1, <1>4, <1>6 DEF Handshaking, StageDone, StageAfter, HandshakeDone, RetryEnds, Drivers
<1>7. CASE RetryWake \/ RetryUnwind
    BY <1>1, <1>4, <1>7 DEF RetryWake, RetryUnwind, HandshakeBegin, RetryEnds
<1>8. ASSUME NEW s \in Streams, Reading(s) \/ Keeping(s) \/ LinkBreaks(s) PROVE AttemptsAreCounted'
  <2>1. CASE ReaderLost(s)
      BY <1>1, <1>4, <2>1 DEF ReaderLost
  <2>. QED
      BY <1>4, <1>8, <2>1
         DEF Reading, ReaderFrame, ReaderLoses, ReaderUnwind, Keeping, KeepaliveHangsUp, KeepaliveWakes,
             KeepaliveSends, KeepaliveSent, KeepaliveUnwind, LinkBreaks
<1>9. ASSUME NEW c \in Closers, Closing(c) PROVE AttemptsAreCounted'
    BY <1>1, <1>4, <1>9 DEF Closing, CloseBegin, CloseEnd, CancelledRetry
<1>10. CASE Sending \/ TimePasses \/ Stopped \/ UNCHANGED vars
    BY <1>4, <1>10 DEF Sending, UserSends, SendWrites, SendReturns, TimePasses, Stopped, vars
<1>. QED
    BY <1>2, <1>3, <1>5, <1>6, <1>7, <1>8, <1>9, <1>10 DEF Next, Retrying

LEMMA InitInv == Init => IInv
BY InitTasks DEF IInv, AttemptsAreCounted, Init, Drivers, Stages

LEMMA NextInv == IInv /\ [Next]_vars => IInv'
BY NextTasks, NextCounted DEF IInv, TasksInv

\* Every reachable state satisfies the strengthening.
THEOREM Invariance == Spec => []IInv
BY InitInv, NextInv, PTL DEF Spec

\* The variables keep their types through every behaviour.
THEOREM TypeCorrect == Spec => []TypeOK
<1>1. IInv => TypeOK
    BY DEF IInv, TasksInv
<1>. QED
    BY <1>1, Invariance, PTL

\* However handshakes fail, links break and close() interleaves with the
\* reconnect loop, the only socket that can be open is `_stream'.
THEOREM NoSocketLeak == Spec => []SocketOwned
<1>1. IInv => SocketOwned
    BY DEF IInv, TasksInv
<1>. QED
    BY <1>1, Invariance, PTL

\* A link that counts as connected has exactly one reader, on the current
\* stream, and no handshake of open() or of the reconnect loop behind it.
THEOREM ServedWhileConnected == Spec => []ConnectedIsServed
<1>1. IInv => ConnectedIsServed
    BY DEF IInv, TasksInv, TypeOK, ConnectedIsServed, ConnectedIsWhole, ReaderOwnsStream,
           DriversAlternate, InHandshake, Drivers, Stages
<1>. QED
    BY <1>1, Invariance, PTL

\* _spawn_keepalive never leaves two keep-alive tasks running.
THEOREM SingleKeepalive == Spec => []OneKeepalive
<1>1. IInv => OneKeepalive
    BY DEF IInv, TasksInv, OneKeepalive, KeepaliveIsKept, Running
<1>. QED
    BY <1>1, Invariance, PTL

\* Nothing that goes through _send() reaches a stream before the type-c
\* connect record.
THEOREM RecordComesFirst == Spec => []FramesFollowRecord
<1>1. IInv => FramesFollowRecord
    BY DEF IInv, TasksInv
<1>. QED
    BY <1>1, Invariance, PTL

\* What the client shows of a live link was told during this connection.
THEOREM FactsOfThisConnection == Spec => []FactsAreCurrent
<1>1. IInv => FactsAreCurrent
    BY DEF IInv, TasksInv
<1>. QED
    BY <1>1, Invariance, PTL

\* Once close() has returned, whoever called it and whatever it interrupted,
\* no socket is open and no task of the client remains.
THEOREM CloseLeavesNothing == Spec => []CloseIsComplete
<1>1. IInv => CloseIsComplete
    BY DEF IInv, TasksInv
<1>. QED
    BY <1>1, Invariance, PTL

\* In every outage the waits of the reconnect loop start at the initial delay
\* and double up to the maximum, one for each attempt, and no attempt after the
\* last allowed one is announced.
THEOREM ScheduleIsKept == Spec => []RetrySchedule
<1>1. ASSUME IInv, task["retry"] = "sleep"
      PROVE  /\ MaxRetries > 0 => attempt <= MaxRetries
             /\ attempt < AttemptBound => delay = Scheduled(attempt - 1)
  <2>1. ~closed
    BY <1>1 DEF IInv, TasksInv, DriversAlternate
  <2>2. MaxRetries > 0 => attempt <= MaxRetries
    BY <1>1, <2>1 DEF IInv, TasksInv, EventTellsState
  <2>3. attempt < AttemptBound => delay = Scheduled(attempt - 1)
    BY <1>1 DEF IInv, AttemptsAreCounted
  <2>. QED
    BY <2>2, <2>3
<1>2. IInv => RetrySchedule
    BY <1>1 DEF RetrySchedule, Scheduled
<1>. QED
    BY <1>2, Invariance, PTL

-----------------------------------------------------------------------------
(* Refinement of LinkContract *)

LEMMA InitRefines == Init => Contract!Init
BY DEF Init, Phase, Contract!Init, Drivers, Closers

LEMMA NextRefines == IInv /\ [Next]_vars => [Contract!Next]_(Contract!cvars)
<1>. SUFFICES ASSUME IInv, [Next]_vars PROVE [Contract!Next]_(Contract!cvars)
    OBVIOUS
<1>. USE LinkAssumption
     DEF IInv, TasksInv, TypeOK, handshakeVars, retryVars, readerVars, kaVars, sendVars,
         DriversAlternate, ReaderOwnsStream, ConnectedIsWhole, CloseIsAnnounced,
         EventTellsState, KeepaliveIsKept, Drivers, Closers, Stages, Contract!cvars, Phase
<1>1. CASE OpenBegin
    BY <1>1 DEF OpenBegin, HandshakeBegin
<1>2. CASE OpenFails
    BY <1>2 DEF OpenFails
<1>3. ASSUME NEW d \in Drivers, StageDone(d) PROVE UNCHANGED Contract!cvars
    BY <1>3 DEF StageDone, StageAfter
<1>4. CASE HandshakeDone("open")
    BY <1>4 DEF HandshakeDone, Contract!Next, Contract!Opens
<1>5. CASE HandshakeDone("retry")
    BY <1>5 DEF HandshakeDone, RetryEnds, Contract!Next, Contract!Recovers
<1>6. CASE RetryStart
  <2>1. ~GiveUpDue(0) /\ Bump(0) = 1
    BY DEF GiveUpDue, Bump
  <2>. QED
    BY <1>6, <2>1 DEF RetryStart, NextAttempt, Contract!Next, Contract!Retries
<1>7. CASE RetryFails
    BY <1>7 DEF RetryFails, NextAttempt, GiveUpDue, Bump, RetryEnds, Contract!Next, Contract!Retries, Contract!GivesUp
<1>8. ASSUME NEW s \in Streams, ReaderLoses(s) PROVE Contract!Fades
    BY <1>8 DEF ReaderLoses, TakeDown, Contract!Fades
<1>9. ASSUME NEW s \in Streams, ReaderLost(s) PROVE [Contract!Reports]_(Contract!cvars)
    BY <1>9 DEF ReaderLost, Contract!Reports
<1>10. ASSUME NEW s \in Streams, KeepaliveHangsUp(s) PROVE Contract!HangsUp
    BY <1>10 DEF KeepaliveHangsUp, Running, Contract!HangsUp
<1>11. ASSUME NEW c \in Closers, CloseBegin(c) PROVE [Contract!Shuts]_(Contract!cvars)
    BY <1>11 DEF CloseBegin, CancelledRetry, Contract!Shuts
<1>12. ASSUME NEW s \in Streams, \/ ReaderFrame(s) \/ ReaderUnwind(s) \/ LinkBreaks(s)
                                  \/ KeepaliveWakes(s) \/ KeepaliveSends(s)
                                  \/ KeepaliveSent(s) \/ KeepaliveUnwind(s)
       PROVE  UNCHANGED Contract!cvars
    BY <1>12 DEF ReaderFrame, ReaderUnwind, LinkBreaks, KeepaliveWakes, KeepaliveSends,
                 KeepaliveSent, KeepaliveUnwind
<1>13. CASE RetryWake \/ RetryUnwind
    BY <1>13 DEF RetryWake, HandshakeBegin, RetryUnwind, RetryEnds
<1>14. CASE Sending \/ TimePasses \/ Stopped \/ UNCHANGED vars
    BY <1>14 DEF Sending, UserSends, SendWrites, SendReturns, TimePasses, Stopped, vars
<1>15. ASSUME NEW c \in Closers, CloseEnd(c) PROVE UNCHANGED Contract!cvars
    BY <1>15 DEF CloseEnd
<1>. HIDE DEF IInv, TasksInv, TypeOK, DriversAlternate, ReaderOwnsStream, ConnectedIsWhole,
              CloseIsAnnounced, EventTellsState, KeepaliveIsKept, Closers, Stages,
              Contract!cvars, Phase
<1>. QED
    BY <1>1, <1>2, <1>3, <1>4, <1>5, <1>6, <1>7, <1>8, <1>9, <1>10, <1>11, <1>12, <1>13, <1>14, <1>15
       DEF Next, Handshaking, Retrying, Reading, Keeping, Closing, Contract!Next

\* WpsLink implements the contract of its events: whatever the tasks of the
\* client do to each other, a user interface hears of every link in the order
\* of LinkContract, attempts are numbered without gaps up to the cap, and
\* neither a hang-up nor close() is followed by another attempt.
THEOREM ContractKept == Spec => ImplementsContract
<1>1. Init => Contract!Init
    BY InitRefines
<1>2. IInv /\ [Next]_vars => [Contract!Next]_(Contract!cvars)
    BY NextRefines
<1>. QED
    BY <1>1, <1>2, Invariance, PTL DEF Spec, ImplementsContract, Contract!Spec

-----------------------------------------------------------------------------
(* Profile: facets, scripts and walks *)

LEMMA ScriptIsSeq == \A s \in Scripts : s \in Seq(Step)
BY SeqDef, ProfileAssumption DEF Scripts

LEMMA FacetsTyped ==
    ASSUME NEW e \in Entry, ~Refused(e)
    PROVE  /\ TransportOf(e) \in Transports
           /\ e.engine \in Engines \union {Unset}
           /\ \A p \in Pins \union {None} : Pinned(p, DefaultPort(e.engine, TransportOf(e))) \in Nat
           /\ \A p \in Pins \union {None} :
                 Pinned(p, IF e.engine \in {"xrouter", "bpq"} THEN 1 ELSE None) \in Nat
<1>1. TransportOf(e) \in Transports
    BY DEF Entry, TransportOf, Transports, Rhp, Unset
<1>2. e.engine \in Engines \union {Unset}
    BY DEF Refused
<1>3. DefaultPort(e.engine, TransportOf(e)) \in Nat
    BY DEF DefaultPort, None
<1>4. \A p \in Pins \union {None} : p \in Nat
    BY ProfileAssumption DEF None
<1>. QED
    BY <1>1, <1>2, <1>3, <1>4 DEF Pinned, None

-----------------------------------------------------------------------------
(* Types, and what the user pinned *)

LEMMA ProfileInvInit == ProfileInit => ProfileInv
<1>. SUFFICES ASSUME ProfileInit PROVE ProfileInv
    OBVIOUS
<1>1. node \in {"bpq", "xrouter", "wps", "prompt"}
    BY DEF ProfileInit, Nodes, Engines
<1>. QED
    BY <1>1 DEF ProfileInit, ProfileInv, ProfileTypeOK, PinnedSurvives, Transports, Rhp, Unset, None

LEMMA ResolvedInv == ProfileInv /\ ParseProfile => ProfileInv'
<1>. SUFFICES ASSUME ProfileInv, ParseProfile PROVE ProfileInv'
    OBVIOUS
<1>1. CASE Refused(entry)
    BY <1>1 DEF ParseProfile, ProfileInv, ProfileTypeOK, PinnedSurvives
<1>2. CASE ~Refused(entry)
  <2>1. entry \in Entry /\ entry.port \in Pins \union {None} /\ entry.radio \in Pins \union {None}
      BY DEF ProfileInv, ProfileTypeOK, Entry
  <2>2. profile' = ResolveEngineDefaults(entry) /\ at' = "resolved" /\ entry' = entry /\ node' = node
      BY <1>2 DEF ParseProfile
  <2>3. ProfileTypeOK'
    <3>1. profile'.transport \in Transports /\ profile'.engine \in Engines \union {Unset}
        BY <1>2, <2>1, <2>2, FacetsTyped DEF ResolveEngineDefaults
    <3>2. profile'.port \in Nat /\ profile'.radio \in Nat
        BY <1>2, <2>1, <2>2, FacetsTyped DEF ResolveEngineDefaults
    <3>. QED
        BY <2>2, <3>1, <3>2 DEF ProfileInv, ProfileTypeOK
  <2>4. PinnedSurvives'
    <3>1. entry.remote # Unset => RemoteOf(entry) = entry.remote
        BY DEF RemoteOf, FirstHopIsRemote
    <3>2. /\ entry.port # None => profile'.port = entry.port
          /\ entry.radio # None => profile'.radio = entry.radio
        BY <2>2 DEF ResolveEngineDefaults, Pinned
    <3>3. profile'.remote = RemoteOf(entry)
        BY <2>2 DEF ResolveEngineDefaults
    <3>. QED
        BY <2>2, <3>1, <3>2, <3>3 DEF PinnedSurvives
  <2>. QED
      BY <2>3, <2>4 DEF ProfileInv
<1>. QED
    BY <1>1, <1>2

LEMMA ProfileInvNext == ProfileInv /\ [ProfileNext]_profileVars => ProfileInv'
<1>. SUFFICES ASSUME ProfileInv, [ProfileNext]_profileVars PROVE ProfileInv'
    OBVIOUS
<1>. USE DEF ProfileInv, ProfileTypeOK, PinnedSurvives
<1>1. CASE ParseProfile
    BY <1>1, ResolvedInv
<1>2. CASE BuildStreamFor
    BY <1>2 DEF BuildStreamFor, Buildable
<1>3. CASE Opens
    BY <1>3 DEF Opens, Begins
<1>4. CASE LinkRefused
    BY <1>4 DEF LinkRefused
<1>5. CASE Answers
    BY <1>5 DEF Answers
<1>6. CASE Matched
    BY <1>6 DEF Matched, Begins
<1>7. CASE HopFails
    BY <1>7 DEF HopFails
<1>8. CASE UNCHANGED profileVars
    BY <1>8 DEF profileVars
<1>. QED
    BY <1>1, <1>2, <1>3, <1>4, <1>5, <1>6, <1>7, <1>8 DEF ProfileNext

\* A profile that is used is one the user could mean: its values have their
\* types, a stream is opened only with a port, and nothing that was pinned is
\* overwritten by the engine's defaults, whatever is pinned.
THEOREM ProfilesAreMeant == ProfileSpec => []ProfileInv
BY ProfileInvInit, ProfileInvNext, PTL DEF ProfileSpec

-----------------------------------------------------------------------------
(* The script against the node                                             *)

\* The steps the model walks: one that waits for what the node says unasked,
\* then hops.
Walkable(script) ==
    script # <<>> =>
        /\ script[1].cmd = "" /\ Contains(Greeting, script[1].val)
        /\ Hops(script, 2)

\* The hop n is under way: of what the node said at most its answer is left.
Answer(n) == {<<[text |-> text, to |-> n - 1]>> : text \in {"answer", "failure"}}
Walks ==
    /\ hop \in 1 .. Len(profile.script)
    /\ sent \in Seq(Commands) /\ Len(sent) = hop - 1
    /\ \A i \in 1 .. Len(sent) : sent[i] = "C NODE"
    /\ IF hop = 1 THEN answered = 0 /\ said = <<[text |-> Greeting, to |-> 0]>>
       ELSE \/ answered = hop - 2 /\ said = <<>>
            \/ answered = hop - 1 /\ said \in Answer(hop)

\* A profile with a script of a documented form, at each stage.
WalkInv ==
    Documented =>
        /\ node = entry.engine /\ node \in {"bpq", "xrouter"}
        /\ ~early
        /\ at \in {"written", "resolved", "opening"} => sent = <<>> /\ answered = 0
        /\ at \in {"resolved", "opening", "script"} =>
              profile.script \in Seq(Step) /\ Walkable(profile.script)
        /\ at = "script" => Walks

LEMMA Single ==
    ASSUME NEW S, NEW e \in S
    PROVE  <<e>> \in Seq(S) /\ Len(<<e>>) = 1 /\ <<e>>[1] = e
<1>1. <<e>> \in [1..1 -> S] /\ <<e>>[1] = e
    OBVIOUS
<1>2. <<e>> \in Seq(S)
    BY <1>1, SeqDef, 1 \in Nat
<1>. QED
    BY <1>1, <1>2

LEMMA Prefixed ==
    ASSUME NEW S, NEW e \in S, NEW t \in Seq(S)
    PROVE  /\ <<e>> \o t \in Seq(S) /\ Len(<<e>> \o t) = Len(t) + 1
          /\ (<<e>> \o t)[1] = e
          /\ \A i \in 2 .. Len(t) + 1 : (<<e>> \o t)[i] = t[i - 1]
<1>1. Len(t) \in Nat
    BY LenProperties
<1>2. /\ <<e>> \in Seq(S) /\ Len(<<e>>) = 1 /\ <<e>>[1] = e
    BY Single
<1> DEFINE p == <<e>>
<1> HIDE DEF p
<1>3. /\ p \o t \in Seq(S) /\ Len(p \o t) = 1 + Len(t)
      /\ \A i \in 1 .. 1 + Len(t) : (p \o t)[i] = IF i <= 1 THEN p[1] ELSE t[i - 1]
    BY <1>2, <1>1, ConcatProperties DEF p
<1>4. p[1] = e
    BY <1>2 DEF p
<1>5. /\ (p \o t)[1] = e
      /\ \A i \in 2 .. Len(t) + 1 : (p \o t)[i] = t[i - 1]
    BY <1>1, <1>3, <1>4
<1>. QED
    BY <1>1, <1>3, <1>5 DEF p

LEMMA FirstStep ==
    ASSUME NEW s \in Seq(Step), s # <<>>
    PROVE  Len(s) \in Nat \ {0} /\ s[1] \in Step
<1>1. Len(s) \in Nat \ {0}
    BY EmptySeq
<1>. QED
    BY <1>1, ElementOfSeq

LEMMA QuietlyWalkable ==
    ASSUME NEW s \in Seq(Step), s # <<>>, Contains(Greeting, s[1].val), Hops(s, 2)
    PROVE  Quietly(s) \in Seq(Step) /\ Walkable(Quietly(s))
<1> DEFINE first == [s[1] EXCEPT !.cmd = ""]
<1> DEFINE q == Quietly(s)
<1>1. 1 \in 1 .. Len(s) /\ Len(s) \in Nat
    BY FirstStep
<1>2. s[1] \in Step
    BY FirstStep
<1>3. first \in Step
    BY <1>2 DEF Step, Commands
<1>4. first.cmd = "" /\ first.val = s[1].val
    BY <1>2 DEF Step
<1>5. q = [s EXCEPT ![1] = first]
    BY DEF Quietly
<1>. HIDE DEF first
<1>6. /\ [s EXCEPT ![1] = first] \in Seq(Step) /\ Len([s EXCEPT ![1] = first]) = Len(s)
      /\ \A j \in 1 .. Len(s) : [s EXCEPT ![1] = first][j] = IF j = 1 THEN first ELSE s[j]
    BY <1>1, <1>3, ExceptSeq
<1>. HIDE DEF q
<1>7. /\ q \in Seq(Step) /\ Len(q) = Len(s)
      /\ \A j \in 1 .. Len(s) : q[j] = IF j = 1 THEN first ELSE s[j]
    BY <1>5, <1>6
<1>8. q[1] = first
    BY <1>1, <1>7
<1>9. Hops(q, 2)
  <2>1. \A i \in 2 .. Len(s) : s[i].cmd = "C NODE" /\ s[i].val # "banner"
      BY DEF Hops
  <2>2. \A i \in 2 .. Len(s) : q[i] = s[i]
      BY <1>1, <1>7
  <2>3. Len(q) = Len(s)
      BY <1>7
  <2>. QED
      BY <2>1, <2>2, <2>3, Zenon DEF Hops
<1>10. Walkable(q)
    BY <1>4, <1>8, <1>9, Zenon DEF Walkable
<1>. QED
    BY <1>7, <1>10, Zenon DEF q

\* BPQ's documented forms, as Documented lists them.
BpqForm(s) ==
    \/ Hops(s, 1)
    \/ s # <<>> /\ s[1].cmd = "" /\ s[1].val # "answer" /\ Hops(s, 2)
    \/ s # <<>> /\ s[1] = [cmd |-> "SWITCH", val |-> "banner"] /\ Hops(s, 2)

\* A step that waits for the greeting.
Waits(e) == e.cmd = "" /\ Contains(Greeting, e.val)

LEMMA PrefixWalkable ==
    ASSUME NEW s \in Seq(Step), NEW e \in Step, Waits(e), Hops(s, 1)
    PROVE  <<e>> \o s \in Seq(Step) /\ Walkable(<<e>> \o s)
<1> DEFINE r == <<e>> \o s
<1>1. /\ r \in Seq(Step) /\ Len(r) = Len(s) + 1 /\ r[1] = e
      /\ \A i \in 2 .. Len(s) + 1 : r[i] = s[i - 1]
    BY Prefixed
<1>2. Len(s) \in Nat
    BY LenProperties
<1>. HIDE DEF r
<1>3. Hops(r, 2)
  <2>1. \A i \in 1 .. Len(s) : s[i].cmd = "C NODE" /\ s[i].val # "banner"
      BY DEF Hops
  <2>2. \A i \in 2 .. Len(r) : i - 1 \in 1 .. Len(s)
      BY <1>1, <1>2
  <2>3. \A i \in 2 .. Len(r) : r[i] = s[i - 1]
      BY <1>1
  <2>. QED
      BY <2>1, <2>2, <2>3, Zenon DEF Hops
<1>4. Walkable(r)
    BY <1>1, <1>3, Zenon DEF Walkable, Waits
<1>. QED
    BY <1>1, <1>4 DEF r

\* What the engine makes of a documented script can be walked.
LEMMA BpqWalkable ==
    ASSUME NEW s \in Seq(Step), node = "bpq", BpqForm(s)
    PROVE  /\ NormalizeBpqPreamble(s) \in Seq(Step)
           /\ Walkable(NormalizeBpqPreamble(s))
<1>1. CASE Hops(s, 1)
  <2>1. s # <<>> => s[1].cmd = "C NODE" /\ s[1].val # "banner"
    <3>1. 1 \in 1 .. Len(s) => s[1].cmd = "C NODE" /\ s[1].val # "banner"
        BY <1>1 DEF Hops
    <3>2. s # <<>> => 1 \in 1 .. Len(s)
        BY FirstStep
    <3>. QED
        BY <3>1, <3>2, Zenon
  <2>2. NormalizeBpqPreamble(s) = <<Preamble>> \o s
      BY <2>1 DEF NormalizeBpqPreamble, WaitsOnly
  <2>3. Preamble \in Step /\ Waits(Preamble)
      BY DEF Preamble, Step, Commands, Waits, Contains, Greeting
  <2>. QED
      BY <1>1, <2>2, <2>3, PrefixWalkable, Zenon
<1>2. CASE s # <<>> /\ s[1].cmd = "" /\ s[1].val # "answer" /\ Hops(s, 2)
  <2>1. NormalizeBpqPreamble(s) = s
      BY <1>2 DEF NormalizeBpqPreamble, WaitsOnly
  <2>2. s[1] \in Step
      BY <1>2, FirstStep
  <2>3. s[1].val \in {"banner", "connected"}
      BY <1>2, <2>2 DEF Step
  <2>4. Contains(Greeting, s[1].val)
      BY <2>3 DEF Contains, Greeting
  <2>. QED
      BY <1>2, <2>1, <2>4, Zenon DEF Walkable
<1>3. CASE s # <<>> /\ s[1] = [cmd |-> "SWITCH", val |-> "banner"] /\ Hops(s, 2)
  <2>1. NormalizeBpqPreamble(s) = Quietly(s)
      BY <1>3 DEF NormalizeBpqPreamble, WaitsOnly
  <2>2. s[1].val = "banner"
      BY <1>3
  <2>3. Contains(Greeting, s[1].val)
      BY <2>2 DEF Contains, Greeting
  <2>. QED
      BY <1>3, <2>1, <2>3, QuietlyWalkable, Zenon
<1>. QED
    BY <1>1, <1>2, <1>3, Zenon DEF BpqForm

LEMMA XrouterWalkable ==
    ASSUME NEW s \in Seq(Step), node = "xrouter", s # <<>>, s[1].val # "banner", Hops(s, 2)
    PROVE  /\ Quietly(s) \in Seq(Step) /\ Walkable(Quietly(s))
           /\ s[1].cmd = "" => Walkable(s)
<1>1. s[1] \in Step
    BY FirstStep
<1>2. s[1].val \in {"connected", "answer"}
    BY <1>1 DEF Step
<1>3. Contains(Greeting, s[1].val)
    BY <1>2 DEF Contains, Greeting
<1>4. Quietly(s) \in Seq(Step) /\ Walkable(Quietly(s))
    BY <1>3, QuietlyWalkable, Zenon
<1>5. s[1].cmd = "" => Walkable(s)
    BY <1>3, Zenon DEF Walkable
<1>. QED
    BY <1>4, <1>5

LEMMA ScriptWalkable ==
    ASSUME entry \in Entry, Documented, node = entry.engine
    PROVE  ScriptOf(entry) \in Seq(Step) /\ Walkable(ScriptOf(entry))
<1> DEFINE s == entry.script
<1>1. s \in Seq(Step)
    BY ScriptIsSeq DEF Entry
<1>2. CASE entry.engine = "bpq"
  <2>1. ScriptOf(entry) = NormalizeBpqPreamble(s)
      BY <1>2, Zenon DEF ScriptOf, FirstHopIsRemote
  <2>2. BpqForm(s)
      BY <1>2 DEF Documented, BpqForm
  <2>. HIDE DEF s
  <2>. QED
      BY <1>1, <1>2, <2>1, <2>2, BpqWalkable, Zenon
<1>3. CASE entry.engine = "xrouter" /\ entry.remote = Unset
  <2>1. CASE s = <<>>
    <3>1. ScriptOf(entry) = s
        BY <1>3, <2>1 DEF ScriptOf, FirstHopIsRemote
    <3>. QED
        BY <1>1, <2>1, <3>1, Zenon DEF Walkable
  <2>2. CASE s # <<>> /\ s[1].cmd \in {"NODE", ""} /\ s[1].val # "banner" /\ Hops(s, 2)
    <3>1. CASE s[1].cmd = "NODE"
      <4>1. ScriptOf(entry) = Quietly(s)
          BY <1>3, <2>2, <3>1 DEF ScriptOf, FirstHopIsRemote, WaitsOnly, NormalizeXrouterFirstHop
      <4>. HIDE DEF s
      <4>. QED
          BY <1>1, <1>3, <2>2, <4>1, XrouterWalkable, Zenon
    <3>2. CASE s[1].cmd = ""
      <4>1. ScriptOf(entry) = s
          BY <1>3, <2>2, <3>2 DEF ScriptOf, FirstHopIsRemote, WaitsOnly
      <4>. HIDE DEF s
      <4>. QED
          BY <1>1, <1>3, <2>2, <3>2, <4>1, XrouterWalkable, Zenon
    <3>. QED
        BY <2>2, <3>1, <3>2
  <2>. QED
      BY <1>3, <2>1, <2>2 DEF Documented
<1>. QED
    BY <1>2, <1>3 DEF Documented

LEMMA WalkInit == ProfileInit => WalkInv
<1>. SUFFICES ASSUME ProfileInit, Documented PROVE /\ node = entry.engine /\ node \in {"bpq", "xrouter"}
                                            /\ ~early /\ sent = <<>> /\ answered = 0
                                            /\ at = "written"
    BY DEF WalkInv
<1>1. entry.engine \in {"bpq", "xrouter"} /\ TransportOf(entry) # "direct-tcp"
    BY DEF Documented, Rhp
<1>2. node = entry.engine
    BY <1>1 DEF ProfileInit, Nodes
<1>. QED
    BY <1>1, <1>2 DEF ProfileInit

LEMMA WalkParse == ProfileInv /\ WalkInv /\ ParseProfile => WalkInv'
<1>. SUFFICES ASSUME ProfileInv, WalkInv, ParseProfile, Documented' PROVE WalkInv'
    BY DEF WalkInv
<1>1. /\ entry' = entry /\ node' = node /\ early' = early /\ sent' = sent /\ answered' = answered
      /\ at = "written" /\ at' \in {"refused", "resolved"}
    BY DEF ParseProfile, scriptVars
<1>2. Documented /\ node = entry.engine /\ node \in {"bpq", "xrouter"} /\ ~early /\ sent = <<>> /\ answered = 0
    BY <1>1 DEF WalkInv, Documented
<1>3. CASE at' = "refused"
    BY <1>1, <1>2, <1>3 DEF WalkInv
<1>4. CASE at' = "resolved"
  <2>1. profile' = ResolveEngineDefaults(entry)
      BY <1>4 DEF ParseProfile
  <2>2. profile'.script = ScriptOf(entry)
      BY <2>1 DEF ResolveEngineDefaults
  <2>3. ScriptOf(entry) \in Seq(Step) /\ Walkable(ScriptOf(entry))
      BY <1>2, ScriptWalkable DEF ProfileInv, ProfileTypeOK
  <2>4. Greeting' = Greeting
      BY <1>1 DEF Greeting
  <2>5. Walkable(profile.script)'
      BY <2>2, <2>3, <2>4, Zenon DEF Walkable
  <2>6. (profile.script)' \in Seq(Step)
      BY <2>2, <2>3
  <2>. QED
      BY <1>1, <1>2, <1>4, <2>5, <2>6, Zenon DEF WalkInv
<1>. QED
    BY <1>1, <1>3, <1>4

\* What stays as it is in the steps of a connection.
LEMMA WalkFrame ==
    ASSUME WalkInv, Documented', entry' = entry, profile' = profile, node' = node
    PROVE  /\ Documented /\ node = entry.engine /\ node \in {"bpq", "xrouter"} /\ ~early
           /\ (node = entry.engine /\ node \in {"bpq", "xrouter"})'
           /\ Greeting' = Greeting
           /\ Walkable(profile.script) => Walkable(profile.script)'
<1>1. Greeting' = Greeting
    BY DEF Greeting
<1>2. Documented
    BY DEF Documented
<1>3. node = entry.engine /\ node \in {"bpq", "xrouter"} /\ ~early
    BY <1>2 DEF WalkInv
<1>4. Walkable(profile.script) => Walkable(profile.script)'
    BY <1>1 DEF Walkable
<1>. QED
    BY <1>1, <1>2, <1>3, <1>4

\* The script as the node walks it.
LEMMA WalkableSteps ==
    ASSUME NEW s \in Seq(Step), Walkable(s)
    PROVE  /\ Len(s) \in Nat
           /\ 1 \in 1 .. Len(s) => s[1].cmd = "" /\ Contains(Greeting, s[1].val)
           /\ \A i \in 2 .. Len(s) : s[i].cmd = "C NODE"
<1>1. Len(s) \in Nat
    BY LenProperties
<1>2. ASSUME 1 \in 1 .. Len(s) PROVE s # <<>>
    BY <1>1, <1>2, EmptySeq
<1>3. ASSUME s # <<>> PROVE s[1].cmd = "" /\ Contains(Greeting, s[1].val)
    BY <1>3, Zenon DEF Walkable
<1>4. ASSUME NEW i \in 2 .. Len(s) PROVE s[i].cmd = "C NODE"
  <2>1. 1 \in 1 .. Len(s)
      BY <1>1, <1>4
  <2>2. Hops(s, 2)
      BY <2>1, <1>2, Zenon DEF Walkable
  <2>. QED
      BY <2>2, <1>4, Zenon DEF Hops
<1>. QED
    BY <1>1, <1>2, <1>3, <1>4, Zenon

LEMMA WalkOpens == WalkInv /\ Opens => WalkInv'
<1>. SUFFICES ASSUME WalkInv, Opens, Documented' PROVE WalkInv'
    BY DEF WalkInv
<1> DEFINE s == profile.script
<1>1. /\ entry' = entry /\ profile' = profile /\ node' = node /\ early' = early
      /\ answered' = answered /\ at = "opening"
    BY DEF Opens
<1>2. /\ Documented /\ node = entry.engine /\ node \in {"bpq", "xrouter"} /\ ~early
      /\ (node = entry.engine /\ node \in {"bpq", "xrouter"})'
      /\ Greeting' = Greeting
      /\ Walkable(s) => Walkable(s)'
    BY <1>1, WalkFrame
<1>3. sent = <<>> /\ answered = 0 /\ s \in Seq(Step) /\ Walkable(s)
    BY <1>1, <1>2 DEF WalkInv
<1>4. said' = <<[text |-> Greeting, to |-> 0]>>
    BY <1>2 DEF Opens
<1>5. Len(s) \in Nat
    BY <1>3, LenProperties
<1>10. 1 <= Len(s) => 1 \in 1 .. Len(s)
    BY <1>5
<1>6. hop' = 1 /\ at' = IF 1 > Len(s) THEN "ready" ELSE "script"
    BY DEF Opens, Begins
<1>7. sent' = <<>>
  <2>1. sent' = IF 1 <= Len(s) /\ s[1].cmd # "" THEN Append(sent, s[1].cmd) ELSE sent
      BY DEF Opens, Begins
  <2>2. 1 <= Len(s) => s[1].cmd = ""
      BY <1>3, <1>10, WalkableSteps, Zenon
  <2>. QED
      BY <1>3, <2>1, <2>2, Zenon
<1>8. at' = "script" => Walks'
  <2>. SUFFICES ASSUME at' = "script" PROVE Walks'
      OBVIOUS
  <2>1. 1 \in 1 .. Len(s)
      BY <1>5, <1>6
  <2>2. /\ <<>> \in Seq(Commands) /\ Len(<<>>) = 0
        /\ \A i \in 1 .. Len(<<>>) : <<>>[i] = "C NODE"
      BY EmptySeq
  <2>3. (answered = 0 /\ said = <<[text |-> Greeting, to |-> 0]>>)'
      BY <1>1, <1>2, <1>3, <1>4
  <2>4. hop' = 1 /\ hop' \in 1 .. Len((profile.script)') /\ sent' = <<>>
      BY <1>1, <1>6, <1>7, <2>1
  <2>5. sent' \in Seq(Commands) /\ Len(sent') = hop' - 1
        /\ \A i \in 1 .. Len(sent') : sent'[i] = "C NODE"
      BY <2>2, <2>4
  <2>. QED
      BY <2>3, <2>4, <2>5, Zenon DEF Walks
<1>9. at' # "written" /\ at' # "resolved" /\ at' # "opening"
    BY <1>6
<1>. QED
    BY <1>1, <1>2, <1>3, <1>8, <1>9, Zenon DEF WalkInv

LEMMA AppendEmpty == \A m : Append(<<>>, m) = <<m>>
OBVIOUS

LEMMA WalkAnswers == WalkInv /\ Answers => WalkInv'
<1>. SUFFICES ASSUME WalkInv, Answers, Documented' PROVE WalkInv'
    BY DEF WalkInv
<1>1. /\ entry' = entry /\ profile' = profile /\ node' = node /\ early' = early
      /\ at' = at /\ hop' = hop /\ sent' = sent /\ at = "script"
      /\ answered < Len(sent) /\ answered' = answered + 1
    BY DEF Answers
<1>2. /\ Documented /\ node = entry.engine /\ node \in {"bpq", "xrouter"} /\ ~early
      /\ (node = entry.engine /\ node \in {"bpq", "xrouter"})'
      /\ Walkable(profile.script) => Walkable(profile.script)'
    BY <1>1, WalkFrame
<1>3. profile.script \in Seq(Step) /\ Walkable(profile.script) /\ Walks
    BY <1>1, <1>2 DEF WalkInv
<1>4. /\ hop \in 1 .. Len(profile.script) /\ Len(profile.script) \in Nat
      /\ sent \in Seq(Commands) /\ Len(sent) = hop - 1
    BY <1>3, LenProperties DEF Walks
<1>5. \A i \in 1 .. Len(sent) : sent[i] = "C NODE"
    BY <1>3 DEF Walks
<1>6. hop # 1 /\ answered = hop - 2 /\ said = <<>>
  <2>1. \/ hop = 1 /\ answered = 0
        \/ hop # 1 /\ answered = hop - 2 /\ said = <<>>
        \/ hop # 1 /\ answered = hop - 1
      BY <1>3 DEF Walks
  <2>. QED
      BY <1>1, <1>4, <2>1
<1>7. answered' = hop - 1 /\ sent[answered'] = "C NODE"
  <2>1. answered' = hop - 1
      BY <1>1, <1>4, <1>6
  <2>2. answered' \in 1 .. Len(sent)
      BY <1>4, <1>6, <2>1
  <2>. QED
      BY <1>5, <2>1, <2>2
<1>8. PICK text \in {"answer", "failure"} : said' = Append(said, [text |-> text, to |-> answered'])
    BY <1>2, <1>7 DEF Answers
<1>9. said' = <<[text |-> text, to |-> hop - 1]>>
    BY <1>6, <1>7, <1>8, AppendEmpty, Zenon
<1>10. Walks'
  <2>1. said' \in Answer(hop)
      BY <1>9 DEF Answer
  <2>. QED
      BY <1>1, <1>4, <1>5, <1>6, <1>7, <2>1, Zenon DEF Walks, Answer
<1>. QED
    BY <1>1, <1>2, <1>3, <1>10, Zenon DEF WalkInv

\* Of what the node said at most one text is there, so a match leaves nothing.
LEMMA OnlyOne ==
    ASSUME NEW m, NEW i \in DOMAIN <<m>>
    PROVE  i = 1 /\ <<m>>[i] = m /\ SubSeq(<<m>>, i + 1, Len(<<m>>)) = <<>>
<1>1. i = 1 /\ Len(<<m>>) = 1
    OBVIOUS
<1>2. SubSeq(<<m>>, 2, 1) = <<>>
    OBVIOUS
<1>. QED
    BY <1>1, <1>2

LEMMA UpTo == \A m \in Nat : \A i \in 1 .. m + 1 : i \in 1 .. m \/ i = m + 1
OBVIOUS

LEMMA AppendHop ==
    ASSUME NEW q \in Seq(Commands), \A i \in 1 .. Len(q) : q[i] = "C NODE"
    PROVE  /\ Append(q, "C NODE") \in Seq(Commands)
           /\ Len(Append(q, "C NODE")) = Len(q) + 1
           /\ \A i \in 1 .. Len(Append(q, "C NODE")) : Append(q, "C NODE")[i] = "C NODE"
<1> DEFINE r == Append(q, "C NODE")
<1>1. "C NODE" \in Commands /\ Len(q) \in Nat
    BY LenProperties DEF Commands
<1>2. /\ r \in Seq(Commands) /\ Len(r) = Len(q) + 1
      /\ \A i \in 1 .. Len(q) : r[i] = q[i]
      /\ r[Len(q) + 1] = "C NODE"
    BY <1>1, AppendProperties
<1>. HIDE DEF r
<1>3. \A i \in 1 .. Len(r) : i \in 1 .. Len(q) \/ i = Len(q) + 1
    BY <1>1, <1>2, UpTo, Zenon
<1>4. \A i \in 1 .. Len(r) : r[i] = "C NODE"
    BY <1>2, <1>3, Zenon
<1>. QED
    BY <1>2, <1>4 DEF r

LEMMA WalkMatched == WalkInv /\ Matched => WalkInv'
<1>. SUFFICES ASSUME WalkInv, Matched, Documented' PROVE WalkInv'
    BY DEF WalkInv
<1> DEFINE s == profile.script
<1> DEFINE n == hop + 1
<1>1. /\ entry' = entry /\ profile' = profile /\ node' = node
      /\ answered' = answered /\ at = "script"
    BY DEF Matched
<1>2. /\ Documented /\ node = entry.engine /\ node \in {"bpq", "xrouter"} /\ ~early
      /\ (node = entry.engine /\ node \in {"bpq", "xrouter"})'
      /\ Walkable(s) => Walkable(s)'
    BY <1>1, WalkFrame
<1>3. s \in Seq(Step) /\ Walkable(s) /\ Walks
    BY <1>1, <1>2 DEF WalkInv
<1>4. /\ hop \in 1 .. Len(s) /\ Len(s) \in Nat /\ hop \in Nat
      /\ sent \in Seq(Commands) /\ Len(sent) = hop - 1
  <2>1. Len(s) \in Nat
      BY <1>3, LenProperties
  <2>2. hop \in 1 .. Len(s) /\ sent \in Seq(Commands) /\ Len(sent) = hop - 1
      BY <1>3, Zenon DEF Walks
  <2>3. hop \in Nat
      BY <2>1, <2>2
  <2>. QED
      BY <2>1, <2>2, <2>3, Zenon
<1>5. \A i \in 1 .. Len(sent) : sent[i] = "C NODE"
    BY <1>3 DEF Walks
<1>6. PICK i \in DOMAIN said :
          /\ said' = SubSeq(said, i + 1, Len(said))
          /\ early' = (early \/ (s[hop].cmd # "" /\ said[i].to # Len(sent)))
    BY DEF Matched
<1>7. said # <<>>
  <2>1. DOMAIN <<>> = {}
      OBVIOUS
  <2>2. i \in DOMAIN said
      OBVIOUS
  <2>. QED
      BY <2>1, <2>2, Zenon
<1>8. \/ hop = 1 /\ answered = 0 /\ said = <<[text |-> Greeting, to |-> 0]>>
      \/ hop # 1 /\ answered = hop - 1
         /\ \E text : said = <<[text |-> text, to |-> hop - 1]>>
    BY <1>3, <1>7 DEF Walks, Answer
<1>9. answered = hop - 1
    BY <1>4, <1>8
<1>10. said' = <<>>
    BY <1>6, <1>8, OnlyOne, Zenon
<1>11. ~early'
  <2>1. CASE hop = 1
    <3>1. 1 \in 1 .. Len(s)
        BY <1>4, <2>1
    <3>2. s[hop].cmd = ""
        BY <1>3, <2>1, <3>1, WalkableSteps, Zenon
    <3>. QED
        BY <1>2, <1>6, <3>2, Zenon
  <2>2. CASE hop # 1
    <3>1. PICK text : said = <<[text |-> text, to |-> hop - 1]>>
        BY <1>8, <2>2
    <3>2. said[i] = [text |-> text, to |-> hop - 1]
        BY <1>6, <3>1, OnlyOne, Zenon
    <3>3. said[i].to = hop - 1
        BY <3>2
    <3>. QED
        BY <1>2, <1>4, <1>6, <3>3, Zenon
  <2>. QED
      BY <2>1, <2>2
<1>12. /\ hop' = n /\ at' = IF n > Len(s) THEN "ready" ELSE "script"
       /\ sent' = IF n <= Len(s) /\ s[n].cmd # "" THEN Append(sent, s[n].cmd) ELSE sent
    BY DEF Matched, Begins
<1>13. at' = "script" => Walks'
  <2>. SUFFICES ASSUME at' = "script" PROVE Walks'
      OBVIOUS
  <2>0. ~(n > Len(s))
      BY <1>12, Zenon
  <2>1. n \in 2 .. Len(s) /\ n \in 1 .. Len(s) /\ n <= Len(s) /\ n # 1
      BY <1>4, <2>0
  <2>2. s[n].cmd = "C NODE"
      BY <1>3, <2>1, WalkableSteps, Zenon
  <2>3. sent' = Append(sent, "C NODE")
      BY <1>12, <2>1, <2>2
  <2>4. /\ sent' \in Seq(Commands) /\ Len(sent') = n - 1
        /\ \A j \in 1 .. Len(sent') : sent'[j] = "C NODE"
    <3>1. /\ sent' \in Seq(Commands) /\ Len(sent') = Len(sent) + 1
          /\ \A j \in 1 .. Len(sent') : sent'[j] = "C NODE"
        BY <1>4, <1>5, <2>3, AppendHop, Zenon
    <3>2. Len(sent) + 1 = n - 1
        BY <1>4
    <3>. QED
        BY <3>1, <3>2, Zenon
  <2>5. answered' = n - 2
      BY <1>1, <1>4, <1>9
  <2>. HIDE DEF n
  <2>. QED
      BY <1>1, <1>10, <1>12, <2>1, <2>4, <2>5, Zenon DEF Walks
<1>14. at' \notin {"written", "resolved", "opening"}
    BY <1>12
<1>. QED
    BY <1>1, <1>2, <1>3, <1>11, <1>13, <1>14, Zenon DEF WalkInv

LEMMA WalkNext == ProfileInv /\ WalkInv /\ [ProfileNext]_profileVars => WalkInv'
<1>. SUFFICES ASSUME ProfileInv, WalkInv, [ProfileNext]_profileVars PROVE WalkInv'
    OBVIOUS
<1>1. CASE ParseProfile
    BY <1>1, WalkParse
<1>2. CASE Opens
    BY <1>2, WalkOpens
<1>3. CASE Answers
    BY <1>3, WalkAnswers
<1>4. CASE Matched
    BY <1>4, WalkMatched
<1>5. CASE BuildStreamFor \/ LinkRefused \/ HopFails
  <2>. SUFFICES ASSUME Documented' PROVE WalkInv'
      BY DEF WalkInv
  <2>1. /\ entry' = entry /\ profile' = profile /\ node' = node /\ early' = early
        /\ sent' = sent /\ answered' = answered /\ at \in {"resolved", "opening", "script"}
        /\ at' \in {"opening", "failed"} /\ (at' = "opening" => at = "resolved")
      BY <1>5 DEF BuildStreamFor, LinkRefused, HopFails, scriptVars
  <2>2. /\ Documented /\ node = entry.engine /\ node \in {"bpq", "xrouter"} /\ ~early
        /\ (node = entry.engine /\ node \in {"bpq", "xrouter"})'
        /\ Walkable(profile.script) => Walkable(profile.script)'
      BY <2>1, WalkFrame
  <2>3. profile.script \in Seq(Step) /\ Walkable(profile.script)
      BY <2>1, <2>2, Zenon DEF WalkInv
  <2>4. at' = "opening" => sent = <<>> /\ answered = 0
      BY <2>1, <2>2 DEF WalkInv
  <2>5. at' # "written" /\ at' # "resolved" /\ at' # "script"
      BY <2>1
  <2>. QED
      BY <2>1, <2>2, <2>3, <2>4, <2>5, Zenon DEF WalkInv
<1>6. CASE UNCHANGED profileVars
    BY <1>6, Zenon DEF profileVars, scriptVars, WalkInv, Documented, Walkable, Walks, Answer, Greeting
<1>. QED
    BY <1>1, <1>2, <1>3, <1>4, <1>5, <1>6 DEF ProfileNext

LEMMA WalkInvariance == ProfileSpec => [](ProfileInv /\ WalkInv)
<1>1. ProfileInit => ProfileInv /\ WalkInv
    BY ProfileInvInit, WalkInit
<1>2. (ProfileInv /\ WalkInv) /\ [ProfileNext]_profileVars => (ProfileInv /\ WalkInv)'
    BY ProfileInvNext, WalkNext
<1>. QED
    BY <1>1, <1>2, PTL DEF ProfileSpec

\* With a script of a documented form, of any length and against any answers of
\* the node, no hop is taken for answered by the greeting or by what answers
\* another hop (resolve_engine_defaults against run_hop_script's first match).
THEOREM HopsHearTheirOwn == ProfileSpec => []AnswersAreOwn
<1>1. WalkInv => AnswersAreOwn
    BY DEF WalkInv, AnswersAreOwn
<1>. QED
    BY <1>1, WalkInvariance, PTL

LEMMA WalksOn == WalkInv => ScriptGetsThrough
<1>. SUFFICES ASSUME WalkInv, Documented, at = "script"
              PROVE  Matches \/ Errs \/ answered < Len(sent)
    BY DEF ScriptGetsThrough
<1> DEFINE s == profile.script
<1>1. s \in Seq(Step) /\ Walkable(s) /\ Walks
    BY DEF WalkInv
<1>2. CASE hop = 1
  <2>1. said = <<[text |-> Greeting, to |-> 0]>> /\ 1 \in 1 .. Len(s)
      BY <1>1, <1>2 DEF Walks
  <2>2. Contains(Greeting, s[1].val)
      BY <1>1, <2>1, WalkableSteps, Zenon
  <2>3. 1 \in DOMAIN said /\ said[1].text = Greeting
      BY <2>1
  <2>. QED
      BY <1>2, <2>2, <2>3, Zenon DEF Matches, Match
<1>3. CASE hop # 1
  <2>1. CASE answered = hop - 2
    <3>1. hop \in 1 .. Len(s) /\ Len(sent) = hop - 1
        BY <1>1, Zenon DEF Walks
    <3>2. Len(s) \in Nat
        BY <1>1, LenProperties
    <3>. QED
        BY <2>1, <3>1, <3>2
  <2>2. CASE said \in Answer(hop)
    <3>1. PICK text \in {"answer", "failure"} : said = <<[text |-> text, to |-> hop - 1]>>
        BY <2>2 DEF Answer
    <3>2. 1 \in DOMAIN said /\ said[1].text = text
        BY <3>1
    <3>. QED
        BY <3>2 DEF Errs, ErrorTerms
  <2>. QED
      BY <1>1, <1>3, <2>1, <2>2 DEF Walks
<1>. QED
    BY <1>2, <1>3

\* With a script of a documented form, of any length, the program never waits for
\* a text the node will not say: what it waits for is there, the hop has failed,
\* or the node still owes an answer (resolve_engine_defaults and run_hop_script).
THEOREM ScriptsComeToAnEnd == ProfileSpec => []ScriptGetsThrough
BY WalksOn, WalkInvariance, PTL

=============================================================================
