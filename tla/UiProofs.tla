------------------------------- MODULE UiProofs -------------------------------
(***************************************************************************)
(* Theorems about UiSession, for any number of clients and queued events.   *)
(***************************************************************************)
EXTENDS UiSessionProps, SequenceTheorems, TLAPS

Windows == Flows \union {"quit"}
Busy == Connecting \union {"reconnect"}
InStack(m) == \E i \in 1 .. Len(stack) : stack[i] = m

-----------------------------------------------------------------------------
(* The inductive invariant *)

Base ==
    /\ auto \in BOOLEAN
    /\ link \in [Clients -> Links]
    /\ current \in 0 .. MaxClients /\ held \in 0 .. MaxClients
    /\ at \in [Flows -> InModal \union {"idle", "starting"}]
    /\ active \in Flows \union {"none"} /\ pausing \subseteq Flows
    /\ program \in {"running", "exiting", "over"}

\* Every window is there once, one that a flow has put up is awaited by it, and
\* the connect window is on top.
Piled ==
    /\ stack \in Seq(Windows)
    /\ \A i, j \in 1 .. Len(stack) : stack[i] = stack[j] => i = j
    /\ \A f \in Flows : InStack(f) => at[f] \in InModal
    /\ active # "none" => Top(active)

\* At most one flow connects, and only its window can be about to go.
OneConnects ==
    /\ \A f \in Flows : active = f <=> at[f] \in Busy
    /\ \A f \in pausing : active = f
    /\ at["B"] # "reconnect"
    /\ at["D"] = "starting" => active = "none"

\* Before the bootstrap task has run nothing has happened.
Booting ==
    at["B"] = "starting" =>
        /\ events = <<>> /\ at["D"] = "idle" /\ active = "none" /\ current = 0 /\ held = 0
        /\ \A c \in Clients : link[c] = "unused"

\* Whoever connects has a client, and without one a flow has a window up.
ClientOrWindow ==
    /\ active # "none" => current # 0 \/ at[active] = "error"
    /\ program = "running" /\ at["B"] # "starting" /\ at["D"] # "starting" /\ current = 0 =>
           \E f \in Flows : InStack(f)

IInv == Base /\ Piled /\ OneConnects /\ Booting /\ ClientOrWindow /\ NoClientLeaks

-----------------------------------------------------------------------------
(* Windows *)

\* s is what is left of the stack when m and all above it have gone.
Under(m, s) ==
    /\ s \in Seq(Windows) /\ Len(s) <= Len(stack)
    /\ \A i \in 1 .. Len(s) : s[i] = stack[i] /\ s[i] # m

LEMMA PoppedUnder ==
    ASSUME Piled, NEW m
    PROVE  Under(m, Popped(stack, m))
<1> DEFINE Fits(n) == n < Len(stack) /\ stack[n + 1] = m
           k == CHOOSE n \in 0 .. Len(stack) : Fits(n)
<1>1. Len(stack) \in Nat /\ stack \in Seq(Windows)
    BY LenProperties DEF Piled
<1>2. CASE InStack(m)
  <2>1. PICK i \in 1 .. Len(stack) : stack[i] = m
    BY <1>2 DEF InStack
  <2>2. i - 1 \in 0 .. Len(stack) /\ Fits(i - 1)
    BY <1>1, <2>1
  <2>3. k \in 0 .. Len(stack) /\ Fits(k)
    BY <2>2
  <2>4. Popped(stack, m) = SubSeq(stack, 1, k)
    BY <1>2 DEF Popped, InStack
  <2> HIDE DEF k
  <2>5. \A j \in 1 .. k : stack[j] \in Windows /\ stack[j] # m
    <3>1. k + 1 \in 1 .. Len(stack)
      BY <1>1, <2>3
    <3>2. \A j \in 1 .. k : j \in 1 .. Len(stack) /\ j # k + 1
      BY <1>1, <2>3
    <3>3. \A j \in 1 .. k : stack[j] # m
      BY <2>3, <3>1, <3>2 DEF Piled
    <3>. QED
      BY <1>1, <3>2, <3>3, ElementOfSeq
  <2>6. SubSeq(stack, 1, k) \in Seq(Windows) /\ Len(SubSeq(stack, 1, k)) = k
        /\ \A j \in 1 .. k : SubSeq(stack, 1, k)[j] = stack[j]
    BY <1>1, <2>3, <2>5
  <2>. QED
    BY <1>1, <2>3, <2>4, <2>5, <2>6 DEF Under
<1>3. CASE ~InStack(m)
  <2>1. Popped(stack, m) = <<>>
    BY <1>3 DEF Popped, InStack
  <2>. QED
    BY <1>1, <2>1 DEF Under
<1>. QED
    BY <1>2, <1>3

\* The window on top is the only one that goes with it.
LEMMA TopGoes ==
    ASSUME Piled, NEW m, Top(m), NEW g, g # m, InStack(g)
    PROVE  \E i \in 1 .. Len(Popped(stack, m)) : Popped(stack, m)[i] = g
<1> DEFINE Fits(n) == n < Len(stack) /\ stack[n + 1] = m
           k == CHOOSE n \in 0 .. Len(stack) : Fits(n)
<1>1. Len(stack) \in Nat \ {0} /\ stack[Len(stack)] = m
    BY LenProperties, EmptySeq DEF Piled, Top
<1>2. Len(stack) - 1 \in 0 .. Len(stack) /\ Fits(Len(stack) - 1) /\ Len(stack) \in 1 .. Len(stack)
    BY <1>1
<1>3. k \in 0 .. Len(stack) /\ Fits(k)
    BY <1>2
<1>4. Popped(stack, m) = SubSeq(stack, 1, k)
    BY <1>1, <1>2 DEF Popped
<1> HIDE DEF k
<1>5. k + 1 = Len(stack)
    <2>1. k + 1 \in 1 .. Len(stack)
      BY <1>1, <1>3
    <2>. QED
      BY <1>1, <1>2, <1>3, <2>1 DEF Piled
<1>6. PICK i \in 1 .. Len(stack) : stack[i] = g
    BY DEF InStack
<1>7. i \in 1 .. k
    BY <1>1, <1>3, <1>5, <1>6
<1>8. \A j \in 1 .. k : j \in 1 .. Len(stack)
    BY <1>1, <1>3
<1>9. \A j \in 1 .. k : stack[j] \in Windows
    BY <1>8, ElementOfSeq DEF Piled
<1>10. Len(SubSeq(stack, 1, k)) = k /\ SubSeq(stack, 1, k)[i] = stack[i]
    BY <1>1, <1>3, <1>7, <1>9
<1>. QED
    BY <1>4, <1>6, <1>7, <1>10

\* A window is put on what is left of the stack.
LEMMA PutOn ==
    ASSUME Piled, NEW f \in Flows, NEW s, Under(f, s), stack' = Append(s, f),
           NEW a, at' = [at EXCEPT ![f] = a], a \in InModal, at \in [Flows -> InModal \union {"idle", "starting"}],
           active' \in {f, "none"}
    PROVE  Piled' /\ InStack(f)'
<1>1. /\ Len(s) \in Nat /\ s \in Seq(Windows) /\ Len(stack) \in Nat /\ f \in Windows
      /\ \A i \in 1 .. Len(s) : i \in 1 .. Len(stack) /\ s[i] = stack[i] /\ s[i] # f
    BY LenProperties DEF Under, Piled, Windows
<1>2. /\ stack' \in Seq(Windows) /\ Len(stack') = Len(s) + 1 /\ stack' # <<>>
      /\ \A i \in 1 .. Len(s) : stack'[i] = s[i]
      /\ stack'[Len(s) + 1] = f
    BY <1>1, AppendProperties
<1>3. \A i \in 1 .. Len(stack') : i \in 1 .. Len(s) \/ i = Len(s) + 1
    BY <1>1, <1>2
<1>4. \A i, j \in 1 .. Len(stack') : stack'[i] = stack'[j] => i = j
    BY <1>1, <1>2, <1>3 DEF Piled
<1>5. ASSUME NEW g \in Flows, InStack(g)' PROVE at'[g] \in InModal
  <2>1. CASE g = f
    BY <2>1
  <2>2. CASE g # f
    <3>1. InStack(g)
      BY <1>1, <1>2, <1>3, <1>5, <2>2 DEF InStack
    <3>. QED
      BY <2>2, <3>1 DEF Piled
  <2>. QED
    BY <2>1, <2>2
<1>6. active' # "none" => Top(active)'
    BY <1>1, <1>2 DEF Top
<1>7. InStack(f)'
    BY <1>1, <1>2 DEF InStack
<1>. QED
    BY <1>2, <1>4, <1>5, <1>6, <1>7 DEF Piled

\* Windows are taken away, f's among them.
LEMMA TakenOff ==
    ASSUME Piled, NEW f, Under(f, stack'), active' = "none",
           \A g \in Flows : g # f => at'[g] = at[g]
    PROVE  Piled'
<1>1. /\ Len(stack') \in Nat /\ stack' \in Seq(Windows) /\ Len(stack) \in Nat
      /\ \A i \in 1 .. Len(stack') : i \in 1 .. Len(stack) /\ stack'[i] = stack[i] /\ stack'[i] # f
    BY LenProperties DEF Under, Piled
<1>2. \A i, j \in 1 .. Len(stack') : stack'[i] = stack'[j] => i = j
    BY <1>1 DEF Piled
<1>3. \A g \in Flows : InStack(g)' => InStack(g) /\ g # f
    BY <1>1 DEF InStack
<1>. QED
    BY <1>1, <1>2, <1>3 DEF Piled

LEMMA NothingUnder ==
    ASSUME Piled, NEW m
    PROVE  Under(m, <<>>)
BY LenProperties DEF Piled, Under

\* The whole stack, if m is not there.
LEMMA AllUnder ==
    ASSUME Piled, NEW m, ~InStack(m)
    PROVE  Under(m, stack)
BY LenProperties DEF Piled, Under, InStack

-----------------------------------------------------------------------------
(* The flows *)

LEMMA AsksKeeps ==
    ASSUME Base, Piled, OneConnects, NEW f \in Flows, NEW s, Under(f, s), active \in {f, "none"},
           Asks(f, s)
    PROVE  Piled' /\ InStack(f)' /\ OneConnects' /\ active' = "none"
<1>1. Piled' /\ InStack(f)'
  <2>1. /\ stack' = Append(s, f) /\ at' = [at EXCEPT ![f] = "picker"] /\ "picker" \in InModal
        /\ active' \in {f, "none"}
    BY DEF Asks, InModal
  <2>. QED
    BY <2>1, PutOn DEF Base
<1>2. OneConnects'
    BY DEF Asks, OneConnects, Base, Busy, Connecting, InModal, Flows
<1>. QED
    BY <1>1, <1>2 DEF Asks

LEMMA EndsKeeps ==
    ASSUME Base, Piled, OneConnects, NEW f \in Flows, NEW s, Under(f, s), active \in {f, "none"},
           Ends(f, s)
    PROVE  Piled' /\ OneConnects' /\ active' = "none"
<1>1. Piled'
  <2>1. stack' = s /\ active' = "none" /\ \A g \in Flows : g # f => at'[g] = at[g]
    BY DEF Ends, Base
  <2>. QED
    BY <2>1, TakenOff
<1>2. OneConnects'
    BY DEF Ends, OneConnects, Base, Busy, Connecting, InModal, Flows
<1>. QED
    BY <1>1, <1>2 DEF Ends

LEMMA ConnectsKeeps ==
    ASSUME Base, Piled, OneConnects, NEW f \in Flows, NEW s, Under(f, s), active \in {f, "none"},
           at["D"] # "starting", Connects(f, s)
    PROVE  Piled' /\ InStack(f)' /\ OneConnects' /\ active' = f
<1>1. Piled' /\ InStack(f)'
  <2>1. /\ stack' = Append(s, f) /\ at' = [at EXCEPT ![f] = "open"] /\ "open" \in InModal
        /\ active' \in {f, "none"}
    BY DEF Connects, InModal, Connecting
  <2>. QED
    BY <2>1, PutOn DEF Base
<1>2. OneConnects'
    BY DEF Connects, OneConnects, Base, Busy, Connecting, InModal, Flows
<1>. QED
    BY <1>1, <1>2 DEF Connects

\* A flow whose window is on top is the one that connects, if one does.
LEMMA TopIsActive ==
    ASSUME Piled, Base, NEW m, Top(m)
    PROVE  active \in {m, "none"}
BY DEF Piled, Base, Top

LEMMA BusyIsActive ==
    ASSUME OneConnects, NEW f \in Flows, at[f] \in Connecting \/ f \in pausing
    PROVE  active = f /\ at[f] \in Busy
BY DEF OneConnects, Busy

LEMMA AbandonsKeeps ==
    ASSUME Base, Piled, OneConnects, NEW f \in Flows, active = f, Abandons(f)
    PROVE  Piled' /\ InStack(f)' /\ OneConnects' /\ active' = "none"
<1>1. Under(f, IF at[f] = "error" THEN <<>> ELSE Popped(stack, f))
    BY NothingUnder, PoppedUnder
<1>. QED
    BY <1>1, AsksKeeps DEF Abandons

\* No window is orphaned and one flow connects at a time.
LEMMA NextFlow == Base /\ Piled /\ OneConnects /\ Booting /\ [Next]_vars => (Piled /\ OneConnects)'
<1>. SUFFICES ASSUME Base /\ Piled /\ OneConnects /\ Booting, [Next]_vars PROVE (Piled /\ OneConnects)'
    OBVIOUS
<1>1. CASE BootstrapStarts
  <2>1. active = "none" /\ ~InStack("B") /\ "B" \in Flows /\ at["D"] # "starting"
    BY <1>1 DEF BootstrapStarts, Booting, Piled, InModal, Connecting, Flows, Running
  <2>2. Under("B", stack)
    BY <2>1, AllUnder
  <2>3. \/ Connects("B", stack) \/ Ends("B", stack) \/ Asks("B", stack)
    BY <1>1 DEF BootstrapStarts, InitialProfiles, GoesOffline
  <2>. QED
    BY <2>1, <2>2, <2>3, AsksKeeps, EndsKeeps, ConnectsKeeps
<1>2. CASE DropStarts
  <2>1. active = "none" /\ ~InStack("D") /\ "D" \in Flows
    BY <1>2 DEF DropStarts, OneConnects, Piled, InModal, Connecting, Flows
  <2>2. Under("D", stack)
    BY <2>1, AllUnder
  <2>3. CASE Asks("D", stack)
    BY <2>1, <2>2, <2>3, AsksKeeps
  <2>4. CASE /\ stack' = Append(stack, "D") /\ at' = [at EXCEPT !["D"] = "reconnect"]
             /\ active' = "D" /\ pausing' = pausing
    <3>1. "reconnect" \in InModal
      BY DEF InModal
    <3>2. Piled'
      BY <2>1, <2>2, <2>4, <3>1, PutOn DEF Base
    <3>3. OneConnects'
      BY <2>1, <2>4 DEF OneConnects, Base, Busy, Connecting, InModal, Flows
    <3>. QED
      BY <3>2, <3>3
  <2>. QED
    BY <1>2, <2>3, <2>4 DEF DropStarts, Reopens
<1>3. CASE QuitsReconnect
  <2>1. "D" \in Flows /\ active \in {"D", "none"} /\ Under("D", Popped(stack, "D"))
    BY <1>3, TopIsActive, PoppedUnder DEF QuitsReconnect, Flows
  <2>. QED
    BY <1>3, <2>1, EndsKeeps DEF QuitsReconnect
<1>4. CASE AsksToQuit
  <2>1. /\ stack' = <<"quit">> /\ at' = at /\ active' = active /\ pausing' = pausing /\ active = "none"
    BY <1>4 DEF AsksToQuit, Piled, Top
  <2>2. stack' \in Seq(Windows) /\ Len(stack') = 1 /\ stack'[1] = "quit"
    <3>1. "quit" \in Windows
      BY DEF Windows
    <3>. QED
      BY <2>1, <3>1
  <2>3. Piled'
    BY <2>1, <2>2 DEF Piled, InStack, Flows
  <2>4. OneConnects'
    BY <2>1 DEF OneConnects
  <2>. QED
    BY <2>3, <2>4
<1>5. CASE AnswersQuit
  <2>1. stack' = Popped(stack, "quit") /\ at' = at /\ active' = active /\ pausing' = pausing
    BY <1>5 DEF AnswersQuit
  <2>2. active = "none"
    BY <1>5, TopIsActive DEF AnswersQuit, Base, Flows
  <2>3. Piled'
    BY <2>1, <2>2, PoppedUnder, TakenOff
  <2>4. OneConnects'
    BY <2>1 DEF OneConnects
  <2>. QED
    BY <2>3, <2>4
<1>6. CASE Leaves
    BY <1>6 DEF Leaves, flowVars, Piled, InStack, Top, OneConnects
<1>7. CASE LossSeen
  <2>1. stack' = stack /\ active' = active /\ pausing' = pausing
    BY <1>7 DEF LossSeen
  <2>2. at' = at \/ (at["D"] = "idle" /\ active = "none" /\ at' = [at EXCEPT !["D"] = "starting"])
    BY <1>7 DEF LossSeen
  <2>3. Piled'
    BY <2>1, <2>2 DEF Piled, InStack, Top, Base, Flows, InModal, Connecting
  <2>4. OneConnects'
    BY <2>1, <2>2 DEF OneConnects, Base, Flows, Busy, Connecting, InModal
  <2>. QED
    BY <2>3, <2>4
<1>8. CASE ReconnectedSeen
  <2>1. stack' = stack /\ active' = active /\ at' = at /\ pausing' = pausing \union ({active} \ {"none"})
    BY <1>8 DEF ReconnectedSeen
  <2>2. Piled'
    BY <2>1 DEF Piled, InStack, Top
  <2>3. OneConnects'
    BY <2>1 DEF OneConnects
  <2>. QED
    BY <2>2, <2>3
<1>9. CASE GiveupSeen
  <2>1. CASE UNCHANGED flowVars
    BY <2>1 DEF flowVars, Piled, InStack, Top, OneConnects
  <2>2. CASE active # "none" /\ at[active] = "reconnect" /\ Reopens(Popped(stack, "D"))
    <3>1. active = "D" /\ "D" \in Flows
      BY <2>2 DEF Base, OneConnects, Flows
    <3>. QED
      BY <2>2, <3>1, PoppedUnder, AsksKeeps DEF Reopens
  <2>3. CASE active # "none" /\ Abandons(active)
    BY <2>3, AbandonsKeeps DEF Base
  <2>. QED
    BY <1>9, <2>1, <2>2, <2>3 DEF GiveupSeen
<1>10. ASSUME NEW f \in Flows, OpenReturns(f) PROVE (Piled /\ OneConnects)'
  <2>1. /\ at[f] = "open" /\ at' = [at EXCEPT ![f] = "settle"]
        /\ stack' = stack /\ active' = active /\ pausing' = pausing
    BY <1>10 DEF OpenReturns
  <2>2. Piled'
    BY <2>1 DEF Piled, InStack, Top, Base, InModal, Connecting
  <2>3. OneConnects'
    BY <2>1 DEF OneConnects, Base, Busy, Connecting, InModal, Flows
  <2>. QED
    BY <2>2, <2>3
<1>11. ASSUME NEW f \in Flows, OpenFails(f) PROVE (Piled /\ OneConnects)'
  <2>1. /\ at[f] = "open" /\ at' = [at EXCEPT ![f] = "error"]
        /\ stack' = stack /\ active' = active /\ pausing' = pausing
    BY <1>11 DEF OpenFails
  <2>2. Piled'
    BY <2>1 DEF Piled, InStack, Top, Base, InModal, Connecting
  <2>3. OneConnects'
    BY <2>1 DEF OneConnects, Base, Busy, Connecting, InModal, Flows
  <2>. QED
    BY <2>2, <2>3
<1>12. ASSUME NEW f \in Flows, Settles(f) PROVE (Piled /\ OneConnects)'
  <2>1. active = f /\ Under(f, Popped(stack, f))
    BY <1>12, BusyIsActive, PoppedUnder DEF Settles, Connecting
  <2>. QED
    BY <1>12, <2>1, EndsKeeps DEF Settles
<1>13. ASSUME NEW f \in Flows, ErrorShown(f) PROVE (Piled /\ OneConnects)'
  <2>1. active = f /\ Under(f, Popped(stack, f))
    BY <1>13, BusyIsActive, PoppedUnder DEF ErrorShown, Connecting
  <2>. QED
    BY <1>13, <2>1, AsksKeeps DEF ErrorShown
<1>14. ASSUME NEW f \in Flows, ReplyComes(f) PROVE (Piled /\ OneConnects)'
  <2>1. /\ at[f] = "settle" /\ at' = [at EXCEPT ![f] = "quiet"]
        /\ stack' = stack /\ active' = active /\ pausing' = pausing
    BY <1>14 DEF ReplyComes
  <2>2. Piled'
    BY <2>1 DEF Piled, InStack, Top, Base, InModal, Connecting
  <2>3. OneConnects'
    BY <2>1 DEF OneConnects, Base, Busy, Connecting, InModal, Flows
  <2>. QED
    BY <2>2, <2>3
<1>15. ASSUME NEW f \in Flows, PauseEnds(f) PROVE (Piled /\ OneConnects)'
  <2>1. active = f /\ Under(f, Popped(stack, f))
    BY <1>15, BusyIsActive, PoppedUnder DEF PauseEnds
  <2>. QED
    BY <1>15, <2>1, EndsKeeps, AbandonsKeeps DEF PauseEnds
<1>16. ASSUME NEW f \in Flows, Picks(f) PROVE (Piled /\ OneConnects)'
  <2>1. active \in {f, "none"} /\ Under(f, Popped(stack, f)) /\ at["D"] # "starting"
    BY <1>16, TopIsActive, PoppedUnder DEF Picks, Running
  <2>. QED
    BY <1>16, <2>1, ConnectsKeeps, EndsKeeps DEF Picks, GoesOffline
<1>17. ASSUME NEW f \in Flows, CancelsConnect(f) PROVE (Piled /\ OneConnects)'
  <2>1. active = f
    BY <1>17, BusyIsActive DEF CancelsConnect
  <2>. QED
    BY <1>17, <2>1, AbandonsKeeps DEF CancelsConnect
<1>18. ASSUME NEW f \in Flows, QuitsPicker(f) PROVE (Piled /\ OneConnects)'
  <2>1. active \in {f, "none"} /\ Under(f, Popped(stack, f))
    BY <1>18, TopIsActive, PoppedUnder DEF QuitsPicker
  <2>. QED
    BY <1>18, <2>1, EndsKeeps DEF QuitsPicker
<1>19. ASSUME NEW c \in Clients, LinkDrops(c) PROVE (Piled /\ OneConnects)'
    BY <1>19 DEF LinkDrops, flowVars, Piled, InStack, Top, OneConnects
<1>20. ASSUME NEW c \in Clients, RetryEnds(c) PROVE (Piled /\ OneConnects)'
    BY <1>20 DEF RetryEnds, flowVars, Piled, InStack, Top, OneConnects
<1>21. ASSUME NEW c \in Clients, HangsUp(c) PROVE (Piled /\ OneConnects)'
    BY <1>21 DEF HangsUp, flowVars, Piled, InStack, Top, OneConnects
<1>22. CASE UNCHANGED vars
    BY <1>22 DEF vars, flowVars, Piled, InStack, Top, OneConnects
<1>. QED
    BY <1>1, <1>2, <1>3, <1>4, <1>5, <1>6, <1>7, <1>8, <1>9, <1>10, <1>11, <1>12,
       <1>13, <1>14, <1>15, <1>16, <1>17, <1>18, <1>19, <1>20, <1>21, <1>22
       DEF Next, Runner, Dispatch, User

-----------------------------------------------------------------------------
(* The clients *)

\* The client that is made is the only one that is not closed or unused.
LEMMA MakesOne ==
    ASSUME Base, NEW l \in Links, Makes(l)
    PROVE  /\ link' \in [Clients -> Links] /\ current' \in 1 .. MaxClients /\ held' = current'
           /\ \A c \in Clients : c # held' => link'[c] = "closed" \/ (link'[c] = link[c] /\ c # held)
<1>1. PICK c \in Clients : /\ link' = [Closed(held) EXCEPT ![c] = l]
                           /\ current' = c /\ held' = c
    BY DEF Makes
<1>2. Closed(held) \in [Clients -> Links] /\ \A d \in Clients : Closed(held)[d] = IF d = held THEN "closed" ELSE link[d]
    BY DEF Closed, Base, Links
<1> HIDE DEF Closed
<1>3. link' \in [Clients -> Links] /\ \A d \in Clients : d # c => link'[d] = Closed(held)[d]
    BY <1>1, <1>2
<1>. QED
    BY <1>1, <1>2, <1>3 DEF Clients

LEMMA ClosedOne ==
    ASSUME Base, NEW c
    PROVE  /\ Closed(c) \in [Clients -> Links]
           /\ \A d \in Clients : Closed(c)[d] = IF d = c THEN "closed" ELSE link[d]
BY DEF Closed, Base, Links

Tasks ==
    /\ at \in [Flows -> InModal \union {"idle", "starting"}]
    /\ active \in Flows \union {"none"} /\ pausing \subseteq Flows
    /\ program \in {"running", "exiting", "over"}

LinksOK ==
    /\ auto \in BOOLEAN
    /\ link \in [Clients -> Links]
    /\ current \in 0 .. MaxClients /\ held \in 0 .. MaxClients

\* No action takes a variable outside its type.
LEMMA NextTasks == Tasks /\ [Next]_vars => Tasks'
<1>. SUFFICES ASSUME Tasks, [Next]_vars PROVE Tasks'
    OBVIOUS
<1>. USE DEF Tasks
<1>1. CASE BootstrapStarts
    BY <1>1 DEF BootstrapStarts, Connects, GoesOffline, InitialProfiles, Asks, Ends, InModal, Connecting, Flows
<1>2. CASE DropStarts
    BY <1>2 DEF DropStarts, Reopens, Asks, Ends, InModal, Connecting, Flows
<1>3. CASE QuitsReconnect
    BY <1>3 DEF QuitsReconnect, Asks, Ends, InModal, Connecting, Flows
<1>4. CASE AsksToQuit
    BY <1>4 DEF AsksToQuit, flowVars
<1>5. CASE AnswersQuit
    BY <1>5 DEF AnswersQuit, flowVars
<1>6. CASE Leaves
    BY <1>6 DEF Leaves, flowVars
<1>7. CASE LossSeen
    BY <1>7 DEF LossSeen, Asks, Ends, InModal, Connecting, Flows, flowVars
<1>8. CASE ReconnectedSeen
    BY <1>8 DEF ReconnectedSeen, Asks, Ends, InModal, Connecting, Flows, flowVars
<1>9. CASE GiveupSeen
    BY <1>9 DEF GiveupSeen, flowVars, Reopens, Abandons, Asks, Ends, InModal, Connecting, Flows
<1>10. ASSUME NEW f \in Flows, OpenReturns(f) PROVE Tasks'
    BY <1>10 DEF OpenReturns, Asks, Ends, InModal, Connecting, Flows, flowVars
<1>11. ASSUME NEW f \in Flows, OpenFails(f) PROVE Tasks'
    BY <1>11 DEF OpenFails, Asks, Ends, InModal, Connecting, Flows, flowVars
<1>12. ASSUME NEW f \in Flows, Settles(f) PROVE Tasks'
    BY <1>12 DEF Settles, Asks, Ends, InModal, Connecting, Flows, flowVars
<1>13. ASSUME NEW f \in Flows, ErrorShown(f) PROVE Tasks'
    BY <1>13 DEF ErrorShown, Asks, Ends, InModal, Connecting, Flows, flowVars
<1>14. ASSUME NEW f \in Flows, ReplyComes(f) PROVE Tasks'
    BY <1>14 DEF ReplyComes, Asks, Ends, InModal, Connecting, Flows, flowVars
<1>15. ASSUME NEW f \in Flows, PauseEnds(f) PROVE Tasks'
    BY <1>15 DEF PauseEnds, Abandons, Asks, Ends, InModal, Connecting, Flows
<1>16. ASSUME NEW f \in Flows, Picks(f) PROVE Tasks'
    BY <1>16 DEF Picks, Connects, GoesOffline, Asks, Ends, InModal, Connecting, Flows
<1>17. ASSUME NEW f \in Flows, CancelsConnect(f) PROVE Tasks'
    BY <1>17 DEF CancelsConnect, Abandons, Asks, Ends, InModal, Connecting, Flows
<1>18. ASSUME NEW f \in Flows, QuitsPicker(f) PROVE Tasks'
    BY <1>18 DEF QuitsPicker, Asks, Ends, InModal, Connecting, Flows, flowVars
<1>19. ASSUME NEW c \in Clients, LinkDrops(c) PROVE Tasks'
    BY <1>19 DEF LinkDrops, flowVars
<1>20. ASSUME NEW c \in Clients, RetryEnds(c) PROVE Tasks'
    BY <1>20 DEF RetryEnds, flowVars
<1>21. ASSUME NEW c \in Clients, HangsUp(c) PROVE Tasks'
    BY <1>21 DEF HangsUp, flowVars
<1>22. CASE UNCHANGED vars
    BY <1>22 DEF vars, flowVars
<1>. HIDE DEF Tasks
<1>. QED
    BY <1>1, <1>2, <1>3, <1>4, <1>5, <1>6, <1>7, <1>8, <1>9, <1>10, <1>11, <1>12,
       <1>13, <1>14, <1>15, <1>16, <1>17, <1>18, <1>19, <1>20, <1>21, <1>22
       DEF Next, Runner, Dispatch, User

LEMMA NextLinks == Base /\ [Next]_vars => LinksOK'
<1>. SUFFICES ASSUME Base, [Next]_vars PROVE LinksOK'
    OBVIOUS
<1>. USE DEF LinksOK
<1>1. CASE BootstrapStarts
  <2>1. \/ \E l \in Links : Makes(l)
        \/ UNCHANGED <<link, current, held>>
    BY <1>1 DEF BootstrapStarts, Connects, GoesOffline, Links, InitialProfiles
  <2>2. auto' = auto
    BY <1>1 DEF BootstrapStarts
  <2>3. CASE \E l \in Links : Makes(l)
    BY <2>2, <2>3, MakesOne, BoundsAssumption DEF Base
  <2>4. CASE UNCHANGED <<link, current, held>>
    BY <2>2, <2>4 DEF Base
  <2>. QED
    BY <2>1, <2>3, <2>4
<1>2. CASE DropStarts
    BY <1>2, ClosedOne, BoundsAssumption DEF DropStarts, Base, Reopens, clientVars
<1>3. CASE QuitsReconnect
    BY <1>3, ClosedOne, BoundsAssumption DEF QuitsReconnect, Base, clientVars
<1>4. CASE AsksToQuit
    BY <1>4 DEF AsksToQuit, Base, clientVars
<1>5. CASE AnswersQuit
    BY <1>5, ClosedOne, BoundsAssumption DEF AnswersQuit, Base, clientVars
<1>6. CASE Leaves
    BY <1>6, ClosedOne, BoundsAssumption DEF Leaves, Base, clientVars
<1>7. CASE LossSeen
    BY <1>7 DEF LossSeen, Base, clientVars
<1>8. CASE ReconnectedSeen
    BY <1>8 DEF ReconnectedSeen, Base, clientVars
<1>9. CASE GiveupSeen
    BY <1>9, ClosedOne, BoundsAssumption DEF GiveupSeen, Base, Reopens, Abandons, clientVars
<1>10. ASSUME NEW f \in Flows, OpenReturns(f) PROVE LinksOK'
    BY <1>10 DEF OpenReturns, Base, Links
<1>11. ASSUME NEW f \in Flows, OpenFails(f) PROVE LinksOK'
    BY <1>11, ClosedOne, BoundsAssumption DEF OpenFails, Base, clientVars
<1>12. ASSUME NEW f \in Flows, Settles(f) PROVE LinksOK'
    BY <1>12 DEF Settles, Base, clientVars
<1>13. ASSUME NEW f \in Flows, ErrorShown(f) PROVE LinksOK'
    BY <1>13 DEF ErrorShown, Base, clientVars
<1>14. ASSUME NEW f \in Flows, ReplyComes(f) PROVE LinksOK'
    BY <1>14 DEF ReplyComes, Base, clientVars
<1>15. ASSUME NEW f \in Flows, PauseEnds(f) PROVE LinksOK'
    BY <1>15, ClosedOne, BoundsAssumption DEF PauseEnds, Base, Abandons, clientVars
<1>16. ASSUME NEW f \in Flows, Picks(f) PROVE LinksOK'
  <2>1. \/ \E l \in Links : Makes(l)
        \/ UNCHANGED <<link, current, held>>
    BY <1>16 DEF Picks, Connects, GoesOffline, Links
  <2>2. auto' = auto
    BY <1>16 DEF Picks
  <2>3. CASE \E l \in Links : Makes(l)
    BY <2>2, <2>3, MakesOne, BoundsAssumption DEF Base
  <2>4. CASE UNCHANGED <<link, current, held>>
    BY <2>2, <2>4 DEF Base
  <2>. QED
    BY <2>1, <2>3, <2>4
<1>17. ASSUME NEW f \in Flows, CancelsConnect(f) PROVE LinksOK'
    BY <1>17, ClosedOne, BoundsAssumption DEF CancelsConnect, Base, Abandons, clientVars
<1>18. ASSUME NEW f \in Flows, QuitsPicker(f) PROVE LinksOK'
    BY <1>18 DEF QuitsPicker, Base, clientVars
<1>19. ASSUME NEW c \in Clients, LinkDrops(c) PROVE LinksOK'
    BY <1>19 DEF LinkDrops, Base, Links
<1>20. ASSUME NEW c \in Clients, RetryEnds(c) PROVE LinksOK'
    BY <1>20 DEF RetryEnds, Base, Links
<1>21. ASSUME NEW c \in Clients, HangsUp(c) PROVE LinksOK'
    BY <1>21, ClosedOne, BoundsAssumption DEF HangsUp, Base, clientVars
<1>22. CASE UNCHANGED vars
    BY <1>22 DEF vars, Base, clientVars
<1>. HIDE DEF LinksOK
<1>. QED
    BY <1>1, <1>2, <1>3, <1>4, <1>5, <1>6, <1>7, <1>8, <1>9, <1>10, <1>11, <1>12,
       <1>13, <1>14, <1>15, <1>16, <1>17, <1>18, <1>19, <1>20, <1>21, <1>22
       DEF Next, Runner, Dispatch, User

\* Nothing happens before the bootstrap task has run.
LEMMA NextBooting == Base /\ Piled /\ OneConnects /\ Booting /\ [Next]_vars => Booting'
<1>. SUFFICES ASSUME Base /\ Piled /\ OneConnects /\ Booting, [Next]_vars PROVE Booting'
    OBVIOUS
<1>. USE DEF Booting
<1>1. CASE BootstrapStarts
  <2>1. at' = [at EXCEPT !["B"] = "open"] \/ at' = [at EXCEPT !["B"] = "picker"] \/ at' = [at EXCEPT !["B"] = "idle"]
    BY <1>1 DEF BootstrapStarts, InitialProfiles, Connects, GoesOffline, Asks, Ends
  <2>. QED
    BY <2>1 DEF Base, Flows
<1>2. CASE DropStarts
    BY <1>2 DEF DropStarts, OneConnects, Connects, GoesOffline, Reopens, Abandons, Asks, Ends, flowVars, Base, Running, Flows, InModal, Connecting, Busy
<1>3. CASE QuitsReconnect
    BY <1>3 DEF QuitsReconnect, OneConnects, Connects, GoesOffline, Reopens, Abandons, Asks, Ends, flowVars, Base, Running, Flows, InModal, Connecting, Busy
<1>4. CASE AsksToQuit
    BY <1>4 DEF AsksToQuit, clientVars
<1>5. CASE AnswersQuit
    BY <1>5, BoundsAssumption DEF AnswersQuit, Closed, Clients, Base, Flows
<1>6. CASE Leaves
    BY <1>6, BoundsAssumption DEF Leaves, Closed, Clients, Base, Flows, flowVars
<1>7. CASE LossSeen
    BY <1>7 DEF LossSeen, Takes, OneConnects, flowVars, clientVars, Base, Running, Flows, InModal, Connecting, Busy
<1>8. CASE ReconnectedSeen
    BY <1>8 DEF ReconnectedSeen, Takes, OneConnects, flowVars, clientVars, Base, Running, Flows, InModal, Connecting, Busy
<1>9. CASE GiveupSeen
  <2>1. at["B"] # "starting"
    BY <1>9 DEF GiveupSeen, Takes
  <2>2. at' = at \/ \E f \in Flows : at' = [at EXCEPT ![f] = "picker"]
    BY <1>9 DEF GiveupSeen, flowVars, Reopens, Abandons, Asks, Base, Flows
  <2>. QED
    BY <2>1, <2>2 DEF Base, Flows
<1>10. ASSUME NEW f \in Flows, OpenReturns(f) PROVE Booting'
    BY <1>10 DEF OpenReturns, OneConnects, clientVars, Base, Running, Flows, InModal, Connecting, Busy
<1>11. ASSUME NEW f \in Flows, OpenFails(f) PROVE Booting'
    BY <1>11 DEF OpenFails, OneConnects, clientVars, Base, Running, Flows, InModal, Connecting, Busy
<1>12. ASSUME NEW f \in Flows, Settles(f) PROVE Booting'
    BY <1>12 DEF Settles, OneConnects, Connects, GoesOffline, Reopens, Abandons, Asks, Ends, flowVars, Base, Running, Flows, InModal, Connecting, Busy
<1>13. ASSUME NEW f \in Flows, ErrorShown(f) PROVE Booting'
    BY <1>13 DEF ErrorShown, OneConnects, Connects, GoesOffline, Reopens, Abandons, Asks, Ends, flowVars, Base, Running, Flows, InModal, Connecting, Busy
<1>14. ASSUME NEW f \in Flows, ReplyComes(f) PROVE Booting'
    BY <1>14 DEF ReplyComes, OneConnects, clientVars, Base, Running, Flows, InModal, Connecting, Busy
<1>15. ASSUME NEW f \in Flows, PauseEnds(f) PROVE Booting'
    BY <1>15 DEF PauseEnds, OneConnects, Connects, GoesOffline, Reopens, Abandons, Asks, Ends, flowVars, Base, Running, Flows, InModal, Connecting, Busy
<1>16. ASSUME NEW f \in Flows, Picks(f) PROVE Booting'
    BY <1>16 DEF Picks, OneConnects, Connects, GoesOffline, Reopens, Abandons, Asks, Ends, flowVars, Base, Running, Flows, InModal, Connecting, Busy
<1>17. ASSUME NEW f \in Flows, CancelsConnect(f) PROVE Booting'
    BY <1>17 DEF CancelsConnect, OneConnects, Connects, GoesOffline, Reopens, Abandons, Asks, Ends, flowVars, Base, Running, Flows, InModal, Connecting, Busy
<1>18. ASSUME NEW f \in Flows, QuitsPicker(f) PROVE Booting'
    BY <1>18 DEF QuitsPicker, OneConnects, Connects, GoesOffline, Reopens, Abandons, Asks, Ends, flowVars, Base, Running, Flows, InModal, Connecting, Busy
<1>19. ASSUME NEW c \in Clients, LinkDrops(c) PROVE Booting'
    BY <1>19 DEF LinkDrops, flowVars
<1>20. ASSUME NEW c \in Clients, RetryEnds(c) PROVE Booting'
    BY <1>20 DEF RetryEnds, flowVars
<1>21. ASSUME NEW c \in Clients, HangsUp(c) PROVE Booting'
    BY <1>21 DEF HangsUp, flowVars
<1>22. CASE UNCHANGED vars
    BY <1>22 DEF vars
<1>. HIDE DEF Booting
<1>. QED
    BY <1>1, <1>2, <1>3, <1>4, <1>5, <1>6, <1>7, <1>8, <1>9, <1>10, <1>11, <1>12,
       <1>13, <1>14, <1>15, <1>16, <1>17, <1>18, <1>19, <1>20, <1>21, <1>22
       DEF Next, Runner, Dispatch, User

\* Where a client goes, a window comes.
LEMMA NextClient == Base /\ Piled /\ OneConnects /\ Booting /\ ClientOrWindow /\ [Next]_vars => ClientOrWindow'
<1>. SUFFICES ASSUME Base /\ Piled /\ OneConnects /\ Booting /\ ClientOrWindow, [Next]_vars PROVE ClientOrWindow'
    OBVIOUS
<1>1. CASE BootstrapStarts
  <2>1. active = "none" /\ ~InStack("B") /\ "B" \in Flows /\ at["D"] # "starting"
    BY <1>1 DEF BootstrapStarts, Booting, Piled, InModal, Connecting, Flows, Running
  <2>2. Under("B", stack)
    BY <2>1, AllUnder
  <2>3. CASE Asks("B", stack)
    BY <2>1, <2>2, <2>3, AsksKeeps DEF ClientOrWindow
  <2>4. CASE \E l \in Links : Makes(l)
    BY <2>4, MakesOne, BoundsAssumption DEF ClientOrWindow
  <2>. QED
    BY <1>1, <2>3, <2>4 DEF BootstrapStarts, InitialProfiles, GoesOffline, Connects, Links
<1>2. CASE DropStarts
  <2>1. active = "none" /\ ~InStack("D") /\ "D" \in Flows
    BY <1>2 DEF DropStarts, OneConnects, Piled, InModal, Connecting, Flows
  <2>2. Under("D", stack)
    BY <2>1, AllUnder
  <2>3. CASE Asks("D", stack)
    BY <2>1, <2>2, <2>3, AsksKeeps DEF ClientOrWindow
  <2>4. CASE current # 0 /\ current' = current
    BY <2>4 DEF ClientOrWindow
  <2>. QED
    BY <1>2, <2>3, <2>4 DEF DropStarts, Reopens
<1>3. CASE QuitsReconnect
    BY <1>3 DEF QuitsReconnect, Ends, ClientOrWindow
<1>4. CASE AsksToQuit
  <2>1. /\ current' = current /\ at' = at /\ active' = active /\ program' = program
        /\ \A g : ~InStack(g)
    BY <1>4 DEF AsksToQuit, clientVars, InStack
  <2>. QED
    BY <2>1 DEF ClientOrWindow
<1>5. CASE AnswersQuit
  <2>1. /\ stack' = Popped(stack, "quit") /\ Top("quit") /\ current' = current /\ at' = at
        /\ active' = active /\ program' \in {program, "exiting"}
    BY <1>5 DEF AnswersQuit
  <2>2. \A g \in Flows : InStack(g) => InStack(g)'
    BY <2>1, TopGoes DEF InStack, Flows
  <2>. QED
    BY <2>1, <2>2 DEF ClientOrWindow
<1>6. CASE Leaves
    BY <1>6 DEF Leaves, flowVars, ClientOrWindow
<1>7. CASE LossSeen
  <2>1. stack' = stack /\ active' = active /\ current' = current /\ program' = program
    BY <1>7 DEF LossSeen, clientVars
  <2>2. at' = at \/ (active = "none" /\ at' = [at EXCEPT !["D"] = "starting"])
    BY <1>7 DEF LossSeen
  <2>. QED
    BY <2>1, <2>2 DEF ClientOrWindow, InStack, Base, Flows
<1>8. CASE ReconnectedSeen
    BY <1>8 DEF ReconnectedSeen, clientVars, ClientOrWindow, InStack
<1>9. CASE GiveupSeen
  <2>1. CASE UNCHANGED <<current, flowVars>> /\ program' = program
    BY <2>1 DEF flowVars, ClientOrWindow, InStack
  <2>2. CASE active # "none" /\ at[active] = "reconnect" /\ Reopens(Popped(stack, "D"))
    <3>1. active = "D" /\ "D" \in Flows
      BY <2>2 DEF Base, OneConnects, Flows
    <3>. QED
      BY <2>2, <3>1, PoppedUnder, AsksKeeps DEF Reopens, ClientOrWindow
  <2>3. CASE active # "none" /\ Abandons(active)
    BY <2>3, AbandonsKeeps DEF Base, ClientOrWindow
  <2>. QED
    BY <1>9, <2>1, <2>2, <2>3 DEF GiveupSeen
<1>10. ASSUME NEW f \in Flows, OpenReturns(f) PROVE ClientOrWindow'
  <2>1. active = f /\ at[f] # "error" /\ current' = current /\ active' = active
    BY <1>10, BusyIsActive DEF OpenReturns, Connecting
  <2>. QED
    BY <2>1 DEF ClientOrWindow, Flows
<1>11. ASSUME NEW f \in Flows, OpenFails(f) PROVE ClientOrWindow'
  <2>1. active = f /\ active' = f /\ at'[f] = "error" /\ stack' = stack
    BY <1>11, BusyIsActive DEF OpenFails, Connecting, Base
  <2>2. InStack(f)'
    BY <2>1, LenProperties, EmptySeq DEF Piled, Top, InStack, Flows
  <2>. QED
    BY <2>1, <2>2 DEF ClientOrWindow
<1>12. ASSUME NEW f \in Flows, Settles(f) PROVE ClientOrWindow'
  <2>1. active = f /\ at[f] # "error" /\ current' = current /\ active' = "none"
    BY <1>12, BusyIsActive DEF Settles, Connecting, Ends, clientVars
  <2>. QED
    BY <2>1 DEF ClientOrWindow, Flows
<1>13. ASSUME NEW f \in Flows, ErrorShown(f) PROVE ClientOrWindow'
  <2>1. active = f /\ Under(f, Popped(stack, f)) /\ Asks(f, Popped(stack, f))
    BY <1>13, BusyIsActive, PoppedUnder DEF ErrorShown, Connecting
  <2>. QED
    BY <2>1, AsksKeeps DEF ClientOrWindow
<1>14. ASSUME NEW f \in Flows, ReplyComes(f) PROVE ClientOrWindow'
  <2>1. active = f /\ at[f] # "error" /\ current' = current /\ active' = active
    BY <1>14, BusyIsActive DEF ReplyComes, Connecting, clientVars
  <2>. QED
    BY <2>1 DEF ClientOrWindow, Flows
<1>15. ASSUME NEW f \in Flows, PauseEnds(f) PROVE ClientOrWindow'
  <2>1. active = f
    BY <1>15, BusyIsActive DEF PauseEnds
  <2>2. CASE at[f] = "reconnect"
    <3>1. current # 0 /\ current' = current /\ active' = "none"
      BY <1>15, <2>1, <2>2 DEF PauseEnds, Ends, ClientOrWindow, Flows
    <3>. QED
      BY <3>1 DEF ClientOrWindow
  <2>3. CASE at[f] # "reconnect"
    BY <1>15, <2>1, <2>3, AbandonsKeeps DEF PauseEnds, ClientOrWindow
  <2>. QED
    BY <2>2, <2>3
<1>16. ASSUME NEW f \in Flows, Picks(f) PROVE ClientOrWindow'
  <2>1. \E l \in Links : Makes(l)
    BY <1>16 DEF Picks, Connects, GoesOffline, Links
  <2>. QED
    BY <2>1, MakesOne, BoundsAssumption DEF ClientOrWindow
<1>17. ASSUME NEW f \in Flows, CancelsConnect(f) PROVE ClientOrWindow'
  <2>1. active = f
    BY <1>17, BusyIsActive DEF CancelsConnect
  <2>. QED
    BY <1>17, <2>1, AbandonsKeeps DEF CancelsConnect, ClientOrWindow
<1>18. ASSUME NEW f \in Flows, QuitsPicker(f) PROVE ClientOrWindow'
    BY <1>18 DEF QuitsPicker, Ends, ClientOrWindow
<1>19. ASSUME NEW c \in Clients, LinkDrops(c) PROVE ClientOrWindow'
    BY <1>19 DEF LinkDrops, flowVars, ClientOrWindow, InStack
<1>20. ASSUME NEW c \in Clients, RetryEnds(c) PROVE ClientOrWindow'
    BY <1>20 DEF RetryEnds, flowVars, ClientOrWindow, InStack
<1>21. ASSUME NEW c \in Clients, HangsUp(c) PROVE ClientOrWindow'
    BY <1>21 DEF HangsUp, flowVars, ClientOrWindow, InStack
<1>22. CASE UNCHANGED vars
    BY <1>22 DEF vars, flowVars, ClientOrWindow, InStack
<1>. QED
    BY <1>1, <1>2, <1>3, <1>4, <1>5, <1>6, <1>7, <1>8, <1>9, <1>10, <1>11, <1>12,
       <1>13, <1>14, <1>15, <1>16, <1>17, <1>18, <1>19, <1>20, <1>21, <1>22
       DEF Next, Runner, Dispatch, User

\* The opener closes the client it holds before it lets go of it.
LEMMA NextLeak == Base /\ NoClientLeaks /\ [Next]_vars => NoClientLeaks'
<1>. SUFFICES ASSUME Base /\ NoClientLeaks, [Next]_vars PROVE NoClientLeaks'
    OBVIOUS
<1>1. CASE BootstrapStarts
  <2>1. (\E l \in Links : Makes(l)) \/ UNCHANGED <<link, held>>
    BY <1>1 DEF BootstrapStarts, Connects, GoesOffline, InitialProfiles, Links
  <2>2. program = "running" /\ program' = program
    BY <1>1 DEF BootstrapStarts, Running
  <2>3. CASE \E l \in Links : Makes(l)
    BY <2>2, <2>3, MakesOne DEF NoClientLeaks
  <2>. QED
    BY <2>1, <2>2, <2>3 DEF NoClientLeaks
<1>2. CASE DropStarts
    BY <1>2, ClosedOne DEF DropStarts, Reopens, NoClientLeaks
<1>3. CASE QuitsReconnect
    BY <1>3, ClosedOne DEF QuitsReconnect, Running, NoClientLeaks
<1>4. CASE AsksToQuit
    BY <1>4 DEF AsksToQuit, clientVars, Running, Takes, NoClientLeaks
<1>5. CASE AnswersQuit
    BY <1>5, ClosedOne DEF AnswersQuit, Running, NoClientLeaks
<1>6. CASE Leaves
    BY <1>6, ClosedOne DEF Leaves, NoClientLeaks
<1>7. CASE LossSeen
    BY <1>7 DEF LossSeen, clientVars, Running, Takes, NoClientLeaks
<1>8. CASE ReconnectedSeen
    BY <1>8 DEF ReconnectedSeen, clientVars, Running, Takes, NoClientLeaks
<1>9. CASE GiveupSeen
    BY <1>9, ClosedOne DEF GiveupSeen, Reopens, Abandons, Takes, NoClientLeaks
<1>10. ASSUME NEW f \in Flows, OpenReturns(f) PROVE NoClientLeaks'
    BY <1>10 DEF OpenReturns, Base, Running, NoClientLeaks
<1>11. ASSUME NEW f \in Flows, OpenFails(f) PROVE NoClientLeaks'
    BY <1>11, ClosedOne DEF OpenFails, Running, NoClientLeaks
<1>12. ASSUME NEW f \in Flows, Settles(f) PROVE NoClientLeaks'
    BY <1>12 DEF Settles, clientVars, Running, Takes, NoClientLeaks
<1>13. ASSUME NEW f \in Flows, ErrorShown(f) PROVE NoClientLeaks'
    BY <1>13 DEF ErrorShown, clientVars, Running, Takes, NoClientLeaks
<1>14. ASSUME NEW f \in Flows, ReplyComes(f) PROVE NoClientLeaks'
    BY <1>14 DEF ReplyComes, clientVars, Running, Takes, NoClientLeaks
<1>15. ASSUME NEW f \in Flows, PauseEnds(f) PROVE NoClientLeaks'
    BY <1>15, ClosedOne DEF PauseEnds, Abandons, Running, NoClientLeaks
<1>16. ASSUME NEW f \in Flows, Picks(f) PROVE NoClientLeaks'
  <2>1. (\E l \in Links : Makes(l)) \/ UNCHANGED <<link, held>>
    BY <1>16 DEF Picks, Connects, GoesOffline, InitialProfiles, Links
  <2>2. program = "running" /\ program' = program
    BY <1>16 DEF Picks, Running
  <2>3. CASE \E l \in Links : Makes(l)
    BY <2>2, <2>3, MakesOne DEF NoClientLeaks
  <2>. QED
    BY <2>1, <2>2, <2>3 DEF NoClientLeaks
<1>17. ASSUME NEW f \in Flows, CancelsConnect(f) PROVE NoClientLeaks'
    BY <1>17, ClosedOne DEF CancelsConnect, Abandons, Running, NoClientLeaks
<1>18. ASSUME NEW f \in Flows, QuitsPicker(f) PROVE NoClientLeaks'
    BY <1>18 DEF QuitsPicker, clientVars, Running, Takes, NoClientLeaks
<1>19. ASSUME NEW c \in Clients, LinkDrops(c) PROVE NoClientLeaks'
    BY <1>19 DEF LinkDrops, Base, Running, NoClientLeaks
<1>20. ASSUME NEW c \in Clients, RetryEnds(c) PROVE NoClientLeaks'
    BY <1>20 DEF RetryEnds, Base, Running, NoClientLeaks
<1>21. ASSUME NEW c \in Clients, HangsUp(c) PROVE NoClientLeaks'
    BY <1>21, ClosedOne DEF HangsUp, Running, NoClientLeaks
<1>22. CASE UNCHANGED vars
    BY <1>22 DEF vars, clientVars, Running, Takes, NoClientLeaks
<1>. QED
    BY <1>1, <1>2, <1>3, <1>4, <1>5, <1>6, <1>7, <1>8, <1>9, <1>10, <1>11, <1>12,
       <1>13, <1>14, <1>15, <1>16, <1>17, <1>18, <1>19, <1>20, <1>21, <1>22
       DEF Next, Runner, Dispatch, User

-----------------------------------------------------------------------------

LEMMA InitInv == Init => IInv
<1>. SUFFICES ASSUME Init PROVE IInv
    OBVIOUS
<1>. USE DEF Init
<1>1. Base
    BY BoundsAssumption DEF Base, Links, Flows, InModal, Connecting
<1>2. Piled
    BY LenProperties DEF Piled, InStack
<1>3. OneConnects
    BY DEF OneConnects, Flows, Busy, Connecting
<1>4. Booting
    BY DEF Booting, Flows
<1>5. ClientOrWindow
    BY DEF ClientOrWindow, Flows
<1>6. NoClientLeaks
    BY DEF NoClientLeaks
<1>. QED
    BY <1>1, <1>2, <1>3, <1>4, <1>5, <1>6 DEF IInv

LEMMA NextInv == IInv /\ [Next]_vars => IInv'
<1>. SUFFICES ASSUME IInv, [Next]_vars PROVE IInv'
    OBVIOUS
<1>. USE DEF IInv
<1>1. Base'
    BY NextTasks, NextLinks DEF Base, Tasks, LinksOK
<1>2. Piled' /\ OneConnects' /\ Booting' /\ ClientOrWindow' /\ NoClientLeaks'
    BY NextFlow, NextBooting, NextClient, NextLeak
<1>. QED
    BY <1>1, <1>2

LEMMA IInvHolds == Spec => []IInv
BY InitInv, NextInv, PTL DEF Spec

\* Clients are neither lost nor missing: at most one has tasks or a socket, it is
\* the one the opener closes next, and the main screen has one.
THEOREM ClientsAreKept == Spec => []UiInv
<1>1. IInv => UiInv
  <2>. SUFFICES ASSUME IInv PROVE UiInv
      OBVIOUS
  <2>1. TypeOK
    BY ElementOfSeq DEF IInv, Base, Piled, Windows, TypeOK
  <2>2. ScreenHasClient
    <3>1. stack = <<>> => \A g : ~InStack(g)
      BY DEF InStack
    <3>. QED
      BY <3>1 DEF IInv, ClientOrWindow, ScreenHasClient
  <2>. QED
    BY <2>1, <2>2 DEF IInv, UiInv
<1>. QED
    BY <1>1, IInvHolds, PTL

\* A window that can be seen has someone waiting for its answer.
THEOREM EveryWindowIsAwaited == Spec => []WindowsAreAwaited
<1>1. IInv => WindowsAreAwaited
  <2>. SUFFICES ASSUME IInv PROVE WindowsAreAwaited
      OBVIOUS
  <2>1. \A f \in Flows : \A i \in 1 .. Len(stack) : stack[i] = f => at[f] \in InModal
    BY DEF IInv, Piled, InStack
  <2>2. active # "none" <=> \E f \in Flows : at[f] \in Busy
    BY DEF IInv, Base, OneConnects, Flows
  <2>. QED
    BY <2>1, <2>2 DEF IInv, Piled, Busy, WindowsAreAwaited
<1>. QED
    BY <1>1, IInvHolds, PTL
=============================================================================
