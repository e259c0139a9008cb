--------------------------- MODULE ChannelProofs ---------------------------
(***************************************************************************)
(* Theorems about Channel, for either UI and any number of frames and acks *)
(* under way.                                                              *)
(***************************************************************************)
EXTENDS ChannelProps, SequenceTheorems, TLAPS

Frames == {"in", "out", "unpause"}
Answers == {"in", "out", "pch"}

Holds(s, x) == \E i \in DOMAIN s : s[i] = x
Only(s, x) == \A i \in DOMAIN s : s[i] = x

-----------------------------------------------------------------------------
(* What the frames under way lead to *)

\* A sequence and its tail, by indices.
LEMMA TailFacts ==
    ASSUME NEW S, NEW s \in Seq(S), s # <<>>
    PROVE  /\ Len(s) \in Nat \ {0} /\ DOMAIN s = 1 .. Len(s) /\ Head(s) = s[1] /\ Head(s) \in S
           /\ Tail(s) \in Seq(S) /\ Len(Tail(s)) = Len(s) - 1
           /\ DOMAIN Tail(s) = 1 .. Len(s) - 1
           /\ \A i \in 1 .. Len(s) - 1 : Tail(s)[i] = s[i + 1]
<1>1. Len(s) \in Nat \ {0} /\ DOMAIN s = 1 .. Len(s)
    BY EmptySeq, LenProperties
<1>2. Head(s) = s[1] /\ Head(s) \in S
    BY <1>1, ElementOfSeq
<1>3. Tail(s) \in Seq(S) /\ Len(Tail(s)) = Len(s) - 1 /\ \A i \in 1 .. Len(s) - 1 : Tail(s)[i] = s[i + 1]
    BY <1>1
<1>. QED
    BY <1>1, <1>2, <1>3, LenProperties

LEMMA AppendFacts ==
    ASSUME NEW S, NEW s \in Seq(S), NEW e \in S
    PROVE  /\ Len(s) \in Nat /\ DOMAIN s = 1 .. Len(s)
           /\ Append(s, e) \in Seq(S) /\ Len(Append(s, e)) = Len(s) + 1
           /\ DOMAIN Append(s, e) = 1 .. Len(s) + 1
           /\ \A i \in 1 .. Len(s) : Append(s, e)[i] = s[i]
           /\ Append(s, e)[Len(s) + 1] = e
<1>1. Len(s) \in Nat /\ DOMAIN s = 1 .. Len(s)
    BY LenProperties
<1>2. /\ Append(s, e) \in Seq(S) /\ Len(Append(s, e)) = Len(s) + 1
      /\ \A i \in 1 .. Len(s) : Append(s, e)[i] = s[i]
      /\ Append(s, e)[Len(s) + 1] = e
    BY AppendProperties
<1>. QED
    BY <1>1, <1>2, LenProperties

\* One more frame of the other kind leaves the last word as it was; one that is
\* not has it.
LEMMA LastWordAppend ==
    ASSUME NEW S, NEW s \in Seq(S), NEW e \in S, NEW other, NEW now, NEW b
    PROVE  /\ e = other /\ LastWord(s, other, now, b) => LastWord(Append(s, e), other, now, b)
           /\ e # other /\ (e = "in" <=> b) => LastWord(Append(s, e), other, now, b)
<1> DEFINE a == Append(s, e)
<1>1. /\ Len(s) \in Nat /\ DOMAIN s = 1 .. Len(s) /\ DOMAIN a = 1 .. Len(s) + 1
      /\ \A i \in 1 .. Len(s) : a[i] = s[i]
      /\ a[Len(s) + 1] = e
    BY AppendFacts
<1> HIDE DEF a
<1>2. ASSUME e = other, LastWord(s, other, now, b) PROVE LastWord(a, other, now, b)
  <2>1. CASE Only(s, other) /\ (now <=> b)
    BY <1>1, <1>2, <2>1 DEF LastWord, Only
  <2>2. ASSUME NEW i \in DOMAIN s, s[i] # other, s[i] = "in" <=> b,
               \A j \in DOMAIN s : j > i => s[j] = other
        PROVE  LastWord(a, other, now, b)
    <3>1. i \in DOMAIN a /\ a[i] # other /\ (a[i] = "in" <=> b)
      BY <1>1, <2>2
    <3>2. \A j \in DOMAIN a : j > i => a[j] = other
      BY <1>1, <1>2, <2>2
    <3>. QED
      BY <3>1, <3>2 DEF LastWord
  <2>. QED
    BY <1>2, <2>1, <2>2 DEF LastWord, Only
<1>3. ASSUME e # other, e = "in" <=> b PROVE LastWord(a, other, now, b)
  <2>1. Len(s) + 1 \in DOMAIN a /\ \A j \in DOMAIN a : ~(j > Len(s) + 1)
    BY <1>1
  <2>. QED
    BY <1>1, <1>3, <2>1 DEF LastWord
<1>. QED
    BY <1>2, <1>3 DEF a

\* Taking the first frame away leaves the last word as it was, counted from the
\* state the frame led to.
LEMMA LastWordTail ==
    ASSUME NEW S, NEW s \in Seq(S), s # <<>>, NEW other, NEW now, NEW b,
           LastWord(s, other, now, b)
    PROVE  /\ Head(s) = other => LastWord(Tail(s), other, now, b)
           /\ \A then : Head(s) # other /\ (then <=> Head(s) = "in") =>
                  LastWord(Tail(s), other, then, b)
<1> DEFINE t == Tail(s)
<1>1. /\ Len(s) \in Nat \ {0} /\ DOMAIN s = 1 .. Len(s) /\ Head(s) = s[1]
      /\ DOMAIN t = 1 .. Len(s) - 1
      /\ \A i \in 1 .. Len(s) - 1 : t[i] = s[i + 1]
    BY TailFacts
<1> HIDE DEF t
<1>2. \A i \in DOMAIN t : i + 1 \in DOMAIN s /\ t[i] = s[i + 1]
    BY <1>1
<1>3. CASE Only(s, other) /\ (now <=> b)
  <2>1. Only(t, other) /\ Head(s) = other
    BY <1>1, <1>2, <1>3 DEF Only
  <2>. QED
    BY <1>3, <2>1 DEF t, LastWord, Only
<1>4. ASSUME NEW i \in DOMAIN s, s[i] # other, s[i] = "in" <=> b,
             \A j \in DOMAIN s : j > i => s[j] = other
      PROVE  /\ Head(s) = other => LastWord(t, other, now, b)
             /\ \A then : Head(s) # other /\ (then <=> Head(s) = "in") => LastWord(t, other, then, b)
  <2>1. CASE i = 1
    <3>1. Only(t, other)
      BY <1>1, <1>2, <1>4, <2>1 DEF Only
    <3>. QED
      BY <1>1, <1>4, <2>1, <3>1 DEF LastWord, Only
  <2>2. CASE i # 1
    <3>1. i - 1 \in DOMAIN t /\ t[i - 1] = s[i]
      BY <1>1, <2>2
    <3>2. \A j \in DOMAIN t : j > i - 1 => t[j] = other
      BY <1>1, <1>2, <1>4
    <3>3. \A then : LastWord(t, other, then, b)
      BY <1>4, <3>1, <3>2 DEF LastWord
    <3>. QED
      BY <3>3
  <2>. QED
    BY <2>1, <2>2
<1>. QED
    BY <1>3, <1>4 DEF t, LastWord, Only

\* What a sequence holds: one more at its end, one less at its head.
LEMMA HoldsSteps ==
    ASSUME NEW S, NEW s \in Seq(S), NEW x
    PROVE  /\ \A e \in S : Holds(s, x) => Holds(Append(s, e), x)
           /\ \A e \in S : Holds(Append(s, e), e)
           /\ s # <<>> /\ Holds(s, x) /\ Head(s) # x => Holds(Tail(s), x)
<1>1. ASSUME NEW e \in S PROVE (Holds(s, x) => Holds(Append(s, e), x)) /\ Holds(Append(s, e), e)
    BY AppendFacts DEF Holds
<1>2. ASSUME s # <<>>, NEW i \in DOMAIN s, s[i] = x, Head(s) # x PROVE Holds(Tail(s), x)
  <2>1. /\ Len(s) \in Nat \ {0} /\ DOMAIN s = 1 .. Len(s) /\ Head(s) = s[1]
        /\ DOMAIN Tail(s) = 1 .. Len(s) - 1
        /\ \A j \in 1 .. Len(s) - 1 : Tail(s)[j] = s[j + 1]
    BY <1>2, TailFacts
  <2>2. i - 1 \in 1 .. Len(s) - 1 /\ (i - 1) + 1 = i
    BY <1>2, <2>1
  <2>3. Tail(s)[i - 1] = x
    BY <1>2, <2>1, <2>2
  <2>. QED
    BY <2>1, <2>2, <2>3 DEF Holds
<1>. QED
    BY <1>1, <1>2 DEF Holds
-----------------------------------------------------------------------------
(* The inductive invariant *)

Flags ==
    /\ ui \in Uis /\ sub \in BOOLEAN /\ held \in BOOLEAN /\ subscribed \in BOOLEAN
    /\ paused \in BOOLEAN /\ editing \in BOOLEAN /\ switching \in BOOLEAN /\ wish \in BOOLEAN
    /\ lost \in BOOLEAN

Screen ==
    /\ events \in 0 .. MaxEvents /\ cached \in {"unknown", "in", "out"}
    /\ modal \in Stages /\ target \in Places /\ reply \in Places

Callers ==
    /\ waiter \in Asks \union {Nobody}
    /\ asking \in [Asks -> {"idle", "waiting", "answered"}]

Prompted == prompt \in [mode : Modes, place : Places]

Base == Flags /\ Screen /\ Callers /\ Prompted

Queues ==
    /\ wire \in Seq(Frames) /\ Len(wire) <= MaxFrames + 1
    /\ acks \in Seq(Answers) /\ Len(acks) <= MaxEvents

Answering ==
    /\ waiter # Nobody => asking[waiter] # "idle"
    /\ \A w \in Asks : asking[w] = "answered" => waiter = w
    /\ modal = "subscribing" => wish
    /\ modal = "subscribing" /\ ui = "urwid" => asking["dialog"] # "idle" /\ waiter # "closed"
    /\ waiter = "closed" => ~wish /\ ~lost

AckComes ==
    waiter # Nobody /\ asking[waiter] = "waiting" => Holds(wire, "in") \/ Holds(acks, "in")

Roomy == Len(wire) > MaxFrames => waiter \notin {"dialog", "closed"}

Words == CacheIsStore /\ HeldIsListed /\ AcksTellSub /\ WishIsLast

IInv == Base /\ Queues /\ Answering /\ AckComes /\ Roomy /\ Words /\ PromptTellsTruth

\* RefreshPrompt writes what the input line will do.
LEMMA Refreshed ==
    ASSUME Flags, NEW t \in Places, NEW r \in Places, NEW e \in BOOLEAN, RefreshPrompt(t, r, e)
    PROVE  /\ prompt' \in [mode : Modes, place : Places]
           /\ prompt'.mode = IF e THEN "edit" ELSE IF r # "none" THEN "reply" ELSE "send"
           /\ ui = "textual" \/ r = "none" \/ e =>
                  prompt'.place = IF e THEN "none" ELSE IF r # "none" THEN r ELSE t
BY DEF RefreshPrompt, TextualPrompt, UrwidCaption, Modes, Places, Flags, Uis

\* No action takes a variable outside its type.
LEMMA NextFlags == Flags /\ [Next]_vars => Flags'
<1>. SUFFICES ASSUME Flags, [Next]_vars PROVE Flags'
    OBVIOUS
<1>. USE DEF Flags, Uis, server, client, line, said, Says
<1>1. CASE UnpauseCommand
    BY <1>1 DEF UnpauseCommand, UnpauseChannel
<1>2. CASE Activate
    BY <1>2 DEF Activate, SwitchTo
<1>3. CASE ActivateDm
    BY <1>3 DEF ActivateDm, SwitchTo
<1>4. CASE Counted
    BY <1>4 DEF Counted, Accepted
<1>5. CASE UnpauseCounted
    BY <1>5 DEF UnpauseCounted, Accepted, UnpauseChannel
<1>6. ASSUME NEW empty \in BOOLEAN, InputSubmitted(empty) PROVE Flags'
    BY <1>6 DEF InputSubmitted, ConsumePendingEdit, ConsumePendingReply, SendToTarget
<1>7. CASE Subscribed
    BY <1>7 DEF Subscribed, Accepted
<1>8. CASE CommandSubscribed
    BY <1>8 DEF CommandSubscribed, SwitchTo
<1>9. CASE OnSubscribeAck
    BY <1>9 DEF OnSubscribeAck, Acked
<1>10. CASE Yes \/ SubCommand \/ Unsub \/ No
    BY <1>10 DEF Yes, SubCommand, Unsub, No
<1>11. CASE CancelCount \/ TextualCancel \/ UrwidCancel \/ UnpauseYes
    BY <1>11 DEF CancelCount, TextualCancel, UrwidCancel, UnpauseYes
<1>12. CASE UnsubChannel \/ BeginEdit \/ FocusInput \/ ClosedSubscribed
    BY <1>12 DEF UnsubChannel, BeginEdit, FocusInput, ClosedSubscribed
<1>13. CASE Switched \/ HandleCs \/ OnPausedHeaders \/ Serves
    BY <1>13 DEF Switched, HandleCs, OnPausedHeaders, Serves
<1>14. ASSUME NEW t \in {"ch", "dm"}, BeginReply(t) PROVE Flags'
    BY <1>14 DEF BeginReply
<1>15. CASE UNCHANGED vars
    BY <1>15 DEF vars
<1>. HIDE DEF Flags, Uis, server, client, line, said, Says
<1>. QED
    BY <1>1, <1>2, <1>3, <1>4, <1>5, <1>6, <1>7, <1>8, <1>9, <1>10, <1>11, <1>12, <1>13, <1>14,
       <1>15
       DEF Next, Commands, Dialogs, InputLine, Tasks, Reader

LEMMA NextScreen == Screen /\ [Next]_vars => Screen'
<1>. SUFFICES ASSUME Screen, [Next]_vars PROVE Screen'
    OBVIOUS
<1>. USE DEF Screen, Stages, Places, server, client, line, said, Says
<1>1. CASE Activate
    BY <1>1 DEF Activate, SwitchTo, Consults
<1>2. CASE ActivateDm
    BY <1>2 DEF ActivateDm, SwitchTo
<1>3. CASE Counted
    BY <1>3 DEF Counted, Accepted
<1>4. CASE UnpauseCounted
    BY <1>4 DEF UnpauseCounted, Accepted
<1>5. CASE UnsubChannel
    BY <1>5 DEF UnsubChannel, Consults
<1>6. ASSUME NEW t \in {"ch", "dm"}, BeginReply(t) PROVE Screen'
    BY <1>6 DEF BeginReply, Consults
<1>7. ASSUME NEW empty \in BOOLEAN, InputSubmitted(empty) PROVE Screen'
    BY <1>7
       DEF InputSubmitted, ConsumePendingEdit, ConsumePendingReply, SendToTarget,
           Consults
<1>8. CASE Subscribed
    BY <1>8 DEF Subscribed, Accepted
<1>9. CASE CommandSubscribed
    BY <1>9 DEF CommandSubscribed, SwitchTo
<1>10. CASE HandleCs
    BY <1>10, BoundsAssumption DEF HandleCs
<1>11. CASE OnSubscribeAck
    BY <1>11, BoundsAssumption DEF OnSubscribeAck
<1>12. CASE Yes \/ SubCommand \/ Unsub \/ UnpauseCommand
    BY <1>12 DEF Yes, SubCommand, Unsub, UnpauseCommand
<1>13. CASE No \/ CancelCount \/ TextualCancel \/ UrwidCancel
    BY <1>13 DEF No, CancelCount, TextualCancel, UrwidCancel
<1>14. CASE UnpauseYes \/ BeginEdit \/ FocusInput \/ ClosedSubscribed
    BY <1>14 DEF UnpauseYes, BeginEdit, FocusInput, ClosedSubscribed
<1>15. CASE Switched \/ OnPausedHeaders \/ Serves
    BY <1>15 DEF Switched, OnPausedHeaders, Serves
<1>16. CASE UNCHANGED vars
    BY <1>16 DEF vars
<1>. HIDE DEF Screen, Stages, Places, server, client, line, said, Says
<1>. QED
    BY <1>1, <1>2, <1>3, <1>4, <1>5, <1>6, <1>7, <1>8, <1>9, <1>10, <1>11, <1>12, <1>13, <1>14,
       <1>15, <1>16
       DEF Next, Commands, Dialogs, InputLine, Tasks, Reader

LEMMA NextCallers == Callers /\ [Next]_vars => Callers'
<1>. SUFFICES ASSUME Callers, [Next]_vars PROVE Callers'
    OBVIOUS
<1>. USE DEF Callers, Asks, Nobody, server, client, line, said, Says
<1>1. CASE Yes
    BY <1>1 DEF Yes, SubscribeAndWait
<1>2. CASE SubCommand
    BY <1>2 DEF SubCommand, SubscribeAndWait
<1>3. CASE UnpauseCommand
    BY <1>3 DEF UnpauseCommand, UnpauseChannel
<1>4. CASE UnpauseCounted
    BY <1>4 DEF UnpauseCounted, UnpauseChannel
<1>5. CASE Subscribed
    BY <1>5 DEF Subscribed, Resumes
<1>6. CASE ClosedSubscribed
    BY <1>6 DEF ClosedSubscribed, Resumes
<1>7. CASE CommandSubscribed
    BY <1>7 DEF CommandSubscribed, Resumes
<1>8. CASE Unsub \/ Activate \/ ActivateDm \/ No
    BY <1>8 DEF Unsub, Activate, ActivateDm, No
<1>9. CASE Counted \/ CancelCount \/ TextualCancel \/ UrwidCancel
    BY <1>9 DEF Counted, CancelCount, TextualCancel, UrwidCancel
<1>10. CASE UnpauseYes \/ UnsubChannel \/ BeginEdit \/ FocusInput
    BY <1>10 DEF UnpauseYes, UnsubChannel, BeginEdit, FocusInput
<1>11. CASE Switched \/ HandleCs \/ OnSubscribeAck \/ OnPausedHeaders
    BY <1>11 DEF Switched, HandleCs, OnSubscribeAck, OnPausedHeaders
<1>12. CASE Serves
    BY <1>12 DEF Serves
<1>13. ASSUME NEW t \in {"ch", "dm"}, BeginReply(t) PROVE Callers'
    BY <1>13 DEF BeginReply
<1>14. ASSUME NEW empty \in BOOLEAN, InputSubmitted(empty) PROVE Callers'
    BY <1>14 DEF InputSubmitted
<1>15. CASE UNCHANGED vars
    BY <1>15 DEF vars
<1>. HIDE DEF Callers, Asks, Nobody, server, client, line, said, Says
<1>. QED
    BY <1>1, <1>2, <1>3, <1>4, <1>5, <1>6, <1>7, <1>8, <1>9, <1>10, <1>11, <1>12, <1>13, <1>14,
       <1>15
       DEF Next, Commands, Dialogs, InputLine, Tasks, Reader

LEMMA NextPrompted == Flags /\ Screen /\ Prompted /\ [Next]_vars => Prompted'
<1>. SUFFICES ASSUME Flags /\ Screen /\ Prompted, [Next]_vars PROVE Prompted'
    OBVIOUS
<1>. USE DEF Prompted, server, client, line, said, Says
<1>1. CASE Activate
    BY <1>1, Refreshed DEF Activate, SwitchTo, Screen, Flags, Places
<1>2. CASE ActivateDm
    BY <1>2, Refreshed DEF ActivateDm, SwitchTo, Screen, Flags, Places
<1>3. CASE Counted
    BY <1>3, Refreshed DEF Counted, Accepted, Screen, Flags, Places
<1>4. CASE UnpauseCounted
    BY <1>4, Refreshed DEF UnpauseCounted, Accepted, Screen, Flags, Places
<1>5. ASSUME NEW t \in {"ch", "dm"}, BeginReply(t) PROVE Prompted'
    BY <1>5, Refreshed DEF BeginReply, Screen, Flags, Places
<1>6. CASE BeginEdit
    BY <1>6, Refreshed DEF BeginEdit, Screen, Flags, Places
<1>7. CASE FocusInput
    BY <1>7, Refreshed DEF FocusInput, Screen, Flags, Places
<1>8. ASSUME NEW empty \in BOOLEAN, InputSubmitted(empty) PROVE Prompted'
    BY <1>8, Refreshed
       DEF InputSubmitted, ConsumePendingEdit, ConsumePendingReply, SendToTarget,
           Screen, Flags, Places
<1>9. CASE Subscribed
    BY <1>9, Refreshed DEF Subscribed, Accepted, Screen, Flags, Places
<1>10. CASE CommandSubscribed
    BY <1>10, Refreshed DEF CommandSubscribed, SwitchTo, Screen, Flags, Places
<1>11. CASE Switched
    BY <1>11, Refreshed DEF Switched, Screen, Flags, Places
<1>12. CASE Yes \/ SubCommand \/ Unsub \/ UnpauseCommand
    BY <1>12 DEF Yes, SubCommand, Unsub, UnpauseCommand
<1>13. CASE No \/ CancelCount \/ TextualCancel \/ UrwidCancel
    BY <1>13 DEF No, CancelCount, TextualCancel, UrwidCancel
<1>14. CASE UnpauseYes \/ UnsubChannel \/ ClosedSubscribed \/ HandleCs
    BY <1>14 DEF UnpauseYes, UnsubChannel, ClosedSubscribed, HandleCs
<1>15. CASE OnSubscribeAck \/ OnPausedHeaders \/ Serves
    BY <1>15 DEF OnSubscribeAck, OnPausedHeaders, Serves
<1>16. CASE UNCHANGED vars
    BY <1>16 DEF vars
<1>. HIDE DEF Prompted, server, client, line, said, Says
<1>. QED
    BY <1>1, <1>2, <1>3, <1>4, <1>5, <1>6, <1>7, <1>8, <1>9, <1>10, <1>11, <1>12, <1>13, <1>14,
       <1>15, <1>16
       DEF Next, Commands, Dialogs, InputLine, Tasks, Reader

\* Whatever changes what the next line will do rewrites the prompt.
LEMMA NextTruth == Flags /\ Screen /\ PromptTellsTruth /\ [Next]_vars => PromptTellsTruth'
<1>. SUFFICES ASSUME Flags /\ Screen /\ PromptTellsTruth, [Next]_vars PROVE PromptTellsTruth'
    OBVIOUS
<1>. USE DEF PromptTellsTruth, Mode, Place, server, client, line, said, Says
<1>1. CASE Activate
    BY <1>1, Refreshed DEF Activate, SwitchTo, Screen, Flags, Places, Uis
<1>2. CASE ActivateDm
    BY <1>2, Refreshed DEF ActivateDm, SwitchTo, Screen, Flags, Places, Uis
<1>3. CASE Counted
    BY <1>3, Refreshed DEF Counted, Accepted, Screen, Flags, Places, Uis
<1>4. CASE UnpauseCounted
    BY <1>4, Refreshed DEF UnpauseCounted, Accepted, Screen, Flags, Places, Uis
<1>5. ASSUME NEW t \in {"ch", "dm"}, BeginReply(t) PROVE PromptTellsTruth'
    BY <1>5, Refreshed DEF BeginReply, Screen, Flags, Places, Uis
<1>6. CASE BeginEdit
    BY <1>6, Refreshed DEF BeginEdit, Screen, Flags, Places, Uis
<1>7. CASE FocusInput
    BY <1>7, Refreshed DEF FocusInput, Screen, Flags, Places, Uis
<1>8. ASSUME NEW empty \in BOOLEAN, InputSubmitted(empty) PROVE PromptTellsTruth'
  <2>1. UNCHANGED ui /\ (ConsumePendingEdit \/ ConsumePendingReply \/ SendToTarget)
    BY <1>8 DEF InputSubmitted
  <2>2. CASE ConsumePendingEdit
    BY <2>1, <2>2, Refreshed DEF ConsumePendingEdit, Screen, Flags, Places, Uis
  <2>3. CASE ConsumePendingReply
    BY <2>1, <2>3, Refreshed DEF ConsumePendingReply, Screen, Flags, Places, Uis
  <2>4. CASE SendToTarget
    BY <2>1, <2>4 DEF SendToTarget
  <2>. QED
    BY <2>1, <2>2, <2>3, <2>4
<1>9. CASE Subscribed
    BY <1>9, Refreshed DEF Subscribed, Accepted, Screen, Flags, Places, Uis
<1>10. CASE CommandSubscribed
    BY <1>10, Refreshed DEF CommandSubscribed, SwitchTo, Screen, Flags, Places, Uis
<1>11. CASE Switched
    BY <1>11, Refreshed DEF Switched, Screen, Flags, Places, Uis
<1>12. CASE Yes \/ SubCommand \/ Unsub \/ UnpauseCommand
    BY <1>12 DEF Yes, SubCommand, Unsub, UnpauseCommand
<1>13. CASE No \/ CancelCount \/ TextualCancel \/ UrwidCancel
    BY <1>13 DEF No, CancelCount, TextualCancel, UrwidCancel
<1>14. CASE UnpauseYes \/ UnsubChannel \/ ClosedSubscribed \/ HandleCs
    BY <1>14 DEF UnpauseYes, UnsubChannel, ClosedSubscribed, HandleCs
<1>15. CASE OnSubscribeAck \/ OnPausedHeaders \/ Serves
    BY <1>15 DEF OnSubscribeAck, OnPausedHeaders, Serves
<1>16. CASE UNCHANGED vars
    BY <1>16 DEF vars
<1>. HIDE DEF PromptTellsTruth, Mode, Place, server, client, line, said, Says
<1>. QED
    BY <1>1, <1>2, <1>3, <1>4, <1>5, <1>6, <1>7, <1>8, <1>9, <1>10, <1>11, <1>12, <1>13, <1>14,
       <1>15, <1>16
       DEF Next, Commands, Dialogs, InputLine, Tasks, Reader

\* A frame that is sent where there is room takes it.
LEMMA SendFits ==
    ASSUME Queues, Room, NEW frame \in Frames, Sends(frame)
    PROVE  wire' \in Seq(Frames) /\ Len(wire') \in Nat /\ Len(wire') <= MaxFrames
<1>1. Len(wire) < MaxFrames /\ wire' = Append(wire, frame)
    BY DEF Room, Sends
<1>. QED
    BY <1>1, AppendFacts, BoundsAssumption DEF Queues

\* A frame is sent where there is room: the task of a dialog that was left is the
\* only one that does not look, and it finds some.
LEMMA NextQueues == Callers /\ Queues /\ Answering /\ Roomy /\ [Next]_vars => Queues'
<1>. SUFFICES ASSUME Callers /\ Queues /\ Answering /\ Roomy, [Next]_vars PROVE Queues'
    OBVIOUS
<1>. USE DEF Queues, server, client, line, said, Says
<1>1. CASE Yes
    BY <1>1, SendFits, BoundsAssumption DEF Yes, Frames, SubscribeAndWait
<1>2. CASE SubCommand
    BY <1>2, SendFits, BoundsAssumption DEF SubCommand, Frames, SubscribeAndWait
<1>3. CASE Unsub
    BY <1>3, SendFits, BoundsAssumption DEF Unsub, Frames, Unsubscribe
<1>4. CASE UnpauseCommand
    BY <1>4, SendFits, BoundsAssumption DEF UnpauseCommand, Frames, UnpauseChannel
<1>5. CASE CancelCount
    BY <1>5, SendFits, BoundsAssumption DEF CancelCount, Frames, Unsubscribe
<1>6. CASE UnpauseCounted
    BY <1>6, SendFits, BoundsAssumption DEF UnpauseCounted, Frames, UnpauseChannel
<1>7. ASSUME NEW t \in {"ch", "dm"}, BeginReply(t) PROVE Queues'
    BY <1>7 DEF BeginReply
<1>8. ASSUME NEW empty \in BOOLEAN, InputSubmitted(empty) PROVE Queues'
    BY <1>8 DEF InputSubmitted
<1>9. CASE ClosedSubscribed
  <2>1. waiter = "closed"
    BY <1>9 DEF ClosedSubscribed, Resumes, Answering, Asks
  <2>2. Len(wire) \in Nat /\ ~(Len(wire) > MaxFrames)
    BY <2>1, AppendFacts DEF Roomy, Frames
  <2>3. wire' = Append(wire, "out") /\ acks' = acks
    BY <1>9 DEF ClosedSubscribed, Unsubscribe, Sends
  <2>. QED
    BY <2>2, <2>3, AppendFacts, BoundsAssumption DEF Frames
<1>10. CASE OnSubscribeAck
  <2>1. acks # <<>> /\ acks' = Tail(acks) /\ wire' = wire
    BY <1>10 DEF OnSubscribeAck
  <2>. QED
    BY <2>1, TailFacts, BoundsAssumption
<1>11. CASE OnPausedHeaders
  <2>1. acks # <<>> /\ acks' = Tail(acks) /\ wire' = wire
    BY <1>11 DEF OnPausedHeaders
  <2>. QED
    BY <2>1, TailFacts, BoundsAssumption
<1>12. CASE Serves
  <2>1. wire # <<>> /\ wire' = Tail(wire) /\ Len(acks) < MaxEvents
    BY <1>12 DEF Serves
  <2>2. wire' \in Seq(Frames) /\ Len(wire') <= MaxFrames + 1 /\ Head(wire) \in Frames
    BY <2>1, TailFacts, BoundsAssumption
  <2>3. CASE Head(wire) = "unpause"
    BY <2>1, <2>2, <2>3, <1>12 DEF Serves
  <2>4. CASE Head(wire) # "unpause"
    <3>1. acks' = Append(acks, Head(wire)) /\ Head(wire) \in Answers
      BY <2>2, <2>4, <1>12 DEF Serves, Frames, Answers
    <3>. QED
      BY <2>1, <2>2, <3>1, AppendFacts, BoundsAssumption
  <2>. QED
    BY <2>3, <2>4
<1>13. CASE Activate \/ ActivateDm \/ No \/ Counted
    BY <1>13 DEF Activate, ActivateDm, No, Counted
<1>14. CASE TextualCancel \/ UrwidCancel \/ UnpauseYes \/ UnsubChannel
    BY <1>14 DEF TextualCancel, UrwidCancel, UnpauseYes, UnsubChannel
<1>15. CASE BeginEdit \/ FocusInput \/ Subscribed \/ CommandSubscribed
    BY <1>15 DEF BeginEdit, FocusInput, Subscribed, CommandSubscribed
<1>16. CASE Switched \/ HandleCs
    BY <1>16 DEF Switched, HandleCs
<1>17. CASE UNCHANGED vars
    BY <1>17 DEF vars
<1>. HIDE DEF Queues, server, client, line, said, Says
<1>. QED
    BY <1>1, <1>2, <1>3, <1>4, <1>5, <1>6, <1>7, <1>8, <1>9, <1>10, <1>11, <1>12, <1>13, <1>14,
       <1>15, <1>16, <1>17
       DEF Next, Commands, Dialogs, InputLine, Tasks, Reader

\* A caller that is answered goes on before anyone asks again.
LEMMA NextAnswering == Flags /\ Callers /\ Answering /\ [Next]_vars => Answering'
<1>. SUFFICES ASSUME Flags /\ Callers /\ Answering, [Next]_vars PROVE Answering'
    OBVIOUS
<1>. USE DEF Answering, Flags, Callers, Asks, Nobody, Uis, server, client, line, said, Says
<1>1. CASE Yes
    BY <1>1 DEF Yes, SubscribeAndWait, Keys, Attends, Settled
<1>2. CASE SubCommand
    BY <1>2 DEF SubCommand, SubscribeAndWait, Keys, Attends, Settled
<1>3. CASE Unsub
    BY <1>3 DEF Unsub, Keys, Attends, Settled
<1>4. CASE Activate
    BY <1>4 DEF Activate, SwitchTo, Keys, Attends, Settled
<1>5. CASE CancelCount
    BY <1>5 DEF CancelCount, Keys, Attends, Settled
<1>6. CASE TextualCancel
    BY <1>6 DEF TextualCancel, Keys, Attends, Settled
<1>7. CASE UrwidCancel
    BY <1>7 DEF UrwidCancel, Keys, Attends, Settled
<1>8. CASE Subscribed
    BY <1>8 DEF Subscribed, Resumes
<1>9. CASE ClosedSubscribed
    BY <1>9 DEF ClosedSubscribed, Resumes
<1>10. CASE CommandSubscribed
    BY <1>10 DEF CommandSubscribed, Resumes
<1>11. CASE UnpauseCommand
    BY <1>11 DEF UnpauseCommand
<1>12. CASE ActivateDm
    BY <1>12 DEF ActivateDm
<1>13. CASE No
    BY <1>13 DEF No
<1>14. CASE Counted
    BY <1>14 DEF Counted
<1>15. CASE UnpauseYes
    BY <1>15 DEF UnpauseYes
<1>16. CASE UnpauseCounted
    BY <1>16 DEF UnpauseCounted
<1>17. CASE UnsubChannel
    BY <1>17 DEF UnsubChannel
<1>18. CASE BeginEdit
    BY <1>18 DEF BeginEdit
<1>19. CASE FocusInput
    BY <1>19 DEF FocusInput
<1>20. CASE Switched
    BY <1>20 DEF Switched
<1>21. CASE HandleCs
    BY <1>21 DEF HandleCs
<1>22. CASE OnSubscribeAck
    BY <1>22 DEF OnSubscribeAck
<1>23. CASE OnPausedHeaders
    BY <1>23 DEF OnPausedHeaders
<1>24. CASE Serves
    BY <1>24 DEF Serves
<1>25. ASSUME NEW t \in {"ch", "dm"}, BeginReply(t) PROVE Answering'
    BY <1>25 DEF BeginReply
<1>26. ASSUME NEW empty \in BOOLEAN, InputSubmitted(empty) PROVE Answering'
    BY <1>26 DEF InputSubmitted
<1>27. CASE UNCHANGED vars
    BY <1>27 DEF vars
<1>. HIDE DEF Answering, Flags, Callers, Asks, Nobody, Uis, server, client, line, said, Says
<1>. QED
    BY <1>1, <1>2, <1>3, <1>4, <1>5, <1>6, <1>7, <1>8, <1>9, <1>10, <1>11, <1>12, <1>13, <1>14,
       <1>15, <1>16, <1>17, <1>18, <1>19, <1>20, <1>21, <1>22, <1>23, <1>24, <1>25, <1>26, <1>27
       DEF Next, Commands, Dialogs, InputLine, Tasks, Reader

LEMMA NextRoomy == Callers /\ Queues /\ Answering /\ Roomy /\ [Next]_vars => Roomy'
<1>. SUFFICES ASSUME Callers /\ Queues /\ Answering /\ Roomy, [Next]_vars PROVE Roomy'
    OBVIOUS
<1>. USE DEF Roomy, server, client, line, said, Says
<1>1. CASE Yes
    BY <1>1, SendFits, BoundsAssumption DEF Yes, Frames, SubscribeAndWait
<1>2. CASE SubCommand
    BY <1>2, SendFits, BoundsAssumption DEF SubCommand, Frames, SubscribeAndWait
<1>3. CASE Unsub
    BY <1>3, SendFits, BoundsAssumption DEF Unsub, Frames, Unsubscribe
<1>4. CASE UnpauseCommand
    BY <1>4, SendFits, BoundsAssumption DEF UnpauseCommand, Frames, UnpauseChannel
<1>5. CASE CancelCount
    BY <1>5, SendFits, BoundsAssumption DEF CancelCount, Frames, Unsubscribe
<1>6. CASE TextualCancel
    BY <1>6 DEF TextualCancel, Nobody
<1>7. CASE UnpauseCounted
    BY <1>7, SendFits, BoundsAssumption DEF UnpauseCounted, Frames, UnpauseChannel
<1>8. CASE Subscribed
    BY <1>8 DEF Subscribed, Resumes, Nobody
<1>9. CASE ClosedSubscribed
    BY <1>9 DEF ClosedSubscribed, Resumes, Nobody
<1>10. CASE CommandSubscribed
    BY <1>10 DEF CommandSubscribed, Resumes, Nobody
<1>11. CASE Serves
  <2>1. Len(wire) \in Nat /\ Len(wire') = Len(wire) - 1 /\ waiter' = waiter
    BY <1>11, TailFacts DEF Serves, Queues
  <2>. QED
    BY <2>1, BoundsAssumption
<1>12. CASE Activate \/ ActivateDm \/ No \/ Counted
    BY <1>12 DEF Activate, ActivateDm, No, Counted
<1>13. CASE UrwidCancel \/ UnpauseYes \/ UnsubChannel \/ BeginEdit
    BY <1>13 DEF UrwidCancel, UnpauseYes, UnsubChannel, BeginEdit
<1>14. CASE FocusInput \/ Switched \/ HandleCs \/ OnSubscribeAck
    BY <1>14 DEF FocusInput, Switched, HandleCs, OnSubscribeAck
<1>15. CASE OnPausedHeaders
    BY <1>15 DEF OnPausedHeaders
<1>16. ASSUME NEW t \in {"ch", "dm"}, BeginReply(t) PROVE Roomy'
    BY <1>16 DEF BeginReply
<1>17. ASSUME NEW empty \in BOOLEAN, InputSubmitted(empty) PROVE Roomy'
    BY <1>17 DEF InputSubmitted
<1>18. CASE UNCHANGED vars
    BY <1>18 DEF vars
<1>. HIDE DEF Roomy, server, client, line, said, Says
<1>. QED
    BY <1>1, <1>2, <1>3, <1>4, <1>5, <1>6, <1>7, <1>8, <1>9, <1>10, <1>11, <1>12, <1>13, <1>14,
       <1>15, <1>16, <1>17, <1>18
       DEF Next, Commands, Dialogs, InputLine, Tasks, Reader

\* Every change of the store's column is followed by a cs event.
LEMMA NextCache == Flags /\ Screen /\ CacheIsStore /\ [Next]_vars => CacheIsStore'
<1>. SUFFICES ASSUME Flags /\ Screen /\ CacheIsStore, [Next]_vars PROVE CacheIsStore'
    OBVIOUS
<1>. USE DEF CacheIsStore, Flags, Screen, server, client, line, said, Says
<1>1. CASE UnpauseCommand
    BY <1>1 DEF UnpauseCommand, UnpauseChannel
<1>2. CASE Activate
    BY <1>2 DEF Activate, Consults, IsSubscribed
<1>3. CASE UnpauseCounted
    BY <1>3 DEF UnpauseCounted, UnpauseChannel
<1>4. CASE UnsubChannel
    BY <1>4 DEF UnsubChannel, Consults, IsSubscribed
<1>5. ASSUME NEW t \in {"ch", "dm"}, BeginReply(t) PROVE CacheIsStore'
    BY <1>5 DEF BeginReply, Consults, IsSubscribed
<1>6. ASSUME NEW empty \in BOOLEAN, InputSubmitted(empty) PROVE CacheIsStore'
    BY <1>6
       DEF InputSubmitted, ConsumePendingEdit, ConsumePendingReply, SendToTarget,
           Consults, IsSubscribed
<1>7. CASE CommandSubscribed
    BY <1>7 DEF CommandSubscribed, SwitchTo
<1>8. CASE Yes \/ SubCommand \/ Unsub \/ ActivateDm
    BY <1>8 DEF Yes, SubCommand, Unsub, ActivateDm
<1>9. CASE No \/ Counted \/ CancelCount \/ TextualCancel
    BY <1>9 DEF No, Counted, CancelCount, TextualCancel
<1>10. CASE UrwidCancel \/ UnpauseYes \/ BeginEdit \/ FocusInput
    BY <1>10 DEF UrwidCancel, UnpauseYes, BeginEdit, FocusInput
<1>11. CASE Subscribed \/ ClosedSubscribed \/ Switched \/ HandleCs
    BY <1>11 DEF Subscribed, ClosedSubscribed, Switched, HandleCs
<1>12. CASE OnSubscribeAck \/ OnPausedHeaders \/ Serves
    BY <1>12 DEF OnSubscribeAck, OnPausedHeaders, Serves
<1>13. CASE UNCHANGED vars
    BY <1>13 DEF vars
<1>. HIDE DEF CacheIsStore, Flags, Screen, server, client, line, said, Says
<1>. QED
    BY <1>1, <1>2, <1>3, <1>4, <1>5, <1>6, <1>7, <1>8, <1>9, <1>10, <1>11, <1>12, <1>13
       DEF Next, Commands, Dialogs, InputLine, Tasks, Reader

\* The same with Holds.
HeldListed == held => paused \/ Holds(acks, "pch") \/ Holds(wire, "unpause")

LEMMA HeldListedIs == HeldIsListed <=> HeldListed
    BY DEF HeldIsListed, HeldListed, Holds

\* Headers are listed when they are read, a channel leaves the list with its
\* unpause sent, and the server lets the posts go when it serves that.
LEMMA NextHeld == Flags /\ Queues /\ HeldListed /\ [Next]_vars => HeldListed'
<1>. SUFFICES ASSUME Flags /\ Queues /\ HeldListed, [Next]_vars PROVE HeldListed'
    OBVIOUS
<1>. USE DEF HeldListed, Flags, server, client, line, said, Says
<1>1. CASE Yes
  <2>1. wire' = Append(wire, "in") /\ "in" \in Frames /\ held' = held /\ acks' = acks
    BY <1>1 DEF Yes, Sends, SubscribeAndWait, Frames
  <2>2. Holds(wire, "unpause") => Holds(wire', "unpause")
    BY <2>1, HoldsSteps DEF Queues
  <2>. QED
    BY <2>1, <2>2, <1>1 DEF Yes
<1>2. CASE SubCommand
  <2>1. wire' = Append(wire, "in") /\ "in" \in Frames /\ held' = held /\ acks' = acks
    BY <1>2 DEF SubCommand, Sends, SubscribeAndWait, Frames
  <2>2. Holds(wire, "unpause") => Holds(wire', "unpause")
    BY <2>1, HoldsSteps DEF Queues
  <2>. QED
    BY <2>1, <2>2, <1>2 DEF SubCommand
<1>3. CASE Unsub
  <2>1. wire' = Append(wire, "out") /\ "out" \in Frames /\ held' = held /\ acks' = acks
    BY <1>3 DEF Unsub, Sends, Unsubscribe, Frames
  <2>2. Holds(wire, "unpause") => Holds(wire', "unpause")
    BY <2>1, HoldsSteps DEF Queues
  <2>. QED
    BY <2>1, <2>2, <1>3 DEF Unsub
<1>4. CASE UnpauseCommand
  <2>1. wire' = Append(wire, "unpause") /\ "unpause" \in Frames
    BY <1>4 DEF UnpauseCommand, Sends, UnpauseChannel, Frames
  <2>. QED
    BY <2>1, HoldsSteps DEF Queues
<1>5. CASE CancelCount
  <2>1. wire' = Append(wire, "out") /\ "out" \in Frames /\ held' = held /\ acks' = acks
    BY <1>5 DEF CancelCount, Sends, Unsubscribe, Frames
  <2>2. Holds(wire, "unpause") => Holds(wire', "unpause")
    BY <2>1, HoldsSteps DEF Queues
  <2>. QED
    BY <2>1, <2>2, <1>5 DEF CancelCount
<1>6. CASE UnpauseCounted
  <2>1. wire' = Append(wire, "unpause") /\ "unpause" \in Frames
    BY <1>6 DEF UnpauseCounted, Sends, UnpauseChannel, Frames
  <2>. QED
    BY <2>1, HoldsSteps DEF Queues
<1>7. CASE ClosedSubscribed
  <2>1. wire' = Append(wire, "out") /\ "out" \in Frames /\ held' = held /\ acks' = acks
    BY <1>7 DEF ClosedSubscribed, Sends, Unsubscribe, Frames
  <2>2. Holds(wire, "unpause") => Holds(wire', "unpause")
    BY <2>1, HoldsSteps DEF Queues
  <2>. QED
    BY <2>1, <2>2, <1>7 DEF ClosedSubscribed
<1>8. CASE OnSubscribeAck
  <2>1. acks # <<>> /\ Head(acks) # "pch" /\ acks' = Tail(acks)
    BY <1>8 DEF OnSubscribeAck
  <2>2. Holds(acks, "pch") => Holds(acks', "pch")
    BY <2>1, HoldsSteps DEF Queues
  <2>. QED
    BY <2>2, <1>8 DEF OnSubscribeAck
<1>9. CASE Serves
  <2>1. wire # <<>> /\ wire' = Tail(wire) /\ paused' = paused /\ (held' <=> held /\ Head(wire) # "unpause")
    BY <1>9 DEF Serves
  <2>2. Head(wire) # "unpause" /\ Holds(wire, "unpause") => Holds(wire', "unpause")
    BY <2>1, HoldsSteps DEF Queues
  <2>3. Holds(acks, "pch") => Holds(acks', "pch")
    <3>1. CASE Head(wire) = "unpause"
      BY <3>1, <1>9 DEF Serves
    <3>2. CASE Head(wire) # "unpause"
      <4>1. acks' = Append(acks, Head(wire)) /\ Head(wire) \in Answers
        BY <2>1, <3>2, <1>9, TailFacts DEF Serves, Queues, Frames, Answers
      <4>. QED
        BY <4>1, HoldsSteps DEF Queues
    <3>. QED
      BY <3>1, <3>2
  <2>. QED
    BY <2>1, <2>2, <2>3
<1>10. CASE Activate \/ ActivateDm \/ No \/ Counted
    BY <1>10 DEF Activate, ActivateDm, No, Counted
<1>11. CASE TextualCancel \/ UrwidCancel \/ UnpauseYes \/ UnsubChannel
    BY <1>11 DEF TextualCancel, UrwidCancel, UnpauseYes, UnsubChannel
<1>12. CASE BeginEdit \/ FocusInput \/ Subscribed \/ CommandSubscribed
    BY <1>12 DEF BeginEdit, FocusInput, Subscribed, CommandSubscribed
<1>13. CASE Switched \/ HandleCs \/ OnPausedHeaders
    BY <1>13 DEF Switched, HandleCs, OnPausedHeaders
<1>14. ASSUME NEW t \in {"ch", "dm"}, BeginReply(t) PROVE HeldListed'
    BY <1>14 DEF BeginReply
<1>15. ASSUME NEW empty \in BOOLEAN, InputSubmitted(empty) PROVE HeldListed'
    BY <1>15 DEF InputSubmitted
<1>16. CASE UNCHANGED vars
    BY <1>16 DEF vars
<1>. HIDE DEF HeldListed, Flags, server, client, line, said, Says
<1>. QED
    BY <1>1, <1>2, <1>3, <1>4, <1>5, <1>6, <1>7, <1>8, <1>9, <1>10, <1>11, <1>12, <1>13, <1>14,
       <1>15, <1>16
       DEF Next, Commands, Dialogs, InputLine, Tasks, Reader

\* The server's answers are read in the order it gave them.
LEMMA NextAcks == Flags /\ Queues /\ AcksTellSub /\ [Next]_vars => AcksTellSub'
<1>. SUFFICES ASSUME Flags /\ Queues /\ AcksTellSub, [Next]_vars PROVE AcksTellSub'
    OBVIOUS
<1>. USE DEF AcksTellSub, server, client, line, said, Says
<1>1. CASE UnpauseCommand
    BY <1>1 DEF UnpauseCommand, UnpauseChannel
<1>2. CASE UnpauseCounted
    BY <1>2 DEF UnpauseCounted, UnpauseChannel
<1>3. CASE OnSubscribeAck
  <2>1. /\ acks # <<>> /\ Head(acks) # "pch" /\ acks' = Tail(acks) /\ sub' = sub
        /\ (subscribed' <=> Head(acks) = "in")
    BY <1>3 DEF OnSubscribeAck, Acked
  <2>. QED
    BY <2>1, LastWordTail DEF Queues
<1>4. CASE OnPausedHeaders
  <2>1. acks # <<>> /\ Head(acks) = "pch" /\ acks' = Tail(acks) /\ sub' = sub /\ subscribed' = subscribed
    BY <1>4 DEF OnPausedHeaders
  <2>. QED
    BY <2>1, LastWordTail DEF Queues
<1>5. CASE Serves
  <2>1. wire # <<>> /\ subscribed' = subscribed
    BY <1>5 DEF Serves
  <2>2. CASE Head(wire) = "unpause"
    BY <2>1, <2>2, <1>5 DEF Serves
  <2>3. CASE Head(wire) # "unpause"
    <3>1. Head(wire) \in Answers /\ Head(wire) # "pch"
      BY <2>1, <2>3, TailFacts DEF Queues, Frames, Answers
    <3>2. acks' = Append(acks, Head(wire)) /\ (sub' <=> Head(wire) = "in")
      BY <2>3, <1>5 DEF Serves
    <3>. QED
      BY <2>1, <3>1, <3>2, LastWordAppend DEF Queues
  <2>. QED
    BY <2>2, <2>3
<1>6. CASE Yes \/ SubCommand \/ Unsub \/ Activate
    BY <1>6 DEF Yes, SubCommand, Unsub, Activate
<1>7. CASE ActivateDm \/ No \/ Counted \/ CancelCount
    BY <1>7 DEF ActivateDm, No, Counted, CancelCount
<1>8. CASE TextualCancel \/ UrwidCancel \/ UnpauseYes \/ UnsubChannel
    BY <1>8 DEF TextualCancel, UrwidCancel, UnpauseYes, UnsubChannel
<1>9. CASE BeginEdit \/ FocusInput \/ Subscribed \/ ClosedSubscribed
    BY <1>9 DEF BeginEdit, FocusInput, Subscribed, ClosedSubscribed
<1>10. CASE CommandSubscribed \/ Switched \/ HandleCs
    BY <1>10 DEF CommandSubscribed, Switched, HandleCs
<1>11. ASSUME NEW t \in {"ch", "dm"}, BeginReply(t) PROVE AcksTellSub'
    BY <1>11 DEF BeginReply
<1>12. ASSUME NEW empty \in BOOLEAN, InputSubmitted(empty) PROVE AcksTellSub'
    BY <1>12 DEF InputSubmitted
<1>13. CASE UNCHANGED vars
    BY <1>13 DEF vars
<1>. HIDE DEF AcksTellSub, server, client, line, said, Says
<1>. QED
    BY <1>1, <1>2, <1>3, <1>4, <1>5, <1>6, <1>7, <1>8, <1>9, <1>10, <1>11, <1>12, <1>13
       DEF Next, Commands, Dialogs, InputLine, Tasks, Reader

\* Whoever waits in the table has a subscription under way: its ack is read while
\* the table still has him, unless he or another call takes him out.
LEMMA NextAckComes ==
    Callers /\ Queues /\ Answering /\ AckComes /\ [Next]_vars => AckComes'
<1>. SUFFICES ASSUME Callers /\ Queues /\ Answering /\ AckComes, [Next]_vars PROVE AckComes'
    OBVIOUS
<1>. USE DEF AckComes, server, client, line, said
<1>0. ASSUME NEW frame \in Frames, wire' = Append(wire, frame), acks' = acks
      PROVE  /\ Holds(wire, "in") \/ Holds(acks, "in") => Holds(wire', "in") \/ Holds(acks', "in")
             /\ frame = "in" => Holds(wire', "in")
    BY <1>0, HoldsSteps DEF Queues
<1>1. CASE Yes
  <2>1. wire' = Append(wire, "in") /\ "in" \in Frames /\ acks' = acks
    BY <1>1 DEF Yes, Sends, SubscribeAndWait, Frames
  <2>. QED
    BY <1>0, <2>1
<1>2. CASE SubCommand
  <2>1. wire' = Append(wire, "in") /\ "in" \in Frames /\ acks' = acks
    BY <1>2 DEF SubCommand, Sends, SubscribeAndWait, Frames
  <2>. QED
    BY <1>0, <2>1
<1>3. CASE Unsub
  <2>1. /\ wire' = Append(wire, "out") /\ "out" \in Frames
        /\ acks' = acks /\ waiter' = waiter /\ asking' = asking
    BY <1>3 DEF Unsub, Sends, Unsubscribe, Frames
  <2>. QED
    BY <1>0, <2>1
<1>4. CASE UnpauseCommand
  <2>1. /\ wire' = Append(wire, "unpause") /\ "unpause" \in Frames
        /\ acks' = acks /\ waiter' = waiter /\ asking' = asking
    BY <1>4 DEF UnpauseCommand, Sends, UnpauseChannel, Frames
  <2>. QED
    BY <1>0, <2>1
<1>5. CASE CancelCount
  <2>1. /\ wire' = Append(wire, "out") /\ "out" \in Frames
        /\ acks' = acks /\ waiter' = waiter /\ asking' = asking
    BY <1>5 DEF CancelCount, Sends, Unsubscribe, Frames
  <2>. QED
    BY <1>0, <2>1
<1>6. CASE UnpauseCounted
  <2>1. /\ wire' = Append(wire, "unpause") /\ "unpause" \in Frames
        /\ acks' = acks /\ waiter' = waiter /\ asking' = asking
    BY <1>6 DEF UnpauseCounted, Sends, UnpauseChannel, Frames
  <2>. QED
    BY <1>0, <2>1
<1>7. CASE TextualCancel
    BY <1>7 DEF TextualCancel
<1>8. CASE UrwidCancel
  <2>1. wire' = wire /\ acks' = acks
    BY <1>8 DEF UrwidCancel
  <2>2. CASE waiter = "dialog"
    <3>1. waiter' = "closed" /\ asking'["closed"] = asking[waiter]
      BY <2>2, <1>8 DEF UrwidCancel, Callers, Asks
    <3>. QED
      BY <2>1, <2>2, <3>1 DEF Nobody
  <2>3. CASE waiter # "dialog"
    <3>1. waiter # "closed"
      BY <1>8 DEF UrwidCancel, Answering
    <3>2. waiter' = waiter /\ (waiter # Nobody => asking'[waiter] = asking[waiter])
      BY <2>3, <3>1, <1>8 DEF UrwidCancel, Callers, Asks
    <3>. QED
      BY <2>1, <3>2
  <2>. QED
    BY <2>2, <2>3
<1>9. CASE Subscribed \/ CommandSubscribed \/ ClosedSubscribed
    BY <1>9 DEF Subscribed, CommandSubscribed, ClosedSubscribed, Resumes
<1>10. CASE OnSubscribeAck
  <2>1. acks # <<>> /\ acks' = Tail(acks) /\ wire' = wire /\ waiter' = waiter
    BY <1>10 DEF OnSubscribeAck
  <2>2. CASE Head(acks) = "in" /\ waiter # Nobody
    <3>1. asking'[waiter] = "answered"
      BY <2>2, <1>10 DEF OnSubscribeAck, Callers
    <3>. QED
      BY <2>1, <3>1
  <2>3. CASE Head(acks) # "in"
    <3>1. asking' = asking
      BY <2>3, <1>10 DEF OnSubscribeAck
    <3>2. Holds(acks, "in") => Holds(acks', "in")
      BY <2>1, <2>3, HoldsSteps DEF Queues
    <3>. QED
      BY <2>1, <3>1, <3>2
  <2>. QED
    BY <2>1, <2>2, <2>3
<1>11. CASE OnPausedHeaders
  <2>1. acks # <<>> /\ Head(acks) # "in" /\ acks' = Tail(acks) /\ UNCHANGED <<wire, waiter, asking>>
    BY <1>11 DEF OnPausedHeaders
  <2>2. Holds(acks, "in") => Holds(acks', "in")
    BY <2>1, HoldsSteps DEF Queues
  <2>. QED
    BY <2>1, <2>2
<1>12. CASE Serves
  <2>1. wire # <<>> /\ wire' = Tail(wire) /\ UNCHANGED <<waiter, asking>>
    BY <1>12 DEF Serves
  <2>2. CASE Head(wire) = "unpause"
    <3>1. acks' = acks /\ (Holds(wire, "in") => Holds(wire', "in"))
      BY <2>1, <2>2, <1>12, HoldsSteps DEF Serves, Queues
    <3>. QED
      BY <2>1, <3>1
  <2>3. CASE Head(wire) # "unpause"
    <3>1. acks' = Append(acks, Head(wire)) /\ Head(wire) \in Answers
      BY <2>1, <2>3, <1>12, TailFacts DEF Serves, Queues, Frames, Answers
    <3>2. Head(wire) # "in" /\ Holds(wire, "in") => Holds(wire', "in")
      BY <2>1, HoldsSteps DEF Queues
    <3>3. (Holds(acks, "in") => Holds(acks', "in")) /\ Holds(acks', Head(wire))
      BY <3>1, HoldsSteps DEF Queues
    <3>. QED
      BY <2>1, <3>2, <3>3
  <2>. QED
    BY <2>2, <2>3
<1>13. CASE Activate \/ ActivateDm \/ No \/ Counted
    BY <1>13 DEF Activate, ActivateDm, No, Counted
<1>14. CASE UnpauseYes \/ UnsubChannel \/ BeginEdit \/ FocusInput
    BY <1>14 DEF UnpauseYes, UnsubChannel, BeginEdit, FocusInput
<1>15. CASE Switched \/ HandleCs
    BY <1>15 DEF Switched, HandleCs
<1>16. ASSUME NEW t \in {"ch", "dm"}, BeginReply(t) PROVE AckComes'
    BY <1>16 DEF BeginReply
<1>17. ASSUME NEW empty \in BOOLEAN, InputSubmitted(empty) PROVE AckComes'
    BY <1>17 DEF InputSubmitted
<1>18. CASE UNCHANGED vars
    BY <1>18 DEF vars
<1>. HIDE DEF AckComes, server, client, line, said
<1>. QED
    BY <1>1, <1>2, <1>3, <1>4, <1>5, <1>6, <1>7, <1>8, <1>9, <1>10, <1>11, <1>12, <1>13, <1>14,
       <1>15, <1>16, <1>17, <1>18
       DEF Next, Commands, Dialogs, InputLine, Tasks, Reader

\* What the user says last is sent last, but by a dialog that is left: its task
\* undoes its own when it goes on, and only if the user has not asked again.
LEMMA NextWish == Flags /\ Callers /\ Queues /\ Answering /\ WishIsLast /\ [Next]_vars => WishIsLast'
<1>. SUFFICES ASSUME Flags /\ Callers /\ Queues /\ Answering /\ WishIsLast, [Next]_vars PROVE WishIsLast'
    OBVIOUS
<1>. USE DEF WishIsLast, server, client, line, said, Says
<1>1. CASE Yes
  <2>1. wire' = Append(wire, "in") /\ "in" \in Frames /\ wish' = TRUE /\ sub' = sub /\ ui' = ui
    BY <1>1 DEF Yes, Sends, SubscribeAndWait, Frames
  <2>. QED
    BY <2>1, LastWordAppend DEF Queues
<1>2. CASE SubCommand
  <2>1. wire' = Append(wire, "in") /\ "in" \in Frames /\ wish' = TRUE /\ sub' = sub /\ ui' = ui
    BY <1>2 DEF SubCommand, Sends, SubscribeAndWait, Frames
  <2>. QED
    BY <2>1, LastWordAppend DEF Queues
<1>3. CASE Unsub
  <2>1. wire' = Append(wire, "out") /\ "out" \in Frames /\ wish' = FALSE /\ lost' = FALSE /\ sub' = sub /\ waiter' = waiter /\ ui' = ui
    BY <1>3 DEF Unsub, Sends, Unsubscribe, Frames
  <2>. QED
    BY <2>1, LastWordAppend DEF Queues
<1>4. CASE UnpauseCommand
  <2>1. /\ wire' = Append(wire, "unpause") /\ "unpause" \in Frames
        /\ wish' = wish /\ lost' = lost /\ sub' = sub /\ waiter' = waiter /\ ui' = ui
    BY <1>4 DEF UnpauseCommand, UnpauseChannel, Sends, Frames
  <2>. QED
    BY <2>1, LastWordAppend DEF Queues
<1>5. CASE CancelCount
  <2>1. wire' = Append(wire, "out") /\ "out" \in Frames /\ wish' = FALSE /\ lost' = FALSE /\ sub' = sub /\ waiter' = waiter /\ ui' = ui
    BY <1>5 DEF CancelCount, Sends, Unsubscribe, Frames
  <2>. QED
    BY <2>1, LastWordAppend DEF Queues
<1>6. CASE TextualCancel
    BY <1>6 DEF TextualCancel, Uis
<1>7. CASE UrwidCancel
  <2>1. wire' = wire /\ sub' = sub /\ modal = "subscribing" /\ ui = "urwid"
    BY <1>7 DEF UrwidCancel
  <2>2. wish /\ waiter # "closed"
    BY <2>1 DEF Answering
  <2>3. CASE waiter = "dialog"
    BY <2>3, <1>7 DEF UrwidCancel
  <2>4. CASE waiter # "dialog"
    <3>1. lost'
      BY <2>4, <1>7 DEF UrwidCancel
    <3>2. LastWord(wire, "unpause", sub, wish \/ lost)
      BY <2>1, <2>2
    <3>. QED
      BY <2>1, <2>2, <3>1, <3>2 DEF LastWord
  <2>. QED
    BY <2>3, <2>4
<1>8. CASE UnpauseCounted
  <2>1. /\ wire' = Append(wire, "unpause") /\ "unpause" \in Frames
        /\ wish' = wish /\ lost' = lost /\ sub' = sub /\ waiter' = waiter /\ ui' = ui
    BY <1>8 DEF UnpauseCounted, UnpauseChannel, Sends, Frames
  <2>. QED
    BY <2>1, LastWordAppend DEF Queues
<1>9. CASE Subscribed
    BY <1>9 DEF Subscribed, Callers, Asks, Resumes, Answering
<1>10. CASE ClosedSubscribed
  <2>1. waiter = "closed" /\ ~wish /\ ~lost
    BY <1>10 DEF ClosedSubscribed, Resumes, Answering, Asks
  <2>2. wire' = Append(wire, "out") /\ "out" \in Frames /\ wish' = wish /\ lost' = lost /\ sub' = sub
    BY <1>10 DEF ClosedSubscribed, Unsubscribe, Sends, Frames
  <2>. QED
    BY <2>1, <2>2, LastWordAppend DEF Queues
<1>11. CASE CommandSubscribed
    BY <1>11 DEF CommandSubscribed, Callers, Asks, Resumes, Answering
<1>12. CASE OnSubscribeAck
    BY <1>12 DEF OnSubscribeAck, Callers, Asks, Nobody
<1>13. CASE Serves
  <2>1. wire # <<>> /\ wire' = Tail(wire) /\ wish' = wish /\ lost' = lost /\ waiter' = waiter /\ ui' = ui
    BY <1>13 DEF Serves
  <2>2. CASE Head(wire) = "unpause"
    <3>1. sub' = sub
      BY <2>2, <1>13 DEF Serves
    <3>. QED
      BY <2>1, <2>2, <3>1, LastWordTail DEF Queues
  <2>3. CASE Head(wire) # "unpause"
    <3>1. sub' <=> Head(wire) = "in"
      BY <2>3, <1>13 DEF Serves
    <3>. QED
      BY <2>1, <2>3, <3>1, LastWordTail DEF Queues
  <2>. QED
    BY <2>2, <2>3
<1>14. CASE Activate \/ ActivateDm \/ No \/ Counted
    BY <1>14 DEF Activate, ActivateDm, No, Counted
<1>15. CASE UnpauseYes \/ UnsubChannel
    BY <1>15 DEF UnpauseYes, UnsubChannel
<1>20. CASE BeginEdit
    BY <1>20 DEF BeginEdit
<1>21. CASE FocusInput
    BY <1>21 DEF FocusInput
<1>16. CASE Switched \/ HandleCs \/ OnPausedHeaders
    BY <1>16 DEF Switched, HandleCs, OnPausedHeaders
<1>17. ASSUME NEW t \in {"ch", "dm"}, BeginReply(t) PROVE WishIsLast'
    BY <1>17 DEF BeginReply
<1>18. ASSUME NEW empty \in BOOLEAN, InputSubmitted(empty) PROVE WishIsLast'
    BY <1>18 DEF InputSubmitted
<1>19. CASE UNCHANGED vars
    BY <1>19 DEF vars
<1>. HIDE DEF WishIsLast, server, client, line, said, Says
<1>. QED
    BY <1>1, <1>2, <1>3, <1>4, <1>5, <1>6, <1>7, <1>8, <1>9, <1>10, <1>11, <1>12, <1>13, <1>14,
       <1>15, <1>16, <1>17, <1>18, <1>19, <1>20, <1>21
       DEF Next, Commands, Dialogs, InputLine, Tasks, Reader

-----------------------------------------------------------------------------

LEMMA InitInv == Init => IInv
<1>. SUFFICES ASSUME Init PROVE IInv
    OBVIOUS
<1>1. Flags
    BY DEF Init, Flags
<1>2. Screen
    BY BoundsAssumption DEF Init, Screen, Stages, Places
<1>3. Callers
    BY DEF Init, Callers
<1>4. Prompted
    BY DEF Init, Prompted, Modes, Places
<1>5. wire = <<>> /\ (acks = <<>> \/ acks = <<"pch">>)
    BY DEF Init
<1>6. Queues
  <2>1. wire \in Seq(Frames) /\ Len(wire) = 0
    BY <1>5
  <2>2. <<>> \in Seq(Answers) /\ Len(<<>>) = 0
    OBVIOUS
  <2>3. "pch" \in Answers
    BY DEF Answers
  <2>4. <<"pch">> \in Seq(Answers) /\ Len(<<"pch">>) = 1
    BY <2>3
  <2>5. 0 <= MaxEvents /\ 1 <= MaxEvents /\ 0 <= MaxFrames + 1
    BY BoundsAssumption
  <2>6. CASE acks = <<>>
    BY <2>1, <2>2, <2>5, <2>6 DEF Queues
  <2>7. CASE acks = <<"pch">>
    BY <2>1, <2>4, <2>5, <2>7 DEF Queues
  <2>. QED
    BY <1>5, <2>6, <2>7
<1>7. Answering
    BY DEF Init, Answering, Asks, Nobody
<1>8. Roomy /\ AckComes
    BY DEF Init, Roomy, AckComes, Nobody
<1>9. CacheIsStore
    BY DEF Init, CacheIsStore
<1>10. HeldListed
  <2>1. acks = <<"pch">> => Holds(acks, "pch")
    BY DEF Holds
  <2>2. held /\ ~paused => acks = <<"pch">>
    BY DEF Init
  <2>. QED
    BY <2>1, <2>2 DEF HeldListed
<1>11. AcksTellSub
    BY <1>5 DEF Init, AcksTellSub, LastWord
<1>12. WishIsLast
    BY <1>5 DEF Init, WishIsLast, LastWord
<1>13. PromptTellsTruth
    BY DEF Init, PromptTellsTruth, Mode, Place
<1>. QED
    BY <1>1, <1>2, <1>3, <1>4, <1>6, <1>7, <1>8, <1>9, <1>10, <1>11, <1>12, <1>13, HeldListedIs
       DEF IInv, Base, Words

LEMMA NextInv == IInv /\ [Next]_vars => IInv'
<1>. SUFFICES ASSUME IInv, [Next]_vars PROVE IInv'
    OBVIOUS
<1>. USE DEF IInv, Base, Words
<1>1. Base'
    BY NextFlags, NextScreen, NextCallers, NextPrompted
<1>2. Queues'
    BY NextQueues
<1>3. Answering' /\ Roomy' /\ AckComes'
    BY NextAnswering, NextRoomy, NextAckComes
<1>4. CacheIsStore' /\ AcksTellSub' /\ WishIsLast'
    BY NextCache, NextAcks, NextWish
<1>5. HeldListed'
    BY HeldListedIs, NextHeld
<1>6. PromptTellsTruth'
    BY NextTruth
<1>7. HeldIsListed'
    BY <1>5 DEF HeldIsListed, HeldListed, Holds
<1>. QED
    BY <1>1, <1>2, <1>3, <1>4, <1>6, <1>7

LEMMA IInvHolds == Spec => []IInv
<1>. QED
    BY InitInv, NextInv, PTL DEF Spec

\* With no word under way the state is what the last word led to.
LEMMA NoWordLeft == \A s, other, now, b : LastWord(s, other, now, b) /\ Only(s, other) => (now <=> b)
    BY DEF LastWord, Only

\* What the client and the UI believe of the channel is what the server does,
\* but for what is under way.
THEOREM BeliefsAreTrue == Spec => []ChannelInv
<1>1. IInv => ChannelInv
  <2>. SUFFICES ASSUME IInv PROVE ChannelInv
      OBVIOUS
  <2>1. TypeOK
      BY DEF IInv, Base, Flags, Screen, Callers, Prompted, Queues, Answering, Frames, Answers, TypeOK
  <2>2. StoreIsServer
    <3>1. Only(acks, "pch") => (subscribed <=> sub)
      BY NoWordLeft DEF IInv, Words, AcksTellSub
    <3>. QED
      BY <3>1 DEF IInv, Base, Flags, StoreIsServer, Only
  <2>3. CallersAgree
      BY DEF IInv, Base, Callers, Answering, AckComes, Roomy, Holds, CallersAgree
  <2>. QED
      BY <2>1, <2>2, <2>3 DEF IInv, Words, ChannelInv
<1>. QED
    BY <1>1, IInvHolds, PTL

\* urwid: once all is done and heard, the user is where he last said, whatever
\* he said before and whenever the server served it, or left in by an Esc at a
\* dialog that nobody answers.  A dialog that was left and is still in the table
\* has its ack coming, so that it is not among what is done.
THEOREM LastWordIsKept == Spec => []CancelIsHonoured
<1>1. IInv => CancelIsHonoured
  <2>. SUFFICES ASSUME IInv, ui = "urwid", Quiet PROVE sub <=> wish \/ lost
      BY DEF CancelIsHonoured
  <2>1. ~Holds(wire, "in") /\ ~Holds(acks, "in") /\ Only(wire, "unpause")
      BY DEF Quiet, Holds, Only
  <2>2. waiter # "closed"
    <3>. SUFFICES ASSUME waiter = "closed" PROVE FALSE
        OBVIOUS
    <3>1. asking["closed"] # "idle" /\ asking["closed"] # "answered"
        BY DEF IInv, Answering, Quiet, Settled, Asks, Nobody
    <3>2. asking["closed"] = "waiting"
        BY <3>1 DEF IInv, Base, Callers, Asks
    <3>. QED
        BY <2>1, <3>2 DEF IInv, AckComes, Nobody
  <2>3. LastWord(wire, "unpause", sub, wish \/ lost)
      BY <2>2 DEF IInv, Words, WishIsLast
  <2>. QED
      BY <2>1, <2>3 DEF LastWord, Only
<1>. QED
    BY <1>1, IInvHolds, PTL

\* The prompt says what the next line will be and where it goes.
THEOREM PromptIsTrue == Spec => []PromptTellsTruth
<1>1. IInv => PromptTellsTruth
    BY DEF IInv
<1>. QED
    BY <1>1, IInvHolds, PTL
=============================================================================
