--------------------------- MODULE DeliveryProps ---------------------------
(***************************************************************************)
(* The properties of Delivery.                                              *)
(***************************************************************************)
EXTENDS Delivery

\* The one statement of which values the variables take.
TypeOK ==
    /\ row \in {"absent", "pending", "delivered"}
    /\ edit \in Tokens
    /\ pend \in Tokens
    /\ slot \in [Kinds -> Timers \union {NoTimer}]
    /\ pc \in [Timers -> {"none"} \union Live \union Cancelled]
    /\ about \in [Timers -> Tokens]
    /\ queue \in Seq(Operations)
    /\ writing \in BOOLEAN
    /\ clock \in Tokens
    /\ resends \in 0 .. MaxResends
    /\ up \in BOOLEAN
    /\ flight \in Seq(Tokens)
    /\ acks \in Seq(Tokens)
    /\ held \in BOOLEAN
    /\ closed \in BOOLEAN
    /\ notices \in [Tokens -> Nat]
    /\ silent \in SUBSET Tokens

-----------------------------------------------------------------------------
(* Safety *)

\* An entry of the two timer tables always names a timer of its own kind
\* that cancel() can still stop: an ack or a close() never cancels a task in
\* vain, or the timer of the other kind.  (The converse does not hold: a cancelled
\* timer that ends pops the entry of the one that replaced it.)
SlotIsLive ==
    \A k \in Kinds : slot[k] # NoTimer =>
        pc[slot[k]] \in Live /\ Kind(about[slot[k]]) = k

\* A timeout is only reported for a frame that has been written, that no mr
\* has followed since, and that no later edit has superseded, however many
\* cancelled or forgotten timers still run.
NoticeIsDeserved ==
    [][\A e \in Tokens : notices'[e] > notices[e] => e \in silent]_vars

\* Once a DM counts as delivered its original send is never reported, also
\* when the server's copy, and not an ack, made it so.
DeliveredIsNotReported ==
    [][row = "delivered" => notices'[0] = notices[0]]_vars

\* After close() nothing is reported, though timers may outlive it.
ClosedIsSilent == [][closed => UNCHANGED notices]_vars

-----------------------------------------------------------------------------
(* The inductive strengthening *)

\* Only the operation at the head of the queue writes.
HeadWrites == writing => queue # <<>>

\* What the client waits for is what really is unanswered: the token of a
\* pending edit is the edit written last, with no mr since, and a row whose
\* delivered_ts is NULL has had no mr since it was written.
WaitsForSilent ==
    /\ pend # 0 => pend \in silent
    /\ row = "pending" => 0 \in silent

DInv == TypeOK /\ SlotIsLive /\ HeadWrites /\ WaitsForSilent

-----------------------------------------------------------------------------
(* Liveness *)

\* Timer tasks run, and the event loop's clock goes on.  Nothing is assumed of
\* the user, the server or the link.
Fairness == \A t \in Timers : WF_vars(Timing(t))

FairSpec == Spec /\ Fairness

\* A row that is stored and not acked does not stay "Delivering" for ever: it
\* is delivered or reported, whatever happens to its timers.
SendIsSettled ==
    row = "pending" ~> row = "delivered" \/ notices[0] > 0 \/ closed

\* An edit whose token is pending is acked, superseded or reported.
EditIsSettled ==
    \A e \in Tokens \ {0} : pend = e ~> pend # e \/ notices[e] > 0 \/ closed

\* Nothing that was sent waits for ever, a DM or an edit.
UnackedIsSettled == SendIsSettled /\ EditIsSettled

=============================================================================
