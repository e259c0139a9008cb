------------------------------ MODULE Delivery ------------------------------
(***************************************************************************)
(* Delivery tracking of one outbound row (a DM; a channel post goes the     *)
(* same way with cp, cped and cpr) in src/whatspyc/wps/client.py: sending,  *)
(* editing and re-sending it, the mr acks, the timers that report a missing *)
(* ack, and close().  A behaviour starts when send_message() is called.     *)
(*                                                                          *)
(* A frame is named by its token: 0 is the original m frame, n > 0 the med  *)
(* frame of the n-th edit (its edts; the clock is a counter).  An mr ack    *)
(* carries the id of the row only, so it does not say which frame it        *)
(* answers.  Durations are abstracted: a sleeping timer may wake at any     *)
(* time (/set delivery_timeout_s gives later timers a shorter delay).       *)
(***************************************************************************)
EXTENDS Naturals, Sequences

CONSTANTS
    Timers,      \* the pool of timer tasks, reused once they have ended
    NoTimer,     \* None
    MaxEdits,    \* bound: edits made to the row
    MaxResends,  \* bound: resends of the row
    QueueBound   \* bound: operations waiting for _send_lock

ASSUME DeliveryAssumption ==
    /\ NoTimer \notin Timers
    /\ MaxEdits \in Nat
    /\ MaxResends \in Nat
    /\ QueueBound \in Nat \ {0}

VARIABLES
    row,      \* the row in the store: absent, or delivered_ts is NULL or set
    edit,     \* edit_ts of the row, 0 = NULL
    pend,     \* _pending_dm_edits, 0 = no entry
    slot,     \* _dm_timeout_tasks ("orig"), _dm_edit_timeout_tasks ("edit")
    pc,       \* program counter of each timer task
    about,    \* the token each timer task was made for
    queue,    \* the operations at _send_lock, its holder first
    writing,  \* the holder is inside stream.send()
    clock,    \* the last edts taken
    resends,  \* resends asked for so far
    up,       \* _connected
    flight,   \* frames on their way to the server
    acks,     \* mr frames on their way back (the token each one answers)
    held,     \* the server has the row
    closed,   \* _closed
    notices,  \* how often _delivery_timeout was emitted for each token
    silent    \* history: the tokens written and not followed by any mr yet;
              \* of the edits only the one written last

storeVars == <<row, edit>>
timerVars == <<pend, slot, pc, about>>
sendVars  == <<queue, writing, clock, resends>>
netVars   == <<up, flight, acks, held>>
vars == <<storeVars, timerVars, sendVars, netVars, closed, notices, silent>>

Kinds      == {"orig", "edit"}
Tokens     == 0 .. MaxEdits
Operations == [op : {"send"}, token : {0}] \union [op : {"resend"}, token : Tokens]
                  \union [op : {"edit"}, token : Tokens \ {0}]

Kind(e) == IF e = 0 THEN "orig" ELSE "edit"

\* A task that cancel() still stops, and one it has stopped already.
Live      == {"new", "sleep"}
Cancelled == {"unstarted", "unwinding"}

-----------------------------------------------------------------------------
(* Timer tasks *)

\* Task.cancel(): a task that never ran ends without entering its body.
Cancel(p) == CASE p = "new"   -> "unstarted"
               [] p = "sleep" -> "unwinding"
               [] OTHER       -> p

\* pc after the timer in the slot, if any, is cancelled.
Without(k) ==
    IF slot[k] = NoTimer THEN pc ELSE [pc EXCEPT ![slot[k]] = Cancel(@)]

\* Seeded fault: the new timer is not made when one was already there.
Schedule_KeepsOld(e) ==
    /\ pend' = IF e = 0 THEN pend ELSE e
    /\ IF slot[Kind(e)] # NoTimer
       THEN /\ pc' = Without(Kind(e))
            /\ slot' = [slot EXCEPT ![Kind(e)] = NoTimer]
            /\ UNCHANGED about
       ELSE \E t \in Timers :
            /\ pc[t] = "none"
            /\ pc' = [pc EXCEPT ![t] = "new"]
            /\ about' = [about EXCEPT ![t] = e]
            /\ slot' = [slot EXCEPT ![Kind(e)] = t]

\* _schedule_dm_timeout, _schedule_dm_edit_timeout: the timer in the slot is
\* cancelled and a new one takes its place.
Schedule(e) ==
    \E t \in Timers :
        /\ pc[t] = "none"
        /\ pend' = IF e = 0 THEN pend ELSE e
        /\ pc' = [Without(Kind(e)) EXCEPT ![t] = "new"]
        /\ about' = [about EXCEPT ![t] = e]
        /\ slot' = [slot EXCEPT ![Kind(e)] = t]

\* The task gets its first turn and goes to sleep.
TimerStarts(t) ==
    /\ pc[t] = "new"
    /\ pc' = [pc EXCEPT ![t] = "sleep"]
    /\ UNCHANGED <<storeVars, pend, slot, about, sendVars, netVars, closed,
                   notices, silent>>

\* Seeded fault: an edit timer looks at the row instead of its token.
IsDue_AnyEdit(e) == IF e = 0 THEN row = "pending" ELSE pend # 0

\* Seeded fault: the store is not asked whether the ack has come meanwhile.
IsDue_Unchecked(e) == IF e = 0 THEN row # "absent" ELSE pend = e

\* The check a timer makes when it wakes: the store for the original send,
\* the pending token for an edit.
IsDue(e) == IF e = 0 THEN row = "pending" ELSE pend = e /\ row # "absent"

\* A timer that wakes after close() does nothing.
Silenced == closed

\* Seeded fault: a timer leaves its entry behind.
Popped_Not(k) == slot

\* The entry the finally clause, or the handler of the cancellation, pops:
\* whatever timer it names by now.
Popped(k) == [slot EXCEPT ![k] = NoTimer]

\* The sleep is over: report the row if the ack is still missing, then pop.
TimerFires(t) ==
    /\ pc[t] = "sleep"
    /\ IF ~Silenced /\ IsDue(about[t])
       THEN notices' = [notices EXCEPT ![about[t]] = @ + 1]
       ELSE UNCHANGED notices
    /\ slot' = Popped(Kind(about[t]))
    /\ pc' = [pc EXCEPT ![t] = "none"]
    /\ UNCHANGED <<storeVars, pend, about, sendVars, netVars, closed, silent>>

\* A cancelled task ends.  Cancelled inside its sleep it pops the entry of
\* its row, also when a newer timer sits there by now.
TimerUnwinds(t) ==
    /\ pc[t] \in Cancelled
    /\ slot' = IF pc[t] = "unwinding" THEN Popped(Kind(about[t])) ELSE slot
    /\ pc' = [pc EXCEPT ![t] = "none"]
    /\ UNCHANGED <<storeVars, pend, about, sendVars, netVars, closed, notices,
                   silent>>

-----------------------------------------------------------------------------
(* The user's operations.  Up to the await of _send() they read the store   *)
(* and the clock; the rest runs when the write has returned.  An operation  *)
(* waits for _send_lock while another one, a keep-alive or an operation on  *)
(* another row is inside a write that a full transport buffer suspends.     *)

\* resend_message(): an edited row is sent again as its latest edit.
ResendBegins ==
    /\ row # "absent" /\ ~closed
    /\ resends < MaxResends /\ Len(queue) < QueueBound
    /\ queue' = Append(queue, [op |-> "resend", token |-> edit])
    /\ resends' = resends + 1
    /\ UNCHANGED <<storeVars, timerVars, writing, clock, netVars, closed,
                   notices, silent>>

\* edit_message()
EditBegins ==
    /\ row # "absent" /\ ~closed
    /\ clock < MaxEdits /\ Len(queue) < QueueBound
    /\ clock' = clock + 1
    /\ queue' = Append(queue, [op |-> "edit", token |-> clock'])
    /\ UNCHANGED <<storeVars, timerVars, writing, resends, netVars, closed,
                   notices, silent>>

\* The operation at the head gets the lock: it writes, or _send() raises.
SendGetsLock ==
    /\ queue # <<>> /\ ~writing
    /\ IF up /\ ~closed
       THEN writing' = TRUE /\ UNCHANGED queue
       ELSE queue' = Tail(queue) /\ UNCHANGED writing
    /\ UNCHANGED <<storeVars, timerVars, clock, resends, netVars, closed,
                   notices, silent>>

\* What the operation does to the store once its frame is written.
Persist(o) ==
    CASE o.op = "send"   -> /\ row' = IF row = "absent" THEN "pending" ELSE row
                            /\ UNCHANGED edit
      [] o.op = "edit"   -> /\ edit' = IF o.token > edit THEN o.token ELSE edit
                            /\ UNCHANGED row
      [] o.op = "resend" -> UNCHANGED storeVars

\* stream.send() returns.  Every transport resumes the writer no later than
\* the last byte leaves, so the ack cannot have been handled before.
SendReturns ==
    /\ writing
    /\ LET o == Head(queue)
       IN  /\ Persist(o)
           /\ Schedule(o.token)
           /\ flight' = IF up THEN Append(flight, o.token) ELSE flight
           /\ silent' = IF o.token = 0 THEN silent \union {0}
                        ELSE (silent \intersect {0}) \union {o.token}
    /\ queue' = Tail(queue)
    /\ writing' = FALSE
    /\ UNCHANGED <<clock, resends, up, acks, held, closed, notices>>

\* stream.send() raises because the link went away: the operation is over,
\* nothing is stored and no timer is made.  The bytes may have got through.
SendRaises ==
    /\ writing
    /\ ~up
    /\ queue' = Tail(queue)
    /\ writing' = FALSE
    /\ held' \in {held, TRUE}
    /\ UNCHANGED <<storeVars, timerVars, clock, resends, up, flight, acks,
                   closed, notices, silent>>

-----------------------------------------------------------------------------
(* The server, as the client's code relies on it, and the link *)

\* The server takes a frame and acks it; a repeated one too.
ServerTakes ==
    /\ flight # <<>>
    /\ flight' = Tail(flight)
    /\ acks' = Append(acks, Head(flight))
    /\ held' = TRUE
    /\ UNCHANGED <<storeVars, timerVars, sendVars, up, closed, notices, silent>>

\* The link drops with everything that is on it, or is re-established.
LinkDrops ==
    /\ up
    /\ up' = FALSE
    /\ flight' = <<>>
    /\ acks' = <<>>
    /\ UNCHANGED <<storeVars, timerVars, sendVars, held, closed, notices, silent>>

LinkReturns ==
    /\ ~up /\ ~closed
    /\ up' = TRUE
    /\ UNCHANGED <<storeVars, timerVars, sendVars, flight, acks, held, closed,
                   notices, silent>>

\* _cancel_dm_edit_timeout drops the token together with the timer.
Forget == pend' = 0

\* _on_message_response: the row is marked, and whichever timers are armed
\* are cancelled.
AckArrives ==
    /\ acks # <<>> /\ ~closed
    /\ acks' = Tail(acks)
    /\ row' = IF row = "absent" THEN row ELSE "delivered"
    /\ Forget
    /\ pc' = [t \in Timers |-> IF \E k \in Kinds : slot[k] = t
                               THEN Cancel(pc[t]) ELSE pc[t]]
    /\ slot' = [k \in Kinds |-> NoTimer]
    /\ silent' = {}
    /\ UNCHANGED <<edit, about, sendVars, up, flight, held, closed, notices>>

\* The server sends our own row back (a batch after a reconnect): it counts
\* as delivered, whether or not the ack was lost.  No timer is touched.
RowComesBack ==
    /\ held /\ up /\ ~closed
    /\ row # "delivered"
    /\ row' = "delivered"
    /\ UNCHANGED <<edit, timerVars, sendVars, netVars, closed, notices, silent>>

-----------------------------------------------------------------------------
\* close(): _cancel_all_delivery_timers reaches the timers in the slots.
Close ==
    /\ ~closed
    /\ closed' = TRUE
    /\ up' = FALSE
    /\ pc' = [t \in Timers |-> IF \E k \in Kinds : slot[k] = t
                               THEN Cancel(pc[t]) ELSE pc[t]]
    /\ slot' = [k \in Kinds |-> NoTimer]
    /\ pend' = 0
    /\ flight' = <<>>
    /\ acks' = <<>>
    /\ UNCHANGED <<storeVars, about, sendVars, held, notices, silent>>

-----------------------------------------------------------------------------
Init ==
    /\ row = "absent"
    /\ edit = 0
    /\ pend = 0
    /\ slot = [k \in Kinds |-> NoTimer]
    /\ pc = [t \in Timers |-> "none"]
    /\ about = [t \in Timers |-> 0]
    /\ queue = <<[op |-> "send", token |-> 0]>>
    /\ writing = FALSE
    /\ clock = 0
    /\ resends = 0
    /\ up = TRUE
    /\ flight = <<>>
    /\ acks = <<>>
    /\ held = FALSE
    /\ closed = FALSE
    /\ notices = [e \in Tokens |-> 0]
    /\ silent = {}

Timing(t)  == TimerStarts(t) \/ TimerFires(t) \/ TimerUnwinds(t)
Operating  == ResendBegins \/ EditBegins \/ SendGetsLock \/ SendReturns \/ SendRaises
Networking == ServerTakes \/ LinkDrops \/ LinkReturns \/ AckArrives \/ RowComesBack

Next ==
    \/ \E t \in Timers : Timing(t)
    \/ Operating
    \/ Networking
    \/ Close

Spec == Init /\ [][Next]_vars
=============================================================================
