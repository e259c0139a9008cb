# Verification of whatspyc

whatspyc is a WhatsPac (WPS) chat client for packet radio: one asyncio process that
holds one link to a WPS server, over plain TCP or through a node's RHP interface, keeps
what it has seen in SQLite, and shows it in one of three terminal user interfaces. This
directory holds TLA+ models of it, the TLC runs that check them on small instances, and
proofs of their main properties for every value of the parameters, checked by TLAPS.

Paths below are relative to `src/src/whatspyc/` unless they start with `src/`.

    tlc -workers 2 -config WpsLink_all.cfg MCWpsLink.tla     # a run
    tlapm ConnectProofs.tla                                  # the proofs of a module

`PROJECT.json` lists the components, the runs with their properties, the seeded faults
that show each property can fail, the lines of the source each definition stands for,
the findings, the hazards and the theorems.

## 1. The system

| Component | Source | State it keeps | Operations | What makes it correct | Model |
|---|---|---|---|---|---|
| Link lifecycle | `wps/client.py` 163-253, 911-1080 | `_stream`, `_connected`, `_closed`, the reader, keep-alive and reconnect tasks, `_send_lock`, `_last_outbound_ts` | `open`, `close`, `_send`, the three loops, `_handle_link_loss` | no socket or task is leaked; nothing precedes the connect record; the retry schedule; every loss is reported and settled; `close()` is complete and returns | `WpsLink` |
| Delivery tracking | `wps/client.py` 346-398, 485-628, 681-909, 1350-1376 | four timer tables, two tables of pending edit tokens, `delivered_ts` and `edit_ts` | send, edit, resend; `mr`/`cpr`; timers; close | a timeout is reported only for what is unanswered, and whatever is unanswered is reported in the end | `Delivery` |
| Subscribe and unpause | `wps/client.py` 400-483, 1378-1398 | `_cs_ack_waiters`, `_paused_channels` | `subscribe_and_wait`, `unpause_channel`, the `cs` and `pch` handlers | every waiter is completed; the flag and the paused set agree with the server's | `SubscribeWait` |
| Inbound handlers, store, cursors | `wps/client.py` 1082-1348, `store/store.py` | messages, posts, reactions, `meta` and channel cursors | one handler per message type, upserts, edits, `connect_record` | what lies below a cursor is held: reconnecting misses nothing it need not miss | `SyncStore` |
| RHP session, hop script, codec | `transport/rhp_*.py`, `wps/hop_script.py`, `wps/codec.py` | reply future, inbox, reader task, text buffer, decoder buffer | `open`, `recv`, `run_connect_script`, `feed` | nothing depends on where the bytes are cut; whoever waits is told | `Handshake` |
| Configuration of connections | `config.py`, `cli.py` 184-265 | a profile | parse, engine defaults, script normalisation | what the user pinned survives; the script fits the node | `Profile` |
| Command line, line UI | `cli.py`, `ui/line.py`, `wps/connect_seq.py` | profile choice, held-back events, target, tallies, `_stop` | connect phase, prompt, commands, reconnect prompt | the session ends with its link; no unread row is missing from the notices | `LineSession` |
| Full-screen UIs: session | `ui/urwid_ui.py`, `cli.py` 606-818 | window stack, flow tasks, event queue, the opener's client | bootstrap, connect, link drop, quit | no client is leaked, no window is orphaned, every loss is handled | `UiSession` |
| Full-screen UIs: threads | `ui/textual_ui.py` | panes, badges, read cursors, event queue | switch, page, mount, mark read | a badge agrees with the store, a pane shows it | `Threads` |
| Full-screen UIs: channels and input | `ui/textual_ui.py`, `ui/urwid_ui.py` | dialogs, subscription cache, reply and edit modes, prompt | subscribe, unsubscribe, unpause, reply, edit, send | the user is where he was told; a line goes where the prompt says | `Channel` |
| Direct TCP, logging, help, options, emoji | `transport/direct_tcp.py`, `log.py`, `ui/help.py`, ... | none of interest | I/O, text, tables | - | - |

How they interact. The UI calls the client's coroutines (urwid and textual from
concurrent tasks, `ui/urwid_ui.py:5366`), the client calls the stream and the store, and
tells the UI through one callback, `on_event`, which never suspends; the full-screen UIs
put what they are told in a queue and handle it later. The tasks of the client share the
stream, the send lock and the tables above. The server is on the other side of a lossy,
very slow link.

What is hard. Nothing is preempted, but every `await` that suspends is a point where a
loss, an ack, a timer, another user operation or `close()` can come between: state read
before it is used after it (`resend_message`, `unpause_channel`, `_send` at its lock); a
cancelled task runs its `except` and `finally` clauses later, when the tables it cleans
up may be somebody else's; `close()` can find any of the tasks half way; the link can be
lost, or the process die, between any two messages of a synchronisation; a queued event
is handled when the screen, the client or the store have moved on. `hazards` in
`PROJECT.json` lists these at their lines, with the properties that would catch each one
going wrong.

## 2. The modules

Each component has a module `M` (the specification), a module of its properties, a
module `MCM` for TLC and proofs; `ConnectProofs` holds those of two
components and `OrderProofs` those of two others, with what is proved of sets of numbers
in order.

| Specification | Properties | TLC | Proofs | What it is |
|---|---|---|---|---|
| `WpsLink`, `LinkContract` | `WpsLinkProps` | `MCWpsLink` | `ConnectProofs` | the link lifecycle, one action per stretch of code between two suspending awaits, and the abstract specification of its events and `is_connected` as a UI sees them |
| `Delivery` | `DeliveryProps` | `MCDelivery` | `DeliveryProofs` | one outbound row: its operations, acks, timers and `close()` |
| `SubscribeWait` | `SubscribeProps` | `MCSubscribe` | `SubscribeProofs` | the commands on one channel's subscription with their acks and headers, across losses |
| `SyncStore` | `SyncProps` | `MCSync` | `SyncProofs` | one conversation in the store, the server's replay by cursors, losses and crashes |
| `Handshake` | `HandshakeProps` | `MCHandshake` | `OrderProofs` | one connection through a node, from `open()` to the first frames |
| `UiSession` | `UiSessionProps` | `MCUiSession` | `UiProofs` | windows, flows and clients of a full-screen session |
| `Threads` | `ThreadsProps` | `MCThreads` | `OrderProofs` | panes, badges and read cursors of a DM thread and a channel |
| `Channel` | `ChannelProps` | `MCChannel` | `ChannelProofs` | dialogs, commands and input modes around one channel |
| `LineSession` | `LineProps` | `MCLineSession` | `LineProofs` | the program with the line UI, from the picker to its exit |
| `Profile` | `ProfileProps` | `MCProfile` | `ConnectProofs` | a connect profile from the file or the flags to the end of its script |
| `Ordering` | - | - | `OrderProofs` | `ORDER BY`: a set of numbers as a sequence, used by `Threads`, `SyncStore` and `Handshake` |

Definitions named `X_Something` after a mapped definition `X` and headed "Seeded fault"
are not part of a specification: they are the wrong versions of `X` against which the
properties are tried.

How they fit together. The four models of the UIs stand on the same client: what
`UiSession` and `LineSession` take from it is what `LinkContract` promises (an up link
may be lost, a lost one is retried or given up, a hang-up is final), and `WpsLink`
implements that contract (run `link`, theorem `ContractKept`). `Channel` takes from
`SubscribeWait` that an ack completes the caller's future, `Threads` from `SyncStore`
that a row is in the store before its event is told, `Profile` from `Handshake` that a
step ends at the first text that has its string.

### WpsLink

A stream is one result of the stream factory. Streams form a finite pool and are reused
once nothing refers to them, so the number of connections in a behaviour is unbounded,
and a task is identified by the stream it was made for.

| Variable | In the code |
|---|---|
| `closed`, `connected`, `stream` | `_closed`, `_connected.is_set()`, `_stream` |
| `sock` | each stream's socket: closed, opening, up, broken (the peer is gone, `recv()` has not said so yet) |
| `greeted` | streams on which the type-c record has been sent |
| `facts` | streams the roster and paused channels in hand came from |
| `task` | where `open()` and `_reconnect_task` stand, including the stages of `_handshake` and their cancellation |
| `attempt`, `delay` | the locals of `_reconnect_loop` |
| `reader`, `readerTask`, `ka`, `kaTask` | the reader and keep-alive tasks and the fields that remember one of each |
| `sender`, `wire` | a user operation in `_send()`, and the stream the holder of `_send_lock` writes to |
| `quiet` | `time.monotonic() - _last_outbound_ts` has reached the silence limit |
| `closer` | the user's call of `close()` and the task `_silence_disconnect` creates |
| `event` | the last synthetic event given to `on_event` |

| Actions | Code |
|---|---|
| `OpenBegin`, `StageDone`, `HandshakeDone`, `OpenFails` | `open`, `_handshake` (167-224) |
| `RetryStart`, `RetryWake`, `RetryFails`, `RetryUnwind` | `_reconnect_loop` (991-1031) |
| `ReaderFrame`, `ReaderLoses`, `ReaderLost`, `ReaderUnwind` | `_reader_loop`, `_handle_link_loss` (937-989) |
| `Keepalive*` | `_keepalive_loop`, `_silence_disconnect` (1040-1080) |
| `UserSends`, `SendWrites`, `SendReturns` | `_send` (911-927) |
| `CloseBegin`, `CloseEnd` | `close` (226-253) |
| `LinkBreaks`, `TimePasses` | the network, the clock |
| `Stopped` | the program after `close()`; it only keeps the end from counting as a deadlock |

Choices worth knowing. `ReaderLost` is possible for a reader that `close()` has
cancelled inside `_handle_link_loss`, because `RhpSession.close` swallows the
cancellation. `RetryStart` does not overtake a silence close queued in the same turn of
the event loop, which runs ready callbacks in order. `close()` by the user starts when
no `open()` is under way: the callers cancel and await it first. The user runs one
operation at a time through the lock here; several queue in `Delivery`.

### Delivery

One row, from the call of `send_message()`; `post()` and its relatives are the same code
over other tables (the twins are named in the map). A frame is named by a token, 0 for
the original and n for the n-th edit, which stands for its `edts`. The timer tasks are a
pool. Each has a program counter (made, asleep, cancelled before or after its first
turn) because that decides whether the table is popped when it ends.

| Variable | In the code |
|---|---|
| `row`, `edit` | `delivered_ts` (no row, NULL, set) and `edit_ts` in the store |
| `pend`, `slot` | `_pending_dm_edits`, and the entries in `_dm_timeout_tasks` / `_dm_edit_timeout_tasks` |
| `pc`, `about` | each timer task and what it was made for |
| `queue`, `writing` | the operations at `_send_lock`; its holder is inside `stream.send()` |
| `clock`, `resends` | how many edits and resends the user has asked for |
| `up`, `closed` | `_connected`, `_closed` |
| `flight`, `acks`, `held` | frames on the way, acks on the way back, whether the server has the row (external) |
| `notices` | how often `_delivery_timeout` was emitted, per token |
| `silent` | history variable: the frames written and not followed by an `mr` |

| Actions | Code |
|---|---|
| `TimerStarts`, `TimerFires`, `TimerUnwinds` | the timeout loops (765-881) |
| `EditBegins`, `ResendBegins` | `edit_message`, `resend_message` up to `_send` (485-628) |
| `SendGetsLock`, `SendReturns`, `SendRaises` | `_send`, then the rest of the operation with `Persist` and `Schedule` |
| `AckArrives`, `RowComesBack` | `_on_message_response`; our own row in `_on_message` / `_on_message_batch` |
| `Close` | `_cancel_all_delivery_timers` in `close()` |
| `ServerTakes`, `LinkDrops`, `LinkReturns` | the server and the link; in the code the last two are `WpsLink`'s |

`SendReturns` schedules the timer after the write; no ack can be handled in between,
since a transport resumes its writer no later than the frame's last byte leaves. A timer
may wake at any time after its first turn.

### SubscribeWait

One channel. A call is one invocation of `subscribe_and_wait()`; calls form a pool and
may be made again, so their number is unbounded. `Overlap` says whether the user
interface runs commands concurrently (urwid and textual do, each in a task or worker of
its own) or awaits each one before it reads the next (the line UI).

| Variable | In the code |
|---|---|
| `step` | a call is not running, in `_send()`, or awaiting its future |
| `fut` | its future, with the reason of its cancellation |
| `outcome` | history variable: what the call that ended last returned or raised |
| `table` | the channel's entry in `_cs_ack_waiters` |
| `queue`, `writing` | the operations at `_send_lock`; its holder is inside `stream.send()` |
| `subscribed`, `paused` | the store's flag; the channel is in `_paused_channels` |
| `link`, `closed` | `_connected`, a handshake under way, or neither; `_closed` |
| `toServer`, `toClient`, `hold` | frames on the way, and whether the server holds the channel's posts back (external) |
| `taken` | history variable: the last `cs` the server took on this connection |

| Actions | Code |
|---|---|
| `Begin`, `Resume`, `GivesUp` | `subscribe_and_wait` (403-436) up to its send, from its completed future on, and `wait_for` running out or being cancelled |
| `OtherBegins` | `unsubscribe`, `unpause_channel` up to `_send` (438-467) |
| `SendGetsLock`, `SendReturns`, `SendRaises` | `_send`, then the rest of the operation: the `finally` clause, or the pop from `_paused_channels` |
| `FrameArrives` | `_on_subscribe_ack`, `_on_paused_headers` (1378-1398) |
| `HandshakeBegins`, `HandshakeEnds`, `Close` | the reset in `_handshake` (182-186), the connect record; `close` (235-238) |
| `ServerTakes`, `LinkDrops` | the server and the network |

A call can be cancelled while it waits, not while it is in `_send()`: the interfaces
cancel no command's task before they leave. The handshake begins only when no write is
left in the old stream, which `_handle_link_loss` has closed before. What arrived before
a loss and was not yet handled is lost with it.

### SyncStore

One conversation, a channel or the DMs, which share their cursors: the code treats the
two differently, and `kind` picks one. A row is named by its `ts`, a body by the `edts` that
made it, a reaction by its `ets`, all ticks of one clock.

| Variable | In the code |
|---|---|
| `db` | the store: rows (sender, body, `edit_ts`, emoji stamp, gap marker), reactions, the row, edit and emoji cursors |
| `unsaved` | an operation of ours that has been written to the link and not yet to the store |
| `online`, `up`, `down` | the connect record was sent on this link; frames under way in both directions |
| `srv`, `held`, `since` | the server's rows, whether it holds the channel back and from where (external) |
| `missed` | history variable: updates that were under way when the link went, or fell into a held-back time |

`Upserted`, `Edited`, `Reacted`, `ReactionsSet` and `Bump` are the store's transactions;
`Lp`, `Led` and `Le` are what `connect_record` sends, with its floors; `Receive` is a
handler, `DiesInHandler` and `DiesInOperation` end the process between two transactions,
after which the next `Connect` starts from what was committed. Rows and reactions of DMs
are stamped in seconds and their edits in milliseconds; a channel stamps all in
milliseconds but our own reactions. Where the code compares the two, a stamp in seconds is
before any in milliseconds: our reaction to a post has the stamp `Earliest`, and the newest
DM, which `connect_record` makes a floor of both DM cursors, is one for the reactions (`Le`)
and none for the edits (`Led`). Our reaction to a DM moves the reaction cursor after its row
(`OurReaction`). How the server replays is taken from `src/tests/fake_wps.py` and from what
the record asks for; it is marked external.

### Handshake

What the far end says is one text, cut into messages anywhere; a buffer is the part of
it after one position and up to another. `at` follows the client from `open()` (auth,
open, reply) through the hops of `run_connect_script` to `_reader_loop`, `reader`,
`inbox` and `reply` are `RhpSession`'s. `Matches`, `Consumed`, `Showing`, `Failed` are
`_await_match`; `Decodes` is `FrameDecoder.feed`. `met`, `shown`, `frames` and `asked`
are histories the properties compare with the text. The timeouts of a hop are `GivesUp`,
at any time.

### UiSession

The windows of a session-driven full-screen UI, by urwid's names (textual has the same
flow). `stack` is `_modal_stack`, `at` where the tasks of the two flows
`_bootstrap_session` (`B`) and `_handle_link_drop` (`D`) wait, `active` and `pausing`
are `_active_connect_modal` and the 0.4 s of `_close_after_brief_pause`, `held` and
`current` the opener's client and the UI's, `events` the queue whose events do not say
which client they came from. `Makes`, `OpenReturns`, `Settles`, `Abandons` are the
stages of `_run_connect_modal`; `LossSeen`, `ReconnectedSeen`, `GiveupSeen` the
dispatch.

### Threads

A DM thread and a channel, as textual shows them. `stored`, `own`, `changed`, `read` are
the store's; `views`, `pane`, `exhausted`, `badge`, `active` the UI's tables; `opening`
marks a pane whose `await` for its mount is open. The client stores and then queues
(`Arrive`, `ChangeArrives`), the UI takes and shows (`TakesRows`, `TakesChange`,
`TakesEdits`), the user switches, scrolls, sends, and restarts. Clearing a pane and
seeding it again is one step.

### Channel

One channel in either UI (`ui`). `wire` and `acks` are the frames under way, `asking`
the three callers of `subscribe_and_wait` there can be (the dialog, the one whose dialog
was closed, the command), `waiter` whose future the client's table holds, `cached` the
UI's set of subscribed channels, `modal` the dialog and its stage, `reply`, `editing`,
`target`, `prompt` the input line. `wish` is what the user last said; `lost` that he said
so by Esc at a dialog whose call nobody will answer: a call that took the place of one
still waiting loses its table entry to it (`Resumes`), so its ack reaches no one, and the
task that was to undo the subscription waits without end. The link stays up: a dialog that
meets a loss is in section 6.

### LineSession

`_run` from the picker to the exit, with at most one client. `phase` is where `_run` is,
`pending` the events `event_hook` holds back in the connect phase, `awaits` what
`LineUI.run` waits for, `reading` and `stale` the executor's threads that hold stdin,
`unread` and `tally` the store's unread rows and the UI's counters. `RenderEvent`,
`EventHook`, `SignalTerminalLinkLoss` are the code of those names; the commands that do
not touch this state are `OtherLine`.

### Profile

`entry` is what the user wrote, `profile` what became of it, then the script is run
against a node that greets and answers. A command is one of four kinds, by what the code
asks of it; a step waits for the banner, for an answer to a connect, or for "Connected",
which both contain. `early` records that a command's step was ended by a text that does
not answer it.

## 3. The runs

A run takes between seconds and two minutes with two workers. Every property of a
passing run has been tried on a fault that a change to the code could bring, and fails
there (`mutants` in `PROJECT.json`).

| Run | Instance | Shows |
|---|---|---|
| `link` | 3 streams, retry cap 3, script, silence guard, delays 2, 4, 6 (capped), `auto_reconnect` | the inductive invariant (types, sockets, tasks, records first), the retry schedule, the refinement of `LinkContract`; a broken socket is noticed and every loss settled, an idle link is hung up, `close()` returns; no deadlock |
| `delivery` | 3 timers, 2 edits, 1 resend, 2 operations queued | the inductive invariant; reports are deserved, a delivered row is not reported, what is unacked is settled |
| `subscribe` | 2 calls that overlap, 3 frames each way | the inductive invariant; flag and paused set agree with the server; futures settle once; a call returns as long as commands alternate (what the invariant says only of commands that never overlap is left to the proof) |
| `sync` | a channel or DMs, 4 stamped events, one frame of ours under way | rows and updates are missed only for the reasons named; cursors are held; the store only grows |
| `handshake` | two steps, 4 letters, messages of up to 2, 2 under way | text shown once, hops answered, frames split right; waiters are told |
| `ui_session` | 5 clients one after the other, 3 queued events | no leaked client, no orphaned window, no screen without client; reconnecting ends, losses are handled |
| `threads` | 2 rows a thread, pages of 1, 2 queued events, 1 change | what is on screen is read, no hidden unread DM, panes in order and up to date |
| `channel` | both UIs, 2 frames, 2 acks | cache, store and server agree; a cancel is honoured (urwid) but where nobody answers the call; the prompt is right; the dialog is answered (textual) |
| `line_session` | 2 attempts, 3 events held back, tallies to 3, 2 stale threads | a dead link stops the session; no unread row is missing from the tally; a stop ends `run` |
| `profile` | every entry with a script of up to two steps, one port | what is pinned survives; documented scripts hear their own answers and never hang |
| `sync_missed`, `line_loss` | as `sync` (a channel), as `line_session` | counterexamples, section 6 |

Bounds. `link`: three streams are one more than can be in use at once (the current one,
and one that a task or writer of the old connection still refers to), so a fresh one is
always available; `AttemptBound` is above the cap, and at a cap of 3 the delay passes
through its doubling and its limit. `delivery`: three timers allow one in the table, one
that was cancelled and one orphaned; a behaviour that needs a fourth waits. Two queued
operations allow an edit and a resend to overtake each other. `subscribe`: two calls
displace each other; three frames allow a `cs`, a `pch` and a `cu` at once. `sync`: four
stamps give two rows with an edit and a reaction between or after them, which every
reason for a miss needs. `handshake`: four letters and chunks of two put a cut between
any two letters, before and after the string of a step and inside CR LF; every position
of a longer text looks like one of these. `ui_session`: the flows make one client after
another, and five let each of them fail, be cancelled and be lost once. `threads`: two
rows are the least at which order matters, and `MCThreads` checks the insertion over all
panes of four; pages of one make every pane longer than its first page. `profile`: the
normalisations look at the first step only; the proofs cover every length.

All runs but `link` and `channel` have the deadlock check off, because the model may
legitimately stop: the user does nothing more, the program has ended, or a bound is
reached.

## 4. Fairness

`WpsLink`: every coroutine that can go on goes on, as asyncio schedules ready tasks, and
every transport call returns or raises. The latter holds of direct TCP, whose calls the
kernel bounds; over RHP `open()` may wait for ever for a node that says nothing, so the
liveness results assume a node that answers. `IdleSpec` adds that time passes. No
fairness on the user, on the loss of the link, or on `ReaderFrame`.

`Delivery`: only timer tasks are fair. Server, link and user may do nothing.

`SubscribeWait`: coroutines that can go on do, writes end, the server answers what
reaches it, and a lost link is tried again (`auto_reconnect`). `HandshakeEnds` is not
fair: the beginning of a handshake already releases the waiters. Without reconnect, or
when the cap is reached, a call that waits is only released by `close()` (finding 2 is a
consequence).

`Handshake`: the caller's coroutine and the session's reader run; the node owes nothing.

`UiSession`: tasks, timers and the drain of the queue run, and an attempt to reconnect
ends. Nothing of the user or the server: `seq.wait()` has no timeout.

`Channel`: the server answers and ready tasks run. `LineSession`: only `_read_line`'s
wake-up by `_stop` and the code after `run` are fair.

`SyncStore`, `Threads` and `Profile` are checked for safety only, without fairness.

## 5. The proofs

Every theorem holds for all values of the constants that the named assumption of its
module allows; the runs show the same formulas on small instances.

`ConnectProofs`, `WpsLink` (from `LinkAssumption`: any pool of streams, any delays and retry cap,
with or without script, callsign stage, silence guard or reconnect). `IInv` and its
parts are invariants: `TypeOK`, `SocketOwned`, `ConnectedIsServed`, `OneKeepalive`,
`FramesFollowRecord`, `FactsAreCurrent`, `CloseIsComplete`. None is inductive by itself.
`SocketOwned` needs to know that no two of `open()`, the reconnect loop and a reader
dealing with a loss are at work together, since each of them changes `_stream`. `IInv`
adds this as `DriversAlternate` (who may be at work when), `ReaderOwnsStream` (a reader
task that has not ended is the last one made and reads the current stream),
`ConnectedIsWhole`, `KeepaliveIsKept` and `CloseIsAnnounced`. `ContractKept` is the
refinement: `Spec => ImplementsContract`. The contract speaks of the last event and its
attempt number, the detailed steps of tasks; `EventTellsState` ties the two (while the
loop sleeps or tries, `_reconnecting` was the last event, with the loop's number), and
with it every step maps to a step of the contract or to a stutter (`NextRefines`, one
step per action). `ScheduleIsKept` states `RetrySchedule` for every delay, maximum and
cap: `EventTellsState` has the cap, and `AttemptsAreCounted`, the second half of `IInv`
(the first is `TasksInv`), has the delay, which it must also say of the stages of an
attempt, since the next delay is computed there from the last one. The schedule is the
recursive function `Doubling`; that its definition has a solution is proved first
(`DoublingFacts`, from the well-foundedness of `<`), and TLC compares it with
`InitialBackoff * 2 ^ n` for the first attempts (`DoublingIsAPower` in `MCWpsLink`).

`DeliveryProofs` (from `DeliveryAssumption`): `SlotIsLive` is an invariant, and
`NoticeIsDeserved`, `DeliveredIsNotReported` and `ClosedIsSilent` hold of every step.
The strengthening is `WaitsForSilent`: the pending edit token, and a row with
`delivered_ts` NULL, always stand for a frame that has had no `mr`. It ties the tables
the timers look at to the history of the wire, and it makes a stray timer harmless:
whoever asks, asks the store and the token and not its own table entry.

`SubscribeProofs` (from `SubscribeAssumption`): `TypeOK`, `WaiterIsReachable`,
`PauseIsTold`, `SubscriptionAgrees`, `FuturesSettleOnce`. The inductive invariant `SInv`
adds that the queue holds distinct operations whose calls are in `_send()`
(`QueueIsExact`), that calls alternate where commands do, and two facts about what is
under way: a held channel is listed, or its `pch` or a `cu` is on the link
(`HoldIsAnnounced`), and the last ack on the link is for what the server took last
(`AcksAreInOrder`). These speak of every state, the properties only of quiet ones, which
is why they need them.

`ConnectProofs`, `Profile` (from `ProfileAssumption`): `ProfileInv` for every set of pins and every
script; `AnswersAreOwn` and `ScriptGetsThrough` for scripts of any length. The engine
makes of a documented script a wait for the greeting followed by hops (`BpqWalkable`,
`XrouterWalkable`), and `WalkInv` says that during the walk exactly one text is unread,
the greeting before the first hop and that hop's answer after it (`WalkOpens`,
`WalkAnswers`, `WalkMatched`). So each hop hears its own answer and none waits in vain;
with a wait too many or too few `Walkable` fails at once.

`LineProofs` (from `BoundsAssumption`): `LineInv` and `UnreadCounted` for any bounds.
`DeadLinkStops` needs `LossIsKnown`: in the connect phase a loss for good is among the
events held back, at the prompt whoever was told has set `_stop`, and the step from one
to the other hands over every held event. `UnreadCounted` counts the held events of a
thread (`Held`), which changes by one when one is added and moves to the tally when they
are handed over; the lemmas on positions in a sequence say so without induction.

`ChannelProofs` (from `BoundsAssumption`): `ChannelInv`, `CancelIsHonoured` and
`PromptTellsTruth`, for both interfaces and any number of frames and acks. The argument
is `LastWord(s, other, now, b)`: the last frame of `s` that is not of the kind `other`
says `b`, and where there is none `now` is `b`. It is kept when a frame is appended and
when one is taken off the front and done (`LastWordAppend`, `LastWordTail`), so that the
last ack under way tells what the server did last (`AcksTellSub`), and the last `cs`
under way is the user's wish unless a dialog that was left has yet to undo its own, or
never will (`WishIsLast`, `lost`). With nothing under way both collapse to equality; a call
that waits does not count as under way, since one may wait that nobody will answer.
`CallersAgree` supplies that an answered caller is the one in the table, that a caller in
the table has its ack coming, and that the task of a closed dialog goes on only if the user
has not asked again.

`UiProofs` (from `BoundsAssumption`): `UiInv` and `WindowsAreAwaited` for any number of
clients and queued events. That no client leaks follows from what the opener holds
(`MakesOne`, `ClosedOne`). That the screen is never left without a client needs the
stack of windows: each is there once and awaited by its flow, the connect window is on
top (`Piled`), at most one flow connects (`OneConnects`), and where there is no client a
flow has a window up (`ClientOrWindow`). The lemmas on the stack (`PoppedUnder`,
`TopGoes`, `PutOn`, `TakenOff`) say what dismissing and showing a window do to a stack of
any height; `Booting` says that no event comes before the bootstrap task has run.

`OrderProofs` holds the theorems about `Threads` and `Handshake`, and `SyncProofs`, which
extends it, those about `SyncStore`. The three have in common that sets of numbers are
made into sequences (`Ascending`), and maxima and minima taken of them; the first part of
`OrderProofs` is the theory of these that all three use. That a set of numbers has a least member comes from the well-foundedness of
`<` (`LeastExists`, `MaxFacts`). `Ascending(S)` is given by the rank of each member, so
that it is increasing and has the members of `S` needs no recursion (`AscendingFacts`),
two increasing sequences with the same members are one (`SameOrder`, by the least
position at which they differ), and the order of two sets, one before the other, is that
of their union (`AscendingUnion`). A pane that takes a set of rows is a fold; the fold
exists and is what its definition says (`FoldExists`), and what holds of it is shown by
taking a smallest set for which it would fail (`InductionOverSet`, `FoldInserted`), again
without an induction theorem.

`Threads` (from `SizesAssumption`): all four properties, for any number of rows, any page
and any length of the queue. `ReadInv` is for reading and counting: a property of the
empty queue is not inductive; `ReadOrQueued` says of every state that what the thread on
screen has unread has an event waiting, and `Counted` that the DMs which no waiting event
will count (`Missing`) are no more than the badge. Each step is one of four kinds: rows
and cursors stand (`SameRows`), a pane is shown and its cursor goes to the newest row
(`ShowsKeeps`), rows are shown or counted (`HandledKeeps`), or the counts are taken from
the store again (`RestartsKeeps`). `PaneInv` is for the panes: each is increasing and
holds rows of the store (`PaneOrder`), which an insertion at the place the code looks for
keeps (`InsertedFacts`); the rows of a waiting event are stored already (`EventsStored`);
and a mounted row that was changed has its refresh waiting or is one of the cases the code
leaves out (`NewsShown`). `PanesInOrder` and `PanesShowStore` follow.

`SyncProofs` (from `SyncAssumption`: either kind, any clock, counters and queues): `SyncInv`,
`RowsAreMissedOnlyBehind`, `StoreOnlyGrows` and `UpdatesAreMissedOnlyInTransit`. What every transaction does to the store is
stated once (`Grown`, `SameRowsHeld`, `RowIsHeld`), so that a handler that dies half way is
no special case. `CursorInv` adds to the properties: rows reach the server after the store
or with the operation that is about to store them (`UpRows`), a row on its way is one of
the server's (`DownRows`), and two facts that belong together: a row below the row cursor
that is not held has a gap or a row of the user's own after it (`PassedRows`), and a row
that is not held is on its way with no later row before it (`RowComing`), or above the
cursor with the replay still to come, or behind such a gap or row (`RowsWait`). The
position in the queue is what makes this inductive: when a row is taken, the cursor passes
only rows that are held, that are behind its gap, or that were passed before.

`UpdatesAreMissedOnlyInTransit` says of a row that is held and out of date what the user
may count on; it is far from inductive, since what makes up for a difference may be taken
from the queue by the next step, or fall below a floor that the next operation raises.
`UpdateInv` is `CursorInv` with five parts. `NewsInv` is the property per row and per
single reaction (`BodyWaits`, `SayingWaits`), with two additions: off the link, the edit or
reaction is newer than the floor the connect record will send *and* than what an
operation of ours still being written will raise that floor to (`Raises`); and it covers
the rows the store will have as well as those it has (`Heard`), because reactions to a row
may arrive before the row. `WordInv` is the order of the queue: whatever is said on the
way of a row's body, of one reaction or of its newest stamp, the last that is said is what
the server has (`Ends`), so that taking a stale frame still leaves the right one behind it.
`DmInv` is what direct messages need besides: an edit, which the newest row is no floor
for, comes after its row and no reactions before it (`Leads`, `Apart`), and every row of the peer that is held is at
or below the row cursor, or an edit of it was missed. `StampInv` bounds every
stamp by the server's clock, so that what is new is above every floor. `OwnInv` says that
our own frames are about our own rows, each written once, and that no row held of a channel
is above the row cursor. A step either sends something back and leaves the store alone
(`Goes`, `QuietKeeps`), or moves the store by whole transactions of one frame (`Moves`,
`WePersistKept`, `ReceiveKept`), or loses the link (`LossKept`), or connects and replays
(`ReplayNews`, `ConnectKept`). A handler that dies half way is a `Moves` with the last
transactions left out, so that the order of bump and write in a handler is what these lemmas
test. The lemmas on `Has`, `Ends`, `Leads` and `Apart` under concatenation and `Tail` hold
for any sequence and carry the whole proof. The five parts were first checked by TLC on
an instance with a clock of 4 and both kinds.

`Handshake` (from `HandshakeAssumption`: any script, text, and chunks): `HandshakeInv` and
`FramesAreTheSplit`. `ScriptInv` adds that what was taken, what is in the inbox and what is
on the wire are parts of the text one after the other (`TextIsCut`, with `Fits` for a
sequence of messages between two positions), that the string awaited is not in the part
already shown (`ScriptStands`), which is why a line is not shown twice when the string is
found, and that the decoder keeps what begins after a CR and has none (`Decoded`). That
cutting the text at a CR cuts its frames likewise (`CutsSplit`, `NoCutAfter`) gives the
frames.

Only model-checked. Liveness (the ten properties with `~>` or fairness): fairness and
`ENABLED` are outside TLAPS's reach. Every invariant and every action property of a passing
run is a theorem.

## 6. What the models found

Two places where the code does other than its text says have a run each.

1. **`sync_missed`.** The docstring of `connect_record` (`store/store.py:117-119`) says
   that its floors suppress replays "without risking a missed update": what is below
   them is baked into the rows held. The edit cursor is floored to the newest row held
   (154-160): when the link drops after new posts were stored and before the edits of
   older ones came, those edits are older than that row and are never asked for again.
   Reactions have the same floor, those to DMs too (174).
2. **`line_loss`.** The docstring of `_signal_terminal_link_loss` (`ui/line.py:213-217`)
   says that `run` returns immediately and that setting `_stop` is sufficient. While
   `/sub` awaits its ack nothing looks at `_stop`, and after a loss for good no ack can
   come (`wps/client.py:434` waits without limit): the prompt never comes back.

The rest was met while the models were written. It is recorded here and shown by the
models' behaviours, and no property is claimed to fail for it.

Client.
- A cancelled timer pops its row's table entry by key when it unwinds, although the
  timer that replaced it is there by now (`wps/client.py:769`, 797, 823, 858): a second
  resend starts another one beside it and the row is reported twice, which 689-691 says
  the replacement avoids. No answered row is ever reported.
- The first `mr` ends the wait for an edit made before it (1360, against 122-126).
- `resend_message` reads the row before its wait for the lock (502): an edit ahead of it
  in the queue is followed by the older body (against 488-491).
- A second `subscribe_and_wait` cancels the first one's future (430), whose `finally` pops
  the entry by key, the second one's by then (436, against 426-427): the second ack reaches
  nobody and the second call returns only if it fails. It takes concurrent commands. A loss
  ends the wait with `CancelledError` (185), not `ConnectionError` (421-422).
- `pch` headers in hand when an unpause is sent list the channel again (1398).

Connections.
- A chunk that ends inside "*** Connected" lets `"*** "` be taken for a failure
  (`wps/hop_script.py:153`, against 14-16).
- `RhpSession.open()` waits for its reply without a limit. An empty payload counts as
  end of stream. A decode error loses the sound frames decoded from the same chunk. What
  the last step leaves in the script's buffer is dropped. `close()` before a handle is
  known sends no close.
- The README (215, 250) says the engine is ignored for direct TCP; the code applies it.
  It says that a custom engine has no default port for `rhp-tcp` (240), which gets 9000
  (`config.py:745`), and that xrouter leaves `connect_sequence` alone (243), whose first
  hop becomes the remote (716-732) unless one is pinned.
  A missing port or an unknown transport is noticed inside `open()` only and so retried
  five times. An xrouter profile with a pinned remote keeps its first hop, whose wait
  the greeting may end.

Line interface.
- `CancelledError` out of `subscribe_and_wait` passes `except Exception` and ends the
  program.
- An orphaned stdin thread takes the next line, at the reconnect prompt too, and holds
  up the exit.
- A link lost before the `c` reply, without reconnect, is waited for without end.
- Tallies count replayed rows. `<offline>` chosen in the reconnect picker is connected
  to. Bytes typed in the connect phase are dropped. `/ch` marks a channel read even if
  its question is declined.

Full-screen interfaces.
- A loss for good while the connect window is up is never reported
  (`ui/urwid_ui.py:2520`, docstring at 2021). Esc during the wait for the sequence
  leaves the client open (2470-2475 say otherwise), and a later event of that client
  opens a second picker. `_silence_disconnect` under reconnect opens a window that only
  q leaves; q in the two seconds after an error empties the window stack. `_offline` is
  never reset.
- urwid's comment (`ui/urwid_ui.py:3897-3900`) says that a cancel is honoured by undoing
  the subscription, for which the task that waits for the ack is awaited. `/sub`, Esc and
  `/sub` again before the ack, then Esc: the second ack reaches nobody (above), `_wait`
  awaits the task for ever (3902), and the user who cancelled stays subscribed until he
  says otherwise. TLC finds this when `lost` is taken out of `CancelIsHonoured`, which
  states what is left of the promise.
- Esc before the ack leaves a textual user subscribed (`ui/textual_ui.py:4034`), where
  urwid undoes it but for the case above. With the link lost the urwid dialog's Esc undoes nothing. `/sub CID N`
  blocks textual's keys until the ack.
- urwid's reply caption names the target even after a switch (4061). Replies to a
  channel left since, and urwid's plain lines to a paused one, are sent. An empty Enter
  ends textual's edit or reply.
- A DM that arrives off screen is not paged in on activation (`ui/textual_ui.py:2892`,
  comment at 4528); textual drops `medb` and `cpedb`; acks, edits and reactions of DMs
  look their row up under `to_call` (4721); own posts and replayed rows are counted
  unread; a late row older than the page leaves a hole in paging.

## 7. Not modelled, and what is left

Not modelled: widgets and rendering, search, the emoji and options windows, hams, roster
and avatars, the record types of `wps/messages.py`, schema migration, the tables of the
configuration other than connections, logging, help texts, zlib, base64 and JSON, the
sockets below a stream and RHP's JSON framing, garbage collection of unreferenced tasks
(`wps/client.py:1080`), `on_event` hooks that raise (the shipped ones do not), two rows
in the same millisecond, two DMs or reactions to DMs in the same second, a
`delivery_timeout_s` of None (no timer is made then) and a `keepalive_interval` of None (no
keep-alive task), the await at which a failed handshake closes its stream
(`wps/client.py:220`; one step in `WpsLink`), and `close()` during the first `open()` (the callers rule it
out). Each of these is either a function of its input with no state worth checking, or
outside the program.

Left: a composition of `Delivery` with `LinkContract`, so that its liveness no longer
assumes that the link comes back.
