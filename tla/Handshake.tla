------------------------------- MODULE Handshake -------------------------------
(***************************************************************************)
(* One connection through a node, from open() to the first frames:          *)
(* RhpSession (src/whatspyc/transport/rhp_session.py) under                 *)
(* run_connect_script (wps/hop_script.py) and FrameDecoder (wps/codec.py),  *)
(* as WpsClient._handshake and _reader_loop drive them.                     *)
(*                                                                          *)
(* What the far end says is one text, cut into messages anywhere.  A letter *)
(* of it is one of: "V", the string a step waits for; "E", an error term;   *)
(* "r" and "n", CR and LF; "f", part of a frame; "x", anything else.  A     *)
(* buffer is a part of the text: the letters after one position and up to   *)
(* another.  All steps wait for the same string, the usual case.            *)
(***************************************************************************)
EXTENDS Ordering, Sequences, FiniteSetsExt

CONSTANTS
    Steps,    \* the connect script: "cmd" or "wait" (no command, nothing shown)
    MaxText,  \* bound: letters said
    MaxChunk, \* bound: letters in a message
    MaxQueue  \* bound: messages under way or in the inbox when one more is sent

ASSUME HandshakeAssumption ==
    /\ Steps \in Seq({"cmd", "wait"})
    /\ MaxText \in Nat /\ {MaxChunk, MaxQueue} \subseteq Nat \ {0}

VARIABLES
    at,      \* where the client stands: "start", "auth", "open", "hop", "ready" (about
             \* to send the record), "read", "down" (closed or failed)
    step,    \* the connect script's step under way
    reply,   \* _open_reply: "none", "pending", "ok", "err"
    reader,  \* _reader_task of the session: "none", "running", "ended"
    inbox,   \* lengths of the chunks in _inbox; 0 is None or empty, the end
    wire,    \* messages under way to us: "authOk", "authErr", "ok", "err", "close",
             \* "note" (status, sendReply), "recv" with the length of its data
    tcp,     \* the connection to the node is up
    said,    \* the text
    base,    \* the buffer is what follows base
    seen,    \* and was taken from the inbox so far
    emitted, \* the part of it that was shown
    shown,   \* history: the positions shown to the user, in order
    met,     \* history: where each step's string was found
    from,    \* where the text after the record begins
    frames,  \* history: the frames decoded, by their ends
    asked,   \* history: what the far end was sent: "auth", "open", "cmd", "record"
    why      \* history: how it ended

scriptVars  == <<step, base, seen, emitted, shown, met>>
sessionVars == <<reply, reader, inbox>>
nodeVars    == <<wire, tcp, said>>
frameVars   == <<from, frames>>
handshakeVars == <<at, scriptVars, sessionVars, nodeVars, frameVars, asked, why>>

Plain(t) == [t |-> t, n |-> 0]
Breaks == {"r", "n"}
Where(S, a, b) == {p \in a + 1 .. b : said[p] \in S}
Visible(a, b) == Ascending({p \in a + 1 .. b : said[p] \notin Breaks})

HandshakeInit ==
    /\ at = "start" /\ step = 0
    /\ reply = "none" /\ reader = "none" /\ inbox = <<>>
    /\ wire = <<>> /\ tcp = TRUE /\ said = <<>>
    /\ base = 0 /\ seen = 0 /\ emitted = 0
    /\ shown = <<>> /\ met = <<>> /\ from = 0 /\ frames = <<>> /\ asked = <<>> /\ why = "none"

----------------------------------------------------------------------------
(* RhpSession.open, close, recv and the session's reader.                   *)

\* A login is only sent when one is configured.
Open ==
    /\ at = "start"
    /\ \/ at' = "auth" /\ asked' = <<"auth">> /\ UNCHANGED <<reply, reader>>
       \/ at' = "open" /\ asked' = <<"open">> /\ reply' = "pending" /\ reader' = "running"
    /\ UNCHANGED <<scriptVars, inbox, nodeVars, frameVars, why>>

\* The close of a half-open or open stream: the session's reader is cancelled.
Shut(reason) ==
    /\ at' = "down"
    /\ why' = reason
    /\ reader' = IF reader = "running" THEN "ended" ELSE reader
    /\ tcp' = FALSE
    /\ wire' = <<>>

\* The answer to the login is received by open() itself.
AuthAnswered ==
    /\ at = "auth"
    /\ \/ /\ wire # <<>> /\ Head(wire).t = "authOk"
          /\ at' = "open" /\ reply' = "pending" /\ reader' = "running"
          /\ wire' = Tail(wire) /\ asked' = Append(asked, "open")
          /\ UNCHANGED <<tcp, why>>
       \/ /\ \/ wire # <<>> /\ Head(wire).t = "authErr"
             \/ wire = <<>> /\ ~tcp
          /\ Shut("refused")
          /\ UNCHANGED <<reply, asked>>
    /\ UNCHANGED <<scriptVars, inbox, said, frameVars>>

\* Seeded fault: a lost connection ends the reader without a word.
ReaderLoses_Silent ==
    /\ reader = "running" /\ wire = <<>> /\ ~tcp
    /\ reader' = "ended"
    /\ UNCHANGED <<at, scriptVars, reply, inbox, nodeVars, frameVars, asked, why>>
\* recv_message raises.
ReaderLoses ==
    /\ reader = "running" /\ wire = <<>> /\ ~tcp
    /\ reader' = "ended"
    /\ inbox' = Append(inbox, 0)
    /\ UNCHANGED <<at, scriptVars, reply, nodeVars, frameVars, asked, why>>

\* The reader task (RhpSession._reader_loop): a message from the node.
ReaderTakes ==
    /\ reader = "running" /\ wire # <<>>
    /\ wire' = Tail(wire)
    /\ LET m == Head(wire).t IN
       \/ /\ m \in {"ok", "err"}
          /\ reply' = IF reply = "pending" THEN m ELSE reply
          /\ UNCHANGED <<inbox, reader>>
       \/ m = "note" /\ UNCHANGED sessionVars
       \/ m = "close" /\ inbox' = Append(inbox, 0) /\ reader' = "ended" /\ UNCHANGED reply
       \/ m = "recv" /\ inbox' = Append(inbox, Head(wire).n) /\ UNCHANGED <<reply, reader>>
    /\ UNCHANGED <<at, scriptVars, tcp, said, frameVars, asked, why>>

\* open() gets its reply: refused, or the connect script begins.
OpenReplied ==
    /\ at = "open"
    /\ \/ /\ reply = "ok"
          /\ at' = IF Steps = <<>> THEN "ready" ELSE "hop"
          /\ step' = IF Steps = <<>> THEN 0 ELSE 1
          /\ asked' = IF Steps # <<>> /\ Steps[1] = "cmd" THEN Append(asked, "cmd") ELSE asked
          /\ UNCHANGED <<reader, tcp, wire, why>>
       \/ reply = "err" /\ Shut("refused") /\ UNCHANGED <<asked, step>>
    /\ UNCHANGED <<base, seen, emitted, shown, met, reply, inbox, said, frameVars>>

----------------------------------------------------------------------------
(* run_connect_script and _await_match.                                     *)

Showing == Steps[step] = "cmd"   \* wait-only steps show nothing
Matches == at = "hop" /\ Where({"V"}, base, seen) # {}
Failed  == at = "hop" /\ ~Matches /\ Where({"E"}, base, seen) # {}

\* The match and, where text is shown, the rest of its line as far as it is there.
Consumed(match) ==
    LET breaks == Where(Breaks, match, seen)
    IN IF Showing /\ breaks # {} THEN Min(breaks) ELSE match

\* Seeded fault: lines shown while the string was awaited are shown again.
Matched_ShowsAgain ==
    /\ Matches
    /\ LET match == Min(Where({"V"}, base, seen)) IN
       /\ met' = Append(met, match)
       /\ shown' = IF Showing THEN shown \o Visible(base, Consumed(match)) ELSE shown
       /\ base' = Consumed(match) /\ emitted' = base'
    /\ IF step < Len(Steps)
       THEN /\ step' = step + 1
            /\ asked' = IF Steps[step + 1] = "cmd" THEN Append(asked, "cmd") ELSE asked
            /\ UNCHANGED at
       ELSE at' = "ready" /\ UNCHANGED <<step, asked>>
    /\ UNCHANGED <<seen, sessionVars, nodeVars, frameVars, why>>
\* The string is in the buffer: the next step, with its command, or the end.
Matched ==
    /\ Matches
    /\ LET match == Min(Where({"V"}, base, seen)) IN
       /\ met' = Append(met, match)
       /\ shown' = IF Showing THEN shown \o Visible(emitted, Consumed(match)) ELSE shown
       /\ base' = Consumed(match) /\ emitted' = base'
    /\ IF step < Len(Steps)
       THEN /\ step' = step + 1
            /\ asked' = IF Steps[step + 1] = "cmd" THEN Append(asked, "cmd") ELSE asked
            /\ UNCHANGED at
       ELSE at' = "ready" /\ UNCHANGED <<step, asked>>
    /\ UNCHANGED <<seen, sessionVars, nodeVars, frameVars, why>>

ErrorTerm ==
    /\ Failed
    /\ Shut("error")
    /\ UNCHANGED <<scriptVars, reply, inbox, said, frameVars, asked>>

\* Lines that are complete are shown, then the next chunk is taken.
TakesChunk ==
    /\ at = "hop" /\ ~Matches /\ ~Failed
    /\ LET lines == IF Showing THEN Where(Breaks, emitted, seen) ELSE {} IN
       /\ emitted' = Max({emitted} \union lines)
       /\ shown' = shown \o Visible(emitted, emitted')
    /\ inbox # <<>>
    /\ inbox' = Tail(inbox)
    /\ IF Head(inbox) = 0
       THEN Shut("eof") /\ UNCHANGED seen
       ELSE seen' = seen + Head(inbox) /\ UNCHANGED <<at, why, reader, tcp, wire>>
    /\ UNCHANGED <<step, base, met, reply, said, frameVars, asked>>

\* A step's timeout, or the caller cancels.
GivesUp ==
    /\ at \in {"auth", "open", "hop", "read"}
    /\ Shut("given up")
    /\ UNCHANGED <<scriptVars, reply, inbox, said, frameVars, asked>>

----------------------------------------------------------------------------
(* The record, then _reader_loop and FrameDecoder.                          *)

\* What the script did not consume is dropped with its buffer.
SendsRecord ==
    /\ at = "ready"
    /\ at' = "read"
    /\ asked' = Append(asked, "record")
    /\ base' = seen /\ from' = seen
    /\ UNCHANGED <<step, seen, emitted, shown, met, sessionVars, nodeVars, frames, why>>

\* The ends of the frames in the text from one position to another; _split_one
\* cuts at each CR, strip() removes what is blank.
Blank(a, b) == \A p \in a + 1 .. b : said[p] \in Breaks
Start(a, cr) == Max({a} \union Where({"r"}, a, cr - 1))
Cuts(a, b) == {cr \in Where({"r"}, a, b) : ~Blank(Start(a, cr), cr)}
Sound(a, cr) == \A p \in Start(a, cr) + 1 .. cr : said[p] \in {"f"} \union Breaks

\* Seeded fault: what follows the last CR is not kept for the next chunk.
Decodes_DropsRest ==
    /\ at = "read" /\ inbox # <<>> /\ Head(inbox) # 0
    /\ inbox' = Tail(inbox)
    /\ seen' = seen + Head(inbox)
    /\ IF \A cr \in Cuts(base, seen') : Sound(base, cr)
       THEN /\ frames' = frames \o Ascending(Cuts(base, seen'))
            /\ base' = seen'
            /\ UNCHANGED <<at, why, reader, tcp, wire>>
       ELSE Shut("garbage") /\ UNCHANGED <<frames, base>>
    /\ UNCHANGED <<step, emitted, shown, met, reply, said, from, asked>>
\* All the frames a chunk completes are decoded before one is dispatched: one
\* that is no frame loses those before it.
Decodes ==
    /\ at = "read" /\ inbox # <<>> /\ Head(inbox) # 0
    /\ inbox' = Tail(inbox)
    /\ seen' = seen + Head(inbox)
    /\ IF \A cr \in Cuts(base, seen') : Sound(base, cr)
       THEN /\ frames' = frames \o Ascending(Cuts(base, seen'))
            /\ base' = Max({base} \union Where({"r"}, base, seen'))
            /\ UNCHANGED <<at, why, reader, tcp, wire>>
       ELSE Shut("garbage") /\ UNCHANGED <<frames, base>>
    /\ UNCHANGED <<step, emitted, shown, met, reply, said, from, asked>>

ReadsEnd ==
    /\ at = "read" /\ inbox # <<>> /\ Head(inbox) = 0
    /\ inbox' = Tail(inbox)
    /\ Shut("eof")
    /\ UNCHANGED <<scriptVars, reply, said, frameVars, asked>>

----------------------------------------------------------------------------
(* The node and what is behind it (not part of the repository).             *)

Asked(what) == \E i \in 1 .. Len(asked) : asked[i] = what
Was(m) == reply = m \/ \E i \in 1 .. Len(wire) : wire[i].t = m
Answered == Was("ok") \/ Was("err")
NodeSends(m) ==
    /\ tcp /\ Len(wire) + Len(inbox) < MaxQueue /\ wire' = Append(wire, m)
    /\ UNCHANGED <<at, scriptVars, sessionVars, tcp, frameVars, asked, why>>
Closing == \E i \in 1 .. Len(wire) : wire[i].t = "close"

NodeReplies ==
    /\ \/ at = "auth" /\ wire = <<>> /\ \E m \in {"authOk", "authErr"} : NodeSends(Plain(m))
       \/ /\ reader = "running" /\ reply = "pending" /\ ~Answered /\ ~Closing
          /\ \E m \in {"ok", "err"} : NodeSends(Plain(m))
       \/ /\ reply \in {"pending", "ok"} /\ ~Closing /\ wire = <<>>
          /\ reader = "running"
          /\ \E m \in {"note", "close"} : NodeSends(Plain(m))
    /\ UNCHANGED said

\* Text comes once the socket is open: prompts at first, frames after the record.
Speaks ==
    /\ Was("ok") /\ ~Closing /\ reader = "running"
    /\ \E n \in 0 .. MaxChunk :
       \E text \in [1 .. n -> IF Asked("record") THEN {"f", "r", "n", "x"}
                              ELSE {"E", "V", "x", "r"}] :
          /\ Len(said) + n <= MaxText
          /\ said' = said \o text
          /\ NodeSends([t |-> "recv", n |-> n])

NodeVanishes ==
    /\ tcp /\ at \notin {"start", "down"}
    /\ tcp' = FALSE
    /\ UNCHANGED <<at, scriptVars, sessionVars, wire, said, frameVars, asked, why>>

----------------------------------------------------------------------------
Script    == Matched \/ ErrorTerm \/ TakesChunk
Client    == Open \/ AuthAnswered \/ OpenReplied \/ Script \/ SendsRecord \/ Decodes \/ ReadsEnd
Reader    == ReaderTakes \/ ReaderLoses
HandshakeNext == Client \/ Reader \/ GivesUp \/ NodeReplies \/ Speaks \/ NodeVanishes

\* The event loop runs both coroutines, the caller's and the session's reader;
\* the node, and the one who gives up, owe nothing.
HandshakeSpec == HandshakeInit /\ [][HandshakeNext]_handshakeVars
HandshakeFairSpec == HandshakeSpec /\ WF_handshakeVars(Client) /\ WF_handshakeVars(Reader)
=============================================================================
