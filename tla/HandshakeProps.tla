---------------------------- MODULE HandshakeProps ----------------------------
(***************************************************************************)
(* What Handshake is checked for.                                           *)
(***************************************************************************)
EXTENDS Handshake

(* The type of each variable. *)
HandshakeTypeOK ==
    /\ at \in {"start", "auth", "open", "hop", "ready", "read", "down"}
    /\ step \in 0 .. Len(Steps)
    /\ reply \in {"none", "pending", "ok", "err"}
    /\ reader \in {"none", "running", "ended"}
    /\ \A i \in 1 .. Len(inbox) : inbox[i] \in 0 .. MaxChunk
    /\ tcp \in BOOLEAN
    /\ \A i \in 1 .. Len(said) : said[i] \in {"V", "E", "r", "n", "f", "x"}
    /\ base <= seen /\ seen <= Len(said) /\ emitted <= seen
    /\ why \in {"none", "refused", "error", "eof", "given up", "garbage"}

(* However the text is cut, the user sees every letter at most once and in    *)
(* order (hop_script.py:93-94, 153-156): no line is repeated by the next step.*)
ShownOnce == \A i \in 1 .. Len(shown) - 1 : shown[i] < shown[i + 1]

(* Each step advances on an occurrence of its string that no step before it   *)
(* used up, and the next command goes out only then.                          *)
HopsAreAnswered ==
    /\ \A i \in 1 .. Len(met) : said[met[i]] = "V"
    /\ \A i \in 1 .. Len(met) - 1 : met[i] < met[i + 1]
    /\ Asked("record") => Len(met) = Len(Steps)

(* The three of them, which read() and the hops rely on.                      *)
HandshakeInv == HandshakeTypeOK /\ ShownOnce /\ HopsAreAnswered

(* However the bytes are cut, the frames are those between the CRs of what    *)
(* the server said since the record (codec.py:108-141).                       *)
FramesAreTheSplit ==
    at = "read" =>
        /\ frames = Ascending(Cuts(from, seen))
        /\ Cuts(base, seen) = {}

(* Whoever waits is told: a reply of the node, be it a refusal, ends the wait *)
(* of open(), and a connection that ends is noticed by the one who waits for  *)
(* text, with whatever came before it still handled first.                    *)
WaitersAreTold ==
    /\ (at = "open" /\ Answered) ~> at # "open"
    /\ (at \in {"hop", "read"} /\ reader = "ended") ~> at = "down"

=============================================================================
