---------------------------- MODULE ProfileProps ----------------------------
(* What a profile owes the user who wrote it.                              *)
EXTENDS Profile

\* Every variable has its type, and a stream that is opened has a port.
ProfileTypeOK ==
    /\ entry \in Entry /\ node \in {"bpq", "xrouter", "wps", "prompt"}
    /\ at \in {"written", "refused", "resolved", "opening", "script", "ready", "failed"}
    /\ profile.transport \in Transports /\ profile.engine \in Engines \union {Unset}
    /\ profile.port \in Nat /\ profile.radio \in Nat
    /\ at \in {"opening", "script", "ready"} => profile.port # None

\* resolve_engine_defaults: "Anything in user_supplied is treated as an explicit
\* user choice and is not overwritten", be it by the engine's defaults or by the
\* first hop; only the script is.
PinnedSurvives ==
    at \notin {"written", "refused"} =>
        /\ entry.port # None => profile.port = entry.port
        /\ entry.radio # None => profile.radio = entry.radio
        /\ entry.remote # Unset => profile.remote = entry.remote

\* A profile that is used is one the user could mean.
ProfileInv == ProfileTypeOK /\ PinnedSurvives

\* The forms the README and the tests give for an engine's script: one wait or
\* SWITCH at most, at the start, for what the node says unasked, and hops that
\* wait for their answer.
Hops(script, from) ==
    \A i \in from .. Len(script) : script[i].cmd = "C NODE" /\ script[i].val # "banner"
Documented ==
    LET s == entry.script IN
    /\ TransportOf(entry) \in Rhp
    /\ \/ /\ entry.engine = "bpq"
          /\ \/ Hops(s, 1)
             \/ s # <<>> /\ s[1].cmd = "" /\ s[1].val # "answer" /\ Hops(s, 2)
             \/ s # <<>> /\ s[1] = [cmd |-> "SWITCH", val |-> "banner"] /\ Hops(s, 2)
       \/ /\ entry.engine = "xrouter" /\ entry.remote = Unset
          /\ \/ s = <<>>
             \/ s # <<>> /\ s[1].cmd \in {"NODE", ""} /\ s[1].val # "banner" /\ Hops(s, 2)

\* No hop is taken for answered by the banner or by another's answer.
AnswersAreOwn == Documented => ~early

\* A script never waits for what nobody will say.
ScriptGetsThrough ==
    Documented /\ at = "script" => Matches \/ Errs \/ answered < Len(sent)
=============================================================================
