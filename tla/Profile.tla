------------------------------- MODULE Profile -------------------------------
(***************************************************************************)
(* A connect profile (config.py, cli.py) from what the user wrote, in the  *)
(* file or as flags, to the end of its connect script: the engine's        *)
(* defaults, the stream, and the script against a node that greets and     *)
(* answers (wps/hop_script.py; Handshake has its bytes).                   *)
(*                                                                         *)
(* Of strings the model keeps what the code asks of them.  A command is "" *)
(* (wait only), "SWITCH", "NODE" (a bare callsign) or "C NODE" (it has a   *)
(* blank); a step waits for BPQ's banner, for the answer to a connect, or  *)
(* for "Connected", which is in both.                                      *)
(***************************************************************************)
EXTENDS Naturals, Sequences

CONSTANTS
    MaxScript, \* bound: steps of the user's script
    Pins       \* what a user may pin as port and as radio_port

None == 0
Unset == ""
ASSUME ProfileAssumption == MaxScript \in Nat /\ Pins \subseteq Nat \ {None}

Rhp == {"rhp-ws", "rhp-tcp"}
Transports == Rhp \union {"direct-tcp", "other"}
Engines == {"xrouter", "bpq", "custom"}
Commands == {"", "SWITCH", "NODE", "C NODE"}
Step == [cmd : Commands, val : {"banner", "connected", "answer"}]
Scripts == UNION {[1 .. n -> Step] : n \in 0 .. MaxScript}

\* What the user wrote; Unset, None and <<>> where it is nothing.
Entry == [by : {"file", "flags"}, transport : Transports \union {Unset},
          engine : Engines \union {Unset, "other"},
          port : Pins \union {None}, radio : Pins \union {None},
          remote : {Unset, "GB7XYZ"}, script : Scripts]

VARIABLES
    entry,    \* what the user wrote
    profile,  \* what became of it
    at,       \* "written", "refused", "resolved", "opening", "script", "ready", "failed"
    node,     \* what is at the other end
    hop,      \* the step under way
    sent,     \* the commands sent
    answered, \* how many of them the node has answered
    said,     \* what it said and no step consumed: the text, and the command it answers
    early     \* history: a command's step was ended by what answers another

scriptVars == <<hop, sent, answered, said, early>>
profileVars == <<entry, profile, at, node, scriptVars>>

-----------------------------------------------------------------------------
(* The engine's defaults *)

DefaultPort(engine, transport) ==
    CASE transport = "rhp-tcp" -> 9000
      [] transport = "rhp-ws" /\ engine = "xrouter" -> 8086
      [] transport = "rhp-ws" /\ engine = "bpq" -> 8008
      [] transport = "direct-tcp" -> 63001
      [] OTHER -> None

WaitsOnly(script) == script # <<>> /\ script[1].cmd = ""
Quietly(script) == [script EXCEPT ![1].cmd = ""]

\* The first command is the station to open and is not sent.
FirstHopIsRemote(e) ==
    e.engine = "xrouter" /\ e.remote = Unset /\ e.script # <<>> /\ ~WaitsOnly(e.script)

\* Seeded fault: it is sent as well.
NormalizeXrouterFirstHop_Kept(script) == script

NormalizeXrouterFirstHop(script) == Quietly(script)

Preamble == [cmd |-> "", val |-> "banner"]

\* Seeded fault: the preamble is put before a step that waits for the banner.
NormalizeBpqPreamble_Twice(script) ==
    IF script # <<>> /\ script[1] = [cmd |-> "SWITCH", val |-> "banner"] THEN Quietly(script)
    ELSE <<Preamble>> \o script

\* BPQ's banner is waited for, unless the user's first step does.
NormalizeBpqPreamble(script) ==
    CASE WaitsOnly(script) -> script
      [] script # <<>> /\ ~WaitsOnly(script) /\ script[1].val = "banner" ->
            IF script[1].cmd = "SWITCH" THEN Quietly(script) ELSE script
      [] OTHER -> <<Preamble>> \o script

TransportOf(e) == IF e.transport = Unset THEN "rhp-ws" ELSE e.transport

\* ValueError, at the start of the program.
Refused(e) ==
    \/ e.by = "flags" /\ e.transport = Unset
    \/ TransportOf(e) \in Rhp /\ e.engine = Unset
    \/ e.engine \notin Engines \union {Unset}
    \/ FirstHopIsRemote(e) /\ e.script[1].cmd = "C NODE"

RemoteOf(e) ==
    CASE e.remote # Unset -> e.remote
      [] FirstHopIsRemote(e) -> e.script[1].cmd
      [] e.engine = "bpq" /\ e.remote = Unset -> "SWITCH"
      [] OTHER -> "WPS"

ScriptOf(e) ==
    CASE e.engine = "bpq" -> NormalizeBpqPreamble(e.script)
      [] FirstHopIsRemote(e) -> NormalizeXrouterFirstHop(e.script)
      [] OTHER -> e.script

\* The user's value, or the engine's.
Pinned(value, default) == IF value = None THEN default ELSE value

\* Seeded fault: the engine's port overrides the user's.
ResolveEngineDefaults_Port(e) ==
    [transport |-> TransportOf(e), engine |-> e.engine,
     port |-> Pinned(DefaultPort(e.engine, TransportOf(e)), e.port),
     radio |-> Pinned(e.radio, IF e.engine \in {"xrouter", "bpq"} THEN 1 ELSE None),
     remote |-> RemoteOf(e), script |-> ScriptOf(e)]

ResolveEngineDefaults(e) ==
    [transport |-> TransportOf(e), engine |-> e.engine,
     port |-> Pinned(e.port, DefaultPort(e.engine, TransportOf(e))),
     radio |-> Pinned(e.radio, IF e.engine \in {"xrouter", "bpq"} THEN 1 ELSE None),
     remote |-> RemoteOf(e), script |-> ScriptOf(e)]

\* The file is parsed, or the flags are.
ParseProfile ==
    /\ at = "written"
    /\ at' = IF Refused(entry) THEN "refused" ELSE "resolved"
    /\ profile' = IF Refused(entry) THEN profile ELSE ResolveEngineDefaults(entry)
    /\ UNCHANGED <<entry, node, scriptVars>>

-----------------------------------------------------------------------------
(* The connection *)

Buildable == profile.transport # "other" /\ profile.port # None

\* A UsageError is an attempt to connect that failed.
BuildStreamFor ==
    /\ at = "resolved"
    /\ at' = IF Buildable THEN "opening" ELSE "failed"
    /\ UNCHANGED <<entry, profile, node, scriptVars>>

\* The node that the profile leads to, which may be WPS itself.
Nodes(e) ==
    CASE TransportOf(e) = "direct-tcp" -> {"wps", "prompt"}
      [] TransportOf(e) # "direct-tcp" /\ e.engine \in {"bpq", "xrouter"} -> {e.engine}
      [] OTHER -> {"bpq", "xrouter"}

\* What it says unasked; WPS says nothing.
Greeting ==
    CASE node = "bpq" -> "banner" [] node = "xrouter" -> "answer" [] OTHER -> "welcome"

Contains(text, val) ==
    val \in CASE text = "banner" -> {"banner", "connected"}
              [] text = "answer" -> {"answer", "connected"}
              [] OTHER -> {}
ErrorTerms == {"answer", "failure"}

\* The step n begins; there may be none.
Begins(n) ==
    LET steps == profile.script IN
    /\ hop' = n
    /\ at' = IF n > Len(steps) THEN "ready" ELSE "script"
    /\ sent' = IF n <= Len(steps) /\ steps[n].cmd # ""
               THEN Append(sent, steps[n].cmd) ELSE sent

Opens ==
    /\ at = "opening"
    /\ said' = IF node = "wps" THEN <<>> ELSE <<[text |-> Greeting, to |-> 0]>>
    /\ Begins(1)
    /\ UNCHANGED <<entry, profile, node, answered, early>>

LinkRefused ==
    /\ at = "opening" /\ at' = "failed"
    /\ UNCHANGED <<entry, profile, node, scriptVars>>

\* The node answers the next command: it connects or fails; SWITCH it does not
\* know, and WPS says nothing.
Answers ==
    /\ at = "script" /\ answered < Len(sent)
    /\ answered' = answered + 1
    /\ \E text \in IF sent[answered'] = "SWITCH" THEN {"invalid"} ELSE {"answer", "failure"} :
          said' = IF node = "wps" THEN said ELSE Append(said, [text |-> text, to |-> answered'])
    /\ UNCHANGED <<entry, profile, at, node, hop, sent, early>>

Match(i) == Contains(said[i].text, profile.script[hop].val)
Matches == \E i \in DOMAIN said : Match(i)
Errs == \E i \in DOMAIN said : said[i].text \in ErrorTerms

\* The first text that has what the step waits for ends it.
Matched ==
    /\ at = "script"
    /\ \E i \in DOMAIN said :
          /\ Match(i) /\ \A j \in 1 .. i - 1 : ~Match(j)
          /\ said' = SubSeq(said, i + 1, Len(said))
          /\ early' = (early \/ (profile.script[hop].cmd # "" /\ said[i].to # Len(sent)))
    /\ Begins(hop + 1)
    /\ UNCHANGED <<entry, profile, node, answered>>

HopFails ==
    /\ at = "script" /\ ~Matches /\ Errs
    /\ at' = "failed"
    /\ UNCHANGED <<entry, profile, node, scriptVars>>

-----------------------------------------------------------------------------
ProfileInit ==
    /\ entry \in Entry
    /\ profile = [transport |-> "rhp-ws", engine |-> Unset, port |-> None, radio |-> None,
                  remote |-> "WPS", script |-> <<>>]
    /\ at = "written" /\ node \in Nodes(entry)
    /\ hop = 0 /\ sent = <<>> /\ answered = 0 /\ said = <<>> /\ early = FALSE

ProfileNext ==
    \/ ParseProfile \/ BuildStreamFor \/ Opens \/ LinkRefused
    \/ Answers \/ Matched \/ HopFails

ProfileSpec == ProfileInit /\ [][ProfileNext]_profileVars
=============================================================================
