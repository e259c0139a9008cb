---------------------------- MODULE LinkContract ----------------------------
(***************************************************************************)
(* What a WpsClient promises the user interface about its link: the order  *)
(* in which the synthetic events of src/whatspyc/wps/client.py may reach    *)
(* on_event, and when is_connected may be true.  No stream, task or lock    *)
(* appears here; WpsLink is shown to implement it.                          *)
(***************************************************************************)
EXTENDS Naturals

CONSTANTS
    AutoReconnect,  \* auto_reconnect
    MaxRetries,     \* reconnect_max_retries, 0 = for ever
    AttemptBound    \* bound: attempts are not counted further

VARIABLES
    phase,   \* what the events say of the link
    usable,  \* is_connected
    tries,   \* attempts made in the current outage
    hung     \* the silence guard has hung up

cvars == <<phase, usable, tries, hung>>

Phases == {"offline", "up", "lost", "retrying", "gaveup", "closed"}

Init ==
    /\ phase = "offline"
    /\ usable = FALSE
    /\ tries = 0
    /\ hung = FALSE

\* open() returns.
Opens ==
    /\ phase = "offline"
    /\ phase' = "up"
    /\ usable' = TRUE
    /\ UNCHANGED <<tries, hung>>

\* The client notices the loss before it reports it.
Fades ==
    /\ phase = "up" /\ usable
    /\ usable' = FALSE
    /\ UNCHANGED <<phase, tries, hung>>

\* _disconnect: once per connection, and only when sends already fail.
Reports ==
    /\ phase = "up" /\ ~usable
    /\ phase' = "lost"
    /\ UNCHANGED <<usable, tries, hung>>

\* _reconnecting: never after a hang-up, never beyond the retry cap, and
\* numbered from 1 without gaps in every outage.
Retries ==
    /\ AutoReconnect /\ ~hung
    /\ \/ phase = "lost" /\ tries' = 1
       \/ /\ phase = "retrying"
          /\ MaxRetries = 0 \/ tries < MaxRetries
          /\ tries' = IF tries < AttemptBound THEN tries + 1 ELSE tries
    /\ phase' = "retrying"
    /\ UNCHANGED <<usable, hung>>

\* _reconnected
Recovers ==
    /\ phase = "retrying"
    /\ phase' = "up"
    /\ usable' = TRUE
    /\ UNCHANGED <<tries, hung>>

\* _reconnect_giveup, after exactly the configured number of attempts.
GivesUp ==
    /\ phase = "retrying"
    /\ MaxRetries > 0 /\ tries = MaxRetries
    /\ phase' = "gaveup"
    /\ UNCHANGED <<usable, tries, hung>>

\* _silence_disconnect, on a link that is up.
HangsUp ==
    /\ phase = "up" /\ usable /\ ~hung
    /\ hung' = TRUE
    /\ UNCHANGED <<phase, usable, tries>>

\* close()
Shuts ==
    /\ phase # "closed"
    /\ phase' = "closed"
    /\ usable' = FALSE
    /\ UNCHANGED <<tries, hung>>

Next ==
    \/ Opens \/ Fades \/ Reports \/ Retries \/ Recovers \/ GivesUp
    \/ HangsUp \/ Shuts

Spec == Init /\ [][Next]_cvars
=============================================================================
