---------------------------- MODULE TunnelRelay ----------------------------
(***************************************************************************)
(* What the tunnel promises the callers of HandleQuery and HandleSchema    *)
(* (api/internal/tunnel/handler.go), with no hub, session or connection:   *)
(* the CLI runs a query at most once; a query answered with a result has   *)
(* been run; one answered with an error may have been, but is not run      *)
(* later; one refused with 404 or 503 "CLI is not connected" never is;     *)
(* after 503 "tunnel session closed" or 504 the caller knows nothing: the  *)
(* query may have run, or may still run.                                   *)
(***************************************************************************)
CONSTANT Query

VARIABLES phase,  \* per query: what its caller has been told
          ran     \* the queries the CLI has run

relayVars == <<phase, ran>>

Phase == {"idle", "open", "refused", "answered", "failed", "unknown"}

RelayInit == phase = [q \in Query |-> "idle"] /\ ran = {}

Open(q) == /\ phase[q] = "idle"
           /\ phase' = [phase EXCEPT ![q] = "open"]
           /\ UNCHANGED ran

Run(q) == /\ phase[q] \in {"open", "unknown"} /\ q \notin ran
          /\ ran' = ran \cup {q}
          /\ UNCHANGED phase

Refuse(q) == /\ phase[q] \in {"idle", "open"} /\ q \notin ran
             /\ phase' = [phase EXCEPT ![q] = "refused"]
             /\ UNCHANGED ran

Answer(q) == /\ phase[q] = "open" /\ q \in ran
             /\ phase' = [phase EXCEPT ![q] = "answered"]
             /\ UNCHANGED ran

Fail(q) == /\ phase[q] = "open"
           /\ phase' = [phase EXCEPT ![q] = "failed"]
           /\ UNCHANGED ran

GiveUp(q) == /\ phase[q] = "open"
             /\ phase' = [phase EXCEPT ![q] = "unknown"]
             /\ UNCHANGED ran

RelayNext == \E q \in Query : Open(q) \/ Run(q) \/ Refuse(q) \/ Answer(q)
                             \/ Fail(q) \/ GiveUp(q)

RelaySpec == RelayInit /\ [][RelayNext]_relayVars
=============================================================================
