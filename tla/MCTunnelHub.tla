---------------------------- MODULE MCTunnelHub ----------------------------
(* TunnelHub on small sets, for TLC. *)
EXTENDS TunnelHubInv, TLC

\* Connections are interchangeable.
ConnSymmetry == Permutations(Conn)

\* All but what CLIs have run and rejected: no guard reads it, and of the
\* properties only ImplementsRelay does.
ServerView == <<sessVars, writer, now, queryVars, chanVars, connVars, sock, toCli, fromCli, remVars>>

-----------------------------------------------------------------------------
(* What comments of the code say and a run of it need not do.  Given as the *)
(* property of this module's configuration, each has a counterexample.      *)

\* hub.go:103-104: RegisterConn fails for a token that is not in the hub.
RegisterOnlyKnown ==
    [][\A t \in Token : attached[t] = None /\ attached'[t] # None => t \in sessions]_vars

\* handler.go:120-121: after a disconnection a new token is needed.
DisconnectEndsSession ==
    [][\A t \in Token, c \in Conn :
         ctok[c] = t /\ cpc[c] \in {"cleared", "gone"} /\ attached[t] = None =>
             attached'[t] = None]_vars

\* hub.go:238 and 245: the sweeper removes only sessions without a CLI.
SweepSparesConnected ==
    [][\A t \in sessions \ sessions' : rpc["shutdown"] = "idle" => attached[t] = None]_vars

\* handler.go:22 and hub.go:140: every handler returns, with CLIs that may stop
\* reading for ever.  No write has a deadline, so one that blocks keeps sess.mu
\* (StallSpec as the SPECIFICATION, EveryQueryReturns as the property).
StallSpec == Spec /\ ServerFairness /\ TimerFairness
=============================================================================
