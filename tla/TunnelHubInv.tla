---------------------------- MODULE TunnelHubInv ----------------------------
(***************************************************************************)
(* The inductive invariant of TunnelHub: who owns a session and a response *)
(* channel at each point of the goroutines.                                *)
(***************************************************************************)
EXTENDS TunnelHub

\* r has deleted its session from the map and is not done with it.
Removing(r) == rpc[r] \in {"close", "range", "closing", "deleting"}

Unregistered == {"idle", "found"}

\* A session not created is unknown to everyone.
UncreatedUnknown ==
    \A t \in Token : createdAt[t] = 0 => t \notin sessions /\ attached[t] = None

\* A connection past its lookup, and a query past its own, have a session
\* that was created.
ConnHasSession ==
    \A c \in Conn : cpc[c] \notin {"idle", "rejected"} =>
        ctok[c] \in Token /\ createdAt[ctok[c]] # 0

QueryHasSession ==
    \A q \in Query : qpc[q] \notin {"idle", "done"} =>
        qtok[q] \in Token /\ createdAt[qtok[q]] # 0

\* A remover works on a session that has left the map, alone.
RemoverOwns ==
    /\ \A r \in Remover : Removing(r) =>
           rtok[r] \in Token \ sessions /\ createdAt[rtok[r]] # 0
    /\ \A r, s \in Remover : Removing(r) /\ Removing(s) /\ rtok[r] = rtok[s] => r = s

\* The entry a remover has loaded is one of its session; it is closed once
\* the remover has closed it and not before.
DrainOwns ==
    \A r \in Remover :
        /\ rpc[r] \in {"closing", "deleting"} =>
               /\ rkey[r] \in Query /\ qtok[rkey[r]] = rtok[r]
               /\ qpc[rkey[r]] \notin Unregistered
        /\ rpc[r] = "closing" => ~closed[rkey[r]]
        /\ rpc[r] = "deleting" => closed[rkey[r]]

\* A closed channel belongs to a removed session, and leaves its registry.
ClosedIsRemoved ==
    \A q \in Query : closed[q] =>
        /\ qtok[q] \in Token \ sessions /\ createdAt[qtok[q]] # 0
        /\ qpc[q] \notin Unregistered
        /\ q \in pending[qtok[q]] => \E r \in Remover : rpc[r] = "deleting" /\ rkey[r] = q

\* The response a read loop is delivering is for a query of its session.
HandOwns ==
    \A c \in Conn : cpc[c] = "delivering" =>
        /\ hand[c] \in Query /\ qtok[hand[c]] = ctok[c]
        /\ qpc[hand[c]] \notin Unregistered

\* WaitersReachable, from the registration on.
RegisteredReachable ==
    \A q \in Query :
        qpc[q] \in {"registered", "writing", "waiting"} /\ ~full[q] /\ ~closed[q] =>
            \/ q \in pending[qtok[q]]
            \/ \E c \in Conn : cpc[c] = "delivering" /\ hand[c] = q

\* The inductive invariant.
IInv ==
    /\ TypeOK
    /\ UncreatedUnknown /\ ConnHasSession /\ QueryHasSession
    /\ OneCliPerSession /\ PendingOnlyLive
    /\ RemoverOwns /\ DrainOwns /\ ClosedIsRemoved /\ NoDoubleClose
    /\ HandOwns /\ RegisteredReachable

\* The "ready" of a connection not yet attached is the first it has to read.
ReadyFirst ==
    \A c \in Conn : cpc[c] = "lookedUp" => fromCli[c] # <<>> /\ Head(fromCli[c]) = Ready

\* The session the sweeper has found stale is one that was created, and, if no
\* CLI has ever connected to it, its time is up; the sweep's time is past.
SweepJustified ==
    /\ sweepNow <= now
    /\ rpc["sweeper"] = "unmap" =>
           LET t == rtok["sweeper"] IN
           /\ t \in Token /\ createdAt[t] # 0
           /\ connectedAt[t] = 0 => now - createdAt[t] > PendingTTL
    /\ rpc["shutdown"] = "unmap" => rtok["shutdown"] \in Token

\* Query q has been written to a connection, or may have been.
Sent(q) == /\ qpc[q] \in {"waiting", "leaving", "done"}
           /\ result[q] \notin {"refused", "notConnected"}

Holds(s, x) == \E i \in 1..Len(s) : s[i] = x

\* The queries the CLI has taken up.
Handled == executed \cup errored

\* No query is on its way to a CLI twice, or after it has been taken up.
SentOnce ==
    /\ \A c, d \in Conn : \A i \in 1..Len(toCli[c]), j \in 1..Len(toCli[d]) :
           toCli[c][i] = toCli[d][j] => c = d /\ i = j
    /\ \A c \in Conn, q \in Query : Holds(toCli[c], q) => q \notin Handled

\* Where a query is on its way to the CLI and back, and what its caller may
\* have been told by then.
OnTheWay ==
    /\ \A q \in Query : result[q] # "none" <=> qpc[q] \in {"leaving", "done"}
    /\ \A c \in Conn, q \in Query : Holds(toCli[c], q) => Sent(q)
    /\ \A q \in Handled : Sent(q)
    /\ \A c \in Conn, q \in Query :
           Holds(fromCli[c], q) \/ (cpc[c] = "delivering" /\ hand[c] = q) => q \in Handled
    /\ \A q \in Query : full[q] \/ result[q] = "answered" => q \in Handled

RelayInv == OnTheWay /\ SentOnce
=============================================================================
