----------------------------- MODULE TunnelHub -----------------------------
(***************************************************************************)
(* The tunnel hub of the API server (api/internal/tunnel): sessions keyed  *)
(* by token, one WebSocket handler per CLI connection, one HTTP handler    *)
(* per query, the background sweeper and the hub's Shutdown.  A handler's  *)
(* goroutine is a program counter; a step is one critical section of       *)
(* hub.mu or sess.mu, or one operation of sync.Map or of a channel.        *)
(*                                                                         *)
(* A token is never issued twice, so it also names its session object; a   *)
(* request id is never issued twice, so it names its handler and channel.  *)
(***************************************************************************)
EXTENDS Integers, Sequences, FiniteSets

CONSTANTS Token,            \* tokens, i.e. session objects
          Conn,             \* WebSocket connections, one handler each
          Query,            \* request ids, one HTTP handler each
          None,             \* nil
          Ready,            \* the CLI's "ready" message
          PendingTTL,       \* ticks a never-connected session is kept
          DisconnectedTTL,  \* ticks a disconnected session is kept
          SocketBuf,        \* messages a connection holds before a write blocks
          MaxNow            \* bound of the clock

\* None and Ready are neither ids nor connections; times are ticks after 0.
ASSUME TunnelAssumption ==
    /\ None \notin Token \cup Conn \cup Query \cup {Ready}
    /\ Ready \notin Query
    /\ PendingTTL \in Nat /\ DisconnectedTTL \in Nat
    /\ SocketBuf \in Nat \ {0} /\ MaxNow \in Nat \ {0}

VARIABLES
    sessions,     \* hub.sessions: the tokens in the map
    createdAt,    \* per token; 0: not created
    connectedAt,  \* per token; 0: the zero time
    attached,     \* sess.Conn
    dialect,      \* sess.Dialect, as the connection whose "ready" set it
    writer,       \* the query whose WriteJSON holds sess.mu
    pending,      \* keys of sess.pendingQueries
    now,          \* the wall clock, in cleanup intervals
    qpc, qtok, result,          \* HTTP query handlers
    full, closed,               \* response channel: buffered value, closed
    cpc, ctok, hand,            \* WebSocket handlers; response being delivered
    sock, toCli, fromCli,       \* the connections: state and bytes in flight
    executed,                   \* queries the CLI has run on its database
    errored,                    \* queries it has answered with an "error"
    rpc, rtok, rkey, todo, must, sweepNow \* the two callers of RemoveSession

sessVars  == <<sessions, createdAt, connectedAt, attached, dialect, pending>>
queryVars == <<qpc, qtok, result>>
chanVars  == <<full, closed>>
connVars  == <<cpc, ctok, hand>>
wireVars  == <<sock, toCli, fromCli, executed, errored>>
remVars   == <<rpc, rtok, rkey, todo, must, sweepNow>>
vars == <<sessVars, writer, now, queryVars, chanVars, connVars, wireVars, remVars>>

Remover == {"sweeper", "shutdown"}

\* The handler is in its read loop, or has not cleaned up after it.
Reading == {"reading", "delivering", "readDone"}

QueryPC == {"idle", "found", "registered", "writing", "waiting", "leaving", "done"}
Result  == {"none", "refused", "notConnected", "answered", "closed", "timeout"}
ConnPC  == {"idle", "lookedUp", "reading", "delivering", "readDone",
            "cleared", "gone", "rejected", "panicked"}
RemPC   == {"idle", "scan", "unmap", "close", "range", "closing", "deleting",
            "stopped", "crashed"}

Init ==
    /\ sessions = {} /\ now = 1
    /\ createdAt = [t \in Token |-> 0]
    /\ connectedAt = [t \in Token |-> 0]
    /\ attached = [t \in Token |-> None]
    /\ dialect = [t \in Token |-> None]
    /\ writer = [t \in Token |-> None]
    /\ pending = [t \in Token |-> {}]
    /\ qpc = [q \in Query |-> "idle"]
    /\ qtok = [q \in Query |-> None]
    /\ result = [q \in Query |-> "none"]
    /\ full = [q \in Query |-> FALSE]
    /\ closed = [q \in Query |-> FALSE]
    /\ cpc = [c \in Conn |-> "idle"]
    /\ ctok = [c \in Conn |-> None]
    /\ hand = [c \in Conn |-> None]
    /\ sock = [c \in Conn |-> "none"]
    /\ toCli = [c \in Conn |-> <<>>]
    /\ fromCli = [c \in Conn |-> <<>>]
    /\ executed = {} /\ errored = {}
    /\ rpc = [r \in Remover |-> "idle"]
    /\ rtok = [r \in Remover |-> None]
    /\ rkey = [r \in Remover |-> None]
    /\ todo = [r \in Remover |-> {}]
    /\ must = [r \in Remover |-> {}]
    /\ sweepNow = 1

-----------------------------------------------------------------------------
\* Time and sessions.

Tick == /\ now < MaxNow
        /\ now' = now + 1
        /\ UNCHANGED <<sessVars, writer, queryVars, chanVars, connVars, wireVars, remVars>>

CreateToken(t) ==
    /\ createdAt[t] = 0
    /\ createdAt' = [createdAt EXCEPT ![t] = now]
    /\ sessions' = sessions \cup {t}
    /\ UNCHANGED <<connectedAt, attached, dialect, pending, writer, now,
                   queryVars, chanVars, connVars, wireVars, remVars>>

-----------------------------------------------------------------------------
\* HandleWebSocket: one action per critical section.

\* GetSession, the upgrade and RegisterConn's read of the map.  The CLI may
\* send "ready" as soon as the connection is upgraded.
WsLookup(c, t) ==
    /\ cpc[c] = "idle"
    /\ ctok' = [ctok EXCEPT ![c] = t]
    /\ IF t \in sessions
       THEN /\ cpc' = [cpc EXCEPT ![c] = "lookedUp"]
            /\ sock' = [sock EXCEPT ![c] = "up"]
            /\ fromCli' = [fromCli EXCEPT ![c] = <<Ready>>]
       ELSE /\ cpc' = [cpc EXCEPT ![c] = "rejected"]
            /\ UNCHANGED <<sock, fromCli>>
    /\ UNCHANGED <<sessVars, writer, now, queryVars, chanVars, hand, toCli, executed, errored, remVars>>

\* Mutant: RegisterConn does not look at sess.Conn.
NeverConnected(t) == FALSE

AlreadyConnected(t) == attached[t] # None

\* RegisterConn's second critical section.
WsAttach(c) ==
    LET t == ctok[c] IN
    /\ cpc[c] = "lookedUp"
    /\ writer[t] = None
    /\ IF AlreadyConnected(t)
       THEN /\ cpc' = [cpc EXCEPT ![c] = "rejected"]
            /\ sock' = [sock EXCEPT ![c] = "down"]
            /\ UNCHANGED <<attached, connectedAt>>
       ELSE /\ attached' = [attached EXCEPT ![t] = c]
            /\ connectedAt' = [connectedAt EXCEPT ![t] = now]
            /\ cpc' = [cpc EXCEPT ![c] = "reading"]
            /\ UNCHANGED sock
    /\ UNCHANGED <<sessions, createdAt, dialect, pending, writer, now,
                   queryVars, chanVars, ctok, hand, toCli, fromCli, executed, errored, remVars>>

\* Mutant: the first dialect announced on a session stays.
ReadFirstReady(c) ==
    LET t == ctok[c] IN
    /\ cpc[c] = "reading" /\ fromCli[c] # <<>> /\ Head(fromCli[c]) = Ready
    /\ writer[t] = None
    /\ dialect' = IF dialect[t] = None THEN [dialect EXCEPT ![t] = c] ELSE dialect
    /\ fromCli' = [fromCli EXCEPT ![c] = Tail(@)]
    /\ UNCHANGED <<sessions, createdAt, connectedAt, attached, pending, writer, now,
                   queryVars, chanVars, connVars, sock, toCli, executed, errored, remVars>>

\* readLoop, a "ready" message: sess.Dialect under sess.mu.
ReadReady(c) ==
    LET t == ctok[c] IN
    /\ cpc[c] = "reading" /\ fromCli[c] # <<>> /\ Head(fromCli[c]) = Ready
    /\ writer[t] = None
    /\ dialect' = [dialect EXCEPT ![t] = c]
    /\ fromCli' = [fromCli EXCEPT ![c] = Tail(@)]
    /\ UNCHANGED <<sessions, createdAt, connectedAt, attached, pending, writer,
                   now, queryVars, chanVars, connVars, sock, toCli, executed, errored, remVars>>

\* Mutant: readLoop hands on every message, and deliverResponse ignores LoadAndDelete's ok.
ReadAnyMessage(c) ==
    LET t == ctok[c]
        q == Head(fromCli[c])
    IN
    /\ cpc[c] = "reading" /\ fromCli[c] # <<>>
    /\ fromCli' = [fromCli EXCEPT ![c] = Tail(@)]
    /\ pending' = [pending EXCEPT ![t] = @ \ {q}]
    /\ hand' = [hand EXCEPT ![c] = q]
    /\ cpc' = [cpc EXCEPT ![c] = "delivering"]
    /\ UNCHANGED <<sessions, createdAt, connectedAt, attached, dialect, writer,
                   now, queryVars, chanVars, ctok, sock, toCli, executed, errored, remVars>>

\* readLoop, a response: deliverResponse's LoadAndDelete.  A response whose
\* query is no longer registered is dropped.
ReadResponse(c) ==
    LET t == ctok[c]
        q == Head(fromCli[c])
    IN
    /\ cpc[c] = "reading" /\ fromCli[c] # <<>> /\ q # Ready
    /\ fromCli' = [fromCli EXCEPT ![c] = Tail(@)]
    /\ IF q \in pending[t]
       THEN /\ pending' = [pending EXCEPT ![t] = @ \ {q}]
            /\ hand' = [hand EXCEPT ![c] = q]
            /\ cpc' = [cpc EXCEPT ![c] = "delivering"]
       ELSE UNCHANGED <<pending, hand, cpc>>
    /\ UNCHANGED <<sessions, createdAt, connectedAt, attached, dialect, writer,
                   now, queryVars, chanVars, ctok, sock, toCli, executed, errored, remVars>>

\* deliverResponse's non-blocking send: to a closed channel it panics, and
\* net/http recovers the panic of the handler's goroutine.
DeliverSend(c) ==
    LET q == hand[c] IN
    /\ cpc[c] = "delivering"
    /\ hand' = [hand EXCEPT ![c] = None]
    /\ IF closed[q]
       THEN /\ cpc' = [cpc EXCEPT ![c] = "panicked"]
            /\ UNCHANGED full
       ELSE /\ full' = [full EXCEPT ![q] = TRUE]
            /\ cpc' = [cpc EXCEPT ![c] = "reading"]
    /\ UNCHANGED <<sessVars, writer, now, queryVars, closed, ctok, wireVars, remVars>>

\* conn.ReadMessage fails; what the CLI had sent and was not read is lost.
ReadError(c) ==
    /\ cpc[c] = "reading" /\ sock[c] = "down"
    /\ cpc' = [cpc EXCEPT ![c] = "readDone"]
    /\ fromCli' = [fromCli EXCEPT ![c] = <<>>]
    /\ UNCHANGED <<sessVars, writer, now, queryVars, chanVars, ctok, hand, sock, toCli,
                   executed, errored, remVars>>

\* After the read loop: sess.Conn = nil, whatever connection it holds ...
WsClear(c) ==
    LET t == ctok[c] IN
    /\ cpc[c] = "readDone"
    /\ writer[t] = None
    /\ attached' = [attached EXCEPT ![t] = None]
    /\ cpc' = [cpc EXCEPT ![c] = "cleared"]
    /\ UNCHANGED <<sessions, createdAt, connectedAt, dialect, pending, writer, now,
                   queryVars, chanVars, ctok, hand, wireVars, remVars>>

\* ... and, in a critical section of its own, the time of disconnection.
WsStamp(c) ==
    LET t == ctok[c] IN
    /\ cpc[c] = "cleared"
    /\ writer[t] = None
    /\ connectedAt' = [connectedAt EXCEPT ![t] = now]
    /\ cpc' = [cpc EXCEPT ![c] = "gone"]
    /\ UNCHANGED <<sessions, createdAt, attached, dialect, pending, writer, now,
                   queryVars, chanVars, ctok, hand, wireVars, remVars>>

-----------------------------------------------------------------------------
\* The CLI (cli/cmd/tunnel.go): one query at a time, in arrival order; the
\* connection may drop at any time, with or without the process.  The CLI runs
\* the query or rejects its payload, and sends a result or an error; a result
\* that cannot be encoded is not sent at all.

CliExecute(c) ==
    LET q == Head(toCli[c]) IN
    /\ toCli[c] # <<>>
    /\ toCli' = [toCli EXCEPT ![c] = Tail(@)]
    /\ executed' \in {executed, executed \cup {q}}
    /\ errored' \in {errored, errored \cup {q}}
    /\ q \in executed' \cup errored'
    /\ \/ /\ sock[c] = "up"
          /\ fromCli' = [fromCli EXCEPT ![c] = Append(@, q)]
       \/ /\ sock[c] # "up" \/ q \notin errored'
          /\ UNCHANGED fromCli
    /\ UNCHANGED <<sessVars, writer, now, queryVars, chanVars, connVars, sock, remVars>>

CliDrop(c) ==
    /\ sock[c] = "up"
    /\ sock' = [sock EXCEPT ![c] = "down"]
    /\ UNCHANGED <<sessVars, writer, now, queryVars, chanVars, connVars, toCli, fromCli,
                   executed, errored, remVars>>

-----------------------------------------------------------------------------
\* HandleQuery and HandleSchema.

\* requireSessionForUser: 404 when the token is unknown or another user's.
QueryLookup(q, t) ==
    /\ qpc[q] = "idle"
    /\ qtok' = [qtok EXCEPT ![q] = t]
    /\ \/ /\ t \in sessions
          /\ qpc' = [qpc EXCEPT ![q] = "found"]
          /\ UNCHANGED result
       \/ /\ qpc' = [qpc EXCEPT ![q] = "done"]
          /\ result' = [result EXCEPT ![q] = "refused"]
    /\ UNCHANGED <<sessVars, writer, now, chanVars, connVars, wireVars, remVars>>

\* registerQuery: the channel is stored before the query is sent.
QueryRegister(q) ==
    LET t == qtok[q] IN
    /\ qpc[q] = "found"
    /\ pending' = [pending EXCEPT ![t] = @ \cup {q}]
    /\ qpc' = [qpc EXCEPT ![q] = "registered"]
    /\ UNCHANGED <<sessions, createdAt, connectedAt, attached, dialect, writer,
                   now, qtok, result, chanVars, connVars, wireVars, remVars>>

\* sendMessage takes sess.mu: 503 without a connection, else WriteJSON starts.
QueryLock(q) ==
    LET t == qtok[q] IN
    /\ qpc[q] = "registered"
    /\ writer[t] = None
    /\ IF attached[t] = None
       THEN /\ result' = [result EXCEPT ![q] = "notConnected"]
            /\ qpc' = [qpc EXCEPT ![q] = "leaving"]
            /\ UNCHANGED writer
       ELSE /\ writer' = [writer EXCEPT ![t] = q]
            /\ qpc' = [qpc EXCEPT ![q] = "writing"]
            /\ UNCHANGED result
    /\ UNCHANGED <<sessVars, now, qtok, chanVars, connVars, wireVars, remVars>>

\* WriteJSON returns and sess.mu is released.  No deadline is set: the write
\* waits while a live connection's buffers are full.  A dropped connection
\* makes it fail, or swallows the message.
QueryWrite(q) ==
    LET t == qtok[q]
        c == attached[t]
    IN
    /\ qpc[q] = "writing"
    /\ writer' = [writer EXCEPT ![t] = None]
    /\ \/ /\ sock[c] = "up" /\ Len(toCli[c]) < SocketBuf
          /\ toCli' = [toCli EXCEPT ![c] = Append(@, q)]
          /\ qpc' = [qpc EXCEPT ![q] = "waiting"]
          /\ UNCHANGED result
       \/ /\ sock[c] = "down"
          /\ qpc' = [qpc EXCEPT ![q] = "waiting"]
          /\ UNCHANGED <<toCli, result>>
       \/ /\ sock[c] = "down"
          /\ qpc' = [qpc EXCEPT ![q] = "leaving"]
          /\ result' = [result EXCEPT ![q] = "notConnected"]
          /\ UNCHANGED toCli
    /\ UNCHANGED <<sessVars, now, qtok, chanVars, connVars, sock, fromCli, executed, errored, remVars>>

\* The select: a value, a closed and drained channel, or the timer.
Leave(q, r) ==
    /\ qpc[q] = "waiting"
    /\ qpc' = [qpc EXCEPT ![q] = "leaving"]
    /\ result' = [result EXCEPT ![q] = r]
    /\ UNCHANGED <<sessVars, writer, now, qtok, closed, connVars, wireVars, remVars>>

QueryReceive(q) == /\ full[q]
                   /\ full' = [full EXCEPT ![q] = FALSE]
                   /\ Leave(q, "answered")

\* Mutant: the receive ignores that the channel was closed.
ClosedIsAnswer(q) == /\ closed[q] /\ ~full[q]
                     /\ UNCHANGED full
                     /\ Leave(q, "answered")

QueryClosed(q) == /\ closed[q] /\ ~full[q]
                  /\ UNCHANGED full
                  /\ Leave(q, "closed")

\* Mutant: the select has no timer.
NoTimer(q) == full[q] /\ ~full[q] /\ UNCHANGED full /\ Leave(q, "timeout")

QueryTimeout(q) == UNCHANGED full /\ Leave(q, "timeout")

\* Mutant: the handler leaves its channel registered.
ReturnWithoutDelete(q) ==
    /\ qpc[q] = "leaving"
    /\ qpc' = [qpc EXCEPT ![q] = "done"]
    /\ UNCHANGED <<sessVars, writer, now, qtok, result, chanVars, connVars, wireVars, remVars>>

\* The deferred pendingQueries.Delete.
QueryReturn(q) ==
    LET t == qtok[q] IN
    /\ qpc[q] = "leaving"
    /\ pending' = [pending EXCEPT ![t] = @ \ {q}]
    /\ qpc' = [qpc EXCEPT ![q] = "done"]
    /\ UNCHANGED <<sessions, createdAt, connectedAt, attached, dialect, writer,
                   now, qtok, result, chanVars, connVars, wireVars, remVars>>

-----------------------------------------------------------------------------
\* sweepStale and Shutdown, and the RemoveSession they both call.

\* Mutant: the sweep takes the end of the running interval for its time.
SweepAhead ==
    /\ rpc["sweeper"] = "idle" /\ sweepNow < now
    /\ rpc' = [rpc EXCEPT !["sweeper"] = "scan"]
    /\ todo' = [todo EXCEPT !["sweeper"] = sessions]
    /\ sweepNow' = now + 1
    /\ UNCHANGED <<sessVars, writer, now, queryVars, chanVars, connVars, wireVars,
                   rtok, rkey, must>>

\* The ticker fires once per tick of the clock, the first time after one.
SweepStart ==
    /\ rpc["sweeper"] = "idle" /\ sweepNow < now
    /\ rpc' = [rpc EXCEPT !["sweeper"] = "scan"]
    /\ todo' = [todo EXCEPT !["sweeper"] = sessions]
    /\ sweepNow' = now
    /\ UNCHANGED <<sessVars, writer, now, queryVars, chanVars, connVars, wireVars,
                   rtok, rkey, must>>

\* Mutant: only sessions that were never connected become stale.
StalePending(t) == /\ attached[t] = None /\ connectedAt[t] = 0
                   /\ sweepNow - createdAt[t] > PendingTTL

Stale(t) == /\ attached[t] = None
            /\ IF connectedAt[t] = 0 THEN sweepNow - createdAt[t] > PendingTTL
                                     ELSE sweepNow - connectedAt[t] > DisconnectedTTL

\* The sweeper reads the session under sess.mu and decides.
SweepCheck(t) ==
    /\ rpc["sweeper"] = "scan" /\ t \in todo["sweeper"]
    /\ todo' = [todo EXCEPT !["sweeper"] = @ \ {t}]
    /\ \/ /\ t \notin sessions
          /\ UNCHANGED <<rpc, rtok>>
       \/ /\ t \in sessions /\ writer[t] = None
          /\ IF Stale(t)
             THEN /\ rpc' = [rpc EXCEPT !["sweeper"] = "unmap"]
                  /\ rtok' = [rtok EXCEPT !["sweeper"] = t]
             ELSE UNCHANGED <<rpc, rtok>>
    /\ UNCHANGED <<sessVars, writer, now, queryVars, chanVars, connVars, wireVars,
                   rkey, must, sweepNow>>

SweepEnd ==
    /\ rpc["sweeper"] = "scan" /\ todo["sweeper"] = {}
    /\ rpc' = [rpc EXCEPT !["sweeper"] = "idle"]
    /\ UNCHANGED <<sessVars, writer, now, queryVars, chanVars, connVars, wireVars,
                   rtok, rkey, todo, must, sweepNow>>

\* cleanup's select sees hub.done closed, which Shutdown does first.
SweepStop ==
    /\ rpc["sweeper"] = "idle" /\ rpc["shutdown"] # "idle"
    /\ rpc' = [rpc EXCEPT !["sweeper"] = "stopped"]
    /\ UNCHANGED <<sessVars, writer, now, queryVars, chanVars, connVars, wireVars,
                   rtok, rkey, todo, must, sweepNow>>

ShutdownStart ==
    /\ rpc["shutdown"] = "idle"
    /\ rpc' = [rpc EXCEPT !["shutdown"] = "scan"]
    /\ todo' = [todo EXCEPT !["shutdown"] = sessions]
    /\ UNCHANGED <<sessVars, writer, now, queryVars, chanVars, connVars, wireVars,
                   rtok, rkey, must, sweepNow>>

ShutdownNext(t) ==
    /\ rpc["shutdown"] = "scan" /\ t \in todo["shutdown"]
    /\ todo' = [todo EXCEPT !["shutdown"] = @ \ {t}]
    /\ rpc' = [rpc EXCEPT !["shutdown"] = "unmap"]
    /\ rtok' = [rtok EXCEPT !["shutdown"] = t]
    /\ UNCHANGED <<sessVars, writer, now, queryVars, chanVars, connVars, wireVars,
                   rkey, must, sweepNow>>

ShutdownEnd ==
    /\ rpc["shutdown"] = "scan" /\ todo["shutdown"] = {}
    /\ rpc' = [rpc EXCEPT !["shutdown"] = "stopped"]
    /\ UNCHANGED <<sessVars, writer, now, queryVars, chanVars, connVars, wireVars,
                   rtok, rkey, todo, must, sweepNow>>

\* Mutant: RemoveSession goes on whether it deleted the entry or not.
AlwaysMapped(t) == TRUE

StillMapped(t) == t \in sessions

\* RemoveSession, under hub.mu: whoever deletes the entry goes on.
RemoveUnmap(r) ==
    LET t == rtok[r] IN
    /\ rpc[r] = "unmap"
    /\ sessions' = sessions \ {t}
    /\ IF StillMapped(t)
       THEN /\ rpc' = [rpc EXCEPT ![r] = "close"]
            /\ UNCHANGED rtok
       ELSE /\ rpc' = [rpc EXCEPT ![r] = "scan"]
            /\ rtok' = [rtok EXCEPT ![r] = None]
    /\ UNCHANGED <<createdAt, connectedAt, attached, dialect, pending, writer, now,
                   queryVars, chanVars, connVars, wireVars, rkey, todo, must, sweepNow>>

\* RemoveSession, under sess.mu; then pendingQueries.Range begins.
RemoveClose(r) ==
    LET t == rtok[r] IN
    /\ rpc[r] = "close"
    /\ writer[t] = None
    /\ attached' = [attached EXCEPT ![t] = None]
    /\ sock' = [c \in Conn |-> IF c = attached[t] THEN "down" ELSE sock[c]]
    /\ rpc' = [rpc EXCEPT ![r] = "range"]
    /\ must' = [must EXCEPT ![r] = pending[t]]
    /\ UNCHANGED <<sessions, createdAt, connectedAt, dialect, pending, writer, now,
                   queryVars, chanVars, connVars, toCli, fromCli, executed, errored,
                   rtok, rkey, todo, sweepNow>>

\* Range loads an entry; entries stored during the Range may be visited too.
DrainLoad(r, q) ==
    /\ rpc[r] = "range" /\ q \in pending[rtok[r]]
    /\ rpc' = [rpc EXCEPT ![r] = "closing"]
    /\ rkey' = [rkey EXCEPT ![r] = q]
    /\ UNCHANGED <<sessVars, writer, now, queryVars, chanVars, connVars, wireVars,
                   rtok, todo, must, sweepNow>>

\* Mutant: the Range deletes the entries without closing their channels.
DrainForgetsClose(r) ==
    /\ rpc[r] = "closing"
    /\ rpc' = [rpc EXCEPT ![r] = "deleting"]
    /\ UNCHANGED <<sessVars, writer, now, queryVars, chanVars, connVars, wireVars,
                   rtok, rkey, todo, must, sweepNow>>

\* close(ch): closing it twice would panic in a goroutine nobody recovers.
DrainClose(r) ==
    LET q == rkey[r] IN
    /\ rpc[r] = "closing"
    /\ closed' = [closed EXCEPT ![q] = TRUE]
    /\ rpc' = [rpc EXCEPT ![r] = IF closed[q] THEN "crashed" ELSE "deleting"]
    /\ UNCHANGED <<sessVars, writer, now, queryVars, full, connVars, wireVars,
                   rtok, rkey, todo, must, sweepNow>>

DrainDelete(r) ==
    /\ rpc[r] = "deleting"
    /\ pending' = [pending EXCEPT ![rtok[r]] = @ \ {rkey[r]}]
    /\ rpc' = [rpc EXCEPT ![r] = "range"]
    /\ rkey' = [rkey EXCEPT ![r] = None]
    /\ UNCHANGED <<sessions, createdAt, connectedAt, attached, dialect, writer, now,
                   queryVars, chanVars, connVars, wireVars, rtok, todo, must, sweepNow>>

\* Range returns once it has visited every entry there from the start.
DrainEnd(r) ==
    /\ rpc[r] = "range" /\ must[r] \cap pending[rtok[r]] = {}
    /\ rpc' = [rpc EXCEPT ![r] = "scan"]
    /\ rtok' = [rtok EXCEPT ![r] = None]
    /\ must' = [must EXCEPT ![r] = {}]
    /\ UNCHANGED <<sessVars, writer, now, queryVars, chanVars, connVars, wireVars,
                   rkey, todo, sweepNow>>

-----------------------------------------------------------------------------
ConnStep(c) == \/ WsAttach(c) \/ ReadReady(c) \/ ReadResponse(c) \/ DeliverSend(c)
               \/ ReadError(c) \/ WsClear(c) \/ WsStamp(c)

QueryStep(q) == \/ QueryRegister(q) \/ QueryLock(q) \/ QueryWrite(q)
                \/ QueryReceive(q) \/ QueryClosed(q) \/ QueryReturn(q)

RemoveStep(r) == \/ RemoveUnmap(r) \/ RemoveClose(r) \/ DrainClose(r)
                 \/ DrainDelete(r) \/ DrainEnd(r)
                 \/ \E q \in Query : DrainLoad(r, q)

SweepStep == \/ SweepStart \/ SweepEnd \/ SweepStop
             \/ \E t \in Token : SweepCheck(t)

ShutdownStep == ShutdownEnd \/ \E t \in Token : ShutdownNext(t)

Next ==
    \/ Tick
    \/ \E t \in Token : CreateToken(t)
    \/ \E c \in Conn, t \in Token : WsLookup(c, t)
    \/ \E c \in Conn : ConnStep(c) \/ CliExecute(c) \/ CliDrop(c)
    \/ \E q \in Query, t \in Token : QueryLookup(q, t)
    \/ \E q \in Query : QueryStep(q) \/ QueryTimeout(q)
    \/ \E r \in Remover : RemoveStep(r)
    \/ SweepStep
    \/ ShutdownStart \/ ShutdownStep

Spec == Init /\ [][Next]_vars

\* The server's goroutines keep running; a CLI whose connection is up reads
\* and answers; the clock advances.  No query is saved by its timer.
ServerFairness ==
    /\ WF_vars(Tick)
    /\ \A c \in Conn : WF_vars(ConnStep(c))
    /\ \A q \in Query : WF_vars(QueryStep(q))
    /\ \A r \in Remover : WF_vars(RemoveStep(r))
    /\ WF_vars(SweepStep) /\ WF_vars(ShutdownStep)

CliFairness == \A c \in Conn : WF_vars(sock[c] = "up" /\ CliExecute(c))

TimerFairness == \A q \in Query : WF_vars(QueryTimeout(q))

\* The server and CLIs that keep reading, with no query timer.
DrainSpec == Spec /\ ServerFairness /\ CliFairness

\* Such CLIs, the socket and query handlers and the timer, but neither the
\* clock nor those who remove sessions.
ReplySpec == /\ Spec /\ CliFairness /\ TimerFairness
             /\ \A c \in Conn : WF_vars(ConnStep(c))
             /\ \A q \in Query : WF_vars(QueryStep(q))

-----------------------------------------------------------------------------
\* Every variable has its type.
SessTypeOK ==
    /\ sessions \subseteq Token
    /\ createdAt \in [Token -> 0..MaxNow]
    /\ connectedAt \in [Token -> 0..MaxNow]
    /\ attached \in [Token -> Conn \cup {None}]
    /\ dialect \in [Token -> Conn \cup {None}]
    /\ pending \in [Token -> SUBSET Query]

ClockTypeOK ==
    /\ now \in 1..MaxNow /\ sweepNow \in 1..MaxNow

QueryTypeOK ==
    /\ writer \in [Token -> Query \cup {None}]
    /\ qpc \in [Query -> QueryPC]
    /\ qtok \in [Query -> Token \cup {None}]
    /\ result \in [Query -> Result]
    /\ full \in [Query -> BOOLEAN]
    /\ closed \in [Query -> BOOLEAN]

ConnTypeOK ==
    /\ cpc \in [Conn -> ConnPC]
    /\ ctok \in [Conn -> Token \cup {None}]
    /\ hand \in [Conn -> Query \cup {None}]

WireTypeOK ==
    /\ sock \in [Conn -> {"none", "up", "down"}]
    /\ toCli \in [Conn -> Seq(Query)]
    /\ fromCli \in [Conn -> Seq(Query \cup {Ready})]
    /\ executed \subseteq Query /\ errored \subseteq Query

RemTypeOK ==
    /\ rpc \in [Remover -> RemPC]
    /\ rtok \in [Remover -> Token \cup {None}]
    /\ rkey \in [Remover -> Query \cup {None}]
    /\ todo \in [Remover -> SUBSET Token]
    /\ must \in [Remover -> SUBSET Query]

TypeOK == /\ SessTypeOK /\ ClockTypeOK /\ QueryTypeOK
          /\ ConnTypeOK /\ WireTypeOK /\ RemTypeOK

\* As long as a session is in the hub, sess.Conn is exactly the connection
\* whose handler is in its read loop for that session: two CLIs never share a
\* session, and no handler clears a connection that is not its own.
OneCliPerSession ==
    \A t \in sessions, c \in Conn :
        attached[t] = c <=> ctok[c] = t /\ cpc[c] \in Reading

\* RemoveSession never closes a response channel a second time, even when the
\* sweeper and Shutdown remove the same session at once (the panic would end
\* the server).
NoDoubleClose == \A r \in Remover : rpc[r] # "crashed"

\* A handler that waits with nothing in its channel can still be woken: its
\* channel is registered, or the read loop is about to send on it.
WaitersReachable ==
    \A q \in Query :
        qpc[q] = "waiting" /\ ~full[q] /\ ~closed[q] =>
            \/ q \in pending[qtok[q]]
            \/ \E c \in Conn : cpc[c] = "delivering" /\ hand[c] = q

\* The registry of a session holds only the requests of handlers that have
\* not returned: no path out of a handler leaks its channel.
PendingOnlyLive ==
    \A t \in Token : \A q \in pending[t] :
        qtok[q] = t /\ qpc[q] \in {"registered", "writing", "waiting", "leaving"}

\* Once the CLI connected to a session in the hub has had its "ready" read,
\* HandleStatus reports that CLI's dialect, not one of an earlier connection.
DialectOfConnectedCli ==
    \A t \in sessions :
        LET c == attached[t] IN
        c # None =>
            \/ dialect[t] = c
            \/ fromCli[c] # <<>> /\ Head(fromCli[c]) = Ready
            \/ cpc[c] = "readDone"

\* A session no CLI has ever connected to is in the hub until pendingTTL has
\* passed, unless the hub shuts down.
PendingSessionsKept ==
    \A t \in Token :
        createdAt[t] # 0 /\ connectedAt[t] = 0 /\ t \notin sessions =>
            rpc["shutdown"] # "idle" \/ now - createdAt[t] > PendingTTL

\* The callers of HandleQuery and HandleSchema get what TunnelRelay promises.
Told(q) == CASE result[q] = "none" -> IF qpc[q] = "idle" THEN "idle" ELSE "open"
             [] result[q] \in {"refused", "notConnected"} -> "refused"
             [] result[q] = "answered" -> IF q \in errored THEN "failed" ELSE "answered"
             [] OTHER -> "unknown"

Relay == INSTANCE TunnelRelay WITH phase <- [q \in Query |-> Told(q)], ran <- executed

\* The hub implements the abstract relay.
ImplementsRelay == Relay!RelaySpec

\* A handler that waits on a session being removed leaves without its timer:
\* RemoveSession drains the channels so that handlers do not block.
DrainReleasesWaiters ==
    \A q \in Query :
        (qpc[q] = "waiting" /\ \E r \in Remover : rpc[r] = "close" /\ rtok[r] = qtok[q])
            ~> qpc[q] # "waiting"

\* A session without a CLI whose time to live ends within the clock's bound
\* is swept, unless a CLI connects to it or the hub shuts down.
Expires(t) == /\ t \in sessions /\ attached[t] = None
              /\ IF connectedAt[t] = 0 THEN createdAt[t] + PendingTTL < MaxNow
                                       ELSE connectedAt[t] + DisconnectedTTL < MaxNow
StaleSessionsSwept ==
    \A t \in Token : Expires(t) ~> (~Expires(t) \/ rpc["shutdown"] # "idle")

\* Every query handler that has registered its channel returns.
EveryQueryReturns ==
    \A q \in Query : qpc[q] = "registered" ~> qpc[q] = "done"

\* hub.go:193: the send of deliverResponse never meets a closed channel.
SendNeverPanics == \A c \in Conn : cpc[c] # "panicked"
=============================================================================
