-------------------------- MODULE TunnelHub_proofs --------------------------
(***************************************************************************)
(* Safety of the tunnel hub for every set of tokens, connections and       *)
(* queries, every buffer size and every pair of times to live.             *)
(*                                                                         *)
(* The Frame lemmas say which actions can change which variables; each     *)
(* conjunct of IInv then has a step for those actions only.                *)
(***************************************************************************)
EXTENDS TunnelHubInv, TLAPS

\* Head, Tail and Append stay in the set of sequences.
LEMMA SeqFacts ==
    ASSUME NEW S, NEW s \in Seq(S)
    PROVE  /\ \A x \in S : Append(s, x) \in Seq(S) /\ <<x>> \in Seq(S)
           /\ s # <<>> => Head(s) \in S /\ Tail(s) \in Seq(S)
  OBVIOUS

-----------------------------------------------------------------------------
\* Which actions change what.

\* The actions that change the map of the hub.
LEMMA MapFrame ==
    [Next]_vars =>
        \/ UNCHANGED <<sessions, createdAt>>
        \/ \E t \in Token : CreateToken(t)
        \/ \E r \in Remover : RemoveUnmap(r)
  BY DEF Next, ConnStep, QueryStep, RemoveStep, SweepStep, ShutdownStep, vars, sessVars,
         queryVars, chanVars, connVars, wireVars, remVars, Leave, Tick, WsLookup, WsAttach,
         ReadReady, ReadResponse, DeliverSend, ReadError, WsClear, WsStamp, CliExecute,
         CliDrop, QueryLookup, QueryRegister, QueryLock, QueryWrite, QueryReceive,
         QueryClosed, QueryReturn, QueryTimeout, RemoveClose, DrainLoad, DrainClose,
         DrainDelete, DrainEnd, SweepStart, SweepCheck, SweepEnd, SweepStop, ShutdownStart,
         ShutdownNext, ShutdownEnd

\* The actions that change a session's connection, its times and its dialect.
LEMMA AttachFrame ==
    [Next]_vars =>
        \/ UNCHANGED <<attached, connectedAt, dialect>>
        \/ \E c \in Conn : WsAttach(c) \/ ReadReady(c) \/ WsClear(c) \/ WsStamp(c)
        \/ \E r \in Remover : RemoveClose(r)
  BY DEF Next, ConnStep, QueryStep, RemoveStep, SweepStep, ShutdownStep, vars, sessVars,
         queryVars, chanVars, connVars, wireVars, remVars, Leave, Tick, CreateToken,
         WsLookup, ReadResponse, DeliverSend, ReadError, CliExecute, CliDrop, QueryLookup,
         QueryRegister, QueryLock, QueryWrite, QueryReceive, QueryClosed, QueryReturn,
         QueryTimeout, RemoveUnmap, DrainLoad, DrainClose, DrainDelete, DrainEnd,
         SweepStart, SweepCheck, SweepEnd, SweepStop, ShutdownStart, ShutdownNext,
         ShutdownEnd

\* The actions that change the registry of a session.
LEMMA PendingFrame ==
    [Next]_vars =>
        \/ UNCHANGED pending
        \/ \E c \in Conn : ReadResponse(c)
        \/ \E q \in Query : QueryRegister(q) \/ QueryReturn(q)
        \/ \E r \in Remover : DrainDelete(r)
  BY DEF Next, ConnStep, QueryStep, RemoveStep, SweepStep, ShutdownStep, vars, sessVars,
         queryVars, chanVars, connVars, wireVars, remVars, Leave, Tick, CreateToken,
         WsLookup, WsAttach, ReadReady, DeliverSend, ReadError, WsClear, WsStamp,
         CliExecute, CliDrop, QueryLookup, QueryLock, QueryWrite, QueryReceive, QueryClosed,
         QueryTimeout, RemoveUnmap, RemoveClose, DrainLoad, DrainClose, DrainEnd,
         SweepStart, SweepCheck, SweepEnd, SweepStop, ShutdownStart, ShutdownNext,
         ShutdownEnd

\* The actions that change the query handlers and the mutex of a session.
LEMMA QueryFrame ==
    [Next]_vars =>
        \/ UNCHANGED <<queryVars, writer>>
        \/ \E q \in Query, t \in Token : QueryLookup(q, t)
        \/ \E q \in Query : QueryRegister(q) \/ QueryLock(q) \/ QueryWrite(q) \/ QueryReceive(q) \/ QueryClosed(q) \/ QueryTimeout(q) \/ QueryReturn(q)
  BY DEF Next, ConnStep, QueryStep, RemoveStep, SweepStep, ShutdownStep, vars, sessVars,
         queryVars, chanVars, connVars, wireVars, remVars, Tick, CreateToken, WsLookup,
         WsAttach, ReadReady, ReadResponse, DeliverSend, ReadError, WsClear, WsStamp,
         CliExecute, CliDrop, RemoveUnmap, RemoveClose, DrainLoad, DrainClose, DrainDelete,
         DrainEnd, SweepStart, SweepCheck, SweepEnd, SweepStop, ShutdownStart, ShutdownNext,
         ShutdownEnd

\* The actions that change the response channels.
LEMMA ChanFrame ==
    [Next]_vars =>
        \/ UNCHANGED chanVars
        \/ \E c \in Conn : DeliverSend(c)
        \/ \E q \in Query : QueryReceive(q)
        \/ \E r \in Remover : DrainClose(r)
  BY DEF Next, ConnStep, QueryStep, RemoveStep, SweepStep, ShutdownStep, vars, sessVars,
         queryVars, chanVars, connVars, wireVars, remVars, Leave, Tick, CreateToken,
         WsLookup, WsAttach, ReadReady, ReadResponse, ReadError, WsClear, WsStamp,
         CliExecute, CliDrop, QueryLookup, QueryRegister, QueryLock, QueryWrite,
         QueryClosed, QueryReturn, QueryTimeout, RemoveUnmap, RemoveClose, DrainLoad,
         DrainDelete, DrainEnd, SweepStart, SweepCheck, SweepEnd, SweepStop, ShutdownStart,
         ShutdownNext, ShutdownEnd

\* The actions that change the WebSocket handlers.
LEMMA ConnFrame ==
    [Next]_vars =>
        \/ UNCHANGED connVars
        \/ \E c \in Conn, t \in Token : WsLookup(c, t)
        \/ \E c \in Conn : WsAttach(c) \/ ReadResponse(c) \/ DeliverSend(c) \/ ReadError(c) \/ WsClear(c) \/ WsStamp(c)
  BY DEF Next, ConnStep, QueryStep, RemoveStep, SweepStep, ShutdownStep, vars, sessVars,
         queryVars, chanVars, connVars, wireVars, remVars, Leave, Tick, CreateToken,
         ReadReady, CliExecute, CliDrop, QueryLookup, QueryRegister, QueryLock, QueryWrite,
         QueryReceive, QueryClosed, QueryReturn, QueryTimeout, RemoveUnmap, RemoveClose,
         DrainLoad, DrainClose, DrainDelete, DrainEnd, SweepStart, SweepCheck, SweepEnd,
         SweepStop, ShutdownStart, ShutdownNext, ShutdownEnd

\* The actions that change the connections.
LEMMA WireFrame ==
    [Next]_vars =>
        \/ UNCHANGED wireVars
        \/ \E c \in Conn, t \in Token : WsLookup(c, t)
        \/ \E c \in Conn : WsAttach(c) \/ ReadReady(c) \/ ReadResponse(c) \/ ReadError(c) \/ CliExecute(c) \/ CliDrop(c)
        \/ \E q \in Query : QueryWrite(q)
        \/ \E r \in Remover : RemoveClose(r)
  BY DEF Next, ConnStep, QueryStep, RemoveStep, SweepStep, ShutdownStep, vars, sessVars,
         queryVars, chanVars, connVars, wireVars, remVars, Leave, Tick, CreateToken,
         DeliverSend, WsClear, WsStamp, QueryLookup, QueryRegister, QueryLock, QueryReceive,
         QueryClosed, QueryReturn, QueryTimeout, RemoveUnmap, DrainLoad, DrainClose,
         DrainDelete, DrainEnd, SweepStart, SweepCheck, SweepEnd, SweepStop, ShutdownStart,
         ShutdownNext, ShutdownEnd

\* The actions that change the removers.
LEMMA RemFrame ==
    [Next]_vars =>
        \/ UNCHANGED <<rpc, rtok, rkey, todo, must>>
        \/ \E r \in Remover : RemoveUnmap(r) \/ RemoveClose(r) \/ DrainClose(r) \/ DrainDelete(r) \/ DrainEnd(r)
        \/ \E r \in Remover, q \in Query : DrainLoad(r, q)
        \/ SweepStart \/ SweepEnd \/ SweepStop \/ ShutdownStart \/ ShutdownEnd
        \/ \E t \in Token : SweepCheck(t) \/ ShutdownNext(t)
  BY DEF Next, ConnStep, QueryStep, RemoveStep, SweepStep, ShutdownStep, vars, sessVars,
         queryVars, chanVars, connVars, wireVars, remVars, Leave, Tick, CreateToken,
         WsLookup, WsAttach, ReadReady, ReadResponse, DeliverSend, ReadError, WsClear,
         WsStamp, CliExecute, CliDrop, QueryLookup, QueryRegister, QueryLock, QueryWrite,
         QueryReceive, QueryClosed, QueryReturn, QueryTimeout

\* The actions that change the clock and the time of the sweep.
LEMMA ClockFrame ==
    [Next]_vars =>
        \/ UNCHANGED <<now, sweepNow>>
        \/ Tick \/ SweepStart
  BY DEF Next, ConnStep, QueryStep, RemoveStep, SweepStep, ShutdownStep, vars, sessVars,
         queryVars, chanVars, connVars, wireVars, remVars, Leave, CreateToken, WsLookup,
         WsAttach, ReadReady, ReadResponse, DeliverSend, ReadError, WsClear, WsStamp,
         CliExecute, CliDrop, QueryLookup, QueryRegister, QueryLock, QueryWrite,
         QueryReceive, QueryClosed, QueryReturn, QueryTimeout, RemoveUnmap, RemoveClose,
         DrainLoad, DrainClose, DrainDelete, DrainEnd, SweepCheck, SweepEnd, SweepStop,
         ShutdownStart, ShutdownNext, ShutdownEnd

\* A response is read for a registered query, or dropped.
LEMMA ReadTakes ==
    ASSUME TypeOK, NEW c \in Conn, ReadResponse(c)
    PROVE  /\ cpc[c] = "reading"
           /\ \/ \E q \in pending[ctok[c]] \cap Query :
                   /\ pending' = [pending EXCEPT ![ctok[c]] = @ \ {q}]
                   /\ hand' = [hand EXCEPT ![c] = q]
                   /\ cpc' = [cpc EXCEPT ![c] = "delivering"]
              \/ UNCHANGED <<pending, hand, cpc>>
           /\ UNCHANGED <<sessions, createdAt, connectedAt, attached, dialect, ctok,
                          queryVars, chanVars, remVars>>
<1>1. Head(fromCli[c]) \in Query
  BY SeqFacts DEF TypeOK, WireTypeOK, ReadResponse
<1> DEFINE q == Head(fromCli[c])
<1> QED
  BY <1>1 DEF ReadResponse

\* What a write does to the handler, whatever becomes of the message.
LEMMA WriteReturns ==
    ASSUME NEW q \in Query, QueryWrite(q)
    PROVE  /\ qpc[q] = "writing"
           /\ \/ qpc' = [qpc EXCEPT ![q] = "waiting"]
              \/ qpc' = [qpc EXCEPT ![q] = "leaving"]
           /\ UNCHANGED <<sessVars, qtok, chanVars, connVars, remVars>>
  BY DEF QueryWrite

-----------------------------------------------------------------------------
\* One lemma per conjunct of the invariant.

\* The sessions keep their types.
LEMMA SessTypeOKStep == TypeOK /\ [Next]_vars => SessTypeOK'
<1> SUFFICES ASSUME TypeOK, [Next]_vars PROVE SessTypeOK'
  OBVIOUS
<1> USE DEF TypeOK, SessTypeOK, ClockTypeOK, sessVars, queryVars, chanVars, connVars,
            wireVars, remVars
<1>1. ASSUME NEW t \in Token, CreateToken(t) PROVE SessTypeOK'
  BY <1>1 DEF CreateToken
<1>2. ASSUME NEW c \in Conn, WsAttach(c) PROVE SessTypeOK'
  BY <1>2 DEF WsAttach, AlreadyConnected
<1>3. ASSUME NEW c \in Conn, ReadReady(c) PROVE SessTypeOK'
  BY <1>3 DEF ReadReady
<1>4. ASSUME NEW c \in Conn, ReadResponse(c) PROVE SessTypeOK'
  BY <1>4, ReadTakes
<1>5. ASSUME NEW c \in Conn, WsClear(c) PROVE SessTypeOK'
  BY <1>5 DEF WsClear
<1>6. ASSUME NEW c \in Conn, WsStamp(c) PROVE SessTypeOK'
  <2>1. now \in 0..MaxNow
    BY TunnelAssumption
  <2> QED
    BY <1>6, <2>1 DEF WsStamp
<1>7. ASSUME NEW q \in Query, QueryRegister(q) PROVE SessTypeOK'
  BY <1>7 DEF QueryRegister
<1>8. ASSUME NEW q \in Query, QueryReturn(q) PROVE SessTypeOK'
  BY <1>8 DEF QueryReturn
<1>9. ASSUME NEW r \in Remover, RemoveUnmap(r) PROVE SessTypeOK'
  BY <1>9 DEF RemoveUnmap, StillMapped
<1>10. ASSUME NEW r \in Remover, RemoveClose(r) PROVE SessTypeOK'
  BY <1>10 DEF RemoveClose
<1>11. ASSUME NEW r \in Remover, DrainDelete(r) PROVE SessTypeOK'
  BY <1>11 DEF DrainDelete
<1>12. CASE UNCHANGED sessVars
  BY <1>12
<1> QED
  BY <1>1, <1>2, <1>3, <1>4, <1>5, <1>6, <1>7, <1>8, <1>9, <1>10, <1>11, <1>12,
     MapFrame, AttachFrame, PendingFrame

\* The clock stays within its bound.
LEMMA ClockTypeOKStep == TypeOK /\ [Next]_vars => ClockTypeOK'
<1> SUFFICES ASSUME TypeOK, [Next]_vars PROVE ClockTypeOK'
  OBVIOUS
<1> USE DEF TypeOK, ClockTypeOK, sessVars, queryVars, chanVars, connVars, wireVars,
            remVars
<1>1. ASSUME Tick PROVE ClockTypeOK'
  BY <1>1, TunnelAssumption DEF Tick
<1>2. ASSUME SweepStart PROVE ClockTypeOK'
  BY <1>2 DEF SweepStart
<1>3. CASE UNCHANGED <<now, sweepNow>>
  BY <1>3
<1> QED
  BY <1>1, <1>2, <1>3, ClockFrame

\* The query handlers keep their types.
LEMMA QueryTypeOKStep == TypeOK /\ [Next]_vars => QueryTypeOK'
<1> SUFFICES ASSUME TypeOK, [Next]_vars PROVE QueryTypeOK'
  OBVIOUS
<1> USE DEF TypeOK, QueryTypeOK, QueryPC, Result, sessVars, queryVars, chanVars,
            connVars, wireVars, remVars
<1>1. ASSUME NEW c \in Conn, DeliverSend(c) PROVE QueryTypeOK'
  BY <1>1 DEF DeliverSend
<1>2. ASSUME NEW q \in Query, NEW t \in Token, QueryLookup(q, t) PROVE QueryTypeOK'
  BY <1>2 DEF QueryLookup
<1>3. ASSUME NEW q \in Query, QueryRegister(q) PROVE QueryTypeOK'
  BY <1>3 DEF QueryRegister
<1>4. ASSUME NEW q \in Query, QueryLock(q) PROVE QueryTypeOK'
  BY <1>4 DEF QueryLock
<1>5. ASSUME NEW q \in Query, QueryWrite(q) PROVE QueryTypeOK'
  BY <1>5 DEF QueryWrite
<1>6. ASSUME NEW q \in Query, QueryReceive(q) PROVE QueryTypeOK'
  BY <1>6 DEF QueryReceive, Leave
<1>7. ASSUME NEW q \in Query, QueryClosed(q) PROVE QueryTypeOK'
  BY <1>7 DEF QueryClosed, Leave
<1>8. ASSUME NEW q \in Query, QueryReturn(q) PROVE QueryTypeOK'
  BY <1>8 DEF QueryReturn
<1>9. ASSUME NEW q \in Query, QueryTimeout(q) PROVE QueryTypeOK'
  BY <1>9 DEF QueryTimeout, Leave
<1>10. ASSUME NEW r \in Remover, DrainClose(r) PROVE QueryTypeOK'
  BY <1>10 DEF DrainClose
<1>11. CASE UNCHANGED <<queryVars, writer, chanVars>>
  BY <1>11
<1> QED
  BY <1>1, <1>2, <1>3, <1>4, <1>5, <1>6, <1>7, <1>8, <1>9, <1>10, <1>11,
     QueryFrame, ChanFrame

\* The WebSocket handlers keep their types.
LEMMA ConnTypeOKStep == TypeOK /\ [Next]_vars => ConnTypeOK'
<1> SUFFICES ASSUME TypeOK, [Next]_vars PROVE ConnTypeOK'
  OBVIOUS
<1> USE DEF TypeOK, ConnTypeOK, ConnPC, sessVars, queryVars, chanVars, connVars,
            wireVars, remVars
<1>1. ASSUME NEW c \in Conn, NEW t \in Token, WsLookup(c, t) PROVE ConnTypeOK'
  BY <1>1 DEF WsLookup
<1>2. ASSUME NEW c \in Conn, WsAttach(c) PROVE ConnTypeOK'
  BY <1>2 DEF WsAttach, AlreadyConnected
<1>3. ASSUME NEW c \in Conn, ReadResponse(c) PROVE ConnTypeOK'
  BY <1>3, ReadTakes
<1>4. ASSUME NEW c \in Conn, DeliverSend(c) PROVE ConnTypeOK'
  BY <1>4 DEF DeliverSend
<1>5. ASSUME NEW c \in Conn, ReadError(c) PROVE ConnTypeOK'
  BY <1>5 DEF ReadError
<1>6. ASSUME NEW c \in Conn, WsClear(c) PROVE ConnTypeOK'
  BY <1>6 DEF WsClear
<1>7. ASSUME NEW c \in Conn, WsStamp(c) PROVE ConnTypeOK'
  BY <1>7 DEF WsStamp
<1>8. CASE UNCHANGED connVars
  BY <1>8
<1> QED
  BY <1>1, <1>2, <1>3, <1>4, <1>5, <1>6, <1>7, <1>8, ConnFrame

\* The connections keep their types.
LEMMA WireTypeOKStep == TypeOK /\ [Next]_vars => WireTypeOK'
<1> SUFFICES ASSUME TypeOK, [Next]_vars PROVE WireTypeOK'
  OBVIOUS
<1> USE DEF TypeOK, WireTypeOK, sessVars, queryVars, chanVars, connVars, wireVars,
            remVars
<1>1. ASSUME NEW c \in Conn, NEW t \in Token, WsLookup(c, t) PROVE WireTypeOK'
  <2>1. fromCli' \in [Conn -> Seq(Query \cup {Ready})]
    <3>1. <<Ready>> \in Seq(Query \cup {Ready})
      OBVIOUS
    <3> QED
      BY <1>1, <3>1 DEF WsLookup
  <2> QED
    BY <1>1, <2>1 DEF WsLookup
<1>2. ASSUME NEW c \in Conn, WsAttach(c) PROVE WireTypeOK'
  BY <1>2 DEF WsAttach, AlreadyConnected
<1>3. ASSUME NEW c \in Conn, ReadReady(c) PROVE WireTypeOK'
  BY <1>3 DEF ReadReady
<1>4. ASSUME NEW c \in Conn, ReadResponse(c) PROVE WireTypeOK'
  BY <1>4 DEF ReadResponse
<1>5. ASSUME NEW c \in Conn, ReadError(c) PROVE WireTypeOK'
  BY <1>5 DEF ReadError
<1>6. ASSUME NEW c \in Conn, CliExecute(c) PROVE WireTypeOK'
  <2> DEFINE q == Head(toCli[c])
  <2>1. q \in Query
    BY <1>6, SeqFacts DEF CliExecute
  <2>2. executed' \subseteq Query /\ errored' \subseteq Query
    BY <1>6, <2>1 DEF CliExecute
  <2>3. toCli' \in [Conn -> Seq(Query)]
    BY <1>6 DEF CliExecute
  <2> HIDE DEF q
  <2>4. Append(fromCli[c], q) \in Seq(Query \cup {Ready})
    BY <2>1
  <2>5. UNCHANGED sock /\ (UNCHANGED fromCli \/ fromCli' = [fromCli EXCEPT ![c] = Append(fromCli[c], q)])
    BY <1>6 DEF CliExecute, q
  <2>6. fromCli' \in [Conn -> Seq(Query \cup {Ready})]
    BY <2>4, <2>5
  <2> QED
    BY <2>2, <2>3, <2>5, <2>6
<1>7. ASSUME NEW c \in Conn, CliDrop(c) PROVE WireTypeOK'
  BY <1>7 DEF CliDrop
<1>8. ASSUME NEW q \in Query, QueryWrite(q) PROVE WireTypeOK'
  <2>1. CASE UNCHANGED toCli
    BY <1>8, <2>1 DEF QueryWrite
  <2>2. CASE ~UNCHANGED toCli
    <3> DEFINE c == attached[qtok[q]]
    <3>1. toCli' = [toCli EXCEPT ![c] = Append(@, q)]
      BY <1>8, <2>2 DEF QueryWrite
    <3>2. c \in Conn => Append(toCli[c], q) \in Seq(Query)
      BY SeqFacts
    <3> QED
      BY <1>8, <3>1, <3>2 DEF QueryWrite
  <2> QED
    BY <2>1, <2>2
<1>9. ASSUME NEW r \in Remover, RemoveClose(r) PROVE WireTypeOK'
  BY <1>9 DEF RemoveClose
<1>10. CASE UNCHANGED wireVars
  BY <1>10
<1> QED
  BY <1>1, <1>2, <1>3, <1>4, <1>5, <1>6, <1>7, <1>8, <1>9, <1>10, WireFrame

\* The removers keep their types.
LEMMA RemTypeOKStep == TypeOK /\ RemoverOwns /\ [Next]_vars => RemTypeOK'
<1> SUFFICES ASSUME TypeOK, RemoverOwns, [Next]_vars PROVE RemTypeOK'
  OBVIOUS
<1> USE DEF TypeOK, RemTypeOK, RemPC, SessTypeOK, sessVars, queryVars, chanVars,
            connVars, wireVars, remVars
<1>1. ASSUME NEW r \in Remover, RemoveUnmap(r) PROVE RemTypeOK'
  BY <1>1 DEF RemoveUnmap, StillMapped
<1>2. ASSUME NEW r \in Remover, RemoveClose(r) PROVE RemTypeOK'
  BY <1>2 DEF RemoveClose, RemoverOwns, Removing
<1>3. ASSUME NEW r \in Remover, NEW q \in Query, DrainLoad(r, q) PROVE RemTypeOK'
  BY <1>3 DEF DrainLoad
<1>4. ASSUME NEW r \in Remover, DrainClose(r) PROVE RemTypeOK'
  BY <1>4 DEF DrainClose
<1>5. ASSUME NEW r \in Remover, DrainDelete(r) PROVE RemTypeOK'
  BY <1>5 DEF DrainDelete
<1>6. ASSUME NEW r \in Remover, DrainEnd(r) PROVE RemTypeOK'
  BY <1>6 DEF DrainEnd
<1>7. ASSUME SweepStart PROVE RemTypeOK'
  BY <1>7 DEF SweepStart
<1>8. ASSUME NEW t \in Token, SweepCheck(t) PROVE RemTypeOK'
  BY <1>8 DEF SweepCheck, Stale
<1>9. ASSUME SweepEnd PROVE RemTypeOK'
  BY <1>9 DEF SweepEnd
<1>10. ASSUME SweepStop PROVE RemTypeOK'
  BY <1>10 DEF SweepStop
<1>11. ASSUME ShutdownStart PROVE RemTypeOK'
  BY <1>11 DEF ShutdownStart
<1>12. ASSUME NEW t \in Token, ShutdownNext(t) PROVE RemTypeOK'
  BY <1>12 DEF ShutdownNext
<1>13. ASSUME ShutdownEnd PROVE RemTypeOK'
  BY <1>13 DEF ShutdownEnd
<1>14. CASE UNCHANGED remVars
  BY <1>14
<1> QED
  BY <1>1, <1>2, <1>3, <1>4, <1>5, <1>6, <1>7, <1>8, <1>9, <1>10, <1>11, <1>12,
     <1>13, <1>14, RemFrame

\* A session that is not created stays unknown.
LEMMA UncreatedUnknownStep == IInv /\ [Next]_vars => UncreatedUnknown'
<1> SUFFICES ASSUME IInv, [Next]_vars PROVE UncreatedUnknown'
  OBVIOUS
<1> USE DEF IInv, TypeOK, SessTypeOK, ClockTypeOK, UncreatedUnknown, ConnHasSession,
            sessVars, queryVars, chanVars, connVars, wireVars, remVars
<1>1. ASSUME NEW t \in Token, CreateToken(t) PROVE UncreatedUnknown'
  BY <1>1 DEF CreateToken
<1>2. ASSUME NEW c \in Conn, WsAttach(c) PROVE UncreatedUnknown'
  BY <1>2 DEF WsAttach, AlreadyConnected
<1>3. ASSUME NEW c \in Conn, ReadReady(c) PROVE UncreatedUnknown'
  BY <1>3 DEF ReadReady
<1>4. ASSUME NEW c \in Conn, WsClear(c) PROVE UncreatedUnknown'
  BY <1>4 DEF WsClear
<1>5. ASSUME NEW c \in Conn, WsStamp(c) PROVE UncreatedUnknown'
  BY <1>5 DEF WsStamp
<1>6. ASSUME NEW r \in Remover, RemoveUnmap(r) PROVE UncreatedUnknown'
  BY <1>6 DEF RemoveUnmap, StillMapped
<1>7. ASSUME NEW r \in Remover, RemoveClose(r) PROVE UncreatedUnknown'
  BY <1>7 DEF RemoveClose
<1>8. CASE UNCHANGED <<sessions, createdAt, attached>>
  BY <1>8
<1> QED
  BY <1>1, <1>2, <1>3, <1>4, <1>5, <1>6, <1>7, <1>8, MapFrame, AttachFrame

\* A connection past its lookup has a session.
LEMMA ConnHasSessionStep == IInv /\ [Next]_vars => ConnHasSession'
<1> SUFFICES ASSUME IInv, [Next]_vars PROVE ConnHasSession'
  OBVIOUS
<1> USE DEF IInv, TypeOK, SessTypeOK, ClockTypeOK, ConnTypeOK, ConnPC, UncreatedUnknown,
            ConnHasSession, sessVars, queryVars, chanVars, connVars, wireVars, remVars
<1>1. ASSUME NEW t \in Token, CreateToken(t) PROVE ConnHasSession'
  BY <1>1 DEF CreateToken
<1>2. ASSUME NEW c \in Conn, NEW t \in Token, WsLookup(c, t) PROVE ConnHasSession'
  BY <1>2 DEF WsLookup
<1>3. ASSUME NEW c \in Conn, WsAttach(c) PROVE ConnHasSession'
  BY <1>3 DEF WsAttach, AlreadyConnected
<1>4. ASSUME NEW c \in Conn, ReadResponse(c) PROVE ConnHasSession'
  BY <1>4 DEF ReadResponse
<1>5. ASSUME NEW c \in Conn, DeliverSend(c) PROVE ConnHasSession'
  BY <1>5 DEF DeliverSend
<1>6. ASSUME NEW c \in Conn, ReadError(c) PROVE ConnHasSession'
  BY <1>6 DEF ReadError
<1>7. ASSUME NEW c \in Conn, WsClear(c) PROVE ConnHasSession'
  BY <1>7 DEF WsClear
<1>8. ASSUME NEW c \in Conn, WsStamp(c) PROVE ConnHasSession'
  BY <1>8 DEF WsStamp
<1>9. ASSUME NEW r \in Remover, RemoveUnmap(r) PROVE ConnHasSession'
  BY <1>9 DEF RemoveUnmap, StillMapped
<1>10. CASE UNCHANGED <<createdAt, connVars>>
  BY <1>10
<1> QED
  BY <1>1, <1>2, <1>3, <1>4, <1>5, <1>6, <1>7, <1>8, <1>9, <1>10, MapFrame,
     ConnFrame

\* A query past its lookup has a session.
LEMMA QueryHasSessionStep == IInv /\ [Next]_vars => QueryHasSession'
<1> SUFFICES ASSUME IInv, [Next]_vars PROVE QueryHasSession'
  OBVIOUS
<1> USE DEF IInv, TypeOK, SessTypeOK, ClockTypeOK, QueryTypeOK, QueryPC,
            UncreatedUnknown, QueryHasSession, sessVars, queryVars, chanVars, connVars,
            wireVars, remVars
<1>1. ASSUME NEW t \in Token, CreateToken(t) PROVE QueryHasSession'
  BY <1>1 DEF CreateToken
<1>2. ASSUME NEW q \in Query, NEW t \in Token, QueryLookup(q, t) PROVE QueryHasSession'
  BY <1>2 DEF QueryLookup
<1>3. ASSUME NEW q \in Query, QueryRegister(q) PROVE QueryHasSession'
  BY <1>3 DEF QueryRegister
<1>4. ASSUME NEW q \in Query, QueryLock(q) PROVE QueryHasSession'
  BY <1>4 DEF QueryLock
<1>5. ASSUME NEW q \in Query, QueryWrite(q) PROVE QueryHasSession'
  BY <1>5 DEF QueryWrite
<1>6. ASSUME NEW q \in Query, QueryReceive(q) PROVE QueryHasSession'
  BY <1>6 DEF QueryReceive, Leave
<1>7. ASSUME NEW q \in Query, QueryClosed(q) PROVE QueryHasSession'
  BY <1>7 DEF QueryClosed, Leave
<1>8. ASSUME NEW q \in Query, QueryReturn(q) PROVE QueryHasSession'
  BY <1>8 DEF QueryReturn
<1>9. ASSUME NEW q \in Query, QueryTimeout(q) PROVE QueryHasSession'
  BY <1>9 DEF QueryTimeout, Leave
<1>10. ASSUME NEW r \in Remover, RemoveUnmap(r) PROVE QueryHasSession'
  BY <1>10 DEF RemoveUnmap, StillMapped
<1>11. CASE UNCHANGED <<createdAt, queryVars>>
  BY <1>11
<1> QED
  BY <1>1, <1>2, <1>3, <1>4, <1>5, <1>6, <1>7, <1>8, <1>9, <1>10, <1>11,
     MapFrame, QueryFrame

\* Two CLIs never share a session of the hub.
LEMMA OneCliPerSessionStep == IInv /\ [Next]_vars => OneCliPerSession'
<1> SUFFICES ASSUME IInv, [Next]_vars PROVE OneCliPerSession'
  OBVIOUS
<1> USE DEF IInv, TypeOK, SessTypeOK, ConnTypeOK, ConnPC, Reading, UncreatedUnknown,
            ConnHasSession, RemoverOwns, Removing, ClosedIsRemoved, HandOwns,
            OneCliPerSession, sessVars, queryVars, chanVars, connVars, wireVars, remVars
<1>1. ASSUME NEW t \in Token, CreateToken(t) PROVE OneCliPerSession'
  BY <1>1, TunnelAssumption DEF CreateToken
<1>2. ASSUME NEW c \in Conn, NEW t \in Token, WsLookup(c, t) PROVE OneCliPerSession'
  BY <1>2 DEF WsLookup
<1>3. ASSUME NEW c \in Conn, WsAttach(c) PROVE OneCliPerSession'
  BY <1>3, TunnelAssumption DEF WsAttach, AlreadyConnected
<1>4. ASSUME NEW c \in Conn, ReadReady(c) PROVE OneCliPerSession'
  BY <1>4 DEF ReadReady
<1>5. ASSUME NEW c \in Conn, ReadResponse(c) PROVE OneCliPerSession'
  BY <1>5 DEF ReadResponse
<1>6. ASSUME NEW c \in Conn, DeliverSend(c) PROVE OneCliPerSession'
  BY <1>6 DEF DeliverSend
<1>7. ASSUME NEW c \in Conn, ReadError(c) PROVE OneCliPerSession'
  BY <1>7 DEF ReadError
<1>8. ASSUME NEW c \in Conn, WsClear(c) PROVE OneCliPerSession'
  BY <1>8, TunnelAssumption DEF WsClear
<1>9. ASSUME NEW c \in Conn, WsStamp(c) PROVE OneCliPerSession'
  BY <1>9 DEF WsStamp
<1>10. ASSUME NEW r \in Remover, RemoveUnmap(r) PROVE OneCliPerSession'
  BY <1>10 DEF RemoveUnmap, StillMapped
<1>11. ASSUME NEW r \in Remover, RemoveClose(r) PROVE OneCliPerSession'
  BY <1>11 DEF RemoveClose
<1>12. CASE UNCHANGED <<sessions, attached, connVars>>
  BY <1>12
<1> QED
  BY <1>1, <1>2, <1>3, <1>4, <1>5, <1>6, <1>7, <1>8, <1>9, <1>10, <1>11, <1>12,
     MapFrame, AttachFrame, ConnFrame

\* Registries hold only requests of live handlers.
LEMMA PendingOnlyLiveStep == IInv /\ [Next]_vars => PendingOnlyLive'
<1> SUFFICES ASSUME IInv, [Next]_vars PROVE PendingOnlyLive'
  OBVIOUS
<1> USE DEF IInv, TypeOK, SessTypeOK, QueryTypeOK, QueryPC, QueryHasSession,
            PendingOnlyLive, sessVars, queryVars, chanVars, connVars, wireVars, remVars
<1>1. ASSUME NEW c \in Conn, ReadResponse(c) PROVE PendingOnlyLive'
  BY <1>1, ReadTakes
<1>2. ASSUME NEW q \in Query, NEW t \in Token, QueryLookup(q, t) PROVE PendingOnlyLive'
  BY <1>2 DEF QueryLookup
<1>3. ASSUME NEW q \in Query, QueryRegister(q) PROVE PendingOnlyLive'
  BY <1>3 DEF QueryRegister
<1>4. ASSUME NEW q \in Query, QueryLock(q) PROVE PendingOnlyLive'
  BY <1>4 DEF QueryLock
<1>5. ASSUME NEW q \in Query, QueryWrite(q) PROVE PendingOnlyLive'
  BY <1>5, WriteReturns
<1>6. ASSUME NEW q \in Query, QueryReceive(q) PROVE PendingOnlyLive'
  BY <1>6 DEF QueryReceive, Leave
<1>7. ASSUME NEW q \in Query, QueryClosed(q) PROVE PendingOnlyLive'
  BY <1>7 DEF QueryClosed, Leave
<1>8. ASSUME NEW q \in Query, QueryReturn(q) PROVE PendingOnlyLive'
  BY <1>8 DEF QueryReturn
<1>9. ASSUME NEW q \in Query, QueryTimeout(q) PROVE PendingOnlyLive'
  BY <1>9 DEF QueryTimeout, Leave
<1>10. ASSUME NEW r \in Remover, DrainDelete(r) PROVE PendingOnlyLive'
  BY <1>10 DEF DrainDelete
<1>11. CASE UNCHANGED <<pending, queryVars>>
  BY <1>11
<1> QED
  BY <1>1, <1>2, <1>3, <1>4, <1>5, <1>6, <1>7, <1>8, <1>9, <1>10, <1>11,
     PendingFrame, QueryFrame

\* A remover keeps its session to itself.
LEMMA RemoverOwnsStep == IInv /\ [Next]_vars => RemoverOwns'
<1> SUFFICES ASSUME IInv, [Next]_vars PROVE RemoverOwns'
  OBVIOUS
<1> USE DEF IInv, TypeOK, SessTypeOK, ClockTypeOK, RemTypeOK, RemPC, UncreatedUnknown,
            RemoverOwns, Removing, sessVars, queryVars, chanVars, connVars, wireVars,
            remVars
<1>1. ASSUME NEW t \in Token, CreateToken(t) PROVE RemoverOwns'
  BY <1>1 DEF CreateToken
<1>2. ASSUME NEW r \in Remover, RemoveUnmap(r) PROVE RemoverOwns'
  BY <1>2 DEF RemoveUnmap, StillMapped
<1>3. ASSUME NEW r \in Remover, RemoveClose(r) PROVE RemoverOwns'
  BY <1>3 DEF RemoveClose
<1>4. ASSUME NEW r \in Remover, NEW q \in Query, DrainLoad(r, q) PROVE RemoverOwns'
  BY <1>4 DEF DrainLoad
<1>5. ASSUME NEW r \in Remover, DrainClose(r) PROVE RemoverOwns'
  BY <1>5 DEF DrainClose
<1>6. ASSUME NEW r \in Remover, DrainDelete(r) PROVE RemoverOwns'
  BY <1>6 DEF DrainDelete
<1>7. ASSUME NEW r \in Remover, DrainEnd(r) PROVE RemoverOwns'
  BY <1>7 DEF DrainEnd
<1>8. ASSUME SweepStart PROVE RemoverOwns'
  BY <1>8 DEF SweepStart
<1>9. ASSUME NEW t \in Token, SweepCheck(t) PROVE RemoverOwns'
  BY <1>9 DEF SweepCheck, Stale
<1>10. ASSUME SweepEnd PROVE RemoverOwns'
  BY <1>10 DEF SweepEnd
<1>11. ASSUME SweepStop PROVE RemoverOwns'
  BY <1>11 DEF SweepStop
<1>12. ASSUME ShutdownStart PROVE RemoverOwns'
  BY <1>12 DEF ShutdownStart
<1>13. ASSUME NEW t \in Token, ShutdownNext(t) PROVE RemoverOwns'
  BY <1>13 DEF ShutdownNext
<1>14. ASSUME ShutdownEnd PROVE RemoverOwns'
  BY <1>14 DEF ShutdownEnd
<1>15. CASE UNCHANGED <<sessions, createdAt, rpc, rtok>>
  BY <1>15
<1> QED
  BY <1>1, <1>2, <1>3, <1>4, <1>5, <1>6, <1>7, <1>8, <1>9, <1>10, <1>11, <1>12,
     <1>13, <1>14, <1>15, MapFrame, RemFrame

\* The entry a remover drains is its own.
LEMMA DrainOwnsStep == IInv /\ [Next]_vars => DrainOwns'
<1> SUFFICES ASSUME IInv, [Next]_vars PROVE DrainOwns'
  OBVIOUS
<1> USE DEF IInv, TypeOK, SessTypeOK, QueryTypeOK, QueryPC, RemTypeOK, RemPC,
            PendingOnlyLive, RemoverOwns, Removing, DrainOwns, ClosedIsRemoved,
            Unregistered, sessVars, queryVars, chanVars, connVars, wireVars, remVars
<1>1. ASSUME NEW c \in Conn, DeliverSend(c) PROVE DrainOwns'
  BY <1>1 DEF DeliverSend
<1>2. ASSUME NEW q \in Query, NEW t \in Token, QueryLookup(q, t) PROVE DrainOwns'
  BY <1>2 DEF QueryLookup
<1>3. ASSUME NEW q \in Query, QueryRegister(q) PROVE DrainOwns'
  BY <1>3 DEF QueryRegister
<1>4. ASSUME NEW q \in Query, QueryLock(q) PROVE DrainOwns'
  BY <1>4 DEF QueryLock
<1>5. ASSUME NEW q \in Query, QueryWrite(q) PROVE DrainOwns'
  BY <1>5 DEF QueryWrite
<1>6. ASSUME NEW q \in Query, QueryReceive(q) PROVE DrainOwns'
  BY <1>6 DEF QueryReceive, Leave
<1>7. ASSUME NEW q \in Query, QueryClosed(q) PROVE DrainOwns'
  BY <1>7 DEF QueryClosed, Leave
<1>8. ASSUME NEW q \in Query, QueryReturn(q) PROVE DrainOwns'
  BY <1>8 DEF QueryReturn
<1>9. ASSUME NEW q \in Query, QueryTimeout(q) PROVE DrainOwns'
  BY <1>9 DEF QueryTimeout, Leave
<1>10. ASSUME NEW r \in Remover, RemoveUnmap(r) PROVE DrainOwns'
  BY <1>10 DEF RemoveUnmap, StillMapped
<1>11. ASSUME NEW r \in Remover, RemoveClose(r) PROVE DrainOwns'
  BY <1>11 DEF RemoveClose
<1>12. ASSUME NEW r \in Remover, NEW q \in Query, DrainLoad(r, q) PROVE DrainOwns'
  BY <1>12 DEF DrainLoad
<1>13. ASSUME NEW r \in Remover, DrainClose(r) PROVE DrainOwns'
  BY <1>13 DEF DrainClose
<1>14. ASSUME NEW r \in Remover, DrainDelete(r) PROVE DrainOwns'
  BY <1>14 DEF DrainDelete
<1>15. ASSUME NEW r \in Remover, DrainEnd(r) PROVE DrainOwns'
  BY <1>15 DEF DrainEnd
<1>16. ASSUME SweepStart PROVE DrainOwns'
  BY <1>16 DEF SweepStart
<1>17. ASSUME NEW t \in Token, SweepCheck(t) PROVE DrainOwns'
  BY <1>17 DEF SweepCheck, Stale
<1>18. ASSUME SweepEnd PROVE DrainOwns'
  BY <1>18 DEF SweepEnd
<1>19. ASSUME SweepStop PROVE DrainOwns'
  BY <1>19 DEF SweepStop
<1>20. ASSUME ShutdownStart PROVE DrainOwns'
  BY <1>20 DEF ShutdownStart
<1>21. ASSUME NEW t \in Token, ShutdownNext(t) PROVE DrainOwns'
  BY <1>21 DEF ShutdownNext
<1>22. ASSUME ShutdownEnd PROVE DrainOwns'
  BY <1>22 DEF ShutdownEnd
<1>23. CASE UNCHANGED <<queryVars, chanVars, rpc, rtok, rkey>>
  BY <1>23
<1> QED
  BY <1>1, <1>2, <1>3, <1>4, <1>5, <1>6, <1>7, <1>8, <1>9, <1>10, <1>11, <1>12,
     <1>13, <1>14, <1>15, <1>16, <1>17, <1>18, <1>19, <1>20, <1>21, <1>22, <1>23,
     QueryFrame, ChanFrame, RemFrame

\* Closed channels belong to removed sessions.
LEMMA ClosedIsRemovedStep == IInv /\ [Next]_vars => ClosedIsRemoved'
<1> SUFFICES ASSUME IInv, [Next]_vars PROVE ClosedIsRemoved'
  OBVIOUS
<1> USE DEF IInv, TypeOK, SessTypeOK, ClockTypeOK, QueryTypeOK, QueryPC, RemTypeOK,
            RemPC, UncreatedUnknown, RemoverOwns, Removing, DrainOwns, ClosedIsRemoved,
            QueryHasSession, Unregistered, sessVars, queryVars, chanVars, connVars,
            wireVars, remVars
<1>1. ASSUME NEW t \in Token, CreateToken(t) PROVE ClosedIsRemoved'
  BY <1>1 DEF CreateToken
<1>2. ASSUME NEW c \in Conn, ReadResponse(c) PROVE ClosedIsRemoved'
  BY <1>2, ReadTakes
<1>3. ASSUME NEW c \in Conn, DeliverSend(c) PROVE ClosedIsRemoved'
  BY <1>3 DEF DeliverSend
<1>4. ASSUME NEW q \in Query, NEW t \in Token, QueryLookup(q, t) PROVE ClosedIsRemoved'
  BY <1>4 DEF QueryLookup
<1>5. ASSUME NEW q \in Query, QueryRegister(q) PROVE ClosedIsRemoved'
  BY <1>5 DEF QueryRegister
<1>6. ASSUME NEW q \in Query, QueryLock(q) PROVE ClosedIsRemoved'
  BY <1>6 DEF QueryLock
<1>7. ASSUME NEW q \in Query, QueryWrite(q) PROVE ClosedIsRemoved'
  BY <1>7 DEF QueryWrite
<1>8. ASSUME NEW q \in Query, QueryReceive(q) PROVE ClosedIsRemoved'
  BY <1>8 DEF QueryReceive, Leave
<1>9. ASSUME NEW q \in Query, QueryClosed(q) PROVE ClosedIsRemoved'
  BY <1>9 DEF QueryClosed, Leave
<1>10. ASSUME NEW q \in Query, QueryReturn(q) PROVE ClosedIsRemoved'
  BY <1>10 DEF QueryReturn
<1>11. ASSUME NEW q \in Query, QueryTimeout(q) PROVE ClosedIsRemoved'
  BY <1>11 DEF QueryTimeout, Leave
<1>12. ASSUME NEW r \in Remover, RemoveUnmap(r) PROVE ClosedIsRemoved'
  BY <1>12 DEF RemoveUnmap, StillMapped
<1>13. ASSUME NEW r \in Remover, RemoveClose(r) PROVE ClosedIsRemoved'
  BY <1>13 DEF RemoveClose
<1>14. ASSUME NEW r \in Remover, NEW q \in Query, DrainLoad(r, q) PROVE ClosedIsRemoved'
  BY <1>14 DEF DrainLoad
<1>15. ASSUME NEW r \in Remover, DrainClose(r) PROVE ClosedIsRemoved'
  BY <1>15 DEF DrainClose
<1>16. ASSUME NEW r \in Remover, DrainDelete(r) PROVE ClosedIsRemoved'
  BY <1>16 DEF DrainDelete
<1>17. ASSUME NEW r \in Remover, DrainEnd(r) PROVE ClosedIsRemoved'
  BY <1>17 DEF DrainEnd
<1>18. ASSUME SweepStart PROVE ClosedIsRemoved'
  BY <1>18 DEF SweepStart
<1>19. ASSUME NEW t \in Token, SweepCheck(t) PROVE ClosedIsRemoved'
  BY <1>19 DEF SweepCheck, Stale
<1>20. ASSUME SweepEnd PROVE ClosedIsRemoved'
  BY <1>20 DEF SweepEnd
<1>21. ASSUME SweepStop PROVE ClosedIsRemoved'
  BY <1>21 DEF SweepStop
<1>22. ASSUME ShutdownStart PROVE ClosedIsRemoved'
  BY <1>22 DEF ShutdownStart
<1>23. ASSUME NEW t \in Token, ShutdownNext(t) PROVE ClosedIsRemoved'
  BY <1>23 DEF ShutdownNext
<1>24. ASSUME ShutdownEnd PROVE ClosedIsRemoved'
  BY <1>24 DEF ShutdownEnd
<1>25. CASE UNCHANGED <<sessions, createdAt, pending, queryVars, chanVars, rpc, rkey>>
  BY <1>25
<1> QED
  BY <1>1, <1>2, <1>3, <1>4, <1>5, <1>6, <1>7, <1>8, <1>9, <1>10, <1>11, <1>12,
     <1>13, <1>14, <1>15, <1>16, <1>17, <1>18, <1>19, <1>20, <1>21, <1>22, <1>23, <1>24,
     <1>25, MapFrame, PendingFrame, QueryFrame, ChanFrame, RemFrame

\* No channel is closed twice.
LEMMA NoDoubleCloseStep == IInv /\ [Next]_vars => NoDoubleClose'
<1> SUFFICES ASSUME IInv, [Next]_vars PROVE NoDoubleClose'
  OBVIOUS
<1> USE DEF IInv, TypeOK, RemTypeOK, RemPC, Remover, DrainOwns, NoDoubleClose, sessVars,
            queryVars, chanVars, connVars, wireVars, remVars
<1>1. ASSUME NEW r \in Remover, RemoveUnmap(r) PROVE NoDoubleClose'
  BY <1>1 DEF RemoveUnmap, StillMapped
<1>2. ASSUME NEW r \in Remover, RemoveClose(r) PROVE NoDoubleClose'
  BY <1>2 DEF RemoveClose
<1>3. ASSUME NEW r \in Remover, NEW q \in Query, DrainLoad(r, q) PROVE NoDoubleClose'
  BY <1>3 DEF DrainLoad
<1>4. ASSUME NEW r \in Remover, DrainClose(r) PROVE NoDoubleClose'
  BY <1>4 DEF DrainClose
<1>5. ASSUME NEW r \in Remover, DrainDelete(r) PROVE NoDoubleClose'
  BY <1>5 DEF DrainDelete
<1>6. ASSUME NEW r \in Remover, DrainEnd(r) PROVE NoDoubleClose'
  BY <1>6 DEF DrainEnd
<1>7. ASSUME SweepStart PROVE NoDoubleClose'
  BY <1>7 DEF SweepStart
<1>8. ASSUME NEW t \in Token, SweepCheck(t) PROVE NoDoubleClose'
  BY <1>8 DEF SweepCheck, Stale
<1>9. ASSUME SweepEnd PROVE NoDoubleClose'
  BY <1>9 DEF SweepEnd
<1>10. ASSUME SweepStop PROVE NoDoubleClose'
  BY <1>10 DEF SweepStop
<1>11. ASSUME ShutdownStart PROVE NoDoubleClose'
  BY <1>11 DEF ShutdownStart
<1>12. ASSUME NEW t \in Token, ShutdownNext(t) PROVE NoDoubleClose'
  BY <1>12 DEF ShutdownNext
<1>13. ASSUME ShutdownEnd PROVE NoDoubleClose'
  BY <1>13 DEF ShutdownEnd
<1>14. CASE UNCHANGED rpc
  BY <1>14
<1> QED
  BY <1>1, <1>2, <1>3, <1>4, <1>5, <1>6, <1>7, <1>8, <1>9, <1>10, <1>11, <1>12,
     <1>13, <1>14, RemFrame

\* A response is delivered to a query of the same session.
LEMMA HandOwnsStep == IInv /\ [Next]_vars => HandOwns'
<1> SUFFICES ASSUME IInv, [Next]_vars PROVE HandOwns'
  OBVIOUS
<1> USE DEF IInv, TypeOK, SessTypeOK, ConnTypeOK, ConnPC, QueryTypeOK, QueryPC,
            PendingOnlyLive, ConnHasSession, HandOwns, Unregistered, sessVars,
            queryVars, chanVars, connVars, wireVars, remVars
<1>1. ASSUME NEW c \in Conn, NEW t \in Token, WsLookup(c, t) PROVE HandOwns'
  BY <1>1 DEF WsLookup
<1>2. ASSUME NEW c \in Conn, WsAttach(c) PROVE HandOwns'
  BY <1>2 DEF WsAttach, AlreadyConnected
<1>3. ASSUME NEW c \in Conn, ReadResponse(c) PROVE HandOwns'
  <2>1. ctok[c] \in Token
    BY <1>3, ReadTakes
  <2>2. CASE UNCHANGED <<pending, hand, cpc>>
    BY <1>3, <2>2, ReadTakes
  <2>3. CASE \E q \in pending[ctok[c]] \cap Query :
                hand' = [hand EXCEPT ![c] = q] /\ cpc' = [cpc EXCEPT ![c] = "delivering"]
    BY <1>3, <2>1, <2>3, ReadTakes
  <2> QED
    BY <1>3, <2>2, <2>3, ReadTakes
<1>4. ASSUME NEW c \in Conn, DeliverSend(c) PROVE HandOwns'
  BY <1>4 DEF DeliverSend
<1>5. ASSUME NEW c \in Conn, ReadError(c) PROVE HandOwns'
  BY <1>5 DEF ReadError
<1>6. ASSUME NEW c \in Conn, WsClear(c) PROVE HandOwns'
  BY <1>6 DEF WsClear
<1>7. ASSUME NEW c \in Conn, WsStamp(c) PROVE HandOwns'
  BY <1>7 DEF WsStamp
<1>8. ASSUME NEW q \in Query, NEW t \in Token, QueryLookup(q, t) PROVE HandOwns'
  BY <1>8 DEF QueryLookup
<1>9. ASSUME NEW q \in Query, QueryRegister(q) PROVE HandOwns'
  BY <1>9 DEF QueryRegister
<1>10. ASSUME NEW q \in Query, QueryLock(q) PROVE HandOwns'
  BY <1>10 DEF QueryLock
<1>11. ASSUME NEW q \in Query, QueryWrite(q) PROVE HandOwns'
  BY <1>11 DEF QueryWrite
<1>12. ASSUME NEW q \in Query, QueryReceive(q) PROVE HandOwns'
  BY <1>12 DEF QueryReceive, Leave
<1>13. ASSUME NEW q \in Query, QueryClosed(q) PROVE HandOwns'
  BY <1>13 DEF QueryClosed, Leave
<1>14. ASSUME NEW q \in Query, QueryReturn(q) PROVE HandOwns'
  BY <1>14 DEF QueryReturn
<1>15. ASSUME NEW q \in Query, QueryTimeout(q) PROVE HandOwns'
  BY <1>15 DEF QueryTimeout, Leave
<1>16. CASE UNCHANGED <<connVars, queryVars>>
  BY <1>16
<1> QED
  BY <1>1, <1>2, <1>3, <1>4, <1>5, <1>6, <1>7, <1>8, <1>9, <1>10, <1>11, <1>12,
     <1>13, <1>14, <1>15, <1>16, ConnFrame, QueryFrame

\* A handler not yet woken can still be woken.
LEMMA RegisteredReachableStep == IInv /\ [Next]_vars => RegisteredReachable'
<1> SUFFICES ASSUME IInv, [Next]_vars PROVE RegisteredReachable'
  OBVIOUS
<1> USE DEF IInv, TypeOK, SessTypeOK, ConnTypeOK, ConnPC, QueryTypeOK, QueryPC,
            PendingOnlyLive, QueryHasSession, DrainOwns, HandOwns, RegisteredReachable,
            sessVars, queryVars, chanVars, connVars, wireVars, remVars
<1>1. ASSUME NEW c \in Conn, NEW t \in Token, WsLookup(c, t) PROVE RegisteredReachable'
  BY <1>1 DEF WsLookup
<1>2. ASSUME NEW c \in Conn, WsAttach(c) PROVE RegisteredReachable'
  BY <1>2 DEF WsAttach, AlreadyConnected
<1>3. ASSUME NEW c \in Conn, ReadResponse(c) PROVE RegisteredReachable'
  <2>1. ctok[c] \in Token
    BY <1>3, ReadTakes DEF ConnHasSession
  <2>2. CASE UNCHANGED <<pending, hand, cpc>>
    BY <1>3, <2>2, ReadTakes
  <2>3. ASSUME NEW q \in pending[ctok[c]] \cap Query,
               pending' = [pending EXCEPT ![ctok[c]] = @ \ {q}],
               hand' = [hand EXCEPT ![c] = q],
               cpc' = [cpc EXCEPT ![c] = "delivering"]
        PROVE  RegisteredReachable'
    <3> SUFFICES ASSUME NEW p \in Query,
                        qpc[p] \in {"registered", "writing", "waiting"}, ~full[p], ~closed[p]
                 PROVE  \/ p \in pending'[qtok[p]]
                        \/ \E d \in Conn : cpc'[d] = "delivering" /\ hand'[d] = p
      BY <1>3, ReadTakes
    <3>1. CASE p = q
      BY <2>3, <3>1
    <3>2. CASE p # q /\ p \in pending[qtok[p]]
      BY <2>1, <2>3, <3>2
    <3>3. CASE \E d \in Conn : cpc[d] = "delivering" /\ hand[d] = p
      BY <1>3, <2>3, <3>3, ReadTakes
    <3> QED
      BY <3>1, <3>2, <3>3
  <2> QED
    BY <1>3, <2>2, <2>3, ReadTakes
<1>4. ASSUME NEW c \in Conn, DeliverSend(c) PROVE RegisteredReachable'
  <2>1. /\ cpc[c] = "delivering" /\ hand[c] \in Query
        /\ full' = full \/ full' = [full EXCEPT ![hand[c]] = TRUE]
        /\ closed[hand[c]] \/ full'[hand[c]]
        /\ \A d \in Conn \ {c} : cpc'[d] = cpc[d] /\ hand'[d] = hand[d]
        /\ UNCHANGED <<pending, qpc, qtok, closed>>
    BY <1>4 DEF DeliverSend
  <2>2. ASSUME NEW p \in Query,
               qpc[p] \in {"registered", "writing", "waiting"}, ~full'[p], ~closed[p]
        PROVE  \/ p \in pending[qtok[p]]
               \/ \E d \in Conn : cpc'[d] = "delivering" /\ hand'[d] = p
    <3>1. p # hand[c] /\ ~full[p]
      BY <2>1, <2>2
    <3>2. CASE p \in pending[qtok[p]]
      BY <3>2
    <3>3. ASSUME NEW d \in Conn, cpc[d] = "delivering", hand[d] = p
          PROVE  \E e \in Conn : cpc'[e] = "delivering" /\ hand'[e] = p
      BY <3>1, <3>3, <2>1
    <3> QED
      BY <3>1, <3>2, <3>3, <2>2
  <2> QED
    BY <2>1, <2>2
<1>5. ASSUME NEW c \in Conn, ReadError(c) PROVE RegisteredReachable'
  BY <1>5 DEF ReadError
<1>6. ASSUME NEW c \in Conn, WsClear(c) PROVE RegisteredReachable'
  BY <1>6 DEF WsClear
<1>7. ASSUME NEW c \in Conn, WsStamp(c) PROVE RegisteredReachable'
  BY <1>7 DEF WsStamp
<1>8. ASSUME NEW q \in Query, NEW t \in Token, QueryLookup(q, t) PROVE RegisteredReachable'
  BY <1>8 DEF QueryLookup
<1>9. ASSUME NEW q \in Query, QueryRegister(q) PROVE RegisteredReachable'
  BY <1>9 DEF QueryRegister
<1>10. ASSUME NEW q \in Query, QueryLock(q) PROVE RegisteredReachable'
  BY <1>10 DEF QueryLock
<1>11. ASSUME NEW q \in Query, QueryWrite(q) PROVE RegisteredReachable'
  BY <1>11, WriteReturns
<1>12. ASSUME NEW q \in Query, QueryReceive(q) PROVE RegisteredReachable'
  BY <1>12 DEF QueryReceive, Leave
<1>13. ASSUME NEW q \in Query, QueryClosed(q) PROVE RegisteredReachable'
  BY <1>13 DEF QueryClosed, Leave
<1>14. ASSUME NEW q \in Query, QueryReturn(q) PROVE RegisteredReachable'
  BY <1>14 DEF QueryReturn
<1>15. ASSUME NEW q \in Query, QueryTimeout(q) PROVE RegisteredReachable'
  BY <1>15 DEF QueryTimeout, Leave
<1>16. ASSUME NEW r \in Remover, DrainClose(r) PROVE RegisteredReachable'
  BY <1>16 DEF DrainClose
<1>17. ASSUME NEW r \in Remover, DrainDelete(r) PROVE RegisteredReachable'
  BY <1>17 DEF DrainDelete
<1>18. CASE UNCHANGED <<pending, queryVars, chanVars, connVars>>
  BY <1>18
<1> QED
  BY <1>1, <1>2, <1>3, <1>4, <1>5, <1>6, <1>7, <1>8, <1>9, <1>10, <1>11, <1>12,
     <1>13, <1>14, <1>15, <1>16, <1>17, <1>18, PendingFrame, QueryFrame, ChanFrame,
     ConnFrame

-----------------------------------------------------------------------------
\* The invariant and what follows from it.

LEMMA TypeOKStep == TypeOK /\ RemoverOwns /\ [Next]_vars => TypeOK'
  BY SessTypeOKStep, ClockTypeOKStep, QueryTypeOKStep, ConnTypeOKStep, WireTypeOKStep,
     RemTypeOKStep DEF TypeOK

LEMMA InvInit == Init => IInv
<1> SUFFICES ASSUME Init PROVE IInv
  OBVIOUS
<1> USE TunnelAssumption DEF Init
<1>1. TypeOK
  BY DEF TypeOK, SessTypeOK, ClockTypeOK, QueryTypeOK, ConnTypeOK, WireTypeOK, RemTypeOK,
         QueryPC, Result, ConnPC, RemPC
<1>2. UncreatedUnknown /\ ConnHasSession /\ QueryHasSession
  BY DEF UncreatedUnknown, ConnHasSession, QueryHasSession
<1>3. OneCliPerSession /\ PendingOnlyLive /\ HandOwns /\ RegisteredReachable
  BY DEF OneCliPerSession, PendingOnlyLive, HandOwns, RegisteredReachable
<1>4. RemoverOwns /\ DrainOwns /\ ClosedIsRemoved /\ NoDoubleClose
  BY DEF RemoverOwns, Removing, DrainOwns, ClosedIsRemoved, NoDoubleClose
<1> QED
  BY <1>1, <1>2, <1>3, <1>4 DEF IInv

LEMMA InvStep == IInv /\ [Next]_vars => IInv'
  BY TypeOKStep, UncreatedUnknownStep, ConnHasSessionStep, QueryHasSessionStep,
     OneCliPerSessionStep, PendingOnlyLiveStep, RemoverOwnsStep, DrainOwnsStep,
     ClosedIsRemovedStep, NoDoubleCloseStep, HandOwnsStep, RegisteredReachableStep
  DEF IInv

\* The inductive invariant holds in every reachable state.
THEOREM Invariance == Spec => []IInv
<1>1. Init => IInv
  BY InvInit
<1>2. IInv /\ [Next]_vars => IInv'
  BY InvStep
<1> QED
  BY <1>1, <1>2, PTL DEF Spec

\* Every variable keeps its type.
THEOREM TypeCorrect == Spec => []TypeOK
<1>1. IInv => TypeOK
  BY DEF IInv
<1> QED
  BY <1>1, Invariance, PTL

\* As long as a session is in the hub, sess.Conn is exactly the connection
\* whose handler is in its read loop (RegisterConn, HandleWebSocket).
THEOREM SessionsAreExclusive == Spec => []OneCliPerSession
<1>1. IInv => OneCliPerSession
  BY DEF IInv
<1> QED
  BY <1>1, Invariance, PTL

\* However the sweeper and Shutdown interleave, RemoveSession never closes a
\* response channel twice.
THEOREM NoCrash == Spec => []NoDoubleClose
<1>1. IInv => NoDoubleClose
  BY DEF IInv
<1> QED
  BY <1>1, Invariance, PTL

\* No path out of HandleQuery or HandleSchema leaks a response channel.
THEOREM NoLeak == Spec => []PendingOnlyLive
<1>1. IInv => PendingOnlyLive
  BY DEF IInv
<1> QED
  BY <1>1, Invariance, PTL

\* A handler that waits with an empty, open channel is still registered or
\* about to be sent to: no response and no drain can miss it.
THEOREM NoLostWakeup == Spec => []WaitersReachable
<1>1. IInv => WaitersReachable
  BY DEF IInv, RegisteredReachable, WaitersReachable
<1> QED
  BY <1>1, Invariance, PTL

-----------------------------------------------------------------------------
\* The dialect, and the sessions that wait for a CLI.

\* A message appended to those that wait does not become the first.
LEMMA HeadStays ==
    ASSUME NEW S, NEW s \in Seq(S), NEW x \in S, s # <<>>
    PROVE  Append(s, x) # <<>> /\ Head(Append(s, x)) = Head(s)
  OBVIOUS

\* "ready" stays first until the handler reads.
LEMMA ReadyFirstStep == IInv /\ ReadyFirst /\ [Next]_vars => ReadyFirst'
<1> SUFFICES ASSUME IInv, ReadyFirst, [Next]_vars PROVE ReadyFirst'
  OBVIOUS
<1>t. TypeOK
  BY DEF IInv
<1> USE DEF TypeOK, ConnTypeOK, ConnPC, WireTypeOK, ReadyFirst, connVars, wireVars
<1>1. ASSUME NEW c \in Conn, NEW t \in Token, WsLookup(c, t) PROVE ReadyFirst'
  <2>1. <<Ready>> # <<>> /\ Head(<<Ready>>) = Ready
    OBVIOUS
  <2> QED
    BY <1>1, <1>t, <2>1 DEF WsLookup
<1>2. ASSUME NEW c \in Conn, WsAttach(c) PROVE ReadyFirst'
  BY <1>2, <1>t DEF WsAttach
<1>3. ASSUME NEW c \in Conn, ReadReady(c) PROVE ReadyFirst'
  BY <1>3, <1>t DEF ReadReady
<1>4. ASSUME NEW c \in Conn, ReadResponse(c) PROVE ReadyFirst'
  BY <1>4, <1>t DEF ReadResponse
<1>5. ASSUME NEW c \in Conn, DeliverSend(c) \/ ReadError(c) \/ WsClear(c) \/ WsStamp(c)
      PROVE  ReadyFirst'
  BY <1>5, <1>t DEF DeliverSend, ReadError, WsClear, WsStamp
<1>6. ASSUME NEW c \in Conn, CliExecute(c) PROVE ReadyFirst'
  <2> DEFINE q == Head(toCli[c])
             longer == Append(fromCli[c], q)
  <2>1. q \in Query \cup {Ready} /\ fromCli[c] \in Seq(Query \cup {Ready})
    BY <1>6, <1>t, SeqFacts DEF CliExecute
  <2>2. ASSUME fromCli[c] # <<>>
        PROVE  longer # <<>> /\ Head(longer) = Head(fromCli[c])
    BY <2>1, <2>2, HeadStays
  <2>3. /\ UNCHANGED cpc
        /\ \A d \in Conn : fromCli'[d] = fromCli[d] \/ (d = c /\ fromCli'[d] = longer)
    <3>1. UNCHANGED cpc
      BY <1>6 DEF CliExecute
    <3>2. fromCli' = fromCli \/ fromCli' = [fromCli EXCEPT ![c] = longer]
      BY <1>6 DEF CliExecute
    <3>3. fromCli \in [Conn -> Seq(Query \cup {Ready})]
      BY <1>t
    <3> HIDE DEF longer
    <3>4. \A d \in Conn : fromCli'[d] = fromCli[d] \/ (d = c /\ fromCli'[d] = longer)
      BY <3>2, <3>3
    <3> QED
      BY <3>1, <3>4
  <2> HIDE DEF longer
  <2> QED
    BY <2>2, <2>3
<1>7. ASSUME NEW c \in Conn, CliDrop(c) PROVE ReadyFirst'
  BY <1>7 DEF CliDrop
<1>8. ASSUME NEW q \in Query, QueryWrite(q) PROVE ReadyFirst'
  BY <1>8 DEF QueryWrite
<1>9. ASSUME NEW r \in Remover, RemoveClose(r) PROVE ReadyFirst'
  BY <1>9 DEF RemoveClose
<1>10. CASE UNCHANGED <<connVars, wireVars>>
  BY <1>10
<1> QED
  BY <1>1, <1>2, <1>3, <1>4, <1>5, <1>6, <1>7, <1>8, <1>9, <1>10, ConnFrame, WireFrame

\* A CLI's "ready" is read before anything else it says.
LEMMA DialectStep ==
    IInv /\ ReadyFirst /\ DialectOfConnectedCli /\ [Next]_vars => DialectOfConnectedCli'
<1> SUFFICES ASSUME IInv, ReadyFirst, DialectOfConnectedCli, [Next]_vars
             PROVE  DialectOfConnectedCli'
  OBVIOUS
<1>t. TypeOK /\ UncreatedUnknown /\ ConnHasSession /\ OneCliPerSession
  BY DEF IInv
<1> USE DEF TypeOK, SessTypeOK, ConnTypeOK, ConnPC, WireTypeOK, Reading, OneCliPerSession,
            UncreatedUnknown, ConnHasSession, DialectOfConnectedCli, sessVars, connVars, wireVars
<1>1. ASSUME NEW t \in Token, CreateToken(t) PROVE DialectOfConnectedCli'
  BY <1>1, <1>t DEF CreateToken
<1>2. ASSUME NEW c \in Conn, NEW t \in Token, WsLookup(c, t) PROVE DialectOfConnectedCli'
  BY <1>2, <1>t, TunnelAssumption DEF WsLookup
<1>3. ASSUME NEW c \in Conn, WsAttach(c) PROVE DialectOfConnectedCli'
  BY <1>3, <1>t, TunnelAssumption DEF WsAttach, AlreadyConnected, ReadyFirst
<1>4. ASSUME NEW c \in Conn, ReadReady(c) PROVE DialectOfConnectedCli'
  BY <1>4, <1>t, TunnelAssumption DEF ReadReady
<1>5. ASSUME NEW c \in Conn, ReadResponse(c) PROVE DialectOfConnectedCli'
  BY <1>5, <1>t, TunnelAssumption DEF ReadResponse
<1>6. ASSUME NEW c \in Conn, DeliverSend(c) PROVE DialectOfConnectedCli'
  BY <1>6, <1>t DEF DeliverSend
<1>7. ASSUME NEW c \in Conn, ReadError(c) PROVE DialectOfConnectedCli'
  BY <1>7, <1>t DEF ReadError
<1>8. ASSUME NEW c \in Conn, WsClear(c) PROVE DialectOfConnectedCli'
  BY <1>8, <1>t, TunnelAssumption DEF WsClear
<1>9. ASSUME NEW c \in Conn, WsStamp(c) PROVE DialectOfConnectedCli'
  BY <1>9, <1>t DEF WsStamp
<1>10. ASSUME NEW c \in Conn, CliExecute(c) PROVE DialectOfConnectedCli'
  <2> DEFINE q == Head(toCli[c])
             longer == Append(fromCli[c], q)
  <2>1. q \in Query \cup {Ready} /\ fromCli[c] \in Seq(Query \cup {Ready})
    BY <1>10, <1>t, SeqFacts DEF CliExecute
  <2>2. ASSUME fromCli[c] # <<>>
        PROVE  longer # <<>> /\ Head(longer) = Head(fromCli[c])
    BY <2>1, <2>2, HeadStays
  <2>3. /\ UNCHANGED <<sessions, attached, dialect, cpc>>
        /\ \A d \in Conn : fromCli'[d] = fromCli[d] \/ (d = c /\ fromCli'[d] = longer)
    <3>1. UNCHANGED <<sessions, attached, dialect, cpc>>
      BY <1>10 DEF CliExecute
    <3>2. fromCli' = fromCli \/ fromCli' = [fromCli EXCEPT ![c] = longer]
      BY <1>10 DEF CliExecute
    <3>3. fromCli \in [Conn -> Seq(Query \cup {Ready})]
      BY <1>t
    <3> HIDE DEF longer
    <3>4. \A d \in Conn : fromCli'[d] = fromCli[d] \/ (d = c /\ fromCli'[d] = longer)
      BY <3>2, <3>3
    <3> QED
      BY <3>1, <3>4
  <2> HIDE DEF longer
  <2>4. ASSUME NEW t \in sessions, attached[t] # None
        PROVE  \/ dialect[t] = attached[t]
               \/ fromCli'[attached[t]] # <<>> /\ Head(fromCli'[attached[t]]) = Ready
               \/ cpc[attached[t]] = "readDone"
    <3>1. attached[t] \in Conn
      BY <2>4, <1>t
    <3>2. \/ dialect[t] = attached[t]
          \/ fromCli[attached[t]] # <<>> /\ Head(fromCli[attached[t]]) = Ready
          \/ cpc[attached[t]] = "readDone"
      BY <2>4
    <3> QED
      BY <3>1, <3>2, <2>2, <2>3
  <2> QED
    BY <2>3, <2>4
<1>11. ASSUME NEW c \in Conn, CliDrop(c) PROVE DialectOfConnectedCli'
  BY <1>11 DEF CliDrop
<1>12. ASSUME NEW q \in Query, QueryWrite(q) PROVE DialectOfConnectedCli'
  BY <1>12 DEF QueryWrite
<1>13. ASSUME NEW r \in Remover, RemoveUnmap(r) PROVE DialectOfConnectedCli'
  BY <1>13 DEF RemoveUnmap
<1>14. ASSUME NEW r \in Remover, RemoveClose(r) PROVE DialectOfConnectedCli'
  BY <1>14, <1>t DEF RemoveClose
<1>15. CASE UNCHANGED <<sessions, attached, connectedAt, dialect, connVars, wireVars>>
  BY <1>15
<1> QED
  BY <1>1, <1>2, <1>3, <1>4, <1>5, <1>6, <1>7, <1>8, <1>9, <1>10, <1>11, <1>12, <1>13,
     <1>14, <1>15, MapFrame, AttachFrame, ConnFrame, WireFrame

\* The sweeper goes by times that are past, and a time to live that is over
\* stays over.
LEMMA SweepStepJustified == IInv /\ SweepJustified /\ [Next]_vars => SweepJustified'
<1> SUFFICES ASSUME IInv, SweepJustified, [Next]_vars PROVE SweepJustified'
  OBVIOUS
<1>t. TypeOK /\ UncreatedUnknown
  BY DEF IInv
<1>n. /\ now \in Nat /\ sweepNow \in Nat /\ now >= 1
      /\ createdAt \in [Token -> Nat] /\ connectedAt \in [Token -> Nat]
  BY <1>t, TunnelAssumption DEF TypeOK, ClockTypeOK, SessTypeOK
<1>k. /\ createdAt' \in [Token -> Nat] /\ connectedAt' \in [Token -> Nat]
      /\ \A t \in Token : createdAt[t] # 0 => createdAt'[t] = createdAt[t]
      /\ \A t \in Token : connectedAt[t] # 0 => connectedAt'[t] # 0
      /\ \A t \in Token : connectedAt'[t] = 0 => connectedAt[t] = 0
  <2>1. createdAt' = createdAt \/ \E t \in Token : createdAt[t] = 0 /\ createdAt' = [createdAt EXCEPT ![t] = now]
    BY MapFrame DEF CreateToken, RemoveUnmap
  <2>2. connectedAt' = connectedAt \/ \E t : connectedAt' = [connectedAt EXCEPT ![t] = now]
    BY AttachFrame DEF WsAttach, ReadReady, WsClear, WsStamp, RemoveClose
  <2> QED
    BY <1>n, <2>1, <2>2
<1>c. now' \in Nat /\ now' >= now /\ sweepNow' <= now'
  <2>1. CASE UNCHANGED <<now, sweepNow>>
    BY <2>1, <1>n DEF SweepJustified
  <2>2. CASE Tick
    BY <2>2, <1>n DEF Tick, SweepJustified, remVars
  <2>3. CASE SweepStart
    BY <2>3, <1>n DEF SweepStart
  <2> QED
    BY <2>1, <2>2, <2>3, ClockFrame
<1>s. ASSUME rpc'["sweeper"] = "unmap" => rpc["sweeper"] = "unmap" /\ rtok'["sweeper"] = rtok["sweeper"],
             rpc'["shutdown"] = "unmap" => rtok'["shutdown"] \in Token
      PROVE  SweepJustified'
  BY <1>s, <1>n, <1>k, <1>c, TunnelAssumption DEF SweepJustified
<1> USE DEF TypeOK, RemTypeOK, RemPC, Remover
<1>1. ASSUME NEW r \in Remover, RemoveUnmap(r) \/ RemoveClose(r) \/ DrainClose(r) \/ DrainDelete(r) \/ DrainEnd(r)
      PROVE  SweepJustified'
  BY <1>1, <1>s, <1>t DEF RemoveUnmap, RemoveClose, DrainClose, DrainDelete, DrainEnd, SweepJustified
<1>2. ASSUME NEW r \in Remover, NEW q \in Query, DrainLoad(r, q) PROVE SweepJustified'
  BY <1>2, <1>s, <1>t DEF DrainLoad, SweepJustified
<1>3. CASE SweepStart \/ SweepEnd \/ SweepStop \/ ShutdownStart \/ ShutdownEnd
  BY <1>3, <1>s, <1>t DEF SweepStart, SweepEnd, SweepStop, ShutdownStart, ShutdownEnd, SweepJustified
<1>4. ASSUME NEW t \in Token, ShutdownNext(t) PROVE SweepJustified'
  BY <1>4, <1>s, <1>t DEF ShutdownNext, SweepJustified
<1>5. ASSUME NEW t \in Token, SweepCheck(t) PROVE SweepJustified'
  <2>1. CASE UNCHANGED <<rpc, rtok>>
    BY <2>1, <1>s DEF SweepJustified
  <2>2. CASE ~UNCHANGED <<rpc, rtok>>
    <3>1. /\ t \in sessions /\ Stale(t)
          /\ rpc' = [rpc EXCEPT !["sweeper"] = "unmap"]
          /\ rtok' = [rtok EXCEPT !["sweeper"] = t]
          /\ UNCHANGED <<createdAt, connectedAt, now, sweepNow>>
      BY <1>5, <2>2 DEF SweepCheck, sessVars
    <3>2. createdAt[t] # 0
      BY <3>1, <1>t DEF UncreatedUnknown
    <3>3. connectedAt[t] = 0 => sweepNow - createdAt[t] > PendingTTL
      BY <3>1 DEF Stale
    <3> QED
      BY <3>1, <3>2, <3>3, <1>n, <1>t, TunnelAssumption DEF SweepJustified
  <2> QED
    BY <2>1, <2>2
<1>6. CASE UNCHANGED <<rpc, rtok, rkey, todo, must>>
  BY <1>6, <1>s DEF SweepJustified
<1> QED
  BY <1>1, <1>2, <1>3, <1>4, <1>5, <1>6, RemFrame

\* A session that waits for its first CLI is removed by nobody but a sweep
\* that is justified, or by Shutdown.
LEMMA PendingKeptStep ==
    IInv /\ SweepJustified /\ SweepJustified' /\ PendingSessionsKept /\ [Next]_vars
        => PendingSessionsKept'
<1> SUFFICES ASSUME IInv, SweepJustified, SweepJustified', PendingSessionsKept, [Next]_vars
             PROVE  PendingSessionsKept'
  OBVIOUS
<1>t. TypeOK
  BY DEF IInv
<1>n. /\ now \in Nat /\ createdAt \in [Token -> Nat] /\ connectedAt \in [Token -> Nat]
      /\ rpc \in [Remover -> RemPC] /\ rtok \in [Remover -> Token \cup {None}]
  BY <1>t, TunnelAssumption DEF TypeOK, ClockTypeOK, SessTypeOK, RemTypeOK
<1>c. now' \in Nat /\ now' >= now
  BY <1>n, ClockFrame DEF Tick, SweepStart
<1>d. rpc["shutdown"] # "idle" => rpc'["shutdown"] # "idle"
  BY <1>n, RemFrame DEF RemoveUnmap, RemoveClose, DrainClose, DrainDelete, DrainEnd, DrainLoad,
     SweepStart, SweepEnd, SweepStop, ShutdownStart, ShutdownEnd, SweepCheck, ShutdownNext,
     Remover
<1>k. \A t \in Token : connectedAt'[t] = 0 => connectedAt[t] = 0
  <2>1. connectedAt' = connectedAt \/ \E t : connectedAt' = [connectedAt EXCEPT ![t] = now]
    BY AttachFrame DEF WsAttach, ReadReady, WsClear, WsStamp, RemoveClose
  <2>2. now # 0
    BY <1>t, TunnelAssumption DEF TypeOK, ClockTypeOK
  <2> QED
    BY <1>n, <2>1, <2>2
<1>1. CASE UNCHANGED <<sessions, createdAt>>
  BY <1>1, <1>n, <1>c, <1>d, <1>k, TunnelAssumption DEF PendingSessionsKept
<1>2. ASSUME NEW t \in Token, CreateToken(t) PROVE PendingSessionsKept'
  BY <1>2, <1>n, TunnelAssumption DEF CreateToken, PendingSessionsKept, remVars
<1>3. ASSUME NEW r \in Remover, RemoveUnmap(r) PROVE PendingSessionsKept'
  <2>1. /\ sessions' = sessions \ {rtok[r]}
        /\ UNCHANGED <<createdAt, connectedAt, now>>
        /\ r = "shutdown" => rpc'["shutdown"] # "idle"
        /\ rpc[r] = "unmap"
    BY <1>3, <1>n DEF RemoveUnmap
  <2> QED
    BY <2>1, <1>n, <1>d DEF PendingSessionsKept, SweepJustified, Remover
<1> QED
  BY <1>1, <1>2, <1>3, MapFrame

\* HandleStatus reports the dialect of the CLI that is connected (readLoop).
THEOREM DialectIsCurrent == Spec => []DialectOfConnectedCli
<1>1. Init => ReadyFirst /\ DialectOfConnectedCli
  BY DEF Init, ReadyFirst, DialectOfConnectedCli
<1>2. IInv /\ ReadyFirst /\ DialectOfConnectedCli /\ [Next]_vars
          => (ReadyFirst /\ DialectOfConnectedCli)'
  BY ReadyFirstStep, DialectStep
<1> QED
  BY <1>1, <1>2, Invariance, PTL DEF Spec

\* A token that nobody has used yet is not removed before its time, unless the
\* hub shuts down (sweepStale).
THEOREM TokensKeepTheirTime == Spec => []PendingSessionsKept
<1>1. Init => SweepJustified /\ PendingSessionsKept
  BY DEF Init, SweepJustified, PendingSessionsKept, Remover
<1>2. IInv /\ SweepJustified /\ PendingSessionsKept /\ [Next]_vars
          => (SweepJustified /\ PendingSessionsKept)'
  BY SweepStepJustified, PendingKeptStep
<1> QED
  BY <1>1, <1>2, Invariance, PTL DEF Spec

-----------------------------------------------------------------------------
\* The hub implements the relay that its callers are promised.

\* What a sequence holds after a message is taken or added.
LEMMA HoldsFacts ==
    ASSUME NEW S, NEW s \in Seq(S), NEW x
    PROVE  /\ ~Holds(<<>>, x)
           /\ s # <<>> => Holds(s, Head(s))
           /\ s # <<>> /\ Holds(Tail(s), x) => Holds(s, x)
           /\ \A y \in S : Holds(Append(s, y), x) => Holds(s, x) \/ x = y
           /\ \A y : Holds(<<y>>, x) => x = y
  BY DEF Holds

\* What the messages on the wire tell of the queries.
LEMMA OnTheWayStep == IInv /\ OnTheWay /\ SentOnce /\ [Next]_vars => OnTheWay'
<1> SUFFICES ASSUME IInv, OnTheWay, SentOnce, [Next]_vars PROVE OnTheWay'
  OBVIOUS
<1>t. /\ qpc \in [Query -> QueryPC] /\ result \in [Query -> Result] /\ full \in [Query -> BOOLEAN]
      /\ cpc \in [Conn -> ConnPC] /\ hand \in [Conn -> Query \cup {None}]
      /\ toCli \in [Conn -> Seq(Query)] /\ fromCli \in [Conn -> Seq(Query \cup {Ready})]
      /\ Handled \subseteq Query
  BY DEF IInv, TypeOK, QueryTypeOK, ConnTypeOK, WireTypeOK, Handled
<1>h. HandOwns
  BY DEF IInv
<1> USE DEF OnTheWay, Sent, QueryPC, Result, ConnPC
<1>1. ASSUME NEW c \in Conn, NEW t \in Token, WsLookup(c, t) PROVE OnTheWay'
  <2>1. \A q \in Query : ~Holds(<<Ready>>, q)
    <3>1. <<Ready>> \in Seq({Ready})
      OBVIOUS
    <3> QED
      BY <3>1, HoldsFacts, TunnelAssumption
  <2>2. /\ UNCHANGED <<qpc, result, full, hand, toCli, Handled>>
        /\ \/ UNCHANGED fromCli
           \/ fromCli' = [fromCli EXCEPT ![c] = <<Ready>>]
        /\ \A d \in Conn : cpc'[d] = "delivering" => cpc[d] = "delivering"
    BY <1>1, <1>t DEF Handled, WsLookup, queryVars, chanVars
  <2> HIDE DEF QueryPC, Result, ConnPC, Sent
  <2>3. \A d \in Conn, q \in Query : Holds(fromCli'[d], q) => Holds(fromCli[d], q)
    BY <2>1, <2>2, <1>t
  <2> QED
    BY <2>2, <2>3 DEF Sent
<1>2. ASSUME NEW c \in Conn, WsAttach(c) \/ WsClear(c) \/ WsStamp(c) \/ CliDrop(c) PROVE OnTheWay'
  BY <1>2, <1>t DEF Handled, WsAttach, WsClear, WsStamp, CliDrop, queryVars, chanVars, connVars, wireVars
<1>3. ASSUME NEW c \in Conn, ReadReady(c) \/ ReadError(c) PROVE OnTheWay'
  <2>1. /\ UNCHANGED <<qpc, result, full, hand, toCli, Handled>>
        /\ fromCli' = [fromCli EXCEPT ![c] = fromCli'[c]]
        /\ fromCli'[c] = <<>> \/ (fromCli[c] # <<>> /\ fromCli'[c] = Tail(fromCli[c]))
        /\ \A d \in Conn : cpc'[d] = "delivering" => cpc[d] = "delivering"
    BY <1>3, <1>t DEF Handled, ReadReady, ReadError, queryVars, chanVars, connVars
  <2>2. \A q \in Query : Holds(fromCli'[c], q) => Holds(fromCli[c], q)
    <3>1. ASSUME NEW q \in Query
          PROVE  ~Holds(<<>>, q) /\ (fromCli[c] # <<>> /\ Holds(Tail(fromCli[c]), q) => Holds(fromCli[c], q))
      BY <1>t, HoldsFacts
    <3> SUFFICES ASSUME NEW q \in Query, Holds(fromCli'[c], q) PROVE Holds(fromCli[c], q)
      OBVIOUS
    <3>2. CASE fromCli'[c] = <<>>
      BY <3>1, <3>2
    <3>3. CASE fromCli[c] # <<>> /\ fromCli'[c] = Tail(fromCli[c])
      BY <3>1, <3>3
    <3> QED
      BY <2>1, <3>2, <3>3
  <2> HIDE DEF QueryPC, Result, ConnPC, Sent
  <2>3. \A d \in Conn, q \in Query : Holds(fromCli'[d], q) => Holds(fromCli[d], q)
    BY <2>1, <2>2, <1>t
  <2> QED
    BY <2>1, <2>3 DEF Sent
<1>4. ASSUME NEW c \in Conn, ReadResponse(c) PROVE OnTheWay'
  <2> DEFINE q == Head(fromCli[c])
  <2>1. /\ UNCHANGED <<qpc, result, full, toCli, Handled>>
        /\ fromCli[c] # <<>>
        /\ fromCli' = [fromCli EXCEPT ![c] = Tail(fromCli[c])]
        /\ \A d \in Conn : cpc'[d] = "delivering" =>
               (cpc[d] = "delivering" /\ hand'[d] = hand[d]) \/ (d = c /\ hand'[d] = q)
    BY <1>4, <1>t DEF Handled, ReadResponse, queryVars, chanVars
  <2>2. /\ \A p \in Query : Holds(Tail(fromCli[c]), p) => Holds(fromCli[c], p)
        /\ Holds(fromCli[c], q)
    BY <2>1, <1>t, HoldsFacts
  <2> HIDE DEF QueryPC, Result, ConnPC, Sent, q
  <2>3. \A d \in Conn, p \in Query : Holds(fromCli'[d], p) => Holds(fromCli[d], p)
    BY <2>1, <2>2, <1>t
  <2> QED
    BY <2>1, <2>2, <2>3 DEF Sent
<1>5. ASSUME NEW c \in Conn, DeliverSend(c) PROVE OnTheWay'
  <2>1. hand[c] \in Handled
    BY <1>5, <1>h DEF Handled, DeliverSend, HandOwns
  <2> QED
    BY <1>5, <1>t, <2>1 DEF Handled, DeliverSend, queryVars, wireVars
<1>6. ASSUME NEW c \in Conn, CliExecute(c) PROVE OnTheWay'
  <2> DEFINE q == Head(toCli[c])
  <2>1. /\ toCli[c] # <<>>
        /\ UNCHANGED <<qpc, result, full, cpc, hand>>
        /\ toCli' = [toCli EXCEPT ![c] = Tail(toCli[c])]
        /\ \/ UNCHANGED fromCli
           \/ fromCli' = [fromCli EXCEPT ![c] = Append(fromCli[c], q)]
    BY <1>6 DEF CliExecute, queryVars, chanVars, connVars
  <2>e. Handled' = Handled \cup {q}
    BY <1>6 DEF CliExecute, Handled
  <2>2. q \in Query
    BY <2>1, <1>t, SeqFacts
  <2>3. /\ \A p \in Query : Holds(Tail(toCli[c]), p) => Holds(toCli[c], p)
        /\ Holds(toCli[c], q)
    BY <2>1, <1>t, HoldsFacts
  <2>4. \A p \in Query : Holds(Append(fromCli[c], q), p) => Holds(fromCli[c], p) \/ p = q
    BY <2>2, <1>t, HoldsFacts
  <2> HIDE DEF QueryPC, Result, ConnPC, Sent, q
  <2>5. \A d \in Conn, p \in Query : Holds(toCli'[d], p) => Holds(toCli[d], p)
    BY <2>1, <2>3, <1>t
  <2>6. \A d \in Conn, p \in Query : Holds(fromCli'[d], p) => Holds(fromCli[d], p) \/ p = q
    BY <2>1, <2>4, <1>t
  <2>7. \A p \in Query : Sent(p)' <=> Sent(p)
    BY <2>1 DEF Sent
  <2>8. Sent(q)
    BY <2>2, <2>3
  <2>9. \A p \in Handled' : p \in Query /\ Sent(p)'
    BY <2>e, <2>2, <2>7, <2>8, <1>t
  <2>10. \A d \in Conn, p \in Query : Holds(toCli'[d], p) => Sent(p)'
    BY <2>5, <2>7
  <2>11. \A d \in Conn, p \in Query :
             Holds(fromCli'[d], p) \/ (cpc'[d] = "delivering" /\ hand'[d] = p) => p \in Handled'
    BY <2>1, <2>6, <2>e
  <2> QED
    BY <2>1, <2>e, <2>9, <2>10, <2>11
<1>7. ASSUME NEW q \in Query, NEW t \in Token, QueryLookup(q, t) PROVE OnTheWay'
  <2>1. UNCHANGED Handled
    BY <1>7 DEF QueryLookup, wireVars, Handled
  <2> QED
    BY <1>7, <1>t, <2>1 DEF QueryLookup, chanVars, connVars, wireVars
<1>8. ASSUME NEW q \in Query, QueryRegister(q) \/ QueryLock(q) PROVE OnTheWay'
  <2>1. /\ qpc[q] \in {"found", "registered"}
        /\ UNCHANGED <<full, cpc, hand, toCli, fromCli, Handled>>
        /\ \/ qpc' = [qpc EXCEPT ![q] = "registered"] /\ UNCHANGED result
           \/ qpc' = [qpc EXCEPT ![q] = "writing"] /\ UNCHANGED result
           \/ /\ qpc' = [qpc EXCEPT ![q] = "leaving"]
              /\ result' = [result EXCEPT ![q] = "notConnected"]
    BY <1>8 DEF Handled, QueryRegister, QueryLock, chanVars, connVars, wireVars
  <2> QED
    BY <1>t, <2>1
<1>9. ASSUME NEW q \in Query, QueryWrite(q) PROVE OnTheWay'
  <2> DEFINE c == attached[qtok[q]]
  <2>1. /\ qpc[q] = "writing" /\ result[q] = "none"
        /\ UNCHANGED <<full, cpc, hand, fromCli, Handled>>
        /\ \/ /\ qpc' = [qpc EXCEPT ![q] = "waiting"] /\ UNCHANGED result
              /\ toCli' = [toCli EXCEPT ![c] = Append(toCli[c], q)]
           \/ /\ qpc' = [qpc EXCEPT ![q] = "waiting"] /\ UNCHANGED <<toCli, result>>
           \/ /\ qpc' = [qpc EXCEPT ![q] = "leaving"] /\ UNCHANGED toCli
              /\ result' = [result EXCEPT ![q] = "notConnected"]
    BY <1>9, <1>t DEF Handled, QueryWrite, chanVars, connVars
  <2>2. \A d \in Conn, p \in Query : Holds(Append(toCli[d], q), p) => Holds(toCli[d], p) \/ p = q
    BY <1>t, HoldsFacts
  <2>3. ~Sent(q) /\ (\A p \in Query \ {q} : Sent(p)' <=> Sent(p))
    BY <2>1, <1>t
  <2>4. qpc'[q] = "waiting" => Sent(q)'
    BY <2>1, <1>t
  <2> HIDE DEF c
  <2>5. \A d \in Conn, p \in Query :
            Holds(toCli'[d], p) => Holds(toCli[d], p) \/ (p = q /\ qpc'[q] = "waiting")
    <3>1. toCli' = toCli \/ (qpc'[q] = "waiting" /\ toCli' = [toCli EXCEPT ![c] = Append(toCli[c], q)])
      BY <2>1, <1>t
    <3>2. \A d \in Conn : toCli'[d] = toCli[d] \/ (qpc'[q] = "waiting" /\ toCli'[d] = Append(toCli[d], q))
      BY <3>1, <1>t
    <3> QED
      BY <2>2, <3>2
  <2>6. \A p \in Query : (result'[p] # "none" <=> qpc'[p] \in {"leaving", "done"})
                         /\ (result'[p] = "answered" => result[p] = "answered")
    BY <2>1, <1>t
  <2> HIDE DEF QueryPC, Result, ConnPC, Sent
  <2>7. UNCHANGED <<Handled, fromCli, cpc, hand, full>>
    BY <2>1
  <2>8. \A d \in Conn, p \in Query : Holds(toCli'[d], p) => Sent(p)'
    BY <2>3, <2>4, <2>5
  <2>9. \A p \in Handled' : Sent(p)'
    BY <2>3, <2>7, <1>t
  <2> QED
    BY <2>6, <2>7, <2>8, <2>9, <1>t
<1>10. ASSUME NEW q \in Query, QueryReceive(q) \/ QueryClosed(q) \/ QueryTimeout(q) \/ QueryReturn(q)
       PROVE  OnTheWay'
  <2>1. /\ UNCHANGED <<cpc, hand, toCli, fromCli, Handled>>
        /\ \A p \in Query : full'[p] => full[p]
        /\ \/ /\ qpc[q] = "waiting" /\ qpc' = [qpc EXCEPT ![q] = "leaving"]
              /\ \E r \in {"answered", "closed", "timeout"} :
                    /\ result' = [result EXCEPT ![q] = r]
                    /\ r = "answered" => full[q]
           \/ /\ qpc[q] = "leaving" /\ qpc' = [qpc EXCEPT ![q] = "done"]
              /\ UNCHANGED result
    BY <1>10, <1>t DEF Handled, QueryReceive, QueryClosed, QueryTimeout, QueryReturn, Leave, chanVars,
       connVars, wireVars
  <2> QED
    BY <1>t, <2>1
<1>11. ASSUME NEW r \in Remover, DrainClose(r) \/ RemoveClose(r) PROVE OnTheWay'
  BY <1>11, <1>t DEF Handled, DrainClose, RemoveClose, queryVars, chanVars, connVars, wireVars
<1>12. CASE UNCHANGED <<queryVars, writer, chanVars, connVars, wireVars>>
  BY <1>12 DEF Handled, queryVars, chanVars, connVars, wireVars
<1> QED
  BY <1>1, <1>2, <1>3, <1>4, <1>5, <1>6, <1>7, <1>8, <1>9, <1>10, <1>11, <1>12, QueryFrame,
     ChanFrame, ConnFrame, WireFrame

\* A query is written once, and taken by the CLI before another can be the same.
LEMMA SentOnceStep == IInv /\ OnTheWay /\ SentOnce /\ [Next]_vars => SentOnce'
<1> SUFFICES ASSUME IInv, OnTheWay, SentOnce, [Next]_vars PROVE SentOnce'
  OBVIOUS
<1>t. toCli \in [Conn -> Seq(Query)] /\ qpc \in [Query -> QueryPC]
  BY DEF IInv, TypeOK, WireTypeOK, QueryTypeOK
<1>s. /\ \A c, d \in Conn : \A i \in 1..Len(toCli[c]), j \in 1..Len(toCli[d]) :
            toCli[c][i] = toCli[d][j] => c = d /\ i = j
      /\ \A c \in Conn, q \in Query : Holds(toCli[c], q) => q \notin Handled
  BY DEF SentOnce
<1>1. ASSUME NEW c \in Conn, CliExecute(c) PROVE SentOnce'
  <2>1. toCli[c] # <<>> /\ toCli' = [toCli EXCEPT ![c] = Tail(toCli[c])]
    BY <1>1 DEF CliExecute
  <2>2. /\ Len(Tail(toCli[c])) = Len(toCli[c]) - 1 /\ Len(toCli[c]) \in Nat
        /\ \A i \in 1..(Len(toCli[c]) - 1) : Tail(toCli[c])[i] = toCli[c][i + 1]
    BY <2>1, <1>t
  <2> DEFINE Old(d, i) == IF d = c THEN i + 1 ELSE i
  <2>3. \A d \in Conn : Len(toCli[d]) \in Nat
    BY <1>t
  <2>4. ASSUME NEW d \in Conn, NEW i \in 1..Len(toCli'[d])
        PROVE  Old(d, i) \in 1..Len(toCli[d]) /\ toCli'[d][i] = toCli[d][Old(d, i)]
    <3>1. CASE d = c
      BY <2>1, <2>2, <3>1, <1>t
    <3>2. CASE d # c
      BY <2>1, <3>2, <1>t
    <3> QED
      BY <3>1, <3>2
  <2>5. \A d \in Conn : Len(toCli'[d]) \in Nat
    BY <2>1, <2>2, <2>3, <1>t
  <2>h. ASSUME NEW d \in Conn, NEW q \in Query, Holds(toCli'[d], q) PROVE q \notin Handled'
    <3>1. PICK i \in 1..Len(toCli'[d]) : toCli'[d][i] = q
      BY <2>h DEF Holds
    <3>2. Old(d, i) \in 1..Len(toCli[d]) /\ toCli[d][Old(d, i)] = q /\ (d = c => Old(d, i) # 1)
      BY <2>4, <2>5, <3>1
    <3> HIDE DEF Old
    <3>3. q \notin Handled
      BY <3>2, <1>s DEF Holds
    <3>4. Head(toCli[c]) = toCli[c][1] /\ 1 \in 1..Len(toCli[c])
      BY <2>1, <2>3, <1>t
    <3>5. q # Head(toCli[c])
      BY <3>2, <3>4, <1>s
    <3>6. Handled' = Handled \cup {Head(toCli[c])}
      BY <1>1 DEF CliExecute, Handled
    <3> QED
      BY <3>3, <3>5, <3>6
  <2> SUFFICES ASSUME NEW d \in Conn, NEW e \in Conn, NEW i \in 1..Len(toCli'[d]),
                      NEW j \in 1..Len(toCli'[e]), toCli'[d][i] = toCli'[e][j]
               PROVE  d = e /\ i = j
    BY <2>h DEF SentOnce
  <2>6. d = e /\ Old(d, i) = Old(e, j)
    <3>1. /\ Old(d, i) \in 1..Len(toCli[d]) /\ Old(e, j) \in 1..Len(toCli[e])
          /\ toCli[d][Old(d, i)] = toCli[e][Old(e, j)]
      BY <2>4
    <3> HIDE DEF Old
    <3> QED
      BY <3>1, <1>s
  <2> QED
    BY <2>6, <2>5
<1>2. ASSUME NEW q \in Query, QueryWrite(q) PROVE SentOnce'
  <2>n. q \notin Handled /\ UNCHANGED Handled
    BY <1>2, <1>t DEF QueryWrite, Handled, OnTheWay, Sent
  <2> DEFINE c == attached[qtok[q]]
  <2>1. qpc[q] = "writing" /\ (UNCHANGED toCli \/ toCli' = [toCli EXCEPT ![c] = Append(toCli[c], q)])
    BY <1>2 DEF QueryWrite
  <2>2. \A d \in Conn : ~Holds(toCli[d], q)
    BY <2>1, <1>t DEF OnTheWay, Sent
  <2> HIDE DEF c
  <2>3. CASE UNCHANGED toCli
    BY <2>3, <2>n DEF SentOnce
  <2>4. CASE c \in Conn /\ toCli' = [toCli EXCEPT ![c] = Append(toCli[c], q)]
    <3> DEFINE n == Len(toCli[c]) + 1
    <3>1. /\ Len(toCli[c]) \in Nat /\ toCli'[c] = Append(toCli[c], q) /\ Len(toCli'[c]) = n
          /\ toCli'[c][n] = q
          /\ \A i \in 1..Len(toCli[c]) : toCli'[c][i] = toCli[c][i]
          /\ \A d \in Conn \ {c} : toCli'[d] = toCli[d]
      BY <2>4, <1>t
    <3>2. \A d \in Conn : \A i \in 1..Len(toCli[d]) : toCli[d][i] # q
      BY <2>2 DEF Holds
    <3> HIDE DEF n
    <3>3. ASSUME NEW d \in Conn, NEW i \in 1..Len(toCli'[d])
          PROVE  \/ d = c /\ i = n /\ toCli'[d][i] = q
                 \/ i \in 1..Len(toCli[d]) /\ toCli'[d][i] = toCli[d][i]
      BY <3>1 DEF n
    <3>4. \A d \in Conn, p \in Query : Holds(toCli'[d], p) => p = q \/ Holds(toCli[d], p)
      BY <3>3 DEF Holds
    <3>5. ASSUME NEW d \in Conn, NEW e \in Conn, NEW i \in 1..Len(toCli'[d]),
                 NEW j \in 1..Len(toCli'[e]), toCli'[d][i] = toCli'[e][j]
          PROVE  d = e /\ i = j
      <4>0. \A f \in Conn : \A k \in 1..Len(toCli'[f]) :
                 \/ f = c /\ k = n /\ toCli'[f][k] = q
                 \/ /\ k \in 1..Len(toCli[f]) /\ toCli'[f][k] = toCli[f][k]
                    /\ toCli[f][k] # q
        BY <3>2, <3>3
      <4>1. CASE toCli'[d][i] = q
        <5>1. d = c /\ i = n
          BY <4>0, <4>1
        <5>2. e = c /\ j = n
          BY <4>0, <4>1, <3>5
        <5> QED
          BY <5>1, <5>2
      <4>2. CASE toCli'[d][i] # q
        <5>1. i \in 1..Len(toCli[d]) /\ toCli'[d][i] = toCli[d][i]
          BY <4>0, <4>2
        <5>2. j \in 1..Len(toCli[e]) /\ toCli'[e][j] = toCli[e][j]
          BY <4>0, <3>5, <4>2
        <5>3. toCli[d][i] = toCli[e][j]
          BY <3>5, <5>1, <5>2
        <5> QED
          BY <5>1, <5>2, <5>3, <1>s
      <4> QED
        BY <4>1, <4>2
    <3> QED
      BY <3>4, <3>5, <2>n, <1>s DEF SentOnce
  <2>5. CASE c \notin Conn
    BY <2>1, <2>3, <2>5, <1>t
  <2> QED
    BY <2>1, <2>3, <2>4, <2>5
<1>3. CASE UNCHANGED <<toCli, Handled>>
  BY <1>3 DEF SentOnce
<1>4. \/ UNCHANGED <<toCli, Handled>>
      \/ \E c \in Conn : CliExecute(c)
      \/ \E q \in Query : QueryWrite(q)
  BY WireFrame DEF WsLookup, WsAttach, ReadReady, ReadResponse, ReadError, CliDrop, RemoveClose, wireVars, Handled
<1> QED
  BY <1>1, <1>2, <1>3, <1>4

\* What a caller has been told, by its handler's state and its result.
LEMMA ToldFacts ==
    ASSUME NEW q \in Query
    PROVE  /\ result[q] = "none" => Told(q) = IF qpc[q] = "idle" THEN "idle" ELSE "open"
           /\ result[q] \in {"refused", "notConnected"} => Told(q) = "refused"
           /\ result[q] = "answered" => Told(q) = IF q \in errored THEN "failed" ELSE "answered"
           /\ result[q] \in {"closed", "timeout"} => Told(q) = "unknown"
  BY DEF Told

\* The same after a step.
LEMMA ToldFactsNext ==
    ASSUME NEW q \in Query
    PROVE  /\ result'[q] = "none" => Told(q)' = IF qpc'[q] = "idle" THEN "idle" ELSE "open"
           /\ result'[q] \in {"refused", "notConnected"} => Told(q)' = "refused"
           /\ result'[q] = "answered" => Told(q)' = IF q \in errored' THEN "failed" ELSE "answered"
           /\ result'[q] \in {"closed", "timeout"} => Told(q)' = "unknown"
           /\ /\ qpc'[q] = qpc[q] /\ result'[q] = result[q]
              /\ result[q] = "answered" => (q \in errored' <=> q \in errored)
              => Told(q)' = Told(q)
  BY DEF Told

\* Every step of the hub is a step of the relay, or none.
LEMMA RelayStep ==
    IInv /\ RelayInv /\ [Next]_vars
        => [Relay!RelayNext]_<<[q \in Query |-> Told(q)], executed>>
<1> DEFINE told == [q \in Query |-> Told(q)]
<1> SUFFICES ASSUME IInv, RelayInv, [Next]_vars
             PROVE  Relay!RelayNext \/ UNCHANGED <<told, executed>>
  OBVIOUS
<1>t. /\ qpc \in [Query -> QueryPC] /\ result \in [Query -> Result]
      /\ toCli \in [Conn -> Seq(Query)] /\ executed \subseteq Query
  BY DEF IInv, TypeOK, QueryTypeOK, WireTypeOK
<1>s. OnTheWay /\ SentOnce
  BY DEF RelayInv
<1>r. /\ \A q \in Query : result[q] # "none" <=> qpc[q] \in {"leaving", "done"}
      /\ \A q \in executed : Sent(q)
      /\ \A q \in Query : full[q] \/ result[q] = "answered" => q \in executed \cup errored
      /\ \A c \in Conn, q \in Query : Holds(toCli[c], q) => Sent(q) /\ q \notin executed \cup errored
  BY <1>s DEF OnTheWay, SentOnce, Handled
\* one caller is told something; for the others nothing changes
<1>1. ASSUME NEW q \in Query, NEW n, Told(q)' = n, UNCHANGED <<executed, errored>>,
             \A p \in Query \ {q} : qpc'[p] = qpc[p] /\ result'[p] = result[p]
      PROVE  told' = [told EXCEPT ![q] = n] /\ UNCHANGED executed
  BY <1>1, ToldFactsNext
\* nobody is told anything
<1>2. ASSUME \A p \in Query : Told(p)' = Told(p), UNCHANGED executed
      PROVE  UNCHANGED <<told, executed>>
  BY <1>2
<1>3. ASSUME UNCHANGED <<qpc, result, executed, errored>> PROVE UNCHANGED <<told, executed>>
  BY <1>2, <1>3, ToldFactsNext
<1>4. ASSUME NEW q \in Query, NEW t \in Token, QueryLookup(q, t) PROVE Relay!RelayNext
  <2>1. Told(q) = "idle" /\ q \notin executed
    BY <1>4, <1>t, <1>r, ToldFacts DEF QueryLookup, Sent
  <2>2. Told(q)' \in {"open", "refused"} /\ UNCHANGED executed
    BY <1>4, <1>t, <1>r, ToldFactsNext DEF QueryLookup, wireVars
  <2>3. told' = [told EXCEPT ![q] = Told(q)']
    BY <1>1, <1>4, <1>t, <2>2 DEF QueryLookup, wireVars
  <2> QED
    BY <2>1, <2>2, <2>3 DEF Relay!RelayNext, Relay!Open, Relay!Refuse
<1>5. ASSUME NEW q \in Query, QueryRegister(q) \/ QueryReturn(q) PROVE UNCHANGED <<told, executed>>
  <2>1. /\ \A p \in Query \ {q} : qpc'[p] = qpc[p]
        /\ UNCHANGED <<result, executed, errored>>
        /\ qpc[q] # "idle" /\ qpc'[q] # "idle"
    BY <1>5, <1>t DEF QueryRegister, QueryReturn, wireVars
  <2> QED
    BY <1>2, <1>t, <2>1, ToldFacts, ToldFactsNext DEF Result
\* 503 "CLI is not connected", or the write begins or has been made
<1>6. ASSUME NEW q \in Query, QueryLock(q) \/ QueryWrite(q)
      PROVE  Relay!RelayNext \/ UNCHANGED <<told, executed>>
  <2>1. /\ qpc[q] \in {"registered", "writing"} /\ UNCHANGED <<executed, errored>>
        /\ \A p \in Query \ {q} : qpc'[p] = qpc[p] /\ result'[p] = result[p]
        /\ \/ qpc'[q] \in {"writing", "waiting"} /\ result'[q] = result[q]
           \/ result'[q] = "notConnected"
    BY <1>6, <1>t DEF QueryLock, QueryWrite, wireVars
  <2>2. result[q] = "none" /\ Told(q) = "open" /\ q \notin executed
    BY <2>1, <1>t, <1>r, ToldFacts DEF Sent
  <2>3. CASE result'[q] = result[q] /\ qpc'[q] \in {"writing", "waiting"}
    BY <1>2, <2>1, <2>2, <2>3, ToldFactsNext
  <2>4. CASE result'[q] = "notConnected"
    <3>1. told' = [told EXCEPT ![q] = "refused"]
      BY <1>1, <2>1, <2>4, ToldFactsNext
    <3> QED
      BY <3>1, <2>1, <2>2 DEF Relay!RelayNext, Relay!Refuse
  <2> QED
    BY <2>1, <2>3, <2>4
<1>7. ASSUME NEW q \in Query, QueryReceive(q) \/ QueryClosed(q) \/ QueryTimeout(q)
      PROVE  Relay!RelayNext
  <2>1. /\ qpc[q] = "waiting" /\ UNCHANGED <<executed, errored>>
        /\ \A p \in Query \ {q} : qpc'[p] = qpc[p] /\ result'[p] = result[p]
        /\ \/ full[q] /\ result'[q] = "answered"
           \/ result'[q] \in {"closed", "timeout"}
    BY <1>7, <1>t DEF QueryReceive, QueryClosed, QueryTimeout, Leave, wireVars
  <2>2. Told(q) = "open"
    BY <2>1, <1>t, <1>r, ToldFacts
  <2>3. CASE full[q] /\ result'[q] = "answered"
    <3>1. CASE q \in errored
      <4>1. told' = [told EXCEPT ![q] = "failed"]
        BY <1>1, <2>1, <2>3, <3>1, ToldFactsNext
      <4> QED
        BY <4>1, <2>1, <2>2 DEF Relay!RelayNext, Relay!Fail
    <3>2. CASE q \notin errored
      <4>1. told' = [told EXCEPT ![q] = "answered"]
        BY <1>1, <2>1, <2>3, <3>2, ToldFactsNext
      <4> QED
        BY <4>1, <2>1, <2>2, <2>3, <3>2, <1>r DEF Relay!RelayNext, Relay!Answer
    <3> QED
      BY <3>1, <3>2
  <2>4. CASE result'[q] \in {"closed", "timeout"}
    <3>1. told' = [told EXCEPT ![q] = "unknown"]
      BY <1>1, <2>1, <2>4, ToldFactsNext
    <3> QED
      BY <3>1, <2>1, <2>2 DEF Relay!RelayNext, Relay!GiveUp
  <2> QED
    BY <2>1, <2>3, <2>4
<1>8. ASSUME NEW c \in Conn, CliExecute(c) PROVE Relay!RelayNext \/ UNCHANGED <<told, executed>>
  <2> DEFINE q == Head(toCli[c])
  <2>1. /\ toCli[c] # <<>> /\ executed' \in {executed, executed \cup {q}}
        /\ errored' \in {errored, errored \cup {q}}
        /\ UNCHANGED <<qpc, result>>
    BY <1>8 DEF CliExecute, queryVars
  <2>2. q \in Query /\ Holds(toCli[c], q)
    BY <2>1, <1>t, SeqFacts, HoldsFacts
  <2>3. Sent(q) /\ q \notin executed \cup errored
    BY <2>2, <1>r
  <2> HIDE DEF q
  <2>4. result[q] # "answered"
    BY <2>2, <2>3, <1>r
  <2>5. UNCHANGED told
    BY <2>1, <2>4, ToldFactsNext
  <2>6. Told(q) \in {"open", "unknown"}
    BY <2>2, <2>3, <2>4, <1>t, <1>r, ToldFacts DEF Sent, Result
  <2> QED
    BY <2>1, <2>2, <2>3, <2>5, <2>6 DEF Relay!RelayNext, Relay!Run
<1>9. CASE UNCHANGED <<queryVars, writer>> /\ ~(\E c \in Conn : CliExecute(c))
  <2>1. UNCHANGED <<executed, errored>>
    BY <1>9, WireFrame DEF WsLookup, WsAttach, ReadReady, ReadResponse, ReadError, CliDrop,
       QueryWrite, RemoveClose, wireVars
  <2> QED
    BY <1>3, <1>9, <2>1 DEF queryVars
<1> QED
  BY <1>4, <1>5, <1>6, <1>7, <1>8, <1>9, QueryFrame

\* The hub implements TunnelRelay: nobody is told "CLI is not connected" of a
\* query that runs, a result is that of a run, and a query answered with an error
\* does not run afterwards.
THEOREM RelayImplemented == Spec => ImplementsRelay
<1>1. Init => RelayInv
  <2>1. \A q \in Query : ~Holds(<<>>, q)
    BY DEF Holds
  <2> QED
    BY <2>1 DEF Init, RelayInv, OnTheWay, SentOnce, Handled
<1>2. Init => Relay!RelayInit
  BY DEF Init, Relay!RelayInit, Told
<1>3. IInv /\ RelayInv /\ [Next]_vars => RelayInv'
  BY OnTheWayStep, SentOnceStep DEF RelayInv
<1>4. IInv /\ RelayInv /\ [Next]_vars => [Relay!RelayNext]_(Relay!relayVars)
  BY RelayStep DEF Relay!relayVars
<1> QED
  BY <1>1, <1>2, <1>3, <1>4, Invariance, PTL DEF Spec, ImplementsRelay, Relay!RelaySpec
=============================================================================
