------------------------ MODULE PokerBroadcast_proofs ------------------------
(***************************************************************************)
(* That a change of a poker session reaches whoever is connected, for any  *)
(* number of participants, connections and changes.                        *)
(***************************************************************************)
EXTENDS PokerBroadcast, FiniteSetTheorems, TLAPS

\* The changes under way fit below the bound.
Budgeted == version + Cardinality(Changing) <= MaxVersion

\* A handler that writes or kicks knows to whom.
PeerKnown == \A h \in Socket : pc[h] \in {"write", "kick", "kickWrite"} => peer[h] \in Person

\* Nobody has built or heard a version that is still to come.
NoForesight == \A h \in Socket : built[h] <= version /\ best[h] <= version

\* Handler h has still to tell p the newest version: it will build it, or has
\* built it and will write it to p.
WillTell(h, p) ==
    \/ pc[h] \in {"again", "againWrite", "build"}
    \/ pc[h] = "list" /\ built[h] = version
    \/ pc[h] \in {"send", "write"} /\ built[h] = version /\ p \in todo[h]
    \/ pc[h] = "write" /\ built[h] = version /\ peer[h] = p

\* Whoever is connected has heard the newest version or will be told it, unless
\* the newest change goes unsaid.
Told ==
    unsaid \/ \A p \in members : Attended(p) =>
                 best[conn[p]] = version \/ \E h \in Socket : WillTell(h, p)

IInv == TypeOK /\ PeerKnown /\ Budgeted /\ NoForesight /\ Told

-----------------------------------------------------------------------------
\* Any set of handlers is finite.
LEMMA HandlersFinite ==
    ASSUME NEW S, S \subseteq Socket
    PROVE  IsFiniteSet(S) /\ Cardinality(S) \in Nat
BY BroadcastAssumption, FS_Subset, FS_CardinalityType

\* At first nobody is there.
LEMMA InitIInv == Init => IInv
<1> SUFFICES ASSUME Init PROVE IInv
  OBVIOUS
<1>1. TypeOK
  <2>1. unsaid \in BOOLEAN
    BY Zenon DEF Init
  <2> QED
    BY <2>1, BroadcastAssumption DEF Init, TypeOK
<1>2. Cardinality(Changing) = 0
  <2>1. Changing = {}
    BY DEF Changing, Init
  <2> QED
    BY <2>1, FS_EmptySet
<1>3. Budgeted
  BY <1>2, BroadcastAssumption DEF Budgeted, Init
<1> QED
  BY <1>1, <1>3 DEF IInv, PeerKnown, NoForesight, Told, Attended, Init

-----------------------------------------------------------------------------
\* The changes under way stay below the bound: one is begun only if there is
\* room for it (Room), and is made only by a handler that is counted.
LEMMA BudgetStep == IInv /\ [Next]_vars => Budgeted'
<1> SUFFICES ASSUME IInv, [Next]_vars PROVE Budgeted'
  OBVIOUS
<1>t. TypeOK /\ Budgeted /\ version \in Nat
  BY BroadcastAssumption DEF IInv, TypeOK
<1>f. /\ IsFiniteSet(Changing) /\ Cardinality(Changing) \in Nat
      /\ Cardinality(Changing') \in Nat
  <2>1. Changing \subseteq Socket /\ Changing' \subseteq Socket
    BY DEF Changing
  <2> QED
    BY <2>1, HandlersFinite
<1>r. Room <=> version + Cardinality(Changing) < MaxVersion
  BY DEF Room
<1>1. ASSUME Changing' = Changing, version' = version \/ (version' = version + 1 /\ Room)
      PROVE  Budgeted'
  BY <1>1, <1>t, <1>f, <1>r, BroadcastAssumption DEF Budgeted
<1>2. ASSUME NEW h \in Socket, h \notin Changing, Room, Changing' = Changing \cup {h},
             version' = version
      PROVE  Budgeted'
  <2>1. Cardinality(Changing') = Cardinality(Changing) + 1
    BY <1>2, <1>f, FS_AddElement
  <2> QED
    BY <2>1, <1>2, <1>t, <1>f, <1>r, BroadcastAssumption DEF Budgeted
<1>3. ASSUME NEW h \in Changing, Changing' = Changing \ {h}, version' \in {version, version + 1}
      PROVE  Budgeted'
  <2>1. Cardinality(Changing') = Cardinality(Changing) - 1
    BY <1>3, <1>f, FS_RemoveElement
  <2> QED
    BY <2>1, <1>3, <1>t, <1>f, BroadcastAssumption DEF Budgeted
<1>4. ASSUME NEW h \in Socket, NEW p \in Person, Join(h, p) PROVE Budgeted'
  BY <1>1, <1>4, <1>t DEF Join, Comes, Tell, Goto, Change, Changing, TypeOK
<1>5. ASSUME NEW h \in Socket, NEW p \in Person, ReconnectLock(h, p) PROVE Budgeted'
  BY <1>2, <1>5, <1>t DEF ReconnectLock, Comes, Goto, session, Changing, TypeOK
<1>6. ASSUME NEW h \in Socket, Operate(h) \/ OperateSilently(h) PROVE Budgeted'
  BY <1>1, <1>6, <1>t DEF Operate, OperateSilently, Tell, Goto, Change, Changing, TypeOK
<1>7. ASSUME NEW h \in Socket, \/ BuildReply(h) \/ ReplyFails(h) \/ WriteReply(h) \/ Build(h)
                              \/ List(h)
      PROVE  Budgeted'
  BY <1>1, <1>7, <1>t
     DEF BuildReply, ReplyFails, WriteReply, Build, List, Goto, session, Changing, TypeOK
<1>8. ASSUME NEW h \in Socket, Sent(h) \/ BuildFails(h) PROVE Budgeted'
  BY <1>1, <1>8, <1>t DEF Sent, BuildFails, Goto, session, Changing, TypeOK
<1>9. ASSUME NEW h \in Socket, NEW q \in Person, Lock(h, q) PROVE Budgeted'
  BY <1>1, <1>9, <1>t DEF Lock, Goto, session, Changing, TypeOK
<1>10. ASSUME NEW h \in Socket, Write(h) \/ KickPeer(h) \/ PruneLock(h) \/ Prune(h)
       PROVE  Budgeted'
  BY <1>1, <1>10, <1>t DEF Write, KickPeer, PruneLock, Prune, Goto, session, Changing, TypeOK
<1>11. ASSUME NEW h \in Socket, LeaveLock(h) \/ GraceCheck(h) PROVE Budgeted'
  BY <1>1, <1>2, <1>11, <1>t DEF LeaveLock, GraceCheck, Goto, session, Changing, TypeOK
<1>12. ASSUME NEW h \in Socket, GraceLock(h) PROVE Budgeted'
  <2>1. CASE who[h] \in members
    BY <1>1, <1>12, <2>1, <1>t DEF GraceLock, PurgeLock, Goto, session, Changing, TypeOK
  <2>2. CASE who[h] \notin members
    BY <1>3, <1>12, <2>2, <1>t DEF GraceLock, PurgeLock, Goto, session, Changing, TypeOK
  <2> QED
    BY <2>1, <2>2
<1>13. ASSUME NEW h \in Socket, NEW q \in Person, KickLock(h, q) PROVE Budgeted'
  <2>1. CASE q \in members
    BY <1>2, <1>13, <2>1, <1>t DEF KickLock, PurgeLock, Goto, session, Changing, TypeOK
  <2>2. CASE q \notin members
    BY <1>1, <1>13, <2>2, <1>t DEF KickLock, PurgeLock, Goto, session, Changing, TypeOK
  <2> QED
    BY <2>1, <2>2
<1>14. ASSUME NEW h \in Socket, Swap(h) \/ Leave(h) \/ KickWrite(h) PROVE Budgeted'
  BY <1>3, <1>14, <1>t DEF Swap, Leave, KickWrite, Tell, Goto, Change, Changing, TypeOK
<1>15. CASE UNCHANGED vars
  BY <1>1, <1>15 DEF vars, session, Changing
<1> QED
  BY <1>4, <1>5, <1>6, <1>7, <1>8, <1>9, <1>10, <1>11, <1>12, <1>13, <1>14, <1>15
     DEF Next, Begin, Work, Fails

-----------------------------------------------------------------------------
\* Variables keep their types, and handlers know their peers.
LEMMA TypeStep == IInv /\ [Next]_vars /\ Budgeted' => TypeOK' /\ PeerKnown'
<1> SUFFICES ASSUME IInv, [Next]_vars, Budgeted' PROVE TypeOK' /\ PeerKnown'
  OBVIOUS
<1>t. TypeOK /\ PeerKnown
  BY DEF IInv
<1>v. version' = version \/ version' = version + 1 => version' \in 0..MaxVersion
  <2>1. Changing' \subseteq Socket
    BY DEF Changing
  <2>2. Cardinality(Changing') \in Nat
    BY <2>1, HandlersFinite
  <2> QED
    BY <1>t, <2>2, BroadcastAssumption DEF TypeOK, Budgeted
<1>u. ASSUME unsaid' = TRUE \/ unsaid' = FALSE \/ unsaid' = unsaid PROVE unsaid' \in BOOLEAN
  BY <1>t, <1>u, Zenon DEF TypeOK
<1> USE DEF Goto, Tell, Change, session, locks, telling, heard, TypeOK, PeerKnown
<1>1. ASSUME NEW h \in Socket, NEW p \in Person, Join(h, p) PROVE TypeOK' /\ PeerKnown'
  BY <1>1, <1>t, <1>v DEF Join, Comes
<1>2. ASSUME NEW h \in Socket, NEW p \in Person, ReconnectLock(h, p) PROVE TypeOK' /\ PeerKnown'
  BY <1>2, <1>t DEF ReconnectLock, Comes
<1>3. ASSUME NEW h \in Socket, Operate(h) \/ OperateSilently(h) PROVE TypeOK' /\ PeerKnown'
  <2>1. unsaid' \in BOOLEAN
    BY <1>3, <1>u, Zenon DEF Operate, OperateSilently
  <2> QED
    BY <2>1, <1>3, <1>t, <1>v DEF Operate, OperateSilently
<1>4. ASSUME NEW h \in Socket, BuildReply(h) \/ ReplyFails(h) \/ Build(h) \/ List(h)
      PROVE  TypeOK' /\ PeerKnown'
  <2>1. unsaid' \in BOOLEAN
    BY <1>4, <1>u, Zenon DEF BuildReply, ReplyFails, Build, List
  <2>2. BuildReply(h) \/ ReplyFails(h) => TypeOK' /\ PeerKnown'
    BY <2>1, <1>t DEF BuildReply, ReplyFails
  <2>3. Build(h) => TypeOK' /\ PeerKnown'
    BY <2>1, <1>t DEF Build
  <2>4. List(h) => TypeOK' /\ PeerKnown'
    BY <2>1, <1>t DEF List
  <2> QED
    BY <1>4, <2>2, <2>3, <2>4
<1>5. ASSUME NEW h \in Socket, WriteReply(h) PROVE TypeOK' /\ PeerKnown'
  BY <1>5, <1>t, BroadcastAssumption DEF WriteReply, Receive
<1>6. ASSUME NEW h \in Socket, Write(h) PROVE TypeOK' /\ PeerKnown'
  <2>1. view' \in [Socket -> 0..MaxVersion] /\ best' \in [Socket -> 0..MaxVersion]
    BY <1>6, <1>t, BroadcastAssumption DEF Write, Receive
  <2> QED
    BY <2>1, <1>6, <1>t, BroadcastAssumption DEF Write
<1>7. ASSUME NEW h \in Socket, NEW q \in Person, Lock(h, q) PROVE TypeOK' /\ PeerKnown'
  BY <1>7, <1>t DEF Lock
<1>8. ASSUME NEW h \in Socket, Sent(h) \/ BuildFails(h) PROVE TypeOK' /\ PeerKnown'
  <2>1. unsaid' \in BOOLEAN
    BY <1>8, <1>t, <1>u, Zenon DEF Sent, BuildFails
  <2> QED
    BY <2>1, <1>8, <1>t, BroadcastAssumption DEF Sent, BuildFails
<1>9. ASSUME NEW h \in Socket, LeaveLock(h) \/ GraceCheck(h) PROVE TypeOK' /\ PeerKnown'
  BY <1>9, <1>t DEF LeaveLock, GraceCheck
<1>10. ASSUME NEW h \in Socket, NEW q \in Person, pc[h] # "new", PurgeLock(h, q)
       PROVE  TypeOK' /\ PeerKnown'
  BY <1>10, <1>t DEF PurgeLock
<1>11. ASSUME NEW h \in Socket, GraceLock(h) \/ (\E q \in Person : KickLock(h, q))
       PROVE  TypeOK' /\ PeerKnown'
  BY <1>10, <1>11, <1>t DEF GraceLock, KickLock
<1>12. ASSUME NEW h \in Socket, Swap(h) \/ Leave(h) PROVE TypeOK' /\ PeerKnown'
  <2>1. unsaid' \in BOOLEAN /\ conn' \in [Person -> Socket \cup {None}]
    <3>1. unsaid' \in BOOLEAN
      BY <1>12, <1>u, Zenon DEF Swap, Leave
    <3> QED
      BY <3>1, <1>12, <1>t DEF Swap, Leave
  <2>2. CASE Swap(h)
    BY <2>1, <2>2, <1>t, <1>v DEF Swap
  <2>3. CASE Leave(h)
    BY <2>1, <2>3, <1>t, <1>v DEF Leave
  <2> QED
    BY <1>12, <2>2, <2>3
<1>13. ASSUME NEW h \in Socket, KickPeer(h) PROVE TypeOK' /\ PeerKnown'
  BY <1>13, <1>t DEF KickPeer
<1>14. ASSUME NEW h \in Socket, KickWrite(h) PROVE TypeOK' /\ PeerKnown'
  BY <1>14, <1>t, <1>v DEF KickWrite
<1>15. ASSUME NEW h \in Socket, PruneLock(h) \/ Prune(h) PROVE TypeOK' /\ PeerKnown'
  BY <1>15, <1>t DEF PruneLock, Prune
<1>16. CASE UNCHANGED vars
  BY <1>16, <1>t DEF vars
<1> QED
  BY <1>1, <1>2, <1>3, <1>4, <1>5, <1>6, <1>7, <1>8, <1>9, <1>11, <1>12, <1>13, <1>14, <1>15,
     <1>16
     DEF Next, Begin, Work, Fails

-----------------------------------------------------------------------------
\* Versions are heard as they come, never before.
LEMMA ForesightStep == IInv /\ [Next]_vars => NoForesight'
<1> SUFFICES ASSUME IInv, [Next]_vars PROVE NoForesight'
  OBVIOUS
<1>t. TypeOK /\ PeerKnown /\ NoForesight /\ version \in Nat
  BY BroadcastAssumption DEF IInv, TypeOK
<1>n. /\ built \in [Socket -> Nat] /\ best \in [Socket -> Nat]
  BY <1>t DEF TypeOK
<1>1. ASSUME UNCHANGED <<built, best>>, version' \in {version, version + 1}
      PROVE  NoForesight'
  BY <1>1, <1>t, <1>n DEF NoForesight
<1>2. ASSUME NEW h \in Socket, \/ Operate(h) \/ OperateSilently(h) \/ Leave(h) \/ KickWrite(h)
                              \/ LeaveLock(h) \/ GraceCheck(h) \/ GraceLock(h) \/ KickPeer(h)
                              \/ PruneLock(h) \/ Prune(h) \/ List(h) \/ Swap(h) \/ ReplyFails(h)
                              \/ BuildFails(h)
      PROVE  NoForesight'
  BY <1>1, <1>2 DEF Operate, OperateSilently, Leave, KickWrite, LeaveLock, GraceCheck, GraceLock,
     PurgeLock, KickPeer, PruneLock, Prune, List, Swap, ReplyFails, BuildFails, Change, session,
     telling, heard
<1>3. ASSUME NEW h \in Socket, NEW q \in Person,
             Join(h, q) \/ ReconnectLock(h, q) \/ Lock(h, q) \/ KickLock(h, q)
      PROVE  NoForesight'
  BY <1>1, <1>3 DEF Join, ReconnectLock, Lock, KickLock, PurgeLock, Change, session, telling, heard
<1>4. ASSUME NEW h \in Socket, BuildReply(h) \/ Build(h) \/ Sent(h) PROVE NoForesight'
  BY <1>4, <1>t, <1>n DEF BuildReply, Build, Sent, session, heard, NoForesight
<1>5. ASSUME NEW h \in Socket, WriteReply(h) PROVE NoForesight'
  BY <1>5, <1>t, <1>n DEF WriteReply, Receive, session, NoForesight
<1>6. ASSUME NEW h \in Socket, Write(h) PROVE NoForesight'
  BY <1>6, <1>t, <1>n DEF Write, Receive, session, heard, NoForesight
<1>7. CASE UNCHANGED vars
  BY <1>1, <1>7 DEF vars, session, telling, heard
<1> QED
  BY <1>2, <1>3, <1>4, <1>5, <1>6, <1>7 DEF Next, Begin, Work, Fails

-----------------------------------------------------------------------------
\* A change puts its handler before a broadcast or goes unsaid, and a broadcast
\* leaves nobody out who is connected: whoever is not told at once is still on
\* its list.
LEMMA ToldStep == IInv /\ [Next]_vars => Told'
<1> SUFFICES ASSUME IInv, [Next]_vars PROVE Told'
  OBVIOUS
<1>t. /\ TypeOK /\ PeerKnown /\ NoForesight /\ Told /\ version \in Nat /\ None \notin Socket
      /\ built \in [Socket -> Nat] /\ best \in [Socket -> Nat]
  BY BroadcastAssumption DEF IInv, TypeOK
\* the handler of a step that changes the session will tell everybody
<1>1. ASSUME NEW h \in Socket, pc'[h] \in {"again", "build"} PROVE Told'
  BY <1>1 DEF Told, WillTell
\* a step of a handler that was not about to tell anything
<1>2. ASSUME NEW h \in Socket,
             pc[h] \notin {"again", "againWrite", "build", "list", "send", "write", "failed"},
             UNCHANGED <<version, unsaid, members, conn, todo, best>>,
             \A g \in Socket \ {h} : pc'[g] = pc[g] /\ built'[g] = built[g] /\ peer'[g] = peer[g]
      PROVE  Told'
  BY <1>2, <1>t DEF Told, Attended, WillTell, TypeOK
<1>3. ASSUME NEW h \in Socket, NEW p \in Person, Join(h, p) PROVE Told'
  BY <1>1, <1>3, <1>t DEF Join, Tell, Goto, TypeOK
<1>4. ASSUME NEW h \in Socket, Operate(h) \/ Leave(h) \/ KickWrite(h) \/ Swap(h)
      PROVE  Told'
  <2>1. pc'[h] \in {"again", "build"}
    BY <1>4, <1>t DEF Operate, Leave, KickWrite, Swap, Tell, Goto, TypeOK
  <2> QED
    BY <1>1, <2>1
<1>5. ASSUME NEW h \in Socket, OperateSilently(h) \/ BuildFails(h) PROVE Told'
  BY <1>5 DEF OperateSilently, BuildFails, Told
<1>6. ASSUME NEW h \in Socket, \/ LeaveLock(h) \/ GraceCheck(h) \/ GraceLock(h) \/ KickPeer(h)
                              \/ PruneLock(h) \/ Prune(h)
      PROVE  Told'
  BY <1>2, <1>6, <1>t DEF LeaveLock, GraceCheck, GraceLock, PurgeLock, KickPeer, PruneLock, Prune,
     Goto, session, telling, heard, TypeOK
<1>7. ASSUME NEW h \in Socket, NEW q \in Person, KickLock(h, q) \/ ReconnectLock(h, q) PROVE Told'
  BY <1>2, <1>7, <1>t
     DEF KickLock, PurgeLock, ReconnectLock, Comes, Goto, session, telling, heard, TypeOK
<1>8. ASSUME NEW h \in Socket, BuildReply(h) \/ ReplyFails(h) PROVE Told'
  BY <1>8, <1>t DEF BuildReply, ReplyFails, Goto, session, telling, heard, TypeOK, Told, Attended,
     WillTell
<1>9. ASSUME NEW h \in Socket, WriteReply(h) PROVE Told'
  <2>1. CASE pc[h] = "rawWrite"
    BY <1>9, <2>1, <1>t
       DEF WriteReply, Receive, Goto, session, TypeOK, Told, Attended, WillTell, NoForesight
  <2>2. CASE pc[h] = "againWrite"
    BY <1>1, <1>9, <2>2, <1>t DEF WriteReply, Goto, TypeOK
  <2> QED
    BY <1>9, <2>1, <2>2 DEF WriteReply
<1>10. ASSUME NEW h \in Socket, Build(h) PROVE Told'
  BY <1>10, <1>t DEF Build, Goto, heard, TypeOK, Told, WillTell
<1>11. ASSUME NEW h \in Socket, List(h) PROVE Told'
  BY <1>11, <1>t DEF List, Goto, session, heard, TypeOK, Told, Attended, WillTell
<1>12. ASSUME NEW h \in Socket, NEW q \in Person, Lock(h, q) PROVE Told'
  BY <1>12, <1>t DEF Lock, Goto, session, heard, TypeOK, Told, Attended, WillTell
<1>13. ASSUME NEW h \in Socket, Write(h) PROVE Told'
  <2>1. CASE conn[peer[h]] = None
    BY <1>13, <2>1, <1>t
       DEF Write, Goto, session, heard, TypeOK, PeerKnown, Told, Attended, WillTell
  <2>2. CASE conn[peer[h]] # None
    BY <1>13, <2>2, <1>t
       DEF Write, Receive, Goto, session, TypeOK, PeerKnown, NoForesight, Told, Attended, WillTell
  <2> QED
    BY <2>1, <2>2
<1>14. ASSUME NEW h \in Socket, Sent(h) PROVE Told'
  BY <1>14, <1>t DEF Sent, Goto, session, heard, TypeOK, Told, Attended, WillTell
<1>15. CASE UNCHANGED vars
  BY <1>15, <1>t DEF vars, session, telling, heard, Told, Attended, WillTell
<1> QED
  BY <1>3, <1>4, <1>5, <1>6, <1>7, <1>8, <1>9, <1>10, <1>11, <1>12, <1>13, <1>14, <1>15
     DEF Next, Begin, Work, Fails

\* The inductive invariant holds in every reachable state.
THEOREM Invariant == Spec => []IInv
<1>1. IInv /\ [Next]_vars => IInv'
  BY TypeStep, BudgetStep, ForesightStep, ToldStep DEF IInv
<1> QED
  BY InitIInv, <1>1, PTL DEF Spec

-----------------------------------------------------------------------------
\* Every variable keeps its type, and no more changes are made than fit.
THEOREM TypeCorrect == Spec => []TypeOK
<1>1. IInv => TypeOK
  BY DEF IInv
<1> QED
  BY Invariant, <1>1, PTL

\* Once every handler rests, whoever is connected has heard the newest state over
\* its present connection, however the handlers of joins, reconnections, leaves,
\* kicks and operations overlapped, unless a statement failed that left the
\* newest state without a broadcast.
THEOREM Heard == Spec => []EveryoneHears
<1>1. IInv => EveryoneHears
  BY DEF IInv, TypeOK, Told, WillTell, EveryoneHears, Quiet, Resting
<1> QED
  BY Invariant, <1>1, PTL

-----------------------------------------------------------------------------
(* That the three kinds of mutex never close a circle.                     *)

\* A mutex is in the hands of the one handler whose step holds it: sc.mu over
\* a reconnection, a leave or a kick, hub.mu over a prune, a participant's over
\* a write to it.
Locked ==
    /\ \A h \in Socket : scMu = h <=> pc[h] \in {"swap", "leave", "kick", "kickWrite"}
    /\ \A h \in Socket : hubMu = h <=> pc[h] = "pruneRead"
    /\ \A h \in Socket, q \in Person :
          mu[q] = h <=> pc[h] \in {"write", "kickWrite"} /\ peer[h] = q

\* The guards of Work: what a handler waits for is there.
MayGoOn(h) ==
    \/ pc[h] \in {"rawWrite", "againWrite", "write", "kickWrite"}
    \/ pc[h] \in {"raw", "again", "build", "list", "purge"} /\ CanLookUp
    \/ pc[h] = "send" /\ (todo[h] = {} \/ \E q \in todo[h] : mu[q] = None)
    \/ pc[h] \in {"swap", "leave"} /\ mu[who[h]] = None
    \/ pc[h] = "kick" /\ mu[peer[h]] = None
    \/ pc[h] = "prune" /\ hubMu = None
    \/ pc[h] = "pruneRead" /\ scMu = None

\* Either every handler rests or some handler can take its next step.
NoDeadlock == Quiet \/ \E h \in Socket : MayGoOn(h)

\* A mutex is taken when nobody has it, and given back by who took it.
LEMMA LockedStep == IInv /\ Locked /\ [Next]_vars => Locked'
<1> SUFFICES ASSUME IInv, Locked, [Next]_vars PROVE Locked'
  OBVIOUS
<1>t. TypeOK /\ PeerKnown /\ Locked /\ None \notin Socket
  BY BroadcastAssumption DEF IInv
<1> DEFINE Holding == {"swap", "leave", "kick", "kickWrite", "pruneRead", "write"}
\* a handler that neither holds a mutex nor takes one
<1>1. ASSUME NEW h \in Socket, UNCHANGED locks, UNCHANGED peer,
             \A g \in Socket \ {h} : pc'[g] = pc[g],
             pc[h] \notin Holding, pc'[h] \notin Holding
      PROVE  Locked'
  BY <1>1, <1>t DEF Locked, locks
<1> USE DEF Goto, Tell, telling, TypeOK
<1>2. ASSUME NEW h \in Socket, NEW p \in Person, Join(h, p) PROVE Locked'
  BY <1>1, <1>2, <1>t DEF Join, Comes
<1>3. ASSUME NEW h \in Socket, \/ Operate(h) \/ BuildReply(h) \/ ReplyFails(h) \/ WriteReply(h)
                              \/ Build(h) \/ List(h) \/ GraceCheck(h)
      PROVE  Locked'
  BY <1>1, <1>3, <1>t
     DEF Operate, BuildReply, ReplyFails, WriteReply, Build, List, GraceCheck
<1>4. ASSUME NEW h \in Socket, Sent(h) \/ BuildFails(h) PROVE Locked'
  BY <1>1, <1>4, <1>t DEF Sent, BuildFails
<1>5. ASSUME NEW h \in Socket, OperateSilently(h) PROVE Locked'
  BY <1>1, <1>5, <1>t DEF OperateSilently
<1>6. ASSUME NEW h \in Socket, NEW q \in Person, Lock(h, q) PROVE Locked'
  BY <1>6, <1>t DEF Lock, Locked
<1>7. ASSUME NEW h \in Socket, Write(h) PROVE Locked'
  BY <1>7, <1>t DEF Write, PeerKnown, Locked
<1>8. ASSUME NEW h \in Socket, NEW p \in Person, ReconnectLock(h, p) PROVE Locked'
  BY <1>8, <1>t DEF ReconnectLock, Comes, CanLookUp, Locked
<1>9. ASSUME NEW h \in Socket, LeaveLock(h) PROVE Locked'
  BY <1>9, <1>t DEF LeaveLock, CanLookUp, Locked
<1>10. ASSUME NEW h \in Socket, NEW q \in Person, pc[h] \in {"read", "purge"}, PurgeLock(h, q)
       PROVE  Locked'
  BY <1>10, <1>t DEF PurgeLock, CanLookUp, Locked
<1>11. ASSUME NEW h \in Socket, GraceLock(h) \/ (\E q \in Person : KickLock(h, q)) PROVE Locked'
  BY <1>10, <1>11, <1>t DEF GraceLock, KickLock
<1>12. ASSUME NEW h \in Socket, Swap(h) \/ Leave(h) PROVE Locked'
  BY <1>12, <1>t DEF Swap, Leave, Locked
<1>13. ASSUME NEW h \in Socket, KickPeer(h) PROVE Locked'
  BY <1>13, <1>t DEF KickPeer, PeerKnown, Locked
<1>14. ASSUME NEW h \in Socket, KickWrite(h) PROVE Locked'
  BY <1>14, <1>t DEF KickWrite, PeerKnown, Locked
<1>15. ASSUME NEW h \in Socket, PruneLock(h) \/ Prune(h) PROVE Locked'
  BY <1>15, <1>t DEF PruneLock, Prune, Locked
<1>16. CASE UNCHANGED vars
  BY <1>16, <1>t DEF vars, locks, Locked
<1> QED
  BY <1>2, <1>3, <1>4, <1>5, <1>6, <1>7, <1>8, <1>9, <1>11, <1>12, <1>13, <1>14, <1>15, <1>16
     DEF Next, Begin, Work, Fails

\* The mutexes have an order: who holds a participant's only writes, who holds
\* sc.mu waits at most for a participant's, who holds hub.mu for sc.mu alone.
LEMMA LocksAreOrdered == IInv /\ Locked => NoDeadlock
<1> SUFFICES ASSUME IInv, Locked, \A h \in Socket : ~MayGoOn(h) PROVE Quiet
  BY DEF NoDeadlock
<1>t. TypeOK /\ PeerKnown
  BY DEF IInv
<1>1. \A q \in Person : mu[q] = None
  BY <1>t DEF Locked, MayGoOn, TypeOK
<1>2. \A h \in Socket : pc[h] \notin {"swap", "leave", "kick", "kickWrite", "send", "write"}
  BY <1>1, <1>t DEF MayGoOn, TypeOK, PeerKnown
<1>3. scMu = None
  BY <1>2, <1>t DEF Locked, TypeOK
<1>4. hubMu = None
  BY <1>3, <1>t DEF Locked, MayGoOn, TypeOK
<1> QED
  BY <1>2, <1>3, <1>4, <1>t DEF MayGoOn, CanLookUp, Quiet, Resting, TypeOK

\* No handler waits in a circle for the mutexes of the others: as long as one
\* is on its way, one can go on (the lock order of hub.go; BroadcastSession
\* takes participants' mutexes only after sc.mu is given back).
THEOREM DeadlockFree == Spec => []NoDeadlock
<1>1. Init => Locked
  BY BroadcastAssumption DEF Init, Locked
<1>2. IInv /\ Locked /\ [Next]_vars => Locked'
  BY LockedStep
<1>3. IInv /\ Locked => NoDeadlock
  BY LocksAreOrdered
<1> QED
  BY Invariant, <1>1, <1>2, <1>3, PTL DEF Spec
=============================================================================
