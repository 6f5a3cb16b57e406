------------------------ MODULE PokerPresence_proofs ------------------------
(***************************************************************************)
(* Theorems about PokerPresence for any participants, sockets, registries  *)
(* and grace period.                                                       *)
(***************************************************************************)
EXTENDS PokerPresence, TLAPS

\* A handler past its upgrade serves somebody; one about to add a participant
\* has found a registry, and the participant is on no record yet.
Serving ==
    \A w \in Socket :
        /\ who[w] \in Person <=> pc[w] # "idle"
        /\ pc[w] = "adding" => /\ home[w] \in made
                               /\ \A s \in Registry : who[w] \notin members[s]
                               /\ \A v \in Socket : who[v] = who[w] => v = w

\* Whoever is on record has a handler, or had one.
Served == \A s \in Registry : \A p \in members[s] : \E w \in Socket : who[w] = p

\* A registry not made yet is empty.
UnmadeIsEmpty == \A s \in Registry \ made : members[s] = {}

IInv == TypeOK /\ Serving /\ Served /\ UnmadeIsEmpty /\ EveryRecordHasReaper

-----------------------------------------------------------------------------
\* The invariant holds before the first participant comes.
LEMMA InitIInv == Init => IInv
  BY PresenceAssumption
  DEF Init, IInv, TypeOK, Serving, Served, UnmadeIsEmpty, EveryRecordHasReaper, Members, SocketPC

\* What PurgeParticipant does to the types, whoever calls it.
LEMMA PurgeTypes ==
    ASSUME TypeOK, NEW p, Purge(p)
    PROVE  /\ members' \in [Registry -> SUBSET Person]
           /\ conn' \in [Person -> Socket \cup {None}]
           /\ up' \in [Socket -> BOOLEAN]
<1>1. CASE p \in Members
  <2>1. members' = [members EXCEPT ![conns] = @ \ {p}] /\ conn' = [conn EXCEPT ![p] = None]
    BY <1>1 DEF Purge
  <2>2. up' = [w \in Socket |-> up[w] /\ w # conn[p]]
    BY <1>1 DEF Purge
  <2>3. up' \in [Socket -> BOOLEAN]
    BY <2>2, Zenon
  <2> QED
    BY <2>1, <2>3 DEF TypeOK
<1>2. CASE p \notin Members
  BY <1>2 DEF Purge, TypeOK
<1> QED
  BY <1>1, <1>2

\* Types are kept by every step.
LEMMA TypeStep == TypeOK /\ Serving /\ [Next]_vars => TypeOK'
<1> SUFFICES ASSUME TypeOK, Serving, [Next]_vars PROVE TypeOK'
  OBVIOUS
<1> USE DEF TypeOK, SocketPC, recVars, sockVars
<1>1. CASE Tick
  BY <1>1, PresenceAssumption DEF Tick
<1>2. ASSUME NEW w \in Socket, NEW p \in Person, Join(w, p) PROVE TypeOK'
  BY <1>2 DEF Join
<1>3. ASSUME NEW w \in Socket, NEW p \in Person, Reconnect(w, p) PROVE TypeOK'
  BY <1>3 DEF Reconnect
<1>4. ASSUME NEW w \in Socket, AddParticipant(w) PROVE TypeOK'
  BY <1>4 DEF AddParticipant, Serving
<1>5. ASSUME NEW w \in Socket, Joined(w) PROVE TypeOK'
  BY <1>5 DEF Joined
<1>6. ASSUME NEW w \in Socket, Drop(w) PROVE TypeOK'
  BY <1>6 DEF Drop
<1>7. ASSUME NEW w \in Socket, Leave(w) PROVE TypeOK'
  <2>1. sleep' \in [Socket -> 0..Grace] /\ pc' \in [Socket -> SocketPC]
    BY <1>7, PresenceAssumption DEF Leave
  <2>2. connected' \in [Person -> BOOLEAN] /\ conn' \in [Person -> Socket \cup {None}]
    <3>1. CASE who[w] \in Members
      BY <1>7, <3>1 DEF Leave
    <3>2. CASE who[w] \notin Members
      BY <1>7, <3>2 DEF Leave
    <3> QED
      BY <3>1, <3>2
  <2> QED
    BY <1>7, <2>1, <2>2 DEF Leave
<1>8. ASSUME NEW w \in Socket, GraceCheck(w) PROVE TypeOK'
  BY <1>8 DEF GraceCheck
<1>9. ASSUME NEW w \in Socket, GracePurge(w) PROVE TypeOK'
  BY <1>9, PurgeTypes DEF GracePurge
<1>10. ASSUME NEW w \in Socket, GracePrune(w) PROVE TypeOK'
  BY <1>10 DEF GracePrune, Prune
<1>11. ASSUME NEW p \in Person, KickStart(p) PROVE TypeOK'
  BY <1>11 DEF KickStart
<1>12. CASE KickPurge
  BY <1>12, PurgeTypes DEF KickPurge
<1>13. CASE KickPrune
  BY <1>13 DEF KickPrune, Prune
<1>14. ASSUME NEW w \in Socket, StartTimer(w) PROVE TypeOK'
  BY <1>14 DEF StartTimer
<1>15. CASE UNCHANGED vars
  BY <1>15 DEF vars
<1> QED
  BY <1>1, <1>2, <1>3, <1>4, <1>5, <1>6, <1>7, <1>8, <1>9, <1>10, <1>11, <1>12, <1>13, <1>14, <1>15
  DEF Next, ServerStep

\* What a handler about to add a participant relies on is kept.
LEMMA ServingStep == TypeOK /\ Serving /\ Served /\ UnmadeIsEmpty /\ [Next]_vars
                        => (Serving /\ Served /\ UnmadeIsEmpty)'
<1> SUFFICES ASSUME TypeOK, Serving, Served, UnmadeIsEmpty, [Next]_vars
             PROVE  (Serving /\ Served /\ UnmadeIsEmpty)'
  OBVIOUS
<1> USE DEF TypeOK, SocketPC, recVars, sockVars, Serving, Served, UnmadeIsEmpty
<1>1. ASSUME NEW w \in Socket, NEW p \in Person, Join(w, p)
      PROVE  (Serving /\ Served /\ UnmadeIsEmpty)'
  <2>1. \A s \in Registry : p \notin members[s]
    BY <1>1 DEF Join
  <2> QED
    <3>1. Serving'
      BY <1>1, <2>1 DEF Join
    <3>2. Served' /\ UnmadeIsEmpty'
      BY <1>1, <2>1 DEF Join
    <3> QED
      BY <3>1, <3>2
<1>2. ASSUME NEW w \in Socket, NEW p \in Person, Reconnect(w, p)
      PROVE  (Serving /\ Served /\ UnmadeIsEmpty)'
  <2>1. \E s \in Registry : p \in members[s]
    BY <1>2 DEF Reconnect, Members
  <2>2. Serving'
    BY <1>2, <2>1 DEF Reconnect
  <2>3. Served' /\ UnmadeIsEmpty'
    BY <1>2 DEF Reconnect
  <2> QED
    BY <2>2, <2>3
<1>3. ASSUME NEW w \in Socket, AddParticipant(w) PROVE (Serving /\ Served /\ UnmadeIsEmpty)'
  BY <1>3 DEF AddParticipant
<1>4. ASSUME NEW w \in Socket, Joined(w) \/ Drop(w) \/ GraceCheck(w) \/ GracePrune(w)
      PROVE  (Serving /\ Served /\ UnmadeIsEmpty)'
  BY <1>4 DEF Joined, Drop, GraceCheck, GracePrune
<1>5. ASSUME NEW w \in Socket, Leave(w) PROVE (Serving /\ Served /\ UnmadeIsEmpty)'
  BY <1>5 DEF Leave
<1>6. ASSUME NEW w \in Socket, GracePurge(w) PROVE (Serving /\ Served /\ UnmadeIsEmpty)'
  BY <1>6 DEF GracePurge, Purge
<1>7. CASE KickPurge
  BY <1>7 DEF KickPurge, Purge
<1>8. Tick \/ KickPrune \/ (\E p \in Person : KickStart(p)) \/ UNCHANGED vars
        => UNCHANGED <<made, members, pc, who, home>>
  BY DEF Tick, KickPrune, KickStart, vars
<1>9. CASE UNCHANGED <<made, members, pc, who, home>>
  BY <1>9
<1>10. ASSUME NEW w \in Socket, StartTimer(w) PROVE (Serving /\ Served /\ UnmadeIsEmpty)'
  BY <1>10 DEF StartTimer
<1> QED
  BY <1>1, <1>2, <1>3, <1>4, <1>5, <1>6, <1>7, <1>8, <1>9, <1>10 DEF Next, ServerStep

\* Each step leaves every record with a handler or a grace goroutine that will
\* remove it, or abandons it when the joined reply fails.
LEMMA ReaperStep == IInv /\ [Next]_vars => EveryRecordHasReaper'
<1> SUFFICES ASSUME TypeOK, Serving, UnmadeIsEmpty, EveryRecordHasReaper, [Next]_vars
             PROVE  EveryRecordHasReaper'
  BY DEF IInv
<1> USE DEF TypeOK, SocketPC, recVars, sockVars, EveryRecordHasReaper, Reaper, Abandoned, Members
<1>1. ASSUME NEW w \in Socket, NEW p \in Person, Join(w, p) PROVE EveryRecordHasReaper'
  \* A new registry is empty; in an old one w is nobody's reaper yet.
  BY <1>1, PresenceAssumption DEF Join, UnmadeIsEmpty, Serving
<1>2. ASSUME NEW w \in Socket, NEW p \in Person, Reconnect(w, p)
      PROVE  EveryRecordHasReaper'
  BY <1>2 DEF Reconnect, Serving
<1>3. ASSUME NEW w \in Socket, AddParticipant(w) PROVE EveryRecordHasReaper'
  BY <1>3 DEF AddParticipant, Serving
<1>4. ASSUME NEW w \in Socket, Joined(w) PROVE EveryRecordHasReaper'
  BY <1>4 DEF Joined
<1>5. ASSUME NEW w \in Socket, Leave(w) PROVE EveryRecordHasReaper'
  BY <1>5 DEF Leave, Serving
<1>6. ASSUME NEW w \in Socket, GraceCheck(w) PROVE EveryRecordHasReaper'
  BY <1>6 DEF GraceCheck
<1>7. ASSUME NEW w \in Socket, GracePurge(w) PROVE EveryRecordHasReaper'
  BY <1>7 DEF GracePurge, Purge, Serving
<1>8. ASSUME NEW w \in Socket, GracePrune(w) PROVE EveryRecordHasReaper'
  BY <1>8 DEF GracePrune, Prune
<1>9. CASE KickPurge
  BY <1>9 DEF KickPurge, Purge
<1>10. CASE KickPrune
  BY <1>10 DEF KickPrune, Prune
<1>11. Tick \/ (\E w \in Socket : Drop(w)) \/ (\E p \in Person : KickStart(p)) \/ UNCHANGED vars
         => UNCHANGED <<conns, members, conn, connected, pc, who>>
  BY DEF Tick, Drop, KickStart, vars
<1>12. CASE UNCHANGED <<conns, members, conn, connected, pc, who>>
  BY <1>12
<1>13. ASSUME NEW w \in Socket, StartTimer(w) PROVE EveryRecordHasReaper'
  \* The registry it makes is empty.
  BY <1>13 DEF StartTimer, UnmadeIsEmpty
<1> QED
  BY <1>1, <1>2, <1>3, <1>4, <1>5, <1>6, <1>7, <1>8, <1>9, <1>10, <1>11, <1>12, <1>13
  DEF Next, ServerStep

-----------------------------------------------------------------------------
\* Every variable keeps its type, whatever the database does.
THEOREM TypeCorrect == Spec => []TypeOK
<1>1. Init => TypeOK /\ Serving /\ Served /\ UnmadeIsEmpty
  BY InitIInv DEF IInv
<1>2. TypeOK /\ Serving /\ Served /\ UnmadeIsEmpty /\ [Next]_vars
        => (TypeOK /\ Serving /\ Served /\ UnmadeIsEmpty)'
  BY TypeStep, ServingStep
<1> QED
  BY <1>1, <1>2, PTL DEF Spec

\* Every record has a handler or a grace goroutine that will remove it, but for
\* those of joins whose reply could not be built (handler.go, HandleWebSocket).
THEOREM RecordsAreReaped == Spec => []EveryRecordHasReaper
<1>1. IInv /\ [Next]_vars => IInv'
  BY TypeStep, ServingStep, ReaperStep DEF IInv
<1>2. IInv => EveryRecordHasReaper
  BY DEF IInv
<1> QED
  BY InitIInv, <1>1, <1>2, PTL DEF Spec

-----------------------------------------------------------------------------
\* A registry that is on the map and empty, and was not made by a start_timer
\* that nobody has joined since, is about to be filled or dropped:
\* a handler has found it and will add its participant to it, or the goroutine
\* that removed the last participant has still to call removeConnsIfEmpty.
EmptyIsPassing ==
    Unwatched => \/ \E w \in Socket : pc[w] = "adding" /\ home[w] = conns
                 \/ \E w \in Socket : pc[w] = "prune"
                 \/ kick.pc = "prune"

\* A registry is made by a handler that will fill it, or by a timer and then
\* found by such a handler, and emptied by one that will look whether it is
\* empty.
LEMMA PassingStep == IInv /\ EmptyIsPassing /\ [Next]_vars => EmptyIsPassing'
<1> SUFFICES ASSUME TypeOK, Serving, EmptyIsPassing, [Next]_vars PROVE EmptyIsPassing'
  BY DEF IInv
<1> USE PresenceAssumption DEF TypeOK, SocketPC, EmptyIsPassing, Unwatched, Members
<1>1. ASSUME NEW w \in Socket, NEW p \in Person, Join(w, p) PROVE EmptyIsPassing'
  BY <1>1 DEF Join
<1>2. ASSUME NEW w \in Socket, NEW p \in Person, Reconnect(w, p) PROVE EmptyIsPassing'
  BY <1>2 DEF Reconnect
<1>3. ASSUME NEW w \in Socket, AddParticipant(w) PROVE EmptyIsPassing'
  BY <1>3 DEF AddParticipant, Serving
<1>4. ASSUME NEW w \in Socket, Joined(w) \/ GraceCheck(w) \/ Drop(w) PROVE EmptyIsPassing'
  BY <1>4 DEF Joined, GraceCheck, Drop, recVars
<1>5. ASSUME NEW w \in Socket, Leave(w) PROVE EmptyIsPassing'
  BY <1>5 DEF Leave
<1>6. ASSUME NEW w \in Socket, GracePurge(w) PROVE EmptyIsPassing'
  BY <1>6 DEF GracePurge
<1>7. ASSUME NEW w \in Socket, GracePrune(w) PROVE EmptyIsPassing'
  BY <1>7 DEF GracePrune, Prune
<1>8. CASE KickPurge
  BY <1>8 DEF KickPurge
<1>9. CASE KickPrune
  BY <1>9 DEF KickPrune, Prune
<1>10. ASSUME NEW p \in Person, KickStart(p) PROVE EmptyIsPassing'
  BY <1>10 DEF KickStart, recVars, sockVars
<1>11. CASE Tick \/ UNCHANGED vars
  BY <1>11 DEF Tick, vars, recVars, sockVars
<1>12. ASSUME NEW w \in Socket, StartTimer(w) PROVE EmptyIsPassing'
  BY <1>12 DEF StartTimer
<1> QED
  BY <1>1, <1>2, <1>3, <1>4, <1>5, <1>6, <1>7, <1>8, <1>9, <1>10, <1>11, <1>12
  DEF Next, ServerStep

\* An empty registry that somebody has been in is never forgotten on the map:
\* someone is on the way to fill it or to drop it, whatever joins, kicks, timers
\* and grace periods overlap (hub.go:96-97, removeConnsIfEmpty).  What is left
\* out is the registry a start_timer made and nobody has joined.
THEOREM EmptyRegistriesPass == Spec => []EmptyIsPassing
<1>1. Init => EmptyIsPassing
  BY DEF Init, EmptyIsPassing, Unwatched
<1>2. Spec => []IInv
  <2>1. IInv /\ [Next]_vars => IInv'
    BY TypeStep, ServingStep, ReaperStep DEF IInv
  <2> QED
    BY InitIInv, <2>1, PTL DEF Spec
<1> QED
  BY <1>1, <1>2, PassingStep, PTL DEF Spec
=============================================================================
