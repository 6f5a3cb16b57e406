--------------------------- MODULE PokerPresence ---------------------------
(***************************************************************************)
(* Who is in a planning-poker session (api/internal/poker): the registry   *)
(* of live connections, one HandleWebSocket goroutine per socket, the      *)
(* grace timer each leaves behind, and the owner's kick.  One session; a   *)
(* registry (SessionConns) is dropped when empty and made again on demand, *)
(* so registries are objects.  A step is a critical section of hub.mu or   *)
(* sc.mu; a lookup of the registry and the section of sc.mu that follows   *)
(* are one step, except in AddParticipant, where the difference matters.   *)
(***************************************************************************)
EXTENDS Naturals

CONSTANTS Person,     \* participant ids (and their reconnect ids)
          Socket,     \* WebSocket connections, one handler each
          Registry,   \* SessionConns objects
          None,       \* nil
          Grace       \* disconnectGracePeriod, in ticks

ASSUME PresenceAssumption ==
    /\ None \notin Person \cup Socket \cup Registry
    /\ Grace \in Nat \ {0}

VARIABLES
    conns,      \* hub.conns[session]: a registry or nil
    made,       \* registries made so far
    bare,       \* history: those StartTimer made and no join has found since
    members,    \* keys of sc.participants, per registry
    conn,       \* liveParticipant.conn
    connected,  \* liveParticipant.isConnected
    pc,         \* per socket: its handler, then its grace goroutine
    who,        \* per socket: the participant it serves
    home,       \* per socket: the registry AddParticipant found
    up,         \* per socket: the connection is open
    sleep,      \* per socket: what is left of its grace timer
    kick        \* the owner's kick: [pc, who]

recVars  == <<conns, made, bare, members, conn, connected>>
sockVars == <<pc, who, home, up, sleep>>
vars == <<recVars, sockVars, kick>>

SocketPC == {"idle", "adding", "joined", "reading", "grace", "purge", "prune", "done", "failed"}

Members == IF conns = None THEN {} ELSE members[conns]

Init ==
    /\ conns = None /\ made = {} /\ bare = {}
    /\ members = [s \in Registry |-> {}]
    /\ conn = [p \in Person |-> None]
    /\ connected = [p \in Person |-> FALSE]
    /\ pc = [w \in Socket |-> "idle"]
    /\ who = [w \in Socket |-> None]
    /\ home = [w \in Socket |-> None]
    /\ up = [w \in Socket |-> FALSE]
    /\ sleep = [w \in Socket |-> 0]
    /\ kick = [pc |-> "idle", who |-> None]

\* Time passes for every grace timer that runs.
Tick == /\ \E w \in Socket : sleep[w] > 0
        /\ sleep' = [w \in Socket |-> IF sleep[w] > 0 THEN sleep[w] - 1 ELSE 0]
        /\ UNCHANGED <<recVars, pc, who, home, up, kick>>

-----------------------------------------------------------------------------
\* A fresh join under a new participant id.  AddParticipant first finds or
\* makes the registry ...
Join(w, p) ==
    /\ pc[w] = "idle" /\ \A v \in Socket : who[v] # p
    /\ who' = [who EXCEPT ![w] = p]
    /\ up' = [up EXCEPT ![w] = TRUE]
    /\ pc' = [pc EXCEPT ![w] = "adding"]
    /\ bare' = bare \ {conns}
    /\ \/ /\ conns # None
          /\ home' = [home EXCEPT ![w] = conns]
          /\ UNCHANGED <<conns, made>>
       \/ /\ conns = None
          /\ \E s \in Registry \ made :
                /\ conns' = s /\ made' = made \cup {s}
                /\ home' = [home EXCEPT ![w] = s]
    /\ UNCHANGED <<members, conn, connected, sleep, kick>>

\* ... and then, under that registry's mutex, stores the participant.
AddParticipant(w) ==
    LET p == who[w] IN
    /\ pc[w] = "adding"
    /\ members' = [members EXCEPT ![home[w]] = @ \cup {p}]
    /\ conn' = [conn EXCEPT ![p] = w]
    /\ connected' = [connected EXCEPT ![p] = TRUE]
    /\ home' = [home EXCEPT ![w] = None]
    /\ pc' = [pc EXCEPT ![w] = "joined"]
    /\ UNCHANGED <<conns, made, bare, who, up, sleep, kick>>

\* BuildSessionState for the "joined" reply.  When it fails the handler
\* closes the connection and returns: no RemoveParticipant, no timer.
Joined(w) ==
    /\ pc[w] = "joined"
    /\ \/ /\ pc' = [pc EXCEPT ![w] = "reading"]
          /\ UNCHANGED up
       \/ /\ pc' = [pc EXCEPT ![w] = "failed"]
          /\ up' = [up EXCEPT ![w] = FALSE]
    /\ UNCHANGED <<recVars, who, home, sleep, kick>>

\* ReconnectParticipant swaps the connection of a participant still on
\* record; the id it takes came with the "joined" reply.  The old connection
\* is neither closed nor told.
Reconnect(w, p) ==
    /\ pc[w] = "idle" /\ p \in Members
    /\ \E v \in Socket : who[v] = p /\ pc[v] \notin {"joined", "failed"}
    /\ conn' = [conn EXCEPT ![p] = w]
    /\ connected' = [connected EXCEPT ![p] = TRUE]
    /\ who' = [who EXCEPT ![w] = p]
    /\ up' = [up EXCEPT ![w] = TRUE]
    /\ pc' = [pc EXCEPT ![w] = "reading"]
    /\ UNCHANGED <<conns, made, bare, members, home, sleep, kick>>

\* A start_timer of an owner whose session has no registry (it was kicked or
\* purged and its last message is still being handled, or the others'
\* removals dropped the registry): getOrCreateConns makes one with nobody in it.
StartTimer(w) ==
    /\ pc[w] = "reading" /\ conns = None
    /\ \E s \in Registry \ made :
          conns' = s /\ made' = made \cup {s} /\ bare' = bare \cup {s}
    /\ UNCHANGED <<members, conn, connected, sockVars, kick>>

\* The peer goes away.
Drop(w) ==
    /\ up[w]
    /\ up' = [up EXCEPT ![w] = FALSE]
    /\ UNCHANGED <<recVars, pc, who, home, sleep, kick>>

\* Mutant: the grace goroutine is started only if the participant was found
\* connected on this socket.
LeaveOwnSocket(w) ==
    LET p == who[w] IN
    /\ pc[w] = "reading" /\ ~up[w]
    /\ pc' = [pc EXCEPT ![w] = IF p \in Members /\ conn[p] = w THEN "grace" ELSE "done"]
    /\ connected' = [connected EXCEPT ![p] = @ /\ p \notin Members]
    /\ conn' = [conn EXCEPT ![p] = IF p \in Members THEN None ELSE @]
    /\ sleep' = [sleep EXCEPT ![w] = Grace]
    /\ UNCHANGED <<conns, made, bare, members, who, home, up, kick>>

\* The read loop ends: RemoveParticipant marks whatever connection the
\* participant has by and the grace goroutine starts to sleep.
Leave(w) ==
    LET p == who[w] IN
    /\ pc[w] = "reading" /\ ~up[w]
    /\ pc' = [pc EXCEPT ![w] = "grace"]
    /\ sleep' = [sleep EXCEPT ![w] = Grace]
    /\ IF p \in Members
       THEN /\ connected' = [connected EXCEPT ![p] = FALSE]
            /\ conn' = [conn EXCEPT ![p] = None]
       ELSE UNCHANGED <<connected, conn>>
    /\ UNCHANGED <<conns, made, bare, members, who, home, up, kick>>

\* The grace goroutine wakes up: IsStillDisconnected.
GraceCheck(w) ==
    LET p == who[w] IN
    /\ pc[w] = "grace" /\ sleep[w] = 0
    /\ pc' = [pc EXCEPT ![w] = IF p \in Members /\ ~connected[p] THEN "purge" ELSE "done"]
    /\ UNCHANGED <<recVars, who, home, up, sleep, kick>>

\* PurgeParticipant's critical section, for the grace goroutine and the kick.
Purge(p) ==
    IF p \in Members
    THEN /\ members' = [members EXCEPT ![conns] = @ \ {p}]
         /\ up' = [w \in Socket |-> up[w] /\ w # conn[p]]
         /\ conn' = [conn EXCEPT ![p] = None]
    ELSE UNCHANGED <<members, up, conn>>

\* removeConnsIfEmpty, under hub.mu and sc.mu.
Prune == conns' = IF Members = {} THEN None ELSE conns

\* Mutant: the grace goroutine does not call removeConnsIfEmpty.
PurgeOnly(w) ==
    /\ pc[w] = "purge"
    /\ Purge(who[w])
    /\ pc' = [pc EXCEPT ![w] = "done"]
    /\ UNCHANGED <<conns, made, bare, connected, who, home, sleep, kick>>

GracePurge(w) ==
    /\ pc[w] = "purge"
    /\ Purge(who[w])
    /\ pc' = [pc EXCEPT ![w] = "prune"]
    /\ UNCHANGED <<conns, made, bare, connected, who, home, sleep, kick>>

GracePrune(w) ==
    /\ pc[w] = "prune"
    /\ Prune
    /\ pc' = [pc EXCEPT ![w] = "done"]
    /\ UNCHANGED <<made, bare, members, conn, connected, who, home, up, sleep, kick>>

KickStart(p) ==
    /\ kick.pc = "idle" /\ p \in Members
    /\ kick' = [pc |-> "purge", who |-> p]
    /\ UNCHANGED <<recVars, sockVars>>

KickPurge ==
    /\ kick.pc = "purge"
    /\ Purge(kick.who)
    /\ kick' = [pc |-> "prune", who |-> None]
    /\ UNCHANGED <<conns, made, bare, connected, pc, who, home, sleep>>

KickPrune ==
    /\ kick.pc = "prune"
    /\ Prune
    /\ kick' = [pc |-> "idle", who |-> None]
    /\ UNCHANGED <<made, bare, members, conn, connected, sockVars>>

-----------------------------------------------------------------------------
ServerStep(w) == \/ AddParticipant(w) \/ Joined(w) \/ Leave(w)
                 \/ GraceCheck(w) \/ GracePurge(w) \/ GracePrune(w)

Next ==
    \/ Tick
    \/ \E w \in Socket, p \in Person : Join(w, p) \/ Reconnect(w, p)
    \/ \E w \in Socket : ServerStep(w) \/ Drop(w) \/ StartTimer(w)
    \/ \E p \in Person : KickStart(p)
    \/ KickPurge \/ KickPrune

Spec == Init /\ [][Next]_vars

\* Goroutines run and time passes; nobody has to connect, leave, kick or
\* start a timer.
FairSpec == /\ Spec
            /\ WF_vars(Tick)
            /\ \A w \in Socket : WF_vars(ServerStep(w))
            /\ WF_vars(KickPurge) /\ WF_vars(KickPrune)

-----------------------------------------------------------------------------
\* Every variable has its type.
TypeOK ==
    /\ conns \in made \cup {None} /\ made \subseteq Registry /\ bare \subseteq made
    /\ members \in [Registry -> SUBSET Person]
    /\ conn \in [Person -> Socket \cup {None}]
    /\ connected \in [Person -> BOOLEAN]
    /\ pc \in [Socket -> SocketPC]
    /\ who \in [Socket -> Person \cup {None}]
    /\ home \in [Socket -> Registry \cup {None}]
    /\ up \in [Socket -> BOOLEAN]
    /\ sleep \in [Socket -> 0..Grace]
    /\ kick \in [pc : {"idle", "purge", "prune"}, who : Person \cup {None}]

\* Every record has somebody to remove it: a connected participant has a
\* handler still to call RemoveParticipant, a disconnected one a grace timer
\* that has not decided to let it be.  The exception is a participant whose
\* joined reply could not be built: nobody removes its record.
Reaper(p) ==
    \E w \in Socket : who[w] = p /\
        IF connected[p] THEN conn[p] = w /\ pc[w] \in {"joined", "reading"}
                        ELSE pc[w] \in {"grace", "purge"}

Abandoned(p) == \E w \in Socket : who[w] = p /\ pc[w] = "failed"

EveryRecordHasReaper == \A p \in Members : Reaper(p) \/ Abandoned(p)

\* A participant none of whose sockets is open is removed in the end, unless
\* the participant reconnects (handler.go:21-22, the grace period) or was
\* abandoned when its joined reply failed (handler.go:314-318).
Away(p) == p \in Members /\ ~Abandoned(p) /\ \A w \in Socket : who[w] = p => ~up[w]
AwayIsPurged == \A p \in Person : Away(p) ~> ~Away(p)

\* A registry nobody is in or about to enter goes (hub.go:96-97): whoever
\* removed the last participant gets to removeConnsIfEmpty.  The exception is
\* a registry that StartTimer made and nobody has joined: it had no last
\* participant, and nobody drops it.
Unwatched == conns # None /\ conns \notin bare /\ Members = {}
UnwatchedIsFreed == Unwatched ~> ~Unwatched

\* hub.go:183-184: a reconnected participant is marked as connected; what
\* ends that is the loss of the connection it then has.
ReconnectedStaysConnected ==
    [][\A p \in Members : connected[p] /\ ~connected'[p] => ~up[conn[p]]]_vars
=============================================================================
