--------------------------- MODULE PokerBroadcast ---------------------------
(***************************************************************************)
(* How a planning-poker session tells its participants what has changed    *)
(* (api/internal/poker/hub.go, handler.go): hub.mu, the registry's sc.mu,  *)
(* one mutex per participant, and writes to sockets that take as long as   *)
(* the peer does.  There is one handler per socket, which later is its     *)
(* grace goroutine; a change of the session, whatever it is, is a new      *)
(* version of its state.  A critical section in which nothing can block is *)
(* one step; the lookup of the registry and the section of sc.mu after it  *)
(* are one too (PokerPresence tells them apart).                           *)
(***************************************************************************)
EXTENDS Naturals, FiniteSets

CONSTANTS Person,     \* participants
          Socket,     \* WebSocket connections, and the handler of each
          None,       \* nobody
          MaxVersion  \* bound of the changes

ASSUME BroadcastAssumption ==
    IsFiniteSet(Socket) /\ None \notin Person \cup Socket /\ MaxVersion \in Nat

VARIABLES
    version,    \* of the state BuildSessionState would return
    unsaid,     \* history: the newest version was not broadcast, or a broadcast
                \* of it could not be built, and none has been built since
    members,    \* keys of sc.participants
    conn,       \* per participant: its connection, if isConnected
    hubMu,      \* who holds hub.mu for writing
    scMu,       \* who holds sc.mu for writing
    mu,         \* per participant: who holds its mutex
    pc,         \* per handler
    who,        \* per handler: the participant it serves
    after,      \* per handler: where it goes on after a broadcast
    built,      \* per handler: the version it has built
    todo,       \* per handler: whom it has still to write to
    peer,       \* per handler: whom it writes to, or kicks
    view,       \* per socket: the version received last
    best        \* per socket: the newest version received

session == <<version, unsaid, members, conn>>
locks == <<hubMu, scMu, mu>>
telling == <<built, todo, peer>>
heard == <<view, best>>
vars == <<session, locks, pc, who, after, telling, heard>>

Init ==
    /\ version = 0 /\ unsaid = FALSE
    /\ members = {} /\ conn = [p \in Person |-> None]
    /\ hubMu = None /\ scMu = None /\ mu = [p \in Person |-> None]
    /\ pc = [h \in Socket |-> "new"]
    /\ who = [h \in Socket |-> None]
    /\ after = [h \in Socket |-> "read"]
    /\ built = [h \in Socket |-> 0]
    /\ todo = [h \in Socket |-> {}]
    /\ peer = [h \in Socket |-> None]
    /\ view = [h \in Socket |-> 0]
    /\ best = [h \in Socket |-> 0]

Goto(h, l) == pc' = [pc EXCEPT ![h] = l]
Change == version' = version + 1 /\ unsaid' = FALSE
\* A broadcast, after which the handler goes on at l.
Tell(h, l) == Goto(h, "build") /\ after' = [after EXCEPT ![h] = l]
\* There is room for one more change, besides those under way.
Changing == {h \in Socket : pc[h] \in {"swap", "leave", "purge", "kick", "kickWrite"}}
Room == version + Cardinality(Changing) < MaxVersion
\* getConns, then sc.mu: neither is held for writing.
CanLookUp == hubMu = None /\ scMu = None

\* Connections and ids that are new are all alike: it does not matter which
\* one comes next.
NewSocket == CHOOSE h \in Socket : pc[h] = "new"
NewPerson == CHOOSE p \in Person : \A h \in Socket : who[h] # p
Comes(h) == pc[h] = "new" /\ h = NewSocket

-----------------------------------------------------------------------------
\* Mutant: AddParticipant does not call BroadcastSession.
JoinSilently(h, p) ==
    /\ Comes(h) /\ (\A g \in Socket : who[g] # p) /\ p = NewPerson
    /\ CanLookUp /\ Room
    /\ Change
    /\ members' = members \cup {p}
    /\ conn' = [conn EXCEPT ![p] = h]
    /\ who' = [who EXCEPT ![h] = p]
    /\ Goto(h, "raw")
    /\ UNCHANGED <<locks, after, telling, heard>>

\* A fresh join under a new id: AddParticipant, up to its broadcast.
Join(h, p) ==
    /\ Comes(h) /\ (\A g \in Socket : who[g] # p) /\ p = NewPerson
    /\ CanLookUp /\ Room
    /\ Change
    /\ members' = members \cup {p}
    /\ conn' = [conn EXCEPT ![p] = h]
    /\ who' = [who EXCEPT ![h] = p]
    /\ Tell(h, "raw")
    /\ UNCHANGED <<locks, telling, heard>>

\* A participant whose joined reply gave it its reconnect id comes back, maybe
\* before its old connection is known to be lost: ReconnectParticipant takes
\* sc.mu ...
ReconnectLock(h, p) ==
    /\ Comes(h) /\ p \in members
    /\ \E g \in Socket : /\ who[g] = p /\ after[g] # "raw"
                         /\ pc[g] \notin {"raw", "rawWrite", "failed"}
    /\ CanLookUp /\ Room
    /\ scMu' = h
    /\ who' = [who EXCEPT ![h] = p]
    /\ Goto(h, "swap")
    /\ UNCHANGED <<session, hubMu, mu, after, telling, heard>>

\* ... then the participant's mutex, and swaps the connection.
Swap(h) ==
    /\ pc[h] = "swap" /\ mu[who[h]] = None
    /\ Change
    /\ conn' = [conn EXCEPT ![who[h]] = h]
    /\ scMu' = None
    /\ Goto(h, "again")
    /\ UNCHANGED <<members, hubMu, mu, who, after, telling, heard>>

\* The reply to a join or a reconnection: HandleWebSocket builds the state ...
BuildReply(h) ==
    /\ pc[h] \in {"raw", "again"} /\ CanLookUp
    /\ built' = [built EXCEPT ![h] = version]
    /\ Goto(h, IF pc[h] = "raw" THEN "rawWrite" ELSE "againWrite")
    /\ UNCHANGED <<session, locks, who, after, todo, peer, heard>>

\* ... and if that fails a join is given up, its connection closed and its
\* record left as it is; a reconnection goes on without a reply.
ReplyFails(h) ==
    /\ pc[h] \in {"raw", "again"}
    /\ Goto(h, IF pc[h] = "raw" THEN "failed" ELSE "build")
    /\ UNCHANGED <<session, locks, who, after, telling, heard>>

Receive(w, n) ==
    /\ view' = [view EXCEPT ![w] = n]
    /\ best' = [best EXCEPT ![w] = IF n > @ THEN n ELSE @]

\* The reply is written to the socket itself, without the participant's mutex; after
\* a reconnection a broadcast follows.
WriteReply(h) ==
    /\ pc[h] \in {"rawWrite", "againWrite"}
    /\ Receive(h, built[h])
    /\ built' = [built EXCEPT ![h] = 0]
    /\ Goto(h, IF pc[h] = "rawWrite" THEN "read" ELSE "build")
    /\ UNCHANGED <<session, locks, who, after, todo, peer>>

-----------------------------------------------------------------------------
\* BroadcastSession: BuildSessionState ...
Build(h) ==
    /\ pc[h] = "build" /\ CanLookUp
    /\ built' = [built EXCEPT ![h] = version]
    /\ unsaid' = FALSE
    /\ Goto(h, "list")
    /\ UNCHANGED <<version, members, conn, locks, who, after, todo, peer, heard>>

\* ... which may fail: nobody is told ...
BuildFails(h) ==
    /\ pc[h] = "build"
    /\ unsaid' = TRUE
    /\ Goto(h, after[h]) /\ after' = [after EXCEPT ![h] = "read"]
    /\ UNCHANGED <<version, members, conn, locks, who, telling, heard>>

\* ... the list of connected participants ...
List(h) ==
    /\ pc[h] = "list" /\ CanLookUp
    /\ todo' = [todo EXCEPT ![h] = {p \in members : conn[p] # None}]
    /\ Goto(h, "send")
    /\ UNCHANGED <<session, locks, who, after, built, peer, heard>>

\* ... and for each the mutex ...
Lock(h, q) ==
    /\ pc[h] = "send" /\ q \in todo[h] /\ mu[q] = None
    /\ todo' = [todo EXCEPT ![h] = @ \ {q}]
    /\ mu' = [mu EXCEPT ![q] = h]
    /\ peer' = [peer EXCEPT ![h] = q]
    /\ Goto(h, "write")
    /\ UNCHANGED <<session, hubMu, scMu, who, after, built, heard>>

\* ... and the write, if it still has a connection.
Write(h) ==
    LET q == peer[h] IN
    /\ pc[h] = "write"
    /\ IF conn[q] # None THEN Receive(conn[q], built[h]) ELSE UNCHANGED heard
    /\ mu' = [mu EXCEPT ![q] = None]
    /\ peer' = [peer EXCEPT ![h] = None]
    /\ Goto(h, "send")
    /\ UNCHANGED <<session, hubMu, scMu, who, after, built, todo>>

Sent(h) ==
    /\ pc[h] = "send" /\ todo[h] = {}
    /\ Goto(h, after[h]) /\ after' = [after EXCEPT ![h] = "read"]
    /\ built' = [built EXCEPT ![h] = 0]
    /\ UNCHANGED <<session, locks, who, todo, peer, heard>>

-----------------------------------------------------------------------------
\* A message that changes the database, and the broadcast it ends with.
Operate(h) ==
    /\ pc[h] = "read" /\ who[h] \in members /\ Room
    /\ Change
    /\ Tell(h, "read")
    /\ UNCHANGED <<members, conn, locks, who, telling, heard>>

\* The same when a later statement reports an error, as handleCreateStory's
\* UPDATE after its INSERT: the handler returns without a broadcast.
OperateSilently(h) ==
    /\ pc[h] = "read" /\ who[h] \in members /\ Room
    /\ version' = version + 1 /\ unsaid' = TRUE
    /\ UNCHANGED <<members, conn, locks, pc, who, after, telling, heard>>

\* The socket is gone: RemoveParticipant takes sc.mu, then the participant's.
LeaveLock(h) ==
    /\ pc[h] = "read" /\ CanLookUp
    /\ IF who[h] \in members
       THEN Room /\ scMu' = h /\ Goto(h, "leave")
       ELSE Goto(h, "end") /\ UNCHANGED scMu
    /\ UNCHANGED <<session, hubMu, mu, who, after, telling, heard>>

\* Whatever connection the participant has by now is forgotten.
Leave(h) ==
    /\ pc[h] = "leave" /\ mu[who[h]] = None
    /\ Change
    /\ conn' = [conn EXCEPT ![who[h]] = None]
    /\ scMu' = None
    /\ Tell(h, "grace")
    /\ UNCHANGED <<members, hubMu, mu, who, telling, heard>>

\* The grace period is over: IsStillDisconnected.
GraceCheck(h) ==
    /\ pc[h] = "grace" /\ CanLookUp
    /\ IF who[h] \in members /\ conn[who[h]] = None
       THEN Room /\ Goto(h, "purge")
       ELSE Goto(h, "end")
    /\ UNCHANGED <<session, locks, who, after, telling, heard>>

-----------------------------------------------------------------------------
\* PurgeParticipant takes sc.mu, if there is something to purge ...
PurgeLock(h, q) ==
    /\ CanLookUp
    /\ IF q \in members
       THEN /\ scMu' = h
            /\ peer' = [peer EXCEPT ![h] = q]
            /\ Goto(h, "kick")
       ELSE Goto(h, "prune") /\ UNCHANGED <<scMu, peer>>
    /\ UNCHANGED <<session, hubMu, mu, who, after, built, todo, heard>>

\* ... for the grace goroutine and for the owner, who may kick anybody.
GraceLock(h) == pc[h] = "purge" /\ PurgeLock(h, who[h])
KickLock(h, q) ==
    pc[h] = "read" /\ who[h] \in members /\ (q \in members => Room) /\ PurgeLock(h, q)

\* Then the participant's mutex, and under both writes "kicked", if there is a
\* connection ...
KickPeer(h) ==
    /\ pc[h] = "kick" /\ mu[peer[h]] = None
    /\ mu' = [mu EXCEPT ![peer[h]] = h]
    /\ Goto(h, "kickWrite")
    /\ UNCHANGED <<session, hubMu, scMu, who, after, telling, heard>>

\* Mutant: sc.mu is not unlocked.
KickWriteHolds(h) ==
    /\ pc[h] = "kickWrite"
    /\ Change
    /\ members' = members \ {peer[h]}
    /\ conn' = [conn EXCEPT ![peer[h]] = None]
    /\ mu' = [mu EXCEPT ![peer[h]] = None]
    /\ peer' = [peer EXCEPT ![h] = None]
    /\ Tell(h, "prune")
    /\ UNCHANGED <<hubMu, scMu, who, built, todo, heard>>

\* ... closes the connection, deletes the record, and broadcasts ...
KickWrite(h) ==
    /\ pc[h] = "kickWrite"
    /\ Change
    /\ members' = members \ {peer[h]}
    /\ conn' = [conn EXCEPT ![peer[h]] = None]
    /\ mu' = [mu EXCEPT ![peer[h]] = None]
    /\ peer' = [peer EXCEPT ![h] = None]
    /\ scMu' = None
    /\ Tell(h, "prune")
    /\ UNCHANGED <<hubMu, who, built, todo, heard>>

\* ... and removeConnsIfEmpty waits for sc.mu with hub.mu in hand.  A handler
\* whose own participant is gone has nothing left to do.
PruneLock(h) ==
    /\ pc[h] = "prune" /\ hubMu = None
    /\ hubMu' = h
    /\ Goto(h, "pruneRead")
    /\ UNCHANGED <<session, scMu, mu, who, after, telling, heard>>

Prune(h) ==
    /\ pc[h] = "pruneRead" /\ scMu = None
    /\ hubMu' = None
    /\ Goto(h, IF who[h] \in members THEN "read" ELSE "end")
    /\ UNCHANGED <<session, scMu, mu, who, after, telling, heard>>

-----------------------------------------------------------------------------
\* What a handler does by itself once it has begun; its peers do read.  That
\* the database fails is not counted: no wait for a mutex ends by that.
Work(h) == \/ Swap(h) \/ BuildReply(h) \/ WriteReply(h)
           \/ Build(h) \/ List(h)
           \/ (\E q \in Person : Lock(h, q)) \/ Write(h) \/ Sent(h)
           \/ Leave(h) \/ GraceLock(h) \/ KickPeer(h) \/ KickWrite(h)
           \/ PruneLock(h) \/ Prune(h)

Begin(h) == \/ Operate(h) \/ OperateSilently(h) \/ LeaveLock(h) \/ GraceCheck(h)
            \/ \E p \in Person : Join(h, p) \/ ReconnectLock(h, p) \/ KickLock(h, p)

Fails(h) == BuildFails(h) \/ ReplyFails(h)

Next == \E h \in Socket : Begin(h) \/ Work(h) \/ Fails(h)

Spec == Init /\ [][Next]_vars

\* Handlers run and peers read what is written to them.  A handler waiting
\* for a mutex gets it if it is free again and again, as with sync.Mutex.
FairSpec == Spec /\ \A h \in Socket : SF_vars(Work(h))

-----------------------------------------------------------------------------
\* Every variable has its type.
TypeOK ==
    /\ version \in 0..MaxVersion /\ unsaid \in BOOLEAN
    /\ members \subseteq Person
    /\ conn \in [Person -> Socket \cup {None}]
    /\ hubMu \in Socket \cup {None} /\ scMu \in Socket \cup {None}
    /\ mu \in [Person -> Socket \cup {None}]
    /\ pc \in [Socket -> {"new", "swap", "again", "againWrite", "build", "list", "send", "write",
                          "raw", "rawWrite", "failed", "read", "leave", "grace", "purge", "kick",
                          "kickWrite", "prune", "pruneRead", "end"}]
    /\ who \in [Socket -> Person \cup {None}]
    /\ \A h \in Socket : pc[h] # "new" => who[h] \in Person
    /\ after \in [Socket -> {"raw", "read", "prune", "grace"}]
    /\ built \in [Socket -> 0..MaxVersion]
    /\ todo \in [Socket -> SUBSET Person]
    /\ peer \in [Socket -> Person \cup {None}]
    /\ view \in [Socket -> 0..MaxVersion] /\ best \in [Socket -> 0..MaxVersion]

Resting(h) == pc[h] \in {"new", "read", "grace", "end", "failed"}
Quiet == \A h \in Socket : Resting(h)

\* A participant's connection whose handler is there to read from it; a failed
\* join leaves one that is closed.
Attended(p) == conn[p] # None /\ pc[conn[p]] # "failed"

\* When all is quiet, whoever is connected has been told the newest state over
\* its present connection (hub.go:223-224), joins, reconnections, losses and
\* kicks included.  The exception is a newest state that was not broadcast
\* because a statement failed, in the handler or in BuildSessionState.
EveryoneHears ==
    Quiet /\ ~unsaid => \A p \in members : Attended(p) => best[conn[p]] = version

\* Nobody waits for a mutex for ever, as long as peers read.
HandlersReturn == \A h \in Socket : ~Resting(h) ~> Resting(h)
=============================================================================
