----------------------------- MODULE PokerGame -----------------------------
(***************************************************************************)
(* The stories and votes of a planning-poker session, which live in the    *)
(* database (api/internal/poker/session.go).  Each connection runs one     *)
(* message at a time, connections run concurrently, and a handler is a     *)
(* series of statements: every statement is a step here.  A transaction is *)
(* one step, at its commit, except that handleNextStory's reads come       *)
(* before it and that its first update locks the story's row.  Reader      *)
(* processes are calls of BuildSessionState, which any event may cause.    *)
(***************************************************************************)
EXTENDS Integers

CONSTANTS Story,      \* story ids
          Owner,      \* connections with the owner role
          Voter,      \* connections that vote, under different names
          Reader,     \* calls of BuildSessionState
          Card,       \* vote values
          None        \* NULL, nil

ASSUME GameAssumption == /\ None \notin Story \cup Owner \cup Voter \cup Card
                         /\ Owner \cap Voter = {}

VARIABLES
    active,     \* poker_sessions.active_story_id
    open,       \* poker_sessions.voting_open
    order,      \* poker_stories.sort_order, or -1 while there is no such row
    revealed,   \* poker_stories.revealed
    votes,      \* poker_votes: story and name to value
    lock,       \* the row lock of a story: its transaction, or None
    pc,         \* per connection: the statement it comes to
    seen,       \* per connection: the story it has read or made
    next,       \* per connection: the story handleNextStory goes on to
    num,        \* per connection: the sort_order it has read
    rpc,        \* per reader
    shown,      \* per reader: one of the stories it has read as revealed
    raced,      \* history, per owner connection: another one has written since
                \* its handler began
    hurried,    \* history: the stories whose handler was raced when it made them
    torn        \* history: the handler that opened voting was raced

db == <<active, open, order, revealed, votes, lock>>
handlers == <<pc, seen, next, num>>
readers == <<rpc, shown>>
history == <<raced, hurried, torn>>
vars == <<db, handlers, readers, history>>

Conn == Owner \cup Voter
Made == {s \in Story : order[s] # -1}
Revealed == {s \in Story : revealed[s]}
\* Mutant: MIN for MAX.
BottomOrder == {n \in {order[s] : s \in Made} \cup {-1} : \A s \in Made : order[s] >= n}
\* COALESCE(MAX(sort_order), -1): the only member of this set
TopOrder == {n \in {order[s] : s \in Made} \cup {-1} : \A s \in Made : order[s] <= n}
NoVotes == [v \in Voter |-> None]

Init ==
    /\ active = None /\ open = FALSE
    /\ order = [s \in Story |-> -1]
    /\ revealed = [s \in Story |-> FALSE]
    /\ votes = [s \in Story |-> NoVotes]
    /\ lock = [s \in Story |-> None]
    /\ pc = [c \in Conn |-> "idle"]
    /\ seen = [c \in Conn |-> None]
    /\ next = [c \in Conn |-> None]
    /\ num = [c \in Conn |-> -1]
    /\ rpc = [r \in Reader |-> "session"]
    /\ shown = [r \in Reader |-> None]
    /\ raced = [o \in Owner |-> FALSE] /\ hurried = {} /\ torn = FALSE

Goto(c, l) == pc' = [pc EXCEPT ![c] = l]
Done(c) == /\ Goto(c, "idle")
           /\ seen' = [seen EXCEPT ![c] = None]
           /\ next' = [next EXCEPT ![c] = None]
           /\ num' = [num EXCEPT ![c] = -1]
Sees(c, s) == seen' = [seen EXCEPT ![c] = s]
\* A write of the session or its stories passes the handlers of other owners.
Overtakes(o, mine) ==
    raced' = [c \in Owner |-> IF c = o THEN mine ELSE raced[c] \/ pc[c] # "idle"]
\* A row another transaction has locked: an UPDATE of it waits.
Locked(s, o) == lock[s] \notin {None, o}

-----------------------------------------------------------------------------
\* handleVote: the active story while voting is open, its revealed flag, and
\* the upsert under the participant's name.
VoteRead(v) ==
    /\ pc[v] = "idle" /\ active # None /\ open
    /\ Sees(v, active) /\ Goto(v, "voteCheck")
    /\ UNCHANGED <<db, next, num, readers, history>>

VoteCheck(v) ==
    /\ pc[v] = "voteCheck"
    /\ IF revealed[seen[v]] THEN Done(v) ELSE Goto(v, "voteWrite") /\ UNCHANGED <<seen, next, num>>
    /\ UNCHANGED <<db, readers, history>>

VoteWrite(v) ==
    /\ pc[v] = "voteWrite"
    /\ \E x \in Card : votes' = [votes EXCEPT ![seen[v]][v] = x]
    /\ Done(v)
    /\ UNCHANGED <<active, open, order, revealed, lock, readers, history>>

-----------------------------------------------------------------------------
\* handleCreateStory: MAX(sort_order), the insert, the session's update.
CreateRead(o) ==
    /\ pc[o] = "idle"
    /\ \E n \in TopOrder : num' = [num EXCEPT ![o] = n]
    /\ Goto(o, "createInsert")
    /\ UNCHANGED <<db, seen, next, readers, history>>

CreateInsert(o) ==
    /\ pc[o] = "createInsert"
    /\ \E s \in Story \ Made :
          /\ order' = [order EXCEPT ![s] = num[o] + 1]
          /\ Sees(o, s)
          /\ hurried' = IF raced[o] THEN hurried \cup {s} ELSE hurried
    /\ Overtakes(o, raced[o])
    /\ Goto(o, "activate")
    /\ UNCHANGED <<active, open, revealed, votes, lock, next, num, readers, torn>>

\* Mutant: voting stays open for the story that is now active.
ActivateOpen(o) ==
    /\ pc[o] = "activate"
    /\ active' = seen[o] /\ torn' = FALSE
    /\ Overtakes(o, FALSE)
    /\ Done(o)
    /\ UNCHANGED <<open, order, revealed, votes, lock, readers, hurried>>

\* The last statement of handleCreateStory and of handleSelectStory.
Activate(o) ==
    /\ pc[o] = "activate"
    /\ active' = seen[o] /\ open' = FALSE /\ torn' = FALSE
    /\ Overtakes(o, FALSE)
    /\ Done(o)
    /\ UNCHANGED <<order, revealed, votes, lock, readers, hurried>>

\* A statement or a commit fails, and the handler returns: its transaction is
\* rolled back, but a story that handleCreateStory has inserted stays.
Fails(o) ==
    /\ pc[o] # "idle"
    /\ lock' = [s \in Story |-> IF lock[s] = o THEN None ELSE lock[s]]
    /\ raced' = [raced EXCEPT ![o] = FALSE]
    /\ Done(o)
    /\ UNCHANGED <<active, open, order, revealed, votes, readers, hurried, torn>>

\* handleSelectStory: the idx-th of the stories there are.
SelectRead(o) ==
    /\ pc[o] = "idle"
    /\ \E s \in Made : Sees(o, s)
    /\ Goto(o, "activate")
    /\ UNCHANGED <<db, next, num, readers, history>>

-----------------------------------------------------------------------------
\* handleStartVoting, handleReveal and handleReset first read the active story.
ReadActive(o) ==
    /\ pc[o] = "idle" /\ active # None
    /\ Sees(o, active)
    /\ \E l \in {"startCheck", "reveal", "reset"} : Goto(o, l)
    /\ UNCHANGED <<db, next, num, readers, history>>

StartCheck(o) ==
    /\ pc[o] = "startCheck"
    /\ IF revealed[seen[o]]
       THEN Done(o) /\ raced' = [raced EXCEPT ![o] = FALSE]
       ELSE Goto(o, "startWrite") /\ UNCHANGED <<seen, next, num, raced>>
    /\ UNCHANGED <<db, readers, hurried, torn>>

StartWrite(o) ==
    /\ pc[o] = "startWrite"
    /\ open' = TRUE /\ torn' = raced[o]
    /\ Overtakes(o, FALSE)
    /\ Done(o)
    /\ UNCHANGED <<active, order, revealed, votes, lock, readers, hurried>>

Reveal(o) ==
    LET s == seen[o] IN
    /\ pc[o] = "reveal" /\ (~revealed[s] => ~Locked(s, o))
    /\ revealed' = [revealed EXCEPT ![s] = TRUE]
    /\ open' = FALSE /\ torn' = FALSE
    /\ Overtakes(o, FALSE)
    /\ Done(o)
    /\ UNCHANGED <<active, order, votes, lock, readers, hurried>>

Reset(o) ==
    LET s == seen[o] IN
    /\ pc[o] = "reset" /\ ~Locked(s, o)
    /\ votes' = [votes EXCEPT ![s] = NoVotes]
    /\ revealed' = [revealed EXCEPT ![s] = FALSE]
    /\ open' = TRUE /\ torn' = raced[o]
    /\ Overtakes(o, FALSE)
    /\ Done(o)
    /\ UNCHANGED <<active, order, lock, readers, hurried>>

-----------------------------------------------------------------------------
\* handleNextStory reads the active story, if any, ...
NextRead(o) ==
    /\ pc[o] = "idle"
    /\ Sees(o, active)
    /\ Goto(o, "nextReveal")
    /\ UNCHANGED <<db, next, num, readers, history>>

\* ... begins a transaction and updates the story unless it is revealed ...
NextReveal(o) ==
    LET s == seen[o] IN
    /\ pc[o] = "nextReveal"
    /\ IF s # None /\ s \notin Revealed
       THEN ~Locked(s, o) /\ lock' = [lock EXCEPT ![s] = o]
       ELSE UNCHANGED lock
    /\ num' = [num EXCEPT ![o] = IF s = None THEN 0 ELSE order[s]]
    /\ Goto(o, "nextFind")
    /\ UNCHANGED <<active, open, order, revealed, votes, seen, next, readers, history>>

\* Mutant: revealed stories are not left out.
AllLater(o) == {s \in Made : order[s] > num[o]}

Later(o) == {s \in Made : order[s] > num[o] /\ ~revealed[s]}

\* ... looks for the next unrevealed story by sort_order ...
NextFind(o) ==
    /\ pc[o] = "nextFind"
    /\ \/ /\ \E s \in Later(o) :
                /\ \A t \in Later(o) : order[s] <= order[t]
                /\ next' = [next EXCEPT ![o] = s]
          /\ Goto(o, "nextCommit")
          /\ UNCHANGED num
       \/ /\ Later(o) = {}
          /\ \E n \in TopOrder : num' = [num EXCEPT ![o] = n]
          /\ Goto(o, "nextInsert")
          /\ UNCHANGED next
    /\ UNCHANGED <<db, seen, readers, history>>

\* ... and commits: the reveal, a placeholder if none was found, the session.
NextCommit(o) ==
    /\ pc[o] \in {"nextCommit", "nextInsert"}
    /\ \/ /\ pc[o] = "nextCommit"
          /\ active' = next[o]
          /\ UNCHANGED <<order, hurried>>
       \/ /\ pc[o] = "nextInsert"
          /\ \E s \in Story \ Made : /\ active' = s
                                     /\ order' = [order EXCEPT ![s] = num[o] + 1]
                                     /\ hurried' = IF raced[o] THEN hurried \cup {s} ELSE hurried
    /\ revealed' = [s \in Story |-> revealed[s] \/ lock[s] = o]
    /\ lock' = [s \in Story |-> IF lock[s] = o THEN None ELSE lock[s]]
    /\ open' = FALSE /\ torn' = FALSE
    /\ Overtakes(o, FALSE)
    /\ Done(o)
    /\ UNCHANGED <<votes, readers>>

-----------------------------------------------------------------------------
\* BuildSessionState reads the session, then the stories, then the votes,
\* outside of a transaction.  The votes of the stories read as revealed are sent.
ReadStories(r) ==
    /\ rpc[r] = "session"
    /\ \E s \in Revealed : shown' = [shown EXCEPT ![r] = s]
    /\ rpc' = [rpc EXCEPT ![r] = "votes"]
    /\ UNCHANGED <<db, handlers, history>>

ReadVotes(r) ==
    /\ rpc[r] = "votes"
    /\ rpc' = [rpc EXCEPT ![r] = "session"]
    /\ shown' = [shown EXCEPT ![r] = None]
    /\ UNCHANGED <<db, handlers, history>>

-----------------------------------------------------------------------------
OwnerStep(o) == \/ CreateRead(o) \/ CreateInsert(o) \/ Activate(o) \/ Fails(o)
                \/ SelectRead(o) \/ ReadActive(o) \/ StartCheck(o) \/ StartWrite(o)
                \/ Reveal(o) \/ Reset(o)
                \/ NextRead(o) \/ NextReveal(o) \/ NextFind(o) \/ NextCommit(o)

Next == \/ \E o \in Owner : OwnerStep(o)
        \/ \E v \in Voter : VoteRead(v) \/ VoteCheck(v) \/ VoteWrite(v)
        \/ \E r \in Reader : ReadStories(r) \/ ReadVotes(r)

Spec == Init /\ [][Next]_vars

-----------------------------------------------------------------------------
DbTypeOK ==
    /\ active \in Made \cup {None} /\ open \in BOOLEAN
    /\ order \in [Story -> Nat \cup {-1}]
    /\ revealed \in [Story -> BOOLEAN]
    /\ votes \in [Story -> [Voter -> Card \cup {None}]]
    /\ lock \in [Story -> Owner \cup {None}]

Labels == {"idle", "voteCheck", "voteWrite", "createInsert", "activate", "startCheck",
           "startWrite", "reveal", "reset", "nextReveal", "nextFind", "nextCommit",
           "nextInsert"}

HandlerTypeOK ==
    /\ pc \in [Conn -> Labels]
    /\ seen \in [Conn -> Story \cup {None}]
    /\ next \in [Conn -> Story \cup {None}]
    /\ num \in [Conn -> Nat \cup {-1}]

ReaderTypeOK == /\ rpc \in [Reader -> {"session", "votes"}]
                /\ shown \in [Reader -> Story \cup {None}]

HistoryTypeOK == /\ raced \in [Owner -> BOOLEAN] /\ torn \in BOOLEAN
                 /\ hurried \subseteq Story

\* Every variable has its type.
TypeOK == DbTypeOK /\ HandlerTypeOK /\ ReaderTypeOK /\ HistoryTypeOK

\* session.go:479: voting is not open on a revealed story, however many
\* connections have the owner role, unless another of them wrote between the
\* first statement and the last of the start_voting or reset that opened it.
OpenMeansHidden == open => torn \/ (active # None /\ ~revealed[active])

\* Stories have different places in the order that next_story follows, unless
\* another owner connection wrote while one of the two was being made.
UniqueOrder ==
    \A s, t \in Made : s # t => order[s] # order[t] \/ {s, t} \cap hurried # {}

\* handleNextStory goes on to a story that comes later, whatever other owner
\* connections do, and that is not revealed, if none of them has written.
NextAdvances ==
    [][\A o \in Owner :
         pc[o] \in {"nextCommit", "nextInsert"} /\ pc'[o] = "idle" /\ active' # active =>
            /\ raced[o] \/ ~revealed'[active']
            /\ seen[o] # None => order'[active'] > order[seen[o]]]_vars

\* protocol.go:69: votes are sent only of a story that is revealed.
OnlyRevealedShown ==
    [][\A r \in Reader :
         rpc[r] = "votes" /\ rpc'[r] # "votes" /\ votes[shown[r]] # NoVotes
             => revealed[shown[r]]]_vars
=============================================================================
