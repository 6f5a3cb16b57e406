-------------------------- MODULE PokerGame_proofs --------------------------
(***************************************************************************)
(* Theorems about PokerGame, for any stories, voters, readers and cards    *)
(* and any number of connections with the owner role.                      *)
(***************************************************************************)
EXTENDS PokerGame, TLAPS

\* What a handler has read is a story there is; it remains, as none is deleted.
SeesMade ==
    /\ \A o \in Owner :
         /\ pc[o] \in {"activate", "startCheck", "startWrite", "reveal", "reset"} =>
                seen[o] \in Made
         /\ seen[o] \in Made \cup {None}
         /\ pc[o] = "nextCommit" => next[o] \in Made
    /\ \A v \in Voter : pc[v] \in {"voteCheck", "voteWrite"} => seen[v] \in Made


\* The invariant holds before the first message.
LEMMA InitType == Init => TypeOK /\ SeesMade
<1> SUFFICES ASSUME Init PROVE TypeOK /\ SeesMade
  OBVIOUS
<1>1. DbTypeOK
  BY DEF Init, DbTypeOK, NoVotes
<1>2. HandlerTypeOK
  BY DEF Init, HandlerTypeOK, Labels
<1>3. ReaderTypeOK /\ HistoryTypeOK
  BY DEF Init, ReaderTypeOK, HistoryTypeOK
<1>4. SeesMade
  BY DEF Init, SeesMade, Conn
<1> QED
  BY <1>1, <1>2, <1>3, <1>4 DEF TypeOK

\* Owners and voters are connections of their own.
LEMMA Kinds == /\ Owner \subseteq Conn /\ Voter \subseteq Conn
               /\ Owner \cap Voter = {} /\ None \notin Story
  BY GameAssumption DEF Conn

\* MAX(sort_order) is a number, or -1.
LEMMA TopOrderType == DbTypeOK => TopOrder \subseteq Nat \cup {-1}
  BY DEF DbTypeOK, TopOrder, Made

\* The handlers' variables keep their types.
LEMMA HandlerType == TypeOK /\ SeesMade /\ [Next]_vars => HandlerTypeOK'
<1> SUFFICES ASSUME DbTypeOK, HandlerTypeOK, SeesMade, [Next]_vars PROVE HandlerTypeOK'
  BY DEF TypeOK
<1> USE Kinds DEF HandlerTypeOK, Labels, Goto, Done, Sees, handlers
<1>1. ASSUME NEW o \in Owner, CreateRead(o) PROVE HandlerTypeOK'
  BY <1>1, TopOrderType DEF CreateRead
<1>2. ASSUME NEW o \in Owner, CreateInsert(o) PROVE HandlerTypeOK'
  BY <1>2 DEF CreateInsert
<1>3. ASSUME NEW o \in Owner, Activate(o) PROVE HandlerTypeOK'
  BY <1>3 DEF Activate
<1>4. ASSUME NEW o \in Owner, Fails(o) PROVE HandlerTypeOK'
  BY <1>4 DEF Fails
<1>5. ASSUME NEW o \in Owner, SelectRead(o) PROVE HandlerTypeOK'
  BY <1>5 DEF SelectRead, Made
<1>6. ASSUME NEW o \in Owner, ReadActive(o) PROVE HandlerTypeOK'
  BY <1>6 DEF ReadActive, DbTypeOK, Made
<1>7. ASSUME NEW o \in Owner, StartCheck(o) PROVE HandlerTypeOK'
  BY <1>7 DEF StartCheck
<1>8. ASSUME NEW o \in Owner, StartWrite(o) PROVE HandlerTypeOK'
  BY <1>8 DEF StartWrite
<1>9. ASSUME NEW o \in Owner, Reveal(o) PROVE HandlerTypeOK'
  BY <1>9 DEF Reveal
<1>10. ASSUME NEW o \in Owner, Reset(o) PROVE HandlerTypeOK'
  BY <1>10 DEF Reset
<1>11. ASSUME NEW o \in Owner, NextRead(o) PROVE HandlerTypeOK'
  BY <1>11 DEF NextRead, DbTypeOK, Made
<1>12. ASSUME NEW o \in Owner, NextReveal(o) PROVE HandlerTypeOK'
  BY <1>12 DEF NextReveal, DbTypeOK, SeesMade, Made
<1>13. ASSUME NEW o \in Owner, NextFind(o) PROVE HandlerTypeOK'
  BY <1>13, TopOrderType DEF NextFind, Later, Made
<1>14. ASSUME NEW o \in Owner, NextCommit(o) PROVE HandlerTypeOK'
  BY <1>14 DEF NextCommit
<1>15. ASSUME NEW v \in Voter, VoteRead(v) PROVE HandlerTypeOK'
  BY <1>15 DEF VoteRead, DbTypeOK, Made
<1>16. ASSUME NEW v \in Voter, VoteCheck(v) PROVE HandlerTypeOK'
  BY <1>16 DEF VoteCheck
<1>17. ASSUME NEW v \in Voter, VoteWrite(v) PROVE HandlerTypeOK'
  BY <1>17 DEF VoteWrite
<1>18. ASSUME NEW r \in Reader, ReadStories(r) \/ ReadVotes(r) PROVE HandlerTypeOK'
  BY <1>18 DEF ReadStories, ReadVotes
<1>19. CASE UNCHANGED vars
  BY <1>19 DEF vars
<1> QED
  BY <1>1, <1>2, <1>3, <1>4, <1>5, <1>6, <1>7, <1>8, <1>9, <1>10, <1>11, <1>12, <1>13, <1>14, <1>15, <1>16, <1>17, <1>18, <1>19 DEF Next, OwnerStep

\* The readers' variables keep their types.
LEMMA ReaderType == TypeOK /\ [Next]_vars => ReaderTypeOK'
<1> SUFFICES ASSUME ReaderTypeOK, [Next]_vars PROVE ReaderTypeOK'
  BY DEF TypeOK
<1>1. ASSUME NEW r \in Reader, ReadStories(r) \/ ReadVotes(r) PROVE ReaderTypeOK'
  BY <1>1 DEF ReadStories, ReadVotes, ReaderTypeOK, Revealed
<1>2. CASE UNCHANGED readers
  BY <1>2 DEF readers, ReaderTypeOK
<1>3. (\E o \in Owner : OwnerStep(o)) \/ (\E v \in Voter : VoteRead(v) \/ VoteCheck(v) \/ VoteWrite(v))
        \/ UNCHANGED vars => UNCHANGED readers
  BY DEF vars, readers, OwnerStep, VoteRead, VoteCheck, VoteWrite, CreateRead, CreateInsert, Activate, Fails, SelectRead, ReadActive, StartCheck, StartWrite, Reveal, Reset, NextRead, NextReveal, NextFind, NextCommit
<1> QED
  BY <1>1, <1>2, <1>3 DEF Next

\* The history variables keep their types.
LEMMA HistoryType == TypeOK /\ SeesMade /\ [Next]_vars => HistoryTypeOK'
<1> SUFFICES ASSUME HistoryTypeOK, HandlerTypeOK, [Next]_vars PROVE HistoryTypeOK'
  BY DEF TypeOK
<1> USE Kinds DEF HistoryTypeOK, HandlerTypeOK, Overtakes
<1>1. ASSUME NEW o \in Owner, CreateInsert(o) \/ NextCommit(o) PROVE HistoryTypeOK'
  BY <1>1 DEF CreateInsert, NextCommit
<1>2. ASSUME NEW o \in Owner, Activate(o) \/ StartWrite(o) \/ Reveal(o) \/ Reset(o)
      PROVE  HistoryTypeOK'
  BY <1>2 DEF Activate, StartWrite, Reveal, Reset
<1>3. ASSUME NEW o \in Owner, Fails(o) \/ StartCheck(o) PROVE HistoryTypeOK'
  BY <1>3 DEF Fails, StartCheck
<1>4. CASE UNCHANGED history
  BY <1>4 DEF history
<1>5. /\ \A o \in Owner : \/ CreateRead(o) \/ SelectRead(o) \/ ReadActive(o) \/ NextRead(o)
                          \/ NextReveal(o) \/ NextFind(o)
         => UNCHANGED history
      /\ \A v \in Voter : VoteRead(v) \/ VoteCheck(v) \/ VoteWrite(v) => UNCHANGED history
      /\ \A r \in Reader : ReadStories(r) \/ ReadVotes(r) => UNCHANGED history
      /\ UNCHANGED vars => UNCHANGED history
  BY DEF CreateRead, SelectRead, ReadActive, NextRead, NextReveal, NextFind, VoteRead, VoteCheck,
         VoteWrite, ReadStories, ReadVotes, vars
<1> QED
  BY <1>1, <1>2, <1>3, <1>4, <1>5 DEF Next, OwnerStep

\* Steps that only read leave the tables as they are.
LEMMA DbFrame ==
    /\ \A o \in Owner : CreateRead(o) \/ SelectRead(o) \/ ReadActive(o) \/ StartCheck(o)
                           \/ NextRead(o) \/ NextFind(o) => UNCHANGED db
    /\ \A v \in Voter : VoteRead(v) \/ VoteCheck(v) => UNCHANGED db
    /\ \A r \in Reader : ReadStories(r) \/ ReadVotes(r) => UNCHANGED db
    /\ UNCHANGED vars => UNCHANGED db
  BY DEF CreateRead, SelectRead, ReadActive, StartCheck, NextRead, NextFind,
         VoteRead, VoteCheck, ReadStories, ReadVotes, vars

\* No story is ever deleted.
LEMMA StoriesStay == DbTypeOK /\ HandlerTypeOK /\ [Next]_vars => Made \subseteq Made'
<1> SUFFICES ASSUME DbTypeOK, HandlerTypeOK, [Next]_vars PROVE Made \subseteq Made'
  OBVIOUS
<1> USE Kinds DEF Made, DbTypeOK, HandlerTypeOK
<1>1. ASSUME NEW o \in Owner, CreateInsert(o) PROVE Made \subseteq Made'
  BY <1>1 DEF CreateInsert
<1>2. ASSUME NEW o \in Owner, NextCommit(o) PROVE Made \subseteq Made'
  BY <1>2 DEF NextCommit
<1>3. CASE UNCHANGED order
  BY <1>3
<1>4. /\ \A o \in Owner : Activate(o) \/ StartWrite(o) \/ Reveal(o) \/ Reset(o)
                             \/ NextReveal(o) \/ Fails(o) => UNCHANGED order
      /\ \A v \in Voter : VoteWrite(v) => UNCHANGED order
  BY DEF Activate, Fails, StartWrite, Reveal, Reset, NextReveal, VoteWrite
<1> QED
  BY <1>1, <1>2, <1>3, <1>4, DbFrame DEF Next, OwnerStep, db

\* The tables keep their types.
LEMMA DbType == TypeOK /\ SeesMade /\ [Next]_vars => DbTypeOK'
<1> SUFFICES ASSUME DbTypeOK, HandlerTypeOK, SeesMade, [Next]_vars PROVE DbTypeOK'
  BY DEF TypeOK
<1> USE Kinds
<1>1. ASSUME NEW v \in Voter, VoteWrite(v) PROVE DbTypeOK'
  BY <1>1 DEF VoteWrite, DbTypeOK, SeesMade, Made
<1>2. ASSUME NEW o \in Owner, CreateInsert(o) PROVE DbTypeOK'
  <2>1. num[o] + 1 \in Nat
    BY DEF HandlerTypeOK
  <2>2. order' \in [Story -> Nat \cup {-1}]
    BY <1>2, <2>1 DEF CreateInsert, DbTypeOK
  <2> QED
    BY <1>2, <2>2, StoriesStay DEF CreateInsert, DbTypeOK
<1>3. ASSUME NEW o \in Owner, Activate(o) PROVE DbTypeOK'
  BY <1>3 DEF Activate, DbTypeOK, SeesMade, Made
<1>4. ASSUME NEW o \in Owner, StartWrite(o) PROVE DbTypeOK'
  BY <1>4 DEF StartWrite, DbTypeOK, Made
<1>5. ASSUME NEW o \in Owner, Reveal(o) PROVE DbTypeOK'
  BY <1>5 DEF Reveal, DbTypeOK, Made
<1>6. ASSUME NEW o \in Owner, Reset(o) PROVE DbTypeOK'
  BY <1>6 DEF Reset, DbTypeOK, Made, NoVotes
<1>7. ASSUME NEW o \in Owner, NextReveal(o) PROVE DbTypeOK'
  BY <1>7 DEF NextReveal, DbTypeOK, Made, Revealed
<1>8. ASSUME NEW o \in Owner, NextCommit(o) PROVE DbTypeOK'
  <2>1. order' \in [Story -> Nat \cup {-1}] /\ active' \in Made'
    <3>1. CASE pc[o] = "nextCommit"
      BY <1>8, <3>1 DEF NextCommit, DbTypeOK, SeesMade, Made
    <3>2. CASE pc[o] = "nextInsert"
      <4>1. num[o] + 1 \in Nat
        BY DEF HandlerTypeOK
      <4>2. PICK s \in Story \ Made : active' = s /\ order' = [order EXCEPT ![s] = num[o] + 1]
        BY <1>8, <3>2 DEF NextCommit
      <4> QED
        BY <4>1, <4>2 DEF DbTypeOK, Made
    <3> QED
      BY <1>8, <3>1, <3>2 DEF NextCommit
  <2>2. revealed' \in [Story -> BOOLEAN]
    BY <1>8, Zenon DEF NextCommit
  <2>3. lock' \in [Story -> Owner \cup {None}]
    BY <1>8 DEF NextCommit, DbTypeOK
  <2> QED
    BY <1>8, <2>1, <2>2, <2>3 DEF NextCommit, DbTypeOK
<1>9. ASSUME NEW o \in Owner, Fails(o) PROVE DbTypeOK'
  BY <1>9 DEF Fails, DbTypeOK, Made
<1>10. CASE UNCHANGED db
  BY <1>10 DEF db, DbTypeOK, Made
<1> QED
  BY <1>1, <1>2, <1>3, <1>4, <1>5, <1>6, <1>7, <1>8, <1>9, <1>10, DbFrame DEF Next, OwnerStep

\* What a handler has read stays true of the stories there are.
LEMMA SeesStep == TypeOK /\ SeesMade /\ [Next]_vars => SeesMade'
<1> SUFFICES ASSUME DbTypeOK, HandlerTypeOK, SeesMade, [Next]_vars PROVE SeesMade'
  BY DEF TypeOK
<1>m. Made \subseteq Made'
  BY StoriesStay
<1> USE Kinds, <1>m DEF SeesMade, HandlerTypeOK, Goto, Done, Sees, handlers
<1>1. ASSUME NEW v \in Voter, VoteRead(v) PROVE SeesMade'
  BY <1>1 DEF VoteRead, DbTypeOK
<1>2. ASSUME NEW v \in Voter, VoteCheck(v) PROVE SeesMade'
  BY <1>2 DEF VoteCheck
<1>3. ASSUME NEW v \in Voter, VoteWrite(v) PROVE SeesMade'
  BY <1>3 DEF VoteWrite
<1>4. ASSUME NEW o \in Owner, CreateRead(o) PROVE SeesMade'
  BY <1>4 DEF CreateRead
<1>5. ASSUME NEW o \in Owner, CreateInsert(o) PROVE SeesMade'
  <2>1. PICK s \in Story \ Made : /\ order' = [order EXCEPT ![s] = num[o] + 1]
                                  /\ seen' = [seen EXCEPT ![o] = s]
    BY <1>5 DEF CreateInsert
  <2>2. s \in Made'
    BY <2>1 DEF Made, DbTypeOK
  <2> QED
    BY <1>5, <2>1, <2>2 DEF CreateInsert
<1>6. ASSUME NEW o \in Owner, Activate(o) PROVE SeesMade'
  BY <1>6 DEF Activate
<1>7. ASSUME NEW o \in Owner, Fails(o) PROVE SeesMade'
  BY <1>7 DEF Fails
<1>8. ASSUME NEW o \in Owner, SelectRead(o) PROVE SeesMade'
  BY <1>8 DEF SelectRead
<1>9. ASSUME NEW o \in Owner, ReadActive(o) PROVE SeesMade'
  BY <1>9 DEF ReadActive, DbTypeOK
<1>10. ASSUME NEW o \in Owner, StartCheck(o) PROVE SeesMade'
  BY <1>10 DEF StartCheck
<1>11. ASSUME NEW o \in Owner, StartWrite(o) PROVE SeesMade'
  BY <1>11 DEF StartWrite
<1>12. ASSUME NEW o \in Owner, Reveal(o) PROVE SeesMade'
  BY <1>12 DEF Reveal
<1>13. ASSUME NEW o \in Owner, Reset(o) PROVE SeesMade'
  BY <1>13 DEF Reset
<1>14. ASSUME NEW o \in Owner, NextRead(o) PROVE SeesMade'
  BY <1>14 DEF NextRead, DbTypeOK
<1>15. ASSUME NEW o \in Owner, NextReveal(o) PROVE SeesMade'
  BY <1>15 DEF NextReveal
<1>16. ASSUME NEW o \in Owner, NextFind(o) PROVE SeesMade'
  BY <1>16 DEF NextFind, Later
<1>17. ASSUME NEW o \in Owner, NextCommit(o) PROVE SeesMade'
  BY <1>17 DEF NextCommit
<1>18. CASE UNCHANGED handlers
  BY <1>18
<1>19. (\E r \in Reader : ReadStories(r) \/ ReadVotes(r)) \/ UNCHANGED vars => UNCHANGED handlers
  BY DEF ReadStories, ReadVotes, vars
<1> QED
  BY <1>1, <1>2, <1>3, <1>4, <1>5, <1>6, <1>7, <1>8, <1>9, <1>10, <1>11, <1>12, <1>13, <1>14, <1>15, <1>16, <1>17, <1>18, <1>19 DEF Next, OwnerStep

\* Every variable keeps its type, with any number of owner connections.
THEOREM TypeCorrect == Spec => []TypeOK
<1>1. TypeOK /\ SeesMade /\ [Next]_vars => (TypeOK /\ SeesMade)'
  BY HandlerType, ReaderType, HistoryType, DbType, SeesStep DEF TypeOK
<1> QED
  BY InitType, <1>1, PTL DEF Spec

-----------------------------------------------------------------------------
\* What an owner's handler has read of the places of stories stays true, as no
\* story is moved.
Placed(o) ==
    seen[o] # None =>
        /\ pc[o] = "nextFind" => num[o] = order[seen[o]]
        /\ pc[o] = "nextCommit" => order[next[o]] > order[seen[o]]
        /\ pc[o] = "nextInsert" => order[seen[o]] <= num[o]

\* The rest stays true until another owner connection writes.
Current(o) ==
    /\ pc[o] \in {"startCheck", "startWrite", "reveal", "reset"} => seen[o] = active
    /\ pc[o] = "startWrite" => ~revealed[seen[o]]
    /\ pc[o] \in {"createInsert", "nextInsert"} => \A s \in Made : order[s] <= num[o]
    /\ pc[o] = "nextCommit" => ~revealed[next[o]]

OwnerKnows == \A o \in Owner : Placed(o) /\ (raced[o] \/ Current(o))

\* The only row a transaction locks is the story it came from.
LocksSeen ==
    \A s \in Story, o \in Owner : lock[s] = o =>
        s = seen[o] /\ pc[o] \in {"nextFind", "nextCommit", "nextInsert"}

\* A story that is not there is not revealed.
UnmadeIsHidden == \A s \in Story \ Made : ~revealed[s]

Facts == OwnerKnows /\ LocksSeen /\ UnmadeIsHidden /\ OpenMeansHidden /\ UniqueOrder

IInv == TypeOK /\ SeesMade /\ Facts

\* The invariant holds before the first message.
LEMMA InitIInv == Init => IInv
<1> SUFFICES ASSUME Init PROVE Facts
  BY InitType DEF IInv
<1>1. OwnerKnows
  BY Kinds DEF Init, OwnerKnows, Placed, Current
<1>2. LocksSeen
  BY GameAssumption DEF Init, LocksSeen
<1>3. UnmadeIsHidden /\ OpenMeansHidden /\ UniqueOrder
  BY DEF Init, UnmadeIsHidden, OpenMeansHidden, UniqueOrder, Made
<1> QED
  BY <1>1, <1>2, <1>3 DEF Facts

\* Voters and readers touch nothing the facts speak of.
LEMMA OthersFrame ==
    ASSUME HandlerTypeOK,
           \/ \E v \in Voter : VoteRead(v) \/ VoteCheck(v) \/ VoteWrite(v)
           \/ \E r \in Reader : ReadStories(r) \/ ReadVotes(r)
           \/ UNCHANGED vars
    PROVE  /\ UNCHANGED <<active, open, order, revealed, lock, history>>
           /\ \A o \in Owner : /\ pc'[o] = pc[o] /\ seen'[o] = seen[o]
                               /\ next'[o] = next[o] /\ num'[o] = num[o]
<1> USE Kinds DEF HandlerTypeOK, db, handlers, readers, Goto, Done, Sees
<1>1. ASSUME NEW v \in Voter, VoteRead(v) \/ VoteWrite(v)
      PROVE  /\ UNCHANGED <<active, open, order, revealed, lock, history>>
             /\ \A o \in Owner : /\ pc'[o] = pc[o] /\ seen'[o] = seen[o]
                                 /\ next'[o] = next[o] /\ num'[o] = num[o]
  BY <1>1 DEF VoteRead, VoteWrite
<1>2. ASSUME NEW v \in Voter, VoteCheck(v)
      PROVE  /\ UNCHANGED <<active, open, order, revealed, lock, history>>
             /\ \A o \in Owner : /\ pc'[o] = pc[o] /\ seen'[o] = seen[o]
                                 /\ next'[o] = next[o] /\ num'[o] = num[o]
  BY <1>2 DEF VoteCheck
<1>3. (\E r \in Reader : ReadStories(r) \/ ReadVotes(r)) \/ UNCHANGED vars
         => UNCHANGED <<db, handlers, history>>
  BY DEF ReadStories, ReadVotes, vars
<1> QED
  BY <1>1, <1>2, <1>3

\* A step of one owner's handler leaves the others where they are.
LEMMA OwnStep ==
    ASSUME HandlerTypeOK, NEW p \in Owner, OwnerStep(p), NEW o \in Owner, o # p
    PROVE  pc'[o] = pc[o] /\ seen'[o] = seen[o] /\ next'[o] = next[o] /\ num'[o] = num[o]
<1> USE Kinds DEF HandlerTypeOK, handlers, Goto, Done, Sees
<1>1. CASE CreateRead(p) \/ CreateInsert(p) \/ Activate(p) \/ Fails(p) \/ SelectRead(p)
  BY <1>1 DEF CreateRead, CreateInsert, Activate, Fails, SelectRead
<1>2. CASE ReadActive(p) \/ StartCheck(p) \/ StartWrite(p) \/ Reveal(p) \/ Reset(p)
  BY <1>2 DEF ReadActive, StartCheck, StartWrite, Reveal, Reset
<1>3. CASE NextRead(p) \/ NextReveal(p) \/ NextFind(p) \/ NextCommit(p)
  BY <1>3 DEF NextRead, NextReveal, NextFind, NextCommit
<1> QED
  BY <1>1, <1>2, <1>3 DEF OwnerStep

\* A story is put behind all others by a handler that no other has raced.
LEMMA PlaceStep ==
    ASSUME TypeOK, SeesMade, OwnerKnows, UniqueOrder, NEW o \in Owner,
           NEW s \in Story \ Made, order' = [order EXCEPT ![s] = num[o] + 1],
           pc[o] \in {"createInsert", "nextInsert"},
           hurried' = IF raced[o] THEN hurried \cup {s} ELSE hurried
    PROVE  UniqueOrder'
<1> USE Kinds DEF TypeOK, DbTypeOK, HandlerTypeOK, HistoryTypeOK, Made
<1>1. /\ order'[s] = num[o] + 1 /\ \A t \in Story \ {s} : order'[t] = order[t]
      /\ num[o] \in Int
  OBVIOUS
<1>2. raced[o] \/ \A t \in Made : order[t] < order'[s]
  BY <1>1 DEF OwnerKnows, Current
<1> SUFFICES ASSUME NEW t \in Made', NEW u \in Made', t # u, order'[t] = order'[u]
             PROVE  {t, u} \cap hurried' # {}
  BY DEF UniqueOrder
<1>3. CASE t # s /\ u # s
  BY <1>1, <1>3 DEF UniqueOrder
<1>4. CASE t = s \/ u = s
  <2>1. CASE raced[o]
    BY <1>4, <2>1
  <2>2. CASE ~raced[o]
    <3>1. order[t] < order'[s] \/ order[u] < order'[s]
      BY <1>1, <1>2, <1>4, <2>2
    <3>2. order'[t] = order'[s] /\ order'[u] = order'[s]
      BY <1>4
    <3>3. order[t] \in Int /\ order[u] \in Int /\ t \in Story /\ u \in Story
      OBVIOUS
    <3> QED
      BY <1>1, <1>2, <1>4, <2>2, <3>1, <3>2, <3>3
  <2> QED
    BY <2>1, <2>2
<1> QED
  BY <1>3, <1>4

\* The facts about the tables are kept by every step.
LEMMA TablesStep ==
    IInv /\ [Next]_vars => (UnmadeIsHidden /\ OpenMeansHidden /\ UniqueOrder)'
<1> SUFFICES ASSUME TypeOK, DbTypeOK, HandlerTypeOK, HistoryTypeOK, SeesMade,
                    OwnerKnows, LocksSeen, UnmadeIsHidden, OpenMeansHidden, UniqueOrder, [Next]_vars
             PROVE  (UnmadeIsHidden /\ OpenMeansHidden /\ UniqueOrder)'
  BY DEF IInv, TypeOK, Facts
<1> USE Kinds, GameAssumption DEF DbTypeOK, HandlerTypeOK, SeesMade, Made, UnmadeIsHidden, OpenMeansHidden
<1>1. ASSUME \/ \E v \in Voter : VoteRead(v) \/ VoteCheck(v) \/ VoteWrite(v)
             \/ \E r \in Reader : ReadStories(r) \/ ReadVotes(r)
             \/ UNCHANGED vars
      PROVE  (UnmadeIsHidden /\ OpenMeansHidden /\ UniqueOrder)'
  BY <1>1, OthersFrame DEF UniqueOrder, history
<1>2. ASSUME NEW o \in Owner, CreateInsert(o)
      PROVE  (UnmadeIsHidden /\ OpenMeansHidden /\ UniqueOrder)'
  <2>1. UniqueOrder'
    BY <1>2, PlaceStep DEF CreateInsert
  <2> QED
    BY <1>2, <2>1 DEF CreateInsert
<1>3. ASSUME NEW o \in Owner, Activate(o)
      PROVE  (UnmadeIsHidden /\ OpenMeansHidden /\ UniqueOrder)'
  BY <1>3 DEF Activate, UniqueOrder
<1>4. ASSUME NEW o \in Owner, StartWrite(o)
      PROVE  (UnmadeIsHidden /\ OpenMeansHidden /\ UniqueOrder)'
  BY <1>4 DEF StartWrite, OwnerKnows, Current, UniqueOrder
<1>5. ASSUME NEW o \in Owner, Reveal(o)
      PROVE  (UnmadeIsHidden /\ OpenMeansHidden /\ UniqueOrder)'
  BY <1>5 DEF Reveal, UniqueOrder
<1>6. ASSUME NEW o \in Owner, Reset(o)
      PROVE  (UnmadeIsHidden /\ OpenMeansHidden /\ UniqueOrder)'
  BY <1>6 DEF Reset, OwnerKnows, Current, UniqueOrder
<1>7. ASSUME NEW o \in Owner, NextReveal(o) \/ Fails(o) \/ StartCheck(o)
      PROVE  (UnmadeIsHidden /\ OpenMeansHidden /\ UniqueOrder)'
  BY <1>7 DEF NextReveal, Fails, StartCheck, UniqueOrder, history, db
<1>8. ASSUME NEW o \in Owner, NextCommit(o)
      PROVE  (UnmadeIsHidden /\ OpenMeansHidden /\ UniqueOrder)'
  <2>1. \A s \in Story : revealed'[s] => s \in Made'
    BY <1>8 DEF NextCommit, LocksSeen
  <2>2. UniqueOrder'
    <3>1. CASE pc[o] = "nextCommit"
      BY <1>8, <3>1 DEF NextCommit, UniqueOrder
    <3>2. CASE pc[o] = "nextInsert"
      BY <1>8, <3>2, PlaceStep DEF NextCommit
    <3> QED
      BY <1>8, <3>1, <3>2 DEF NextCommit
  <2> QED
    BY <1>8, <2>1, <2>2 DEF NextCommit
<1>9. ASSUME NEW o \in Owner, \/ CreateRead(o) \/ SelectRead(o) \/ ReadActive(o)
                              \/ NextRead(o) \/ NextFind(o)
      PROVE  (UnmadeIsHidden /\ OpenMeansHidden /\ UniqueOrder)'
  <2>1. UNCHANGED <<db, history>>
    BY <1>9 DEF CreateRead, SelectRead, ReadActive, NextRead, NextFind
  <2> QED
    BY <2>1 DEF db, history, UniqueOrder
<1> QED
  BY <1>1, <1>2, <1>3, <1>4, <1>5, <1>6, <1>7, <1>8, <1>9 DEF Next, OwnerStep

\* A transaction goes on holding the lock it took, and no other.
LEMMA LocksStep == IInv /\ [Next]_vars => LocksSeen'
<1> SUFFICES ASSUME DbTypeOK, HandlerTypeOK, SeesMade, LocksSeen, [Next]_vars,
                    NEW s \in Story, NEW q \in Owner, lock'[s] = q
             PROVE  s = seen'[q] /\ pc'[q] \in {"nextFind", "nextCommit", "nextInsert"}
  BY DEF IInv, TypeOK, Facts, LocksSeen
<1> DEFINE Goal == s = seen'[q] /\ pc'[q] \in {"nextFind", "nextCommit", "nextInsert"}
<1>q. q # None
  BY GameAssumption
<1>h. lock[s] = q => s = seen[q] /\ pc[q] \in {"nextFind", "nextCommit", "nextInsert"}
  BY DEF LocksSeen
<1> USE Kinds, <1>q, <1>h DEF DbTypeOK, HandlerTypeOK, Goto, Done, Sees
<1>1. ASSUME \/ \E v \in Voter : VoteRead(v) \/ VoteCheck(v) \/ VoteWrite(v)
             \/ \E r \in Reader : ReadStories(r) \/ ReadVotes(r)
             \/ UNCHANGED vars
      PROVE  Goal
  BY <1>1, OthersFrame
<1>2. ASSUME NEW o \in Owner, OwnerStep(o), o # q PROVE Goal
  <2>1. pc'[q] = pc[q] /\ seen'[q] = seen[q]
    BY <1>2, OwnStep
  <2>2. lock[s] = q
    <3>1. CASE CreateRead(o) \/ CreateInsert(o) \/ Activate(o) \/ SelectRead(o) \/ NextRead(o)
                 \/ NextFind(o)
      BY <3>1 DEF CreateRead, CreateInsert, Activate, SelectRead, NextRead, NextFind, db
    <3>2. CASE ReadActive(o) \/ StartCheck(o) \/ StartWrite(o) \/ Reveal(o) \/ Reset(o)
      BY <3>2 DEF ReadActive, StartCheck, StartWrite, Reveal, Reset, db
    <3>3. CASE NextReveal(o)
      BY <1>2, <3>3 DEF NextReveal
    <3>4. CASE NextCommit(o) \/ Fails(o)
      <4>1. lock' = [r \in Story |-> IF lock[r] = o THEN None ELSE lock[r]]
        BY <3>4, Zenon DEF NextCommit, Fails
      <4>2. lock'[s] = IF lock[s] = o THEN None ELSE lock[s]
        BY <4>1
      <4> QED
        BY <4>2
    <3> QED
      BY <1>2, <3>1, <3>2, <3>3, <3>4 DEF OwnerStep
  <2> QED
    BY <2>1, <2>2
<1>3. ASSUME NextReveal(q) PROVE Goal
  BY <1>3 DEF NextReveal
<1>4. ASSUME NextFind(q) PROVE Goal
  BY <1>4 DEF NextFind, db
<1>5. ASSUME NextCommit(q) \/ Fails(q) PROVE Goal
  BY <1>5 DEF NextCommit, Fails
<1>6. ASSUME CreateRead(q) \/ CreateInsert(q) \/ Activate(q) \/ SelectRead(q) \/ NextRead(q) PROVE Goal
  BY <1>6 DEF CreateRead, CreateInsert, Activate, SelectRead, NextRead, db
<1>7. ASSUME ReadActive(q) \/ StartCheck(q) \/ StartWrite(q) \/ Reveal(q) \/ Reset(q) PROVE Goal
  BY <1>7 DEF ReadActive, StartCheck, StartWrite, Reveal, Reset, db
<1> QED
  BY <1>1, <1>2, <1>3, <1>4, <1>5, <1>6, <1>7 DEF Next, OwnerStep

\* The places of made stories are never changed.
LEMMA PlacesStay ==
    ASSUME TypeOK, NEW p \in Owner, OwnerStep(p) PROVE \A s \in Made : order'[s] = order[s]
<1> USE DEF TypeOK, DbTypeOK, HandlerTypeOK, Made, db
<1>1. CASE CreateInsert(p) \/ NextCommit(p)
  BY <1>1 DEF CreateInsert, NextCommit
<1>2. CASE CreateRead(p) \/ Activate(p) \/ Fails(p) \/ SelectRead(p) \/ ReadActive(p)
  BY <1>2 DEF CreateRead, Activate, Fails, SelectRead, ReadActive
<1>3. CASE StartCheck(p) \/ StartWrite(p) \/ Reveal(p) \/ Reset(p)
  BY <1>3 DEF StartCheck, StartWrite, Reveal, Reset
<1>4. CASE NextRead(p) \/ NextReveal(p) \/ NextFind(p)
  BY <1>4 DEF NextRead, NextReveal, NextFind
<1> QED
  BY <1>1, <1>2, <1>3, <1>4 DEF OwnerStep

\* A handler that another owner's step does not race still knows what it did.
LEMMA OtherKnows ==
    ASSUME TypeOK, SeesMade, NEW p \in Owner, OwnerStep(p), NEW o \in Owner, o # p,
           Placed(o), raced[o] \/ Current(o)
    PROVE  Placed(o)' /\ (raced'[o] \/ Current(o)')
<1> USE Kinds DEF TypeOK, HandlerTypeOK, HistoryTypeOK
<1>1. pc'[o] = pc[o] /\ seen'[o] = seen[o] /\ next'[o] = next[o] /\ num'[o] = num[o]
  BY OwnStep
<1>2. Placed(o)'
  BY <1>1, PlacesStay DEF Placed, SeesMade
<1>3. CASE CreateInsert(p) \/ Activate(p) \/ StartWrite(p) \/ Reveal(p) \/ Reset(p) \/ NextCommit(p)
  <2>1. raced'[o] = (raced[o] \/ pc[o] # "idle")
    BY <1>3 DEF CreateInsert, Activate, StartWrite, Reveal, Reset, NextCommit, Overtakes
  <2>2. pc[o] = "idle" => Current(o)'
    BY <1>1 DEF Current
  <2> QED
    BY <1>2, <2>1, <2>2
<1>4. CASE \/ CreateRead(p) \/ Fails(p) \/ SelectRead(p) \/ ReadActive(p) \/ StartCheck(p)
           \/ NextRead(p) \/ NextReveal(p) \/ NextFind(p)
  <2>1. UNCHANGED <<active, order, revealed>>
    BY <1>4 DEF CreateRead, Fails, SelectRead, ReadActive, StartCheck, NextRead, NextReveal,
       NextFind, db
  <2>2. raced'[o] = raced[o]
    BY <1>4 DEF CreateRead, Fails, SelectRead, ReadActive, StartCheck, NextRead, NextReveal,
       NextFind, history
  <2>3. Current(o) => Current(o)'
    BY <1>1, <2>1 DEF Current, Made
  <2> QED
    BY <1>2, <2>2, <2>3
<1> QED
  BY <1>3, <1>4 DEF OwnerStep

\* What an owner's handler knows is what it has just read.
LEMMA OwnKnows ==
    ASSUME TypeOK, SeesMade, LocksSeen, NEW o \in Owner, OwnerStep(o),
           Placed(o), raced[o] \/ Current(o)
    PROVE  Placed(o)' /\ (raced'[o] \/ Current(o)')
<1> USE Kinds, GameAssumption
    DEF TypeOK, DbTypeOK, HandlerTypeOK, HistoryTypeOK, SeesMade, Made, Placed, Current, Goto, Done, Sees
<1>1. CASE CreateRead(o)
  BY <1>1 DEF CreateRead, TopOrder, db, history
<1>2. CASE CreateInsert(o)
  BY <1>2 DEF CreateInsert
<1>3. CASE Activate(o) \/ StartWrite(o) \/ Reveal(o) \/ Reset(o) \/ NextCommit(o) \/ Fails(o)
  <2>1. pc'[o] = "idle"
    BY <1>3 DEF Activate, StartWrite, Reveal, Reset, NextCommit, Fails
  <2> QED
    BY <2>1
<1>4. CASE SelectRead(o) \/ NextRead(o)
  BY <1>4 DEF SelectRead, NextRead, db, history
<1>5. CASE ReadActive(o)
  BY <1>5 DEF ReadActive, db, history
<1>6. CASE StartCheck(o)
  BY <1>6 DEF StartCheck, db
<1>7. CASE NextReveal(o)
  BY <1>7 DEF NextReveal, history
<1>8. CASE NextFind(o)
  BY <1>8 DEF NextFind, Later, TopOrder, db, history
<1> QED
  BY <1>1, <1>2, <1>3, <1>4, <1>5, <1>6, <1>7, <1>8 DEF OwnerStep

\* Every step leaves each owner's handler with what it knows, or raced.
LEMMA KnowsStep == IInv /\ [Next]_vars => OwnerKnows'
<1> SUFFICES ASSUME TypeOK, SeesMade, LocksSeen, OwnerKnows, [Next]_vars, NEW o \in Owner
             PROVE  Placed(o)' /\ (raced'[o] \/ Current(o)')
  BY DEF IInv, Facts, OwnerKnows
<1>1. ASSUME \/ \E v \in Voter : VoteRead(v) \/ VoteCheck(v) \/ VoteWrite(v)
             \/ \E r \in Reader : ReadStories(r) \/ ReadVotes(r)
             \/ UNCHANGED vars
      PROVE  Placed(o)' /\ (raced'[o] \/ Current(o)')
  BY <1>1, OthersFrame DEF OwnerKnows, TypeOK, Placed, Current, Made, history
<1>2. ASSUME NEW p \in Owner, OwnerStep(p) PROVE Placed(o)' /\ (raced'[o] \/ Current(o)')
  BY <1>2, OtherKnows, OwnKnows DEF OwnerKnows
<1> QED
  BY <1>1, <1>2 DEF Next

\* The invariant holds in every reachable state.
THEOREM Invariant == Spec => []IInv
<1>1. IInv /\ [Next]_vars => IInv'
  BY HandlerType, ReaderType, HistoryType, DbType, SeesStep, TablesStep, LocksStep, KnowsStep
     DEF IInv, Facts, TypeOK
<1> QED
  BY InitIInv, <1>1, PTL DEF Spec

\* Voting is open on a revealed story only where another owner connection wrote
\* between the statements of the handler that opened it (session.go,
\* handleStartVoting and handleReset).
THEOREM NoVotingOnRevealed == Spec => []OpenMeansHidden
<1>1. IInv => OpenMeansHidden
  BY DEF IInv, Facts
<1> QED
  BY Invariant, <1>1, PTL

\* Two stories get the same sort_order only where another owner connection wrote
\* between MAX and INSERT (handleCreateStory, handleNextStory).
THEOREM OrdersAreUnique == Spec => []UniqueOrder
<1>1. IInv => UniqueOrder
  BY DEF IInv, Facts
<1> QED
  BY Invariant, <1>1, PTL

\* Only NextCommit ends the transaction of handleNextStory with another story.
LEMMA OnlyCommitEnds ==
    ASSUME TypeOK, NEW o \in Owner, [Next]_vars,
           pc[o] \in {"nextCommit", "nextInsert"}, pc'[o] = "idle", active' # active
    PROVE  NextCommit(o)
<1> USE Kinds
<1>1. ASSUME \/ \E v \in Voter : VoteRead(v) \/ VoteCheck(v) \/ VoteWrite(v)
             \/ \E r \in Reader : ReadStories(r) \/ ReadVotes(r)
             \/ UNCHANGED vars
      PROVE  FALSE
  BY <1>1, OthersFrame DEF TypeOK
<1>2. ASSUME NEW p \in Owner, OwnerStep(p) PROVE NextCommit(o)
  <2>1. p = o
    BY <1>2, OwnStep DEF TypeOK
  <2> QED
    BY <1>2, <2>1 DEF OwnerStep, CreateRead, CreateInsert, Activate, Fails, SelectRead,
       ReadActive, StartCheck, StartWrite, Reveal, Reset, NextRead, NextReveal, NextFind
<1> QED
  BY <1>1, <1>2 DEF Next

\* next_story always goes on to a later story, be it one it found or a
\* placeholder; that story is not revealed unless another owner connection wrote
\* while handleNextStory ran (session.go).
THEOREM NextStoryAdvances == Spec => NextAdvances
<1>1. ASSUME IInv, [Next]_vars, NEW o \in Owner,
             pc[o] \in {"nextCommit", "nextInsert"}, pc'[o] = "idle", active' # active
      PROVE  /\ raced[o] \/ ~revealed'[active']
             /\ seen[o] # None => order'[active'] > order[seen[o]]
  <2> USE Kinds DEF IInv, TypeOK, Facts, DbTypeOK, HandlerTypeOK, SeesMade, Made
  <2>0. Placed(o) /\ (raced[o] \/ Current(o))
    BY <1>1 DEF OwnerKnows
  <2>1. NextCommit(o)
    BY <1>1, OnlyCommitEnds
  <2>2. CASE pc[o] = "nextCommit"
    <3>1. active' = next[o] /\ next[o] \in Story /\ order' = order
      BY <1>1, <2>1, <2>2 DEF NextCommit
    <3>2. seen[o] # None => order[next[o]] > order[seen[o]]
      BY <2>0, <2>2 DEF Placed
    <3>3. lock[next[o]] # o
      BY <1>1, <2>2, <3>1, <3>2 DEF LocksSeen
    <3> QED
      BY <1>1, <2>0, <2>1, <2>2, <3>1, <3>2, <3>3 DEF NextCommit, Current
  <2>3. CASE pc[o] = "nextInsert"
    <3>1. PICK s \in Story \ Made : active' = s /\ order' = [order EXCEPT ![s] = num[o] + 1]
      BY <2>1, <2>3 DEF NextCommit
    <3>2. ~revealed[s] /\ lock[s] # o
      BY <1>1, <3>1, GameAssumption DEF LocksSeen, UnmadeIsHidden
    <3>3. ~revealed'[s]
      BY <2>1, <3>2 DEF NextCommit
    <3>4. seen[o] # None => order[seen[o]] <= num[o]
      BY <2>0, <2>3 DEF Placed
    <3> QED
      BY <1>1, <3>1, <3>3, <3>4
  <2> QED
    BY <1>1, <2>2, <2>3
<1>2. IInv /\ [Next]_vars =>
        [\A o \in Owner :
           pc[o] \in {"nextCommit", "nextInsert"} /\ pc'[o] = "idle" /\ active' # active =>
            /\ raced[o] \/ ~revealed'[active']
            /\ seen[o] # None => order'[active'] > order[seen[o]]]_vars
  BY <1>1
<1> QED
  BY Invariant, <1>2, PTL DEF Spec, NextAdvances
=============================================================================
