------------------------------- MODULE KimChat -------------------------------
(***************************************************************************)
(* One tab of the Kim app talking to the chat endpoint of the API: the     *)
(* provider (kim-provider.tsx) keeps the messages on the screen and the    *)
(* id of the conversation they belong to, and changes both from the        *)
(* callbacks of a stream (send), from the answers of a request that loads  *)
(* a conversation, and from the user's clicks, in whatever order these     *)
(* come.  The server stores the user's message before it asks the agent,   *)
(* and the agent's answer before it sends the last event of the stream.    *)
(*                                                                         *)
(* A turn is a message of the user and the agent's answer to it; a         *)
(* conversation has the name of the turn that created it.  Left out: the   *)
(* texts, the tools' names, the cache of actionables and the forms, which  *)
(* no property tells apart.                                                *)
(*                                                                         *)
(* Bounds: MaxTurns messages sent, MaxLoads conversations loaded.          *)
(***************************************************************************)
EXTENDS Naturals, Sequences, Functions

CONSTANTS MaxTurns, MaxLoads, None

Turn == 1..MaxTurns
Load == 1..MaxLoads

ASSUME KimChatAssumption ==
    MaxTurns \in Nat /\ MaxLoads \in Nat /\ None \notin Nat

VARIABLES
    convs,    \* life_conversations
    db,       \* life_messages of every conversation, in the order of created_at
    server,   \* what the handler of a turn has come to, and for which conversation
    stream,   \* what the tab has seen of the stream of a turn
    loads,    \* the requests of the tab for the messages of a conversation
    screen,   \* messages
    conv,     \* conversationId
    sending,
    seen,     \* sending and conversationId in the closure `send` of the last render
    poll,     \* the conversation that the timer of an answered card will load
    skewed,   \* history: requests overlapped in a way the code does not look at
    hasty     \* history: a closure older than the state sent a second message

chatVars == <<convs, db, server, stream, loads, screen, conv, sending, seen, poll, skewed, hasty>>
serverVars == <<convs, db, server>>
tabVars == <<stream, loads, screen, conv, sending, seen, poll, skewed, hasty>>
history == <<skewed, hasty>>

Role == {"user", "assistant"}
Message == [turn : Turn, role : Role]
OnScreen == [turn : Turn, role : Role, kind : {"tmp", "final"}]

Said(t, role) == [turn |-> t, role |-> role]
Shown(t, role, kind) == [turn |-> t, role |-> role, kind |-> kind]
AsShown(msgs) == [i \in DOMAIN msgs |-> Shown(msgs[i].turn, msgs[i].role, "final")]
AsSaid(shown) == [i \in DOMAIN shown |-> Said(shown[i].turn, shown[i].role)]

\* filter: the elements of s that are in P, in their order
Keep(s, P) ==
    LET F[i \in 0..Len(s)] ==
            IF i = 0 THEN <<>>
            ELSE IF s[i] \in P THEN Append(F[i - 1], s[i]) ELSE F[i - 1]
    IN  F[Len(s)]

\* the screen without the temporary messages of a turn
NotTmpOf(t) == {m \in OnScreen : m.turn # t \/ m.kind = "final"}
WithoutTmp(t) == Keep(screen, NotTmpOf(t))

\* The messages on the screen that are not temporary
Final == {m \in OnScreen : m.kind = "final"}
Finals == Keep(screen, Final)

Open(t) == stream[t].pc = "open"
InFlight(l) == loads[l].pc \in {"asked", "read"}
Idle == (\A t \in Turn : ~Open(t)) /\ (\A l \in Load : ~InFlight(l))

NoLoad(pc) == [pc |-> pc, conv |-> None, msgs |-> <<>>, alone |-> FALSE]

\* Something of the user's overlaps a request that is under way.
Overlaps == skewed' = (skewed \/ ~Idle)
NoLongerAlone(ls) == [l \in Load |-> [ls[l] EXCEPT !.alone = FALSE]]

ChatInit ==
    /\ convs = {}
    /\ db = [c \in Turn |-> <<>>]
    /\ server = [t \in Turn |-> [pc |-> "none", conv |-> None]]
    /\ stream = [t \in Turn |-> [pc |-> "none", placeholder |-> FALSE]]
    /\ loads = [l \in Load |-> NoLoad("none")]
    /\ screen = <<>>
    /\ conv = None
    /\ sending = FALSE
    /\ seen = [sending |-> FALSE, conv |-> None]
    /\ poll = None
    /\ skewed = FALSE
    /\ hasty = FALSE

-----------------------------------------------------------------------------
(* The server: LifeChatStream, one handler per turn, and the listing.      *)

ServerStep(t, pc) == server' = [server EXCEPT ![t].pc = pc]

\* Mutant: the conversation of a first message gets no row.
PrepareMessageOnly(t) ==
    /\ server[t].pc = "posted"
    /\ LET c == IF server[t].conv = None THEN t ELSE server[t].conv
       IN  /\ db' = [db EXCEPT ![c] = Append(@, Said(t, "user"))]
           /\ server' = [server EXCEPT ![t] = [pc |-> "agent", conv |-> c]]
    /\ UNCHANGED <<convs, tabVars>>

\* prepareChatRequest creates the conversation if there is none and stores
\* the user's message.
Prepare(t) ==
    /\ server[t].pc = "posted"
    /\ LET c == IF server[t].conv = None THEN t ELSE server[t].conv
       IN  /\ convs' = convs \cup {c}
           /\ db' = [db EXCEPT ![c] = Append(@, Said(t, "user"))]
           /\ server' = [server EXCEPT ![t] = [pc |-> "agent", conv |-> c]]
    /\ UNCHANGED tabVars

\* It fails on the way, with or without the conversation it created.
Refuse(t) ==
    /\ server[t].pc = "posted"
    /\ ServerStep(t, "refused")
    /\ \/ server[t].conv = None /\ convs' = convs \cup {t}
       \/ UNCHANGED convs
    /\ UNCHANGED <<db, tabVars>>

\* The agent has answered; its message is stored, then sent.
Save(t) ==
    /\ server[t].pc = "agent"
    /\ db' = [db EXCEPT ![server[t].conv] = Append(@, Said(t, "assistant"))]
    /\ ServerStep(t, "saved")
    /\ UNCHANGED <<convs, tabVars>>

\* The handler ends without an answer: the agent, or the INSERT of its
\* message, fails (so it does when the client is gone, for both use the
\* context of the request) and an error event is sent, or it panics and
\* Recoverer keeps the server alive.
AgentFails(t) ==
    /\ server[t].pc = "agent"
    /\ ServerStep(t, "failed")
    /\ UNCHANGED <<convs, db, tabVars>>

\* The messages of a conversation are listed.
ListRead(l) ==
    /\ loads[l].pc = "asked"
    /\ loads' = [loads EXCEPT ![l].pc = "read", ![l].msgs = db[loads[l].conv]]
    /\ UNCHANGED <<serverVars, stream, screen, conv, sending, seen, poll, history>>

-----------------------------------------------------------------------------
(* The tab.                                                                *)

\* React renders, and the callbacks of the page get the state of now.
Render ==
    /\ seen # [sending |-> sending, conv |-> conv]
    /\ seen' = [sending |-> sending, conv |-> conv]
    /\ UNCHANGED <<serverVars, stream, loads, screen, conv, sending, poll, history>>

\* send, and askKim, which calls the `send` of the last render
Send(t) ==
    /\ stream[t].pc = "none" /\ \A u \in 1..(t - 1) : stream[u].pc # "none"
    /\ ~seen.sending
    /\ screen' = Append(screen, Shown(t, "user", "tmp"))
    /\ sending' = TRUE
    /\ stream' = [stream EXCEPT ![t].pc = "open"]
    /\ server' = [server EXCEPT ![t] = [pc |-> "posted", conv |-> seen.conv]]
    /\ skewed' = (skewed \/ ~Idle \/ seen.conv # conv)
    /\ hasty' = (hasty \/ sending)
    /\ loads' = NoLongerAlone(loads)
    /\ UNCHANGED <<convs, db, conv, seen, poll>>

\* The first token, or the first actionable, adds the placeholder; what
\* comes later changes the placeholder, if it is still there.
Part(t) ==
    /\ Open(t) /\ server[t].pc \in {"agent", "saved", "failed"}
    /\ ~stream[t].placeholder
    /\ stream' = [stream EXCEPT ![t].placeholder = TRUE]
    /\ screen' = Append(screen, Shown(t, "assistant", "tmp"))
    /\ UNCHANGED <<serverVars, loads, conv, sending, seen, poll, history>>

\* Mutant: the composer is given back by the error paths only.
FinallyOnErrors(t, how) ==
    /\ stream' = [stream EXCEPT ![t] = [pc |-> how, placeholder |-> FALSE]]
    /\ sending' = (sending /\ how = "done")
    /\ UNCHANGED <<serverVars, loads, seen, poll, history>>

\* streamLifeChat has returned or thrown: the finally of send.
Finally(t, how) ==
    /\ stream' = [stream EXCEPT ![t] = [pc |-> how, placeholder |-> FALSE]]
    /\ sending' = FALSE
    /\ UNCHANGED <<serverVars, loads, seen, poll, history>>

\* The callback onComplete has run, the stream is still read.
Completed(t) ==
    /\ stream' = [stream EXCEPT ![t] = [pc |-> "completed", placeholder |-> FALSE]]
    /\ UNCHANGED <<serverVars, loads, sending, seen, poll, history>>

\* Mutant: the id of a new conversation is not taken over.
CompleteKeepsId(t) ==
    /\ Open(t) /\ server[t].pc = "saved"
    /\ screen' = WithoutTmp(t) \o <<Shown(t, "user", "final"), Shown(t, "assistant", "final")>>
    /\ Completed(t)
    /\ UNCHANGED conv

\* Mutant: the last event is sent before the answer is stored.
CompleteEarly(t) ==
    /\ Open(t) /\ server[t].pc \in {"agent", "saved"}
    /\ conv' = server[t].conv
    /\ screen' = WithoutTmp(t) \o <<Shown(t, "user", "final"), Shown(t, "assistant", "final")>>
    /\ Completed(t)

\* onComplete: the turn's stored messages take the place of the temporary
\* ones, whatever is on the screen, and its conversation becomes current.
Complete(t) ==
    /\ Open(t) /\ server[t].pc = "saved"
    /\ conv' = server[t].conv
    /\ screen' = WithoutTmp(t) \o <<Shown(t, "user", "final"), Shown(t, "assistant", "final")>>
    /\ Completed(t)

\* After its last event the stream ends, or its connection is lost: there
\* is nothing temporary left for the catch to remove.
EndStream(t) ==
    /\ stream[t].pc = "completed"
    /\ Finally(t, "done")
    /\ UNCHANGED <<screen, conv>>

\* The stream of a handler that panicked after its first event ends as if
\* it were complete, without a last event: streamLifeChat returns, neither
\* onComplete nor onError has run, and the temporary messages stay.
CutOff(t) ==
    /\ Open(t) /\ server[t].pc = "failed"
    /\ Finally(t, "cut")
    /\ UNCHANGED <<screen, conv>>

\* Mutant: the placeholder is left on the screen.
RollBackUserOnly(t) ==
    /\ screen' = Keep(screen, OnScreen \ {Shown(t, "user", "tmp")})
    /\ Finally(t, "rolled_back")
    /\ UNCHANGED conv

\* onError or the catch of send, and the finally right after it
RollBack(t) ==
    /\ screen' = WithoutTmp(t)
    /\ Finally(t, "rolled_back")
    /\ UNCHANGED conv

\* onError: an error status (a panic before the first event is one, too)
\* or an error event
Fail(t) == Open(t) /\ server[t].pc \in {"refused", "failed"} /\ RollBack(t)

\* The connection is lost, and the reader throws; the handler may go on.
Lose(t) == Open(t) /\ RollBack(t)

\* Mutant: a new conversation gives the composer back.
NewConversationUnlocks ==
    /\ conv' = None
    /\ screen' = <<>>
    /\ sending' = FALSE
    /\ skewed' = ~Idle
    /\ loads' = NoLongerAlone(loads)
    /\ UNCHANGED <<serverVars, stream, seen, poll, hasty>>

\* newConversation: nothing is done about a stream that is under way.
NewConversation ==
    /\ conv' = None
    /\ screen' = <<>>
    /\ skewed' = ~Idle
    /\ loads' = NoLongerAlone(loads)
    /\ UNCHANGED <<serverVars, stream, sending, seen, poll, hasty>>

\* loadConversation: the id changes at once, the messages when they come.
LoadConversation(l, c) ==
    /\ loads[l].pc = "none" /\ \A k \in 1..(l - 1) : loads[k].pc # "none"
    /\ c \in convs
    /\ conv' = c
    /\ loads' = [NoLongerAlone(loads) EXCEPT
                   ![l] = [pc |-> "asked", conv |-> c, msgs |-> <<>>, alone |-> Idle]]
    /\ Overlaps
    /\ UNCHANGED <<serverVars, stream, screen, sending, seen, hasty>>

ChooseConversation(l) == \E c \in convs : LoadConversation(l, c) /\ UNCHANGED poll

\* An answered card loads its conversation again 2.5 s later, wherever the
\* user is by then.
AnswerCard ==
    /\ poll = None /\ seen.conv # None
    /\ poll' = seen.conv
    /\ UNCHANGED <<serverVars, stream, loads, screen, conv, sending, seen, history>>

PollFires(l) ==
    /\ poll # None
    /\ LoadConversation(l, poll)
    /\ poll' = None

\* The answer of a load is shown, whichever conversation is current.
Loaded(l) ==
    /\ loads[l].pc = "read"
    /\ screen' = AsShown(loads[l].msgs)
    /\ loads' = [loads EXCEPT ![l] = NoLoad("done")]
    /\ skewed' = (skewed /\ ~loads[l].alone)
    /\ UNCHANGED <<serverVars, stream, conv, sending, seen, poll, hasty>>

\* The load fails: the error is shown, the id stays what it became.
LoadFails(l) ==
    /\ InFlight(l)
    /\ loads' = [loads EXCEPT ![l] = NoLoad("done")]
    /\ skewed' = TRUE
    /\ UNCHANGED <<serverVars, stream, screen, conv, sending, seen, poll, hasty>>

-----------------------------------------------------------------------------
ServerNext ==
    \/ \E t \in Turn : Prepare(t) \/ Refuse(t) \/ Save(t) \/ AgentFails(t)
    \/ \E l \in Load : ListRead(l)

TabNext ==
    \/ \E t \in Turn :
          Send(t) \/ Part(t) \/ Complete(t) \/ EndStream(t) \/ CutOff(t) \/ Fail(t) \/ Lose(t)
    \/ \E l \in Load :
          ChooseConversation(l) \/ PollFires(l) \/ Loaded(l) \/ LoadFails(l)
    \/ Render \/ NewConversation \/ AnswerCard

ChatNext == ServerNext \/ TabNext

ChatSpec == ChatInit /\ [][ChatNext]_chatVars

\* The database answers a handler, React renders, and a stream that has
\* something to read is read.  Nothing is assumed of the agent: no deadline
\* is set on the request, on the client of the model API or on the fetch.
ChatFairness ==
    /\ \A t \in Turn :
          /\ WF_chatVars(Prepare(t) \/ Refuse(t))
          /\ WF_chatVars(Complete(t) \/ Fail(t) \/ CutOff(t))
          /\ WF_chatVars(EndStream(t))
    /\ WF_chatVars(Render)

FairSpec == ChatSpec /\ ChatFairness

-----------------------------------------------------------------------------
(* Properties *)

HandlerOf == [pc : {"none", "posted", "refused", "agent", "saved", "failed"},
              conv : Turn \cup {None}]
StreamOf == [pc : {"none", "open", "completed", "done", "rolled_back", "cut"}, placeholder : BOOLEAN]
RequestOf(cs) == [pc : {"none", "asked", "read", "done"}, conv : cs \cup {None},
                  msgs : Seq(Message), alone : BOOLEAN]

\* The state has the shape the code gives it; every id the tab holds is of
\* a conversation that exists.
ChatTypeOK ==
    /\ convs \subseteq Turn
    /\ db \in [Turn -> Seq(Message)]
    /\ server \in [Turn -> HandlerOf]
    /\ stream \in [Turn -> StreamOf]
    /\ loads \in [Load -> RequestOf(convs)]
    /\ screen \in Seq(OnScreen)
    /\ conv \in convs \cup {None} /\ poll \in convs \cup {None}
    /\ seen \in [sending : BOOLEAN, conv : convs \cup {None}]
    /\ sending \in BOOLEAN /\ skewed \in BOOLEAN /\ hasty \in BOOLEAN

\* However streams, loads and clicks overlap, a temporary message on the
\* screen belongs to a stream that is still read, or to one that ended
\* without a last event (onComplete, onError and the catch of send).
TemporaryMeansOpen ==
    \A i \in DOMAIN screen :
        screen[i].kind = "tmp" => Open(screen[i].turn) \/ stream[screen[i].turn].pc = "cut"

\* A claim the code does not keep, for it does nothing at a stream's end:
\* no temporary message is left behind for good.
NoTemporaryLeft ==
    \A i \in DOMAIN screen : screen[i].kind = "tmp" => Open(screen[i].turn)

\* What the screen shows as final is stored in some conversation: a reader
\* of an answer can come back to it (saveAssistantMessage before the last
\* event, and the roll-back of the user's message).
FinalMeansStored ==
    \A i \in DOMAIN screen :
        screen[i].kind = "final" =>
            \E c \in convs : Said(screen[i].turn, screen[i].role) \in Range(db[c])

\* Once nothing is under way and no requests overlapped since the screen
\* was last loaded or cleared, the final messages on the screen tell the
\* current conversation: its messages in their order, but for those of turns
\* that the tab gave up while the server kept some of it.
GivenUp(t) == stream[t].pc \in {"rolled_back", "cut"}

Tells(said, c) ==
    IF c = None THEN said = <<>>
    ELSE /\ said = Keep(db[c], Range(said))
         /\ \A m \in Range(db[c]) : m \in Range(said) \/ GivenUp(m.turn)

QuietScreenTellsConversation == (Idle /\ ~skewed) => Tells(AsSaid(Finals), conv)

\* The turns of a conversation are stored one after the other: between a
\* message and its answer comes no other, unless the tab lost the connection
\* of one of the two turns, or a message was sent from a closure that had
\* not been rendered again (the guard on `sending`).
TurnsDoNotInterleave ==
    \A c \in convs : \A i, j, k \in DOMAIN db[c] :
        (i < j /\ j < k /\ db[c][i].turn = db[c][k].turn /\ ~hasty) =>
            \E n \in {i, j} : stream[db[c][n].turn].pc = "rolled_back"

\* The composer is given back (the finally of send): the tab stays in
\* "sending" for ever only while the stream of a turn whose agent never
\* answers is open.
SendingEnds ==
    <>[]sending => <>[](\E t \in Turn : Open(t) /\ server[t].pc = "agent")

\* A claim the code does not keep, for nothing on the way has a time limit:
\* the composer always comes back.
ComposerComesBack == []<>~sending
=============================================================================
