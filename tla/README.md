# 1tt: verification project

TLA+ models of the stateful parts of 1tt: the API server and worker (`src/api`)
and the web client of its assistant Kim (`src/apps/kim`), with the TLC
configurations that check them on small instances, and theorems about them
checked by TLAPS. 1tt is a collection of developer tools: a Go API server and a
Go worker over PostgreSQL, Next.js and React Native front ends, a CLI, and
Cloudflare workers in front. Most of it is request-in, row-out. What is modelled
is the part where several goroutines, connections or processes share state.

## 1. Inventory

### Components with state of their own

| Component | State | Operations | Talks to |
|---|---|---|---|
| **Tunnel hub** `internal/tunnel` | map of sessions by token (`hub.mu`); per session the CLI's connection, dialect, time stamps (`sess.mu`) and a `sync.Map` of response channels | create token, WebSocket handler, HandleQuery / HandleSchema, HandleStatus, sweeper, Shutdown, RemoveSession | the CLI by WebSocket, HTTP callers by channels |
| **Tunnel CLI** `cli/cmd/tunnel.go` | one connection, one database | reads a query, runs or rejects it, answers | the hub |
| **Poker presence** `internal/poker/hub.go, handler.go` | registry of live participants per session (`hub.mu`, `sc.mu`), a mutex per participant | join, reconnect, disconnect, grace timer, kick, drop an empty registry | timer (same registry), broadcasts |
| **Poker timer** `hub.go` | countdown fields of the registry, one goroutine and `done` channel per timer | start, stop, tick, expire | presence (shares the registry), broadcasts |
| **Poker game** `session.go` | rows: active story, voting_open, stories (sort_order, revealed), votes | create, select, start voting, vote, reveal, reset, next story, BuildSessionState | PostgreSQL, broadcasts |
| **Poker broadcasts** `hub.go, handler.go` | the mutexes, and what each peer was sent | BroadcastSession, writeJSON, the replies to a join and a reconnection, purge | all of the above |
| **llms.txt jobs** `internal/llms/service.go`, `cmd/worker` | `llms_jobs` row, River job, result cache, R2 object, usage meter | StartJob, CancelJob, RunJob, River's retry and rescue | crawler, language model, R2, billing |
| **Kim chat** `apps/kim/.../kim-provider.tsx`, `handler/life.go` | in the tab: messages on the screen, current conversation, `sending`, the closure of the last render; in the database: conversations and messages | send with its stream's callbacks, new conversation, load a conversation, the poll after an answered card; prepareChatRequest, LifeChatStream, listing | browser and server by SSE and HTTP |
| **Actionables and follow-ups** `handler/life.go`, `cmd/worker/actionable_worker.go` | status and response of an actionable, a River job | respond, bulk dismiss, run the agent, store its effects | tracked runs, River |
| **Tracked runs and activity drawer** `internal/tracked`, `handler/agent_runs.go`, `use-agent-runs-stream.tsx`, `use-agent-runs-pulse.tsx` | a row per attempt, an in-memory bus per process with lossy buffers, the drawer's list, the pulse dot | RunSync, finish, Subscribe, Publish, list, stream, reconnect, poll | worker, SSE clients |
| **Planning-cycle scheduler** `internal/life/scheduler.go`, `cmd/worker/scheduler_worker.go` | stamps of the last runs, River jobs with a unique period | scan, enqueue, run a cycle, stamp | River, agent |
| Google Calendar sync `internal/life/gcal_sync.go` | sync token, cached events | full and incremental sync | Google |
| Day summaries `internal/life/day_summary.go` | events hash and summary per day | find stale days, generate, store | calendar, model |
| Billing `internal/billing` | counter per user, meter and month | CheckLimit, IncrementUsage | handlers, llms jobs |
| Tool state `handler/toolstate.go`, `use-synced-state.ts` | JSON per user and key, local copies | fetch at sign-in, debounced PUT | web app |
| Server shutdown `cmd/server/main.go` | the process | Shutdown beside ListenAndServe | everything |

The rest (hosted databases, pastes, files, DNS/SSL/OG checks, agents, channels,
web and mobile user interfaces, extension, Cloudflare workers) is stateless or
one statement per request; `PROJECT.json` lists each part with the reason it is
left out.

### Hard behaviours, and what would make them correct

- *Tunnel*: the sweeper, Shutdown and the socket's own handler end the same
  session; response channels are closed by a range over a `sync.Map` while read
  loops take channels out of it. Correct: one CLI per session, no channel closed
  twice, every waiting caller can be woken, nothing stays registered after its
  caller has left, and what the caller is told agrees with what the CLI ran.
- *Presence*: registries are dropped when empty and made again; every
  disconnection leaves a timer that is never cancelled. Correct: every record
  has somebody who will remove it, absent participants go, and so do empty
  registries somebody has been in.
- *Timer*: starts, stops and expiries race for one cancel function. Correct: no
  `done` channel is closed twice, a timer shown as running is counted down, and
  it ends.
- *Game*: every message is several statements, and connections run at the same
  time. Correct: voting is never open on a revealed story, stories keep distinct
  places, "next" goes forward, hidden votes stay hidden.
- *Broadcasts*: a slow peer is written to under a mutex. Correct: no deadlock,
  and everybody connected hears of the last change that is broadcast.
- *Jobs*: River retries, the row is the truth, most errors are ignored.
  Correct: charged once, settled in the end, never revived, cancelled stays so.
- *Kim chat*: callbacks of a stream, answers of loads, timers and clicks change
  the same React state in any order, from closures that may be old, while the
  server stores a turn whatever the tab makes of it. Correct: a temporary
  message outlives its stream only if that ended without a last event, what looks
  final is stored, turns do not interleave, the screen tells its conversation, and
  only a silent agent keeps the composer.
- *Follow-ups*: one answer becomes a row, a job and the rows of its attempts, in
  three processes, and any write between may be lost. Correct: job and row tell
  the same story, "running" is true, follow-ups end, the browser comes to know.
- *Scheduler*: nothing but a time stamp and a unique period keeps a cycle from
  running twice. Correct: the agent is asked once a day unless something failed or
  was slow, and no day is left out without a cause.

`PROJECT.json` lists the hazards one by one, at their lines, with the properties
that cover them or the reason why none does.

## 2. Modules

| Module | Models | Checked by |
|---|---|---|
| `TunnelHub` | tunnel hub with its handlers, sweeper and Shutdown; the CLI and the sockets as environment | `tunnel_sessions`, `tunnel_queries`, `tunnel_drain`, `tunnel_panic` |
| `TunnelRelay` | what callers of HandleQuery are promised; abstract specification | property `ImplementsRelay` of `tunnel_sessions`, TLAPS |
| `TunnelHubInv`, `TunnelHub_proofs` | inductive invariants, theorems | TLAPS |
| `PokerPresence`, `PokerPresence_proofs` | participants, reconnection, grace timers, kick | `poker_presence`, TLAPS |
| `PokerTimer`, `PokerTimer_proofs` | countdown goroutines | `poker_timer`, TLAPS |
| `PokerGame`, `PokerGame_proofs` | stories and votes in the database | `poker_game`, TLAPS |
| `PokerBroadcast`, `PokerBroadcast_proofs` | versions of the state, mutexes and writes | `poker_broadcast`, TLAPS |
| `LlmsJobs`, `LlmsJobs_proofs` | a user's llms.txt jobs with River and the worker | `llms_jobs`, TLAPS |
| `FollowUps`, `FollowUps_proofs` | an answered actionable, its follow-up in the worker, tracked runs, bus, drawer and pulse | `follow_ups`, TLAPS |
| `KimChat`, `Life_proofs` | a tab of the chat and the server's side of its turns | `kim_chat`, TLAPS |
| `DayCycles`, `Life_proofs` | scan, unique jobs, attempts and stamps of a user's planning cycles | `day_cycles`, TLAPS |
| `MC…` | instances for TLC, and claims that no run is spent on (section 6) | |

How the models correspond to the code:

**TunnelHub.** A goroutine is a program counter (`cpc` for WebSocket handlers,
`qpc` for query handlers, `rpc` for the two callers of RemoveSession). A step is
one critical section of `hub.mu` or `sess.mu`, or one operation on the
`sync.Map` or a channel. `attached` is `sess.Conn`, `pending` the registered
request ids, `full`/`closed` the buffered response channel, `writer` the query
that holds `sess.mu` while its WriteJSON blocks. `toCli`/`fromCli` are bytes in
flight; a dropped connection may lose them. RemoveSession's `Range` is
`DrainLoad`/`DrainClose`/`DrainDelete`: it must visit what was registered all
along (`must`) and may visit what comes later, as `sync.Map` documents. A token
is never issued twice, so it names its session object. The clock `now` counts
cleanup intervals and times to live are compared with `>`, as in the sweeper.
Pings are left out: what they do to shared state, holding `sess.mu` for a write,
a query does too.

**PokerPresence.** One poker session. A registry is an object (`Registry`), so
that a handler can hold one that is no longer in the hub: AddParticipant looks it
up under one mutex and fills it under another (`Join`, `AddParticipant`).
Elsewhere lookup and use are one step. A socket's handler becomes its grace
goroutine (`grace`, `purge`, `prune`). `failed` is a handler whose joined reply
could not be built. `StartTimer` is what a start_timer does to the registries: it
makes one if the session has none, with nobody in it. `bare`, a history variable,
names those that nobody has joined since.

**PokerTimer.** `cancel[s]` is the goroutine that `sc.timerCancel` would stop.
A ticker holds one tick (`ticked`); between taking it (`TakeTick`) and changing
the registry (`Count`) a goroutine can be cancelled.

**PokerGame.** Each SQL statement is a step and any may fail (the handler then
returns). The transaction of handleNextStory takes effect at its commit, but
reads before it and locks the row its first update touches (`lock`). Readers are
BuildSessionState's statements. Vote values and names are model values.

**PokerBroadcast.** A change of any kind is a new `version`. A socket has a
handler, which later is its grace goroutine. Handlers take
`hub.mu`, `sc.mu` and the participants' mutexes in the code's order; a write is
a step of its own, because the peer decides how long it takes. A state may fail to
be built, for a broadcast (`BuildFails`) or for a reply (`ReplyFails`), and a handler
may fail after its first change (`OperateSilently`); the history variable `unsaid`
says that one of these left the newest version without a broadcast. `view` is the
version a socket received last, `best` the newest it received.

**LlmsJobs.** The row's `status`, River's job (`queue`, `attempt`), the worker
(`work`), the two handlers (`start`, `cancel`). A statement that reports an error
may or may not have taken effect. Errors the code ignores are ignored
(`TrySetStatus`); `stuck` records the jobs for which that, or a crash, leaves
nobody to write a final status. River is external: it gives a job to one worker,
retries it while attempts are left, and rescues a job whose worker died.

**FollowUps.** Three processes. The API process stores an answer (`act`, `req`)
and enqueues a job, in two transactions; the worker runs attempts (`att`) inside
RunSync, each with a row (`row`); the browser has a drawer and a pulse. `Publish`
takes the process it runs in, because each process has a bus of its own and only
the API process has subscribers. `lost` is history: rows whose attempt died or
whose last UPDATE failed. `unreported` too: attempts whose row was ended, but whose
worker died before River heard of it. `Body` and `Decoded` are the two ends of one request
and keep their different field names. Retries are River's; a rescue is possible
once nobody runs the job. Inserting a row and publishing it are one step: what is
published is read from the row, and nothing else writes it in between.

**KimChat.** One tab. `screen`, `conv` and `sending` are the provider's state,
`seen` the closure of the last render, from which `send` takes both its guard and
its conversation. A turn's messages have the kind "tmp" until onComplete replaces
them. The server is a counter per turn (`server`), the tab's view of the stream
another (`stream`); losing a connection ends the second and not the first. A
stream is open until onComplete ("completed"), onError or a throw ("rolled_back")
or a clean end without a last event ("cut"), which the reader takes for a normal
return: it happens when the handler panics after its first event, for Recoverer
swallows the panic. `Finally` gives the composer back, together with the roll-back,
which no other callback can come between, and on its own after "completed" and
"cut". A handler that panicked and one that sent an error event are both "failed";
`Fail` and `CutOff` are what the tab sees of them. Loads
have an answer in flight. `skewed` and `hasty` are history: requests that
overlapped in a way the code does not look at, and a message sent from a closure
that was behind. Creating a conversation and storing its first message are one
step; a failure between them is `Refuse`. JavaScript's `filter` is
`Keep`, a recursive function. Definitions whose names DayCycles uses too carry the prefix
Chat, since one module proves theorems about both.

**DayCycles.** One user, time in half hours, which is the period of River's unique
jobs and the grain of the windows for full and half hours. `Window` takes its
bounds as the code does, not modulo the day. A scan reads (`ScanReads`) and
inserts later. `slow`, `unstamped` and `late` on a job are history: it outlived
the half hour of its insertion, its stamp was lost, its scan did.

## 3. Runs

| Run | Instance | Shows |
|---|---|---|
| `tunnel_sessions` | 1 token, 2 connections, 1 query, clock to 2 | TypeOK, OneCliPerSession, NoDoubleClose, DialectOfConnectedCli, PendingSessionsKept, refinement of TunnelRelay |
| `tunnel_queries` | 1 token, 1 connection, 2 queries | WaitersReachable, PendingOnlyLive, EveryQueryReturns |
| `tunnel_drain` | 1 token, 1 connection, 1 query, clock to 2 | DrainReleasesWaiters, StaleSessionsSwept, with no query timer |
| `tunnel_panic` (violation) | 1 of each | SendNeverPanics fails: a send on a closed channel |
| `poker_presence` | 2 people, 3 sockets, 2 registries, grace 1 | EveryRecordHasReaper, AwayIsPurged, UnwatchedIsFreed |
| `poker_timer` | 2 registries, 2 timers, durations -1..2 | NoDoubleClose, RunningIsDriven, TimerEnds |
| `poker_game` | 3 stories, 2 owner connections, 1 voter, 1 reader, 1 card | OpenMeansHidden, UniqueOrder, NextAdvances |
| `poker_broadcast` | 2 people, 3 connections, 4 changes | EveryoneHears, HandlersReturn |
| `llms_jobs` | 2 jobs, 1 URL, 1 active at once, 2 attempts | BilledOnce, RowSettles, NeverRevived, QueueDrains |
| `follow_ups` | 1 actionable, 1 answer, 2 attempts, 1 crash, channel of 1 | TypeOK, RunningIsAliveOrLost, JobAndRowAgree, FollowUpsEnd, PulseSettles, DrawerReconnects |
| `kim_chat` | 2 turns, 2 loads | ChatTypeOK, TemporaryMeansOpen, FinalMeansStored, QuietScreenTellsConversation, TurnsDoNotInterleave, SendingEnds |
| `day_cycles` | 3 days of 6 half hours, 4 profiles, 3 jobs, 2 attempts | AskedOnceADay, MissedDayHasACause |

Every property of a passing run has a mutant in `PROJECT.json`: a definition of
the model changed the way a plausible bug would change the code, which TLC then
finds by that property. The type invariants of PokerPresence, PokerTimer, PokerGame,
PokerBroadcast, LlmsJobs and DayCycles are in no run: TLAPS proves them for every
instance (`TypeCorrect`), and every invariant of those runs rests on them.

**Bounds, and why they are enough.** Tunnel: two connections are what it takes
to compete for a session or to inherit another's leavings; two queries to have
one writing while another waits; the two removers are all the code has. Times to
live of 0 with a clock of 1 or 2 let a session expire at once or not at all, and
`SocketBuf = 1` lets the second write block. `tunnel_queries` identifies states that
differ in what the CLI has run or rejected only (`ServerView`): no guard and none of
its properties reads that. Presence: three sockets let one
person reconnect twice, two registries let one be dropped and made anew under a
handler. Timer: a goroutine and its successor, on one registry or on two;
durations include the boundary 0, where the countdown stops, and -1, as clients may
send any integer: such a timer never ends (EveryTimerEnds below), and TimerEnds is
about the others. Game: three stories are one before, the active
one and one to come; two owner connections (two tabs, or a reconnection) are what it
takes to write between another's statements. `VotesBeforeLast` bounds the run: once
the last story is made no vote is cast or read, so that what the owners do to all
three is followed without them; before that, votes are.
Broadcast: three connections let a participant come back while another one is
there, and four changes are two joins with a reconnection and a kick or a leave,
broadcasts in between. New connections are alike and come in one order;
`poker_broadcast` identifies states that differ in versions that are no longer the
newest (`ServerView`), which no guard and neither property reads. Jobs: one cached URL shared by two jobs, one of which can be refused;
two attempts are one retry. Follow-ups: jobs of different answers share only
the actionable's response, so one answer with two attempts has a first, a retried
and a last attempt; one crash may come at any step of either. A channel of one
event overflows with the second. Chat: two turns are one in flight and one that
overtakes it, two loads likewise; both may be of one conversation or of two.
Cycles: a toy day of six half hours holds a window of a full hour and the
evening's two windows partly, and the profiles put windows at the start, at the
end and outside of the day and let them overlap; three days show a stamp of
yesterday, today and after midnight.

**CHECK_DEADLOCK FALSE** stands in every configuration because every instance may
stop: sockets, timers, queries, versions, turns, loads, jobs and the clock are finite and not
used again. A deadlock of the program would be a handler that never returns; the
liveness properties say that there is none.

**Fairness.** Server goroutines, tickers and timers are scheduled by the Go
runtime, so each has weak fairness. Nobody has to connect, disconnect, ask, vote,
kick, start or cancel. That a CLI keeps reading and answering is assumed only in
`DrainSpec` and `ReplySpec`, because the code sets no write deadline. `ReplySpec`
adds the query timer and asks nothing of the clock or of those who remove
sessions: EveryQueryReturns does not depend on a removal. `DrainSpec` has no query
timer, so `tunnel_drain` shows that removal itself releases the callers. Peers of
poker are assumed to read only in PokerBroadcast, for the same reason; handlers
there have strong fairness, because `sync.Mutex` is starvation-free. For jobs,
one condition: a queued job is always somebody's to move, River's (fetch, rescue)
or its worker's, and one of them moves it. `Poll` is among the worker's steps and
ends because its context does; start and cancel handlers need not return, and a
worker may crash at any step but never has to.
In FollowUps handlers and attempts run on and River claims and rescues (weak
fairness); the browser's timers fire; of the polls, connections and frames not
all fail, which is strong fairness of their success: a network that fails for
ever is excluded, one that fails again and again is not. The user has to do
nothing. In KimChat the statements before the agent's call return, React renders,
and a stream with something to read is read; the user, the timer and the loss of
connections owe nothing, and neither does the agent: the server sets no timeouts
(main.go:471-474), the model's client none (kimi_client.go:88-91) and the fetch has
no abort signal (life.ts:486). So SendingEnds says that "sending" lasts only as long
as an agent that never answers.

## 4. Theorems

All hold for every value of the constants that satisfies the named assumptions
(`TunnelAssumption`, `PresenceAssumption`, `TimerAssumption`, `GameAssumption`,
`BroadcastAssumption`, `JobsAssumption`, `FollowUpsAssumption`,
`KimChatAssumption`, `DayCyclesAssumption`: nil is not an id, bounds are natural numbers, the people of
a session are finitely many, a profile's times lie within the day).

- **Tunnel hub** (`TunnelHub_proofs`): TypeOK, OneCliPerSession, NoDoubleClose,
  PendingOnlyLive, WaitersReachable, DialectOfConnectedCli, PendingSessionsKept and
  the refinement ImplementsRelay. None of these is inductive alone. `IInv`
  (in `TunnelHubInv`) adds who owns what: a remover works alone on a session that
  has left the map (`RemoverOwns`), because deletion from the map is what decides
  between two removers; an entry it has loaded belongs to that session and is
  open until it closes it (`DrainOwns`); a closed channel belongs to a removed
  session and is about to leave the registry (`ClosedIsRemoved`); a response in
  hand is for a query of the connection's session (`HandOwns`). `Frame` lemmas
  say which actions change which variables. `ReadyFirst` (a
  connection not yet attached has its CLI's ready to read first) carries the dialect, `SweepJustified` (what a
  sweep has found stale still is) the time to live.
- **The relay** (`RelayImplemented`): `RelayInv` follows a query from the write to
  the CLI and back. A query on its way to a CLI, or taken up by one, was sent by a
  handler that may no longer say "not connected"; a response on its way, or in a
  channel, is of a query that a CLI took up (`OnTheWay`), and none is on its way to a
  CLI twice or after that (`SentOnce`), so one answered with an error, which may have
  run or not, does not run later. With it every step of the hub is a step of
  TunnelRelay or a stutter.
- **Presence**: TypeOK and EveryRecordHasReaper. The invariant ties a connected
  record to the socket whose handler will remove it. `EmptyRegistriesPass` is the
  safety side of UnwatchedIsFreed: an empty registry on the map has somebody on the
  way to fill it or to drop it, unless it is `bare` (`EmptyIsPassing`).
- **Timer**: TypeOK, NoDoubleClose, RunningIsDriven. `CancelIsLive`: a cancel
  function belongs to its registry and to a goroutine that is neither cancelled
  nor expired; without it one registry's stop could hit another's timer.
- **Game**: TypeOK, OpenMeansHidden, UniqueOrder and NextAdvances, for any number of
  owner connections. Three history variables say where a handler was overtaken:
  `raced` that another owner connection has written since it began, `torn` that the
  handler which opened voting was, `hurried` of which stories the makers were. The
  properties leave out just that. `Placed` is what a handler has read of places, which
  stays true as no story is moved; `Current` the rest, which holds until it is raced.
- **Broadcasts**: TypeOK and EveryoneHears. `Told` says who is still to be sent
  the newest version by whom: whoever changed the state has a broadcast ahead
  whose list will hold everybody connected, unless the newest change goes `unsaid`,
  and nobody holds a version that is not yet made (`NoForesight`). `DeadlockFree` is the safety side of HandlersReturn,
  for any number of participants: unless all rest, some handler finds what it waits
  for (`MayGoOn`, the guards of `Work`). `Locked` says which step holds which mutex,
  and from that the mutexes have an order: a participant's before sc.mu before hub.mu.
- **Jobs**: TypeOK, BilledOnce, RowSettles, NeverRevived. `WorkInv` says what the
  row can be while a worker has it, `BillInv` that a billed job is never pending
  again, `SettleInv` that an active row is claimed, still to be claimed, or stuck.
- **Follow-ups**: TypeOK, RunningIsAliveOrLost, JobAndRowAgree. What they need is
  that an attempt not yet begun has no row, that a row saying "running" is that of
  the attempt in progress or lost (`RowsOfAttempts`), and that a running job nobody
  runs has lost its row or was finished and not reported, while one about to be
  reported has a row that tells its outcome (`RowTellsOutcome`).
- **Cycles** (`Life_proofs`): TypeOK, AskedOnceADay, MissedDayHasACause. The first
  is `OneJobADay` with the attempts of one job added. A scan
  that found its cycle due in this half hour can only meet jobs of this half hour
  (`ScanIsRight`), since a quick job of an earlier one was stamped today
  (`OverIsStamped`); those the unique period turns away. For the missed day, `MissInv`
  says of every past half hour in a cycle's window (`Asked`) that the cycle was stamped
  on that day or had a job inserted in that half hour (`Seen`). A scan brings that
  about, what was seen stays (`SeenStays`), and a completed job that is not to blame was
  stamped on the day of its insertion (`CompletedRan`).
- **Chat** (`Life_proofs`): ChatTypeOK, TemporaryMeansOpen, FinalMeansStored,
  TurnsDoNotInterleave, QuietScreenTellsConversation. `Handlers` ties a turn's stream to
  its handler; `Books` and `Filed` say that a conversation holds exactly what its
  handlers stored, once each; `LoadsAreStored` that what a request has read is in its
  conversation. For the order of turns, `OneAtATime` (the guard on `sending` works as
  long as no closure is old) and `OpenIsLast` (only turns that were given up are stored
  behind an open one). The last property says nothing while a turn is under way,
  so `TurnsUnderWay` says what holds then: the final messages on the screen
  tell the conversation as it was before the turn, and the turn's messages are stored
  behind all that the screen shows; `AloneIsAlone` says the same of a load. Each step of
  the server appends to one conversation (`Stores`), and the proof is what an appended
  message does to a filtered conversation (`KeepAppend`, `KeepSame`, `KeepAll`, `KeepKeep`). Those
  lemmas are proved by the least number principle: the set of lengths for which a
  filter does what it should contains 0 and is closed under successor (`NatSet`, from
  `WFMin`), which takes a set where the library's induction theorem takes an operator.

**Model-checked only**: all liveness (EveryQueryReturns, DrainReleasesWaiters,
StaleSessionsSwept, AwayIsPurged, UnwatchedIsFreed, TimerEnds, HandlersReturn,
QueueDrains, FollowUpsEnd, PulseSettles, DrawerReconnects, SendingEnds), since
fairness and ENABLED are out of the prover's reach; of some the safety side is
proved (EveryRecordHasReaper, EmptyRegistriesPass, RunningIsDriven, DeadlockFree,
WaitersReachable). Every invariant and every action
property of a passing run, and the refinement, is a theorem.

## 5. Where code and comments disagree

One run is a violation (`findings`): `tunnel_panic`. hub.go:193 says of a closed
channel that the response is discarded; the send panics.

## 6. Claims that no run is spent on

These sentences of comments, too, have counterexamples. Naming one as the property
of a configuration of its module reproduces it.

| Claim | Module | What happens |
|---|---|---|
| RegisterOnlyKnown | MCTunnelHub | a CLI is attached to a session that another goroutine removed since its lookup |
| DisconnectEndsSession | MCTunnelHub | a CLI may connect again with the token until the sweeper comes |
| SweepSparesConnected | MCTunnelHub | the sweeper removes a session a CLI connected to after the sweep's snapshot |
| EveryQueryReturns under StallSpec | MCTunnelHub | wsWriteTimeout is never used: a CLI that stops reading keeps a handler, and sess.mu, for ever |
| ReconnectedStaysConnected | PokerPresence | hub.go:183-184 "swaps the WebSocket connection, and marks them as connected again"; the old socket's handler ends later and marks the new connection as lost |
| EmptyIsFreed | MCPokerPresence | hub.go:96-97 "frees memory for sessions no one is watching"; a start_timer of a handler that is in no registry any more makes one that has no last participant, and nobody drops it until somebody has joined and left |
| JoinedIsMember | MCPokerPresence | the registry was dropped between AddParticipant's two critical sections |
| OnlyDisconnectedPurged | MCPokerPresence | a reconnection between the grace goroutine's check and its purge |
| GraceRespected | MCPokerPresence | an earlier disconnection's timer ends the grace of a later one |
| OneTimerPerRegistry, OneTimerPerSession, CancelledCountsNoMore | MCPokerTimer | a tick in hand when the timer is cancelled; a registry dropped with its timer running |
| EveryTimerEnds | MCPokerTimer | hub.go:296-297 "When it expires": a negative duration counts down past 0, and the goroutine looks for exactly 0 |
| NeverOpenOnRevealed, NextIsHidden | MCPokerGame | session.go:479, 588: one owner connection reveals between another's statements |
| NeverSameOrder | MCPokerGame | session.go:397 "Count existing stories so we can set sort_order.": two owner connections read the same MAX |
| OnlyRevealedShown | PokerGame | protocol.go:69 "Votes map is only populated after the story is revealed."; BuildSessionState reads stories and votes in two statements, with a reset in between |
| RevealedVotesAreFinal, PlaceholderIfNone | MCPokerGame | a vote checked before the reveal; currentOrder is 0 both for the first story and for none |
| OneWriterPerSocket, ViewsAreCurrent | MCPokerBroadcast | hub.go:49-50 "gorilla/websocket only allows one concurrent writer": the replies to a join and to a reconnection are written without the mutex; two broadcasts write in the other order than they read |
| EveryChangeIsHeard | MCPokerBroadcast | session.go:226-227 "routes an incoming ClientMessage to the appropriate DB operation and then triggers a broadcast of updated state": a handler whose second statement fails has changed the state and returns without one, and a broadcast whose state cannot be built tells nobody |
| CancelledStays | LlmsJobs | service.go:668-671 "The running worker checks the DB status at phase transitions (see RunJob) and aborts."; only the claim looks, later updates overwrite 'cancelled' and the job is billed |
| ConcurrencyLimited, CompletedIsUploaded | MCLlmsJobs | two calls count before either inserts; a cached result's upload error is ignored |
| GivenUpIsNotCompleted | FollowUps | tracked.go:130-132 "so the worker goroutine owns the lifecycle and River can track retries/attempts": a worker that dies between finish and River's record leaves a completed row, and River gives the job up |
| LiveDrawerSeesTheEnd | FollowUps | agent_runs.go:274 "It emits a `run` event every time tracked.Run publishes a state change"; runs are run and published in the worker process, the stream reads the bus of the API process |
| NoTemporaryLeft | KimChat | kim-provider.tsx:613 "Replace tmp user msg + streaming placeholder with real records.": a stream that ends cleanly without its last event (life.ts:515) calls neither onComplete nor onError, and both stay |
| ComposerComesBack | KimChat | kimi_client.go:88-91 "No client-level timeout: cancellation is driven by the caller's context", which has no deadline either: an agent that never answers keeps "sending" |
| NeverAskedAgain | MCDayCycles | scheduler_worker.go:38 "De-dup: one cycle per user per day"; a failed attempt is retried as a whole |
| AnswerArrives | FollowUps | life.go:1515 documents a field "data"; the client (life.ts:353) sends the fields of the answer beside "action", so the choice is stored as null and never reaches the agent |

Other disagreements the models show, or take as they are:

- scheduler_worker.go:38 "De-dup: one cycle per user per day": uniqueness lasts 30
  minutes; only the stamp covers the rest of the window, and an attempt that fails
  after its tools have acted is repeated as a whole (AskedOnceADay names the
  exceptions). A user whose sleep time is midnight has both evening windows
  before the day and gets neither cycle; an evening plan that ends after midnight
  is stamped with the next day and suppresses that day's.
- kim-message-list.tsx:155-158 says that the poll after an answered card is "Scoped to the
  current conversation; no-op during streaming of a new turn."; it loads its conversation
  2.5 s later wherever the user is, and during a stream the turn's user message is
  then shown twice.
- A turn that completes after newConversation or loadConversation appends itself to
  the other conversation's screen and makes its own current again; answers of
  two loads may come in the other order; a failed load leaves the new id over the
  old messages. QuietScreenTellsConversation is about screens without such
  overlaps.
- life.go:847-853: under "Load last 50 messages as history" the query orders
  ascending with LIMIT 50, so it loads the first 50.

## 7. Not modelled, and abstractions

- HandleStatus and the poker, llms and runs read APIs: they change nothing.
- Poker: set_scale, statistics, time stamps and archiving. PokerPresence has the
  registry that a start_timer makes and PokerTimer its countdown; that a registry
  nobody is in is kept by its timer alone needs the two together (section 8).
- Jobs: the page cache (its outcome is `Acquire`'s choice), file publishing.
  River's rescuer is assumed to take only jobs whose worker is gone.
- Follow-ups: actionables with a deferred action, snooze (no client sends it), the
  60 s filter of ListAgentRuns (the drawer asks for all), the drawer's cap of 50
  runs. The journey job runs in the same RunSync and is not repeated.
- Chat: texts and tool names, forms, the cache of actionables, postSilent's local
  notes, deletion of a conversation, and a reload of the page.
- Cycles: one user, no change of the profile or of daylight time, windows at full
  and half hours; River's default job timeout of a minute is a failed attempt
  (`CycleFails`), whose tool effects the retry repeats. Of the six scans of a half
  hour one is assumed not to fail (`Tick`). The scan for day summaries has the same
  shape.
- Tool-state sync (`use-synced-state.ts`, `toolstate.go`), Google Calendar sync
  and day summaries have state that several actors change and no module yet;
  section 8 says what to look at. The user interfaces of the web application, by
  far the largest part of the sources, are forms over HTTP calls or run in one
  tab without shared state.
- The environment: PostgreSQL statements are atomic; connections of poker are
  modelled up to whether they are open.

## 8. What could come next

1. `SyncedState`: a tool's copy in the browser and the server's row. The switch to
   local storage deletes the row without clearing the 500 ms debounce timer, whose
   PUT makes it again; the fetch at sign-in may overwrite a newer edit; two PUTs
   may land in the other order.
2. `GcalSync`: two syncs of a user, the token, ignored upsert errors, against an
   abstract specification "the cache is what Google had at the token".
   `DaySummary` over it: hash, generation and later events.
3. `PokerRoom`: presence and timer over one set of registries, for registries
   that only a timer keeps.
4. `ServerShutdown`: http.Server.Shutdown beside the return of ListenAndServe.
