# TLA+ models of AgentCockpit

AgentCockpit lets a user start, watch and approve coding agents that run on
their own machines from a browser. This directory holds TLA+ modules for the
parts of it whose correctness depends on timing, the TLC configurations that
check them, and TLAPS proofs about them.

    tlc -workers 2 -config MCHub_registry.cfg MCHub
    tlapm HubProofs.tla

## 1. The system

Three programs, one relay in the middle:

    browser (app.js)  <-- HTTP, WebSocket -->  relay (serve)  <-- WebSocket -->  agent (_daemon)
                                                  |                                 |
                                               SQLite                          PTY processes

| Component | State it keeps | Operations | Talks to |
|---|---|---|---|
| Hub (`internal/relay/hub.go`, `ws_handlers.go`) | maps of host and browser connections, a buffered channel per connection, pending approvals, token counts, PTY sequence numbers | register, unregister, send to a host, broadcast to a user's browsers, route a message, shut down | every handler of the relay; one reader and one writer goroutine per connection |
| API (`api_handlers.go`, `auth_handlers.go`) | rows in SQLite; invites in memory | sessions, approvals, device codes, invites, hosts, login | store, hub |
| Store (`internal/store`) | tables users, hosts, sessions, session_events, approval_requests, device_authorizations | one SQL statement per method | - |
| Agent daemon (`internal/agent/daemon.go`) | current connection, outgoing channel shared by all connections, backoff | dial for ever, read, write, handle a message | hub; session pool |
| Session pool (`internal/agent/session.go`) | map of running PTYs, their keys | start, kill, write, resize, report the end | operating system; daemon |
| Dashboard (`webdist/app.js`) | cached lists, token counts, one attached terminal, keys | fetch, apply WebSocket messages, resolve, attach | relay |
| CLI (`cmd/agentcockpit`) | agent.json, service files | install (invite or device code), run the daemon or the relay | relay, service manager |
| Crypto (`internal/crypto`) | none | ECDH, HKDF, AES-GCM | agent |

What is hard about it:

- *Concurrency inside the relay.* The two goroutines of each connection, the
  API handlers and the broadcasts share the maps (under `hub.mu`) and the
  channels (under nothing). A host may have two live connections, because the
  agent dials again before the relay has noticed that the old one is dead.
- *Concurrency inside the agent.* A session is started in its own goroutine,
  ends in another, and reports into a channel that the writer of an earlier
  connection may still be reading.
- *Failure.* Messages in channels and in flight are lost with a connection
  and never repeated; the relay keeps only SQLite over a restart; the daemon
  takes its PTYs with it when it dies; a cancelled request leaves its handler
  between two statements.
- *Ordering.* Row updates are unconditional (`UpdateSessionStatus`,
  `StopSession`), so the last writer decides.

What makes each component correct:

- Hub: connections in the maps can be sent to, broadcasts never panic, a host
  that is gone is offline, no goroutine stays behind.
- Sessions: the rows agree with the processes when nothing is under way; what
  is recorded as ended has ended; what runs is found again after a restart.
- Approvals: one decision per request, stored before anybody acts on it;
  browsers have the current token counts.
- Output: what is stored can be put back in the order it was written.
- Enrolment: every token handed out belongs to a host, one host per invite, a
  machine that was authorized gets its token.
- Keys: what a page encrypts is read or dropped, never typed into a shell; the
  public key sessions are encrypted for has its private half in a browser.
- Dashboard: when nothing is under way the page shows what the rows say.

`PROJECT.json` lists, under `hazards`, the places where each of these could go
wrong, and the properties that watch them.

## 2. The modules

| Module | What it models | Actions and code |
|---|---|---|
| `Hub` | the registry, both goroutines of every connection, broadcasts, `SendToHost`, `Shutdown` | one action per critical section, channel operation and statement of `handleHostWS`, `RunReader`, `RunWriter`, `UnregisterHost`, `handleBrowserWS` |
| `Sessions` | a session from `POST /api/sessions` to its exit, over both directions of the agent's connection | `CreateSession`/`SendCreate`/`FailCreate` cut `handleCreateSession` at its statements; `Spawn`, `AddToPool`, `SendStarted`, `RemoveFromPool`, `SendStopped` cut `sessionPool.start`; `Connect`, `Disconnect`, `WriterTakes`, `WriterEnds` are the daemon's connection; `Route` is `routeHostMessage` |
| `Approvals` | a request from its arrival to its decision, and the token counts | the steps of `handleApprovalRequest` in the reader of each connection of a host (`Reader`, with a lookup and an insert that may fail), the API's steps of `handleResolveApproval`, `PushTokenStates` of each browser |
| `Enrolment` | device codes, invites, `agent.json`, the service, `host_removed` | each handler cut at its statements; the CLI's polling; `install` again, `uninstall`, the service manager that restarts the daemon |
| `PtyOutput` | a session's output from the PTY to its rows | `ReadChunk`/`Seal`/`SendFrame` cut `streamOutput`; `Exit`/`ClosePty`/`ZeroKey`/`SendStopped` the goroutine that waits for the process; `Number` is `routePTYOutput`, `AppendSessionEvent` the goroutine it starts, `Release` the session_stopped |
| `Keys` | the pairs of the browsers, the public key in the user's row, session keys at both ends | `Found`, `Generate`, `Put`, `Store` cut `ensureUserKeypair` at its awaits; `PutUnheard` and `LatePut` are a request given up and served late; `StoreFails` is an IndexedDB that refuses the pair; `Derive` is `getSessionKey`; `Start` the key agreement of `sessionPool.start`; `Type` goes through `writeStdin` |
| `Dashboard` | the lists one page keeps of hosts, sessions and approvals | `Begin`, `Read`, `Apply` cut `fetchAll`; `Handle` is `handleWS`, by message; `Click`, `Answer` what the user does; the relay's handlers are two steps, a change of rows and a `Broadcast`, which follows a statement that failed as well where the handler ignores its error (`ChangeAndTell`); `ChangeSilently` are the changes nobody is told of |
| `OneDecision`, `SessionLife`, `OutputLog`, `Membership` | what `Approvals`, `Sessions`, `PtyOutput` and `Enrolment` promise, without messages, goroutines and faults | - |
| `HubProofs`, `SessionsProofs`, `SessionsReliableProofs`, `ApprovalsProofs`, `EnrolmentProofs`, `PtyOutputProofs`, `KeysProofs`, `DashboardProofs` | theorems | - |
| `MCHub`, `MCSessions`, `MCApprovals`, `MCEnrolment`, `MCPtyOutput`, `MCKeys`, `MCDashboard` | instances for TLC | - |

How state corresponds to code is said at each variable's declaration. What the
modules have in common:

- A step is what no other goroutine can see the middle of: one SQL statement,
  one critical section, one channel operation, one message handled by a
  single goroutine on its own state. A handler is a sequence of such steps,
  with its place kept in `pc`, `at`, `pend` or `call`.
- Payloads are left out where no property reads them: in `Hub` a channel is
  the number of its messages; in `Sessions` a message is its type and
  session; in `Approvals` a request stands for its own token count; in
  `PtyOutput` a chunk is its position in the output.
- `Hub` knows nothing of sessions, `Sessions` has one host and `PtyOutput` one
  session. `Hub`, `Sessions` and `Approvals` meet in `SendToHost` and in the
  rows; `Sessions` abstracts the hub to the entry `reg` and a bounded queue
  per connection, and takes over from `Hub` that unregistering deletes
  whatever entry is there. `PtyOutput` has the daemon's channel and
  connections of `Sessions`, for frames of output. `Dashboard` has of the other
  modules what they do to the rows and what they broadcast afterwards.
- A refinement mapping stands at the end of the detailed module. A request's
  `outcome` is its row, and it is `told` once a decision has gone to a host or
  to the browsers. A session's `life` is read off the agent's goroutines, what
  is `shown` and `recorded` off its row. The `log` of output is the rows stored
  and the inserts that are still under way. To `Membership` a host is leaving
  from the moment its deletion was begun (`doomed`) until its row is deleted.
- `blown` and `outcome` (Hub), `asked`, `exited`, `listed` (Sessions), `seen`,
  `toHost`, `pushed`, `overtaken` (Approvals), `origin`, `doomed`, `cut` (Enrolment), `spoiled`
  and `epoch` (PtyOutput), `dropped` and `tty` (Keys), `clock`, `ver` and `known`
  (Dashboard) are histories: nothing reads them but the properties and, for
  `asked`, `seen`, `epoch` and `clock`, a bound.

## 3. What TLC checks

| Run | Instance | Shows |
|---|---|---|
| `hub_registry` | 2 connections of 1 host, 1 browser, 1 sender, channels of 1 | `RegisteredIsOpen`, `BroadcastNeverPanics`, `AtRestOffline` under every interleaving |
| `hub_liveness` | 1 connection of each kind, 1 sender | `NoGoroutineLeak`, with fairness |
| `sessions_reliable` | 2 sessions, 1 connection that never breaks | `QuietAgrees`, `ExitIsFinal`, `CreateSettles`, with fairness |
| `sessions_faults` | 1 session, 2 connections, an outgoing buffer of 1, every fault | `ExitIsTrue`, `RunningWasSpawned`, `RestoredByList`, `StartedOnce`, `ImplementsSessionLife` |
| `approvals_decide` | 2 requests of 1 session, the readers of 2 connections, 2 API calls, a browser that connects again and again, failing statements, restarts | `ImplementsOneDecision`, `ToldIsDecided`, `TokensCurrent` |
| `enrolment_flows` | 2 machines, 1 code, 1 invite, 2 hosts, 2 calls, every fault | `TokensAreKnown`, `OneMachinePerToken`, `InviteMakesOne`, `ToldIsDoomed`, `AuthorizedOnce`, `PollIsAnswered`, with fairness, `ImplementsMembership` |
| `pty_stream` | 3 chunks, 2 connections, a channel of 2, 2 losses of the counter | `NumbersDiffer`, `NumbersFollowOutput`, `OneSpoiled`, `ImplementsOutputLog` |
| `keys_setup` | 3 pages of 2 browsers, 1 set-up each, 3 pairs, 1 session, every fault | `StdinIsTyped`, `KeyIsHeld`, `CachedWasStored` |
| `dashboard_lists` | 1 object of each kind, 1 fetch at a time, 2 statements made or failed, a channel of 2, every fault | `ListsFollow` |
| `hub_panic` | *violation* | `SendToHost` can panic |
| `keys_plain` | *violation* | a session created with the user's key runs unencrypted |
| `pty_tail` | *violation* | a replay begins with the end of the output |

### The bounds, and why they are enough

- *Two connections of one host.* Everything that goes wrong with overlapping
  connections needs an old and a new one; a third would repeat the second. A
  connection identifier of `Hub` is used again once nothing of it is left, so
  sequences of connections of any length are covered. In `Sessions` a
  connection is used once: two give one reconnection, after any fault.
- *Channels of one message* (`SendCap`, 256 in the code) are empty and full,
  which is all the code asks of one. `HubCap` is 2 where all
  faults happen, for a create and a kill, and 1 in the other run;
  `OutCap` is 1 where it must overflow and 4 (both reports of both sessions)
  where it must not.
- *Two sessions* in the run without faults, as they share the queues; one in
  the run with all faults.
- *Two API calls* for every race of two; *two readers*, of an old and a new
  connection of one host, each with a request, so that they overlap at every
  step and a browser can be left with an older count; one of the two requests
  is encrypted, and one can be served while the other is decided. That the counts of two
  sessions do not mix is left to the proof.
- *Three chunks*, so that one is stored or numbered between two others; *two
  connections* number at once; a session_stopped and a restart each lose the
  counter. With `OutCap` at 2 the channel overflows.
- *Three pages of two browsers*: two tabs race for one IndexedDB, the other
  browser for the user's row. `Parsed` is what Go's parser may return for a
  P-256 key. It returns `"ecdsa"` only, and `keys_plain` says so; `keys_setup`
  has `"ecdh"` as well, because its properties are about sessions that have
  a key as much as about those that have none.
- *One object of each kind* in `Dashboard`: objects meet only in host_deleted
  and in the one list an answer replaces. *One fetch* that may be late for any
  number of messages and changes; the proof covers any number of them at once.
  *Two statements* suffice for an answer, a message and a click to disagree,
  for a host with a session to be deleted, and for a change to follow one that
  failed and was announced; *a channel of two* can be full.
- *Two machines, two host records*: `HostsLeft` lets a call that creates a
  host begin only while a record is left for it.
- `KillSession` has its bound in the guard (one kill per session); a session,
  a request, a code and an invite are created once.
- Deadlock is checked in `Hub` and `Approvals`. In `Sessions`,
  `Enrolment`, `PtyOutput`, `Keys` and `Dashboard` the system may stop: when all
  sessions are over, all codes are used, all output is stored, or the bound on
  the changes of rows is reached.

### Fairness

- `Hub`: a goroutine that can go on does (WF). Handlers that want the write
  lock get it (SF): `sync.RWMutex` lets no new reader in while a writer waits.
  A broken connection is noticed: both readers have a read deadline, both
  writers ping. Nothing is assumed of new connections or of agents.
- `Sessions`: handlers, goroutines and the daemon's loops go on (WF). Users,
  exits and faults are free. Only used without faults.
- `Enrolment`: calls that are under way go on; the CLI polls until its
  deadline (SF, as a call slot may be taken by others); the two queries of a
  poll are not hit by a fault every time (SF).

## 4. What is proved

For any number of hosts, connections, browsers, users and senders and any
channel capacity (`HubProofs`, from the assumptions of `Hub`): `TypeOK`,
`RegisteredIsOpen`, `BroadcastNeverPanics`, `AtRestOffline`. None is inductive.
The invariant `IInv` adds: which program counters belong to a connection in a
map, to an open channel and to a host stored online, and that the browsers a
broadcast has still to visit are registered, which holds because whoever
unregisters one waits for the lock.

For any number of sessions and connections, any capacities and any set of
faults (`SessionsProofs`): `TypeOK`, `ExitIsTrue`, `RunningWasSpawned`,
`RestoredByList`, `StartedOnce`. The invariant `IInv` says of each message in
flight what it presupposes: a create on its way means that the agent has not
heard of the session and that there is no second one; a started that the
process was spawned and pooled; a stopped that it is gone for good; a list that
its sessions were put in the pool.

`ExitIsFinal` is proved (`SessionsReliableProofs`) for any sets and capacities under the assumption that no
connection breaks and neither program dies (`Faults` within {cancel}), as in
`sessions_reliable`. `FinalInv` adds what that rests on: there is one connection,
whose list was sent before any session, and on the path from `outQ` over it to
`exited` no started of a session comes behind its stopped. With breaks it does
not hold: a started still unread on the old connection can be read after the
stopped that came on the new one.

`QuietAgrees` is proved in the same module for `Faults` = {}: when nothing is
under way, rows and processes agree. `QuietInv` says of every session where that
which the relay has still to learn is: with the API call, in the create on its
way, in the phase the agent is in, or in a report between `outQ` and the end of
the connection. That report must not be dropped, which the two theorems secure
in different ways: `RowsAgreeUnlessDropped` for any capacities, of the behaviours
that drop none; `RowsAgree` from `OutCap` >= 2 * `Cardinality(Session)`, because a
session sends two reports at most, so that the reports in `outQ` are all
different and there is always room for one more. The code has room for 256. Nor
may a request be cancelled: the failed create whose clean-up fails with it leaves
its row at starting for good.

For any number of requests, sessions, connections of hosts, browsers and API
calls (`ApprovalsProofs`): `TypeOK`, `ToldIsDecided`, `DecidedOnce`,
`TokensCurrent`. `DecisionInv` adds what a call has in hand once it is past its
update (a row that is decided) and that a request's row is not there before
its insert, so that a late insert overwrites nothing. `TokenInv` adds that what
a browser has still to be sent is what the map holds, which is so because
nobody writes the map while one holds its lock for reading; and that the last
count put in its channel is the map's, unless the reader that wrote the map has
still to broadcast it, or it is a count that came out when the map held another
(`overtaken`). That a request that is shown has a row does not hold, and is not
stated.

For any number of machines, codes, invites, hosts and calls and any set of
faults (`EnrolmentProofs`): `TypeOK`, `TokensAreKnown`, `InviteMakesOne`,
`ToldIsDoomed`, `AuthorizedOnce`, `OneMachinePerToken`. `IInv` adds that each call cut between two
statements refers to a code, a client and a host with a row; that each command
that waits has a call that serves it; and that an invite is in memory, or
with one call, or behind one host. `OneMachinePerToken` needs more than that,
since a token passes from a row to a call, a file and a daemon: `UseInv` says that a
token is of a host made for the code or the invite it came by, and that each of
those has one machine to do with it (`Uses`: its command asks for it, a call serves
it, or it has a token of it), and none before it is given out. The bound `HostsLeft` is not used: the
theorems hold without it.

For any number of connections and chunks and any capacity (`PtyOutputProofs`):
`TypeOK`, `NumbersDiffer`, `NumbersFollowOutput`, `OneSpoiled`. `IInv` follows a chunk
through the channel, the connections and the relay: what comes first in the
output is ahead on its way, whatever is numbered is ahead of what is not,
and no number is ahead of the counter that gave it. `SpoiledIsLast` is why one
chunk at most is spoiled: none is read once the PTY is closed.

For any number of browsers, pages, set-ups, sessions and pairs, any set of faults
and whatever the parser returns (`KeysProofs`): `TypeOK`, `StdinIsTyped`,
`KeyIsHeld`, `CachedWasStored`, of which `KeyIsHeld` leaves out the pairs that were
replaced, refused or lost with a page (`dropped`). `IInv` adds that no two calls have one pair in hand,
that a pair whose PUT is still to come is neither in the row nor on its way
there, that a call derives from a pair that was stored, and that an ephemeral
key is announced only of a session whose agent has a key while it runs.

For any number of hosts, sessions, requests, concurrent fetches and changes of the
rows, and any capacity (`DashboardProofs`): `TypeOK`, `ListsFollow`. `IInv` says that each
entry is what the row was in the version `known` gives it, that messages,
answers and fetches are each of a version the row has had, but for the
announcements of what failed, and that for every object one of these is true: the last version is known; it is on its way, in
a broadcast, in the channel, or by a fetch that has still to read it or has read
it; the page is not connected, and will fetch when it is; or the
page was misled. Each of the ways a page can lose sight of a version is one
step of the proof that this is kept. For `TypeOK` there is added what keeps a status
with its kind of object: a message names one object of its kind, a fetch holds
entries of the lists it asked for, and a call that kills or creates is about a session.

Refinement, for every value of the constants: `Approvals` implements
`OneDecision`, `Sessions` implements `SessionLife`, `PtyOutput` implements
`OutputLog` and `Enrolment` implements `Membership`. Each `Refinement` theorem maps the initial states and shows, action
by action and from the inductive invariant, that a step is a step of the
abstract module or none of its variables changes.

Each proof has a lemma that the initial states satisfy the invariant, a lemma
per group of actions with one step per action, and a theorem that puts them
together with the temporal rules.

Only model-checked: the liveness properties (`NoGoroutineLeak`,
`CreateSettles`, `PollIsAnswered`), which TLAPS cannot prove under fairness. Every
safety property of a run that passes is proved.

## 5. Where the code does not do what it says

Three runs end in a counterexample; `PROJECT.json` has them under `findings`. The
most far-reaching is `keys_plain`: `ParsePublicKeySPKI` (e2e.go:46) expects an
`*ecdh.PublicKey` from `x509.ParsePKIXPublicKey`, which returns one for X25519
only and an `*ecdsa.PublicKey` for the P-256 keys that browsers register. The
derivation always fails and every session runs unencrypted, while
session.go:65-67 says that output and stdin are encrypted once the user has a key.

The following were met while modelling; the modules contain them, and the
properties that are proved leave them out. Three of them are stated as
invariants that TLC refutes at once, on the smallest instance with the
interleaving: `Hub!ConnectedIsRoutable`, `Sessions!PoolIsRunning` and
`Approvals!PushedIsStored`.

- `Hub`: the handler of an old connection deletes the entry of the new one
  (hub.go:107), and a host that is connected cannot be reached until it
  connects once more (`ConnectedIsRoutable`). `UnregisterHost` looks up the user
  to notify in the map it has just deleted the host from, finds nobody and
  tells nobody, although its comment (hub.go:104) says that it "notifies browser
  clients". When a newer connection's entry is found instead, the message is
  encoded twice and the dashboard ignores it (`NotifyOffline`).
- `Sessions`: the `wsWriter` of a broken connection goes on taking from the
  channel it shares with its successor (daemon.go:173); a report it takes
  after the reconnection's session_list is lost, and a session that runs is not
  shown running (`PoolIsRunning`).
- `Approvals`: of two calls that decide differently the second changes no row
  (api_handlers.go:334), and delivers and pushes its decision all the same
  (`PushedIsStored`).
- `PtyOutput`: a relay restart starts the numbers again from 1, so a later replay
  mixes what came before with what came after. The report of an exit may be
  dropped because the channel is full of output.
- `Sessions`: a kill or a delete that overtakes the asynchronous start leaves a
  process nobody sees (`handleDeleteSession` says it kills it). A
  session_stopped lost with its connection leaves its row at running until
  the relay restarts. A create that fails with a cancelled request stays at
  starting.
- `Approvals`: an encrypted request is never stored (its clear columns are NOT
  NULL), nor is one whose session is not found or whose insert fails, as the
  errors are ignored (ws_handlers.go:80, 83); all are announced all the same
  (hub.go:444) and cannot be resolved. Two connections of one host have a
  reader each. A token count is stored under a lock and broadcast outside it
  (hub.go:422-435): a browser keeps the older count when the new reader stores and
  broadcasts between the two steps of the old one. `TokensCurrent` leaves out
  just this count. A request resolved before its channel is
  registered leaves the channel in the map for good. When the client of a
  decision goes away after the update, the host is not told.
- `Enrolment`: two calls that authorize one code create two hosts. A token whose
  answer is lost is gone: the next poll is answered 410. Two overlapping polls
  may both read the token. `host_removed` deletes the token of a newer
  enrolment. A daemon that is offline when its host is deleted is never told,
  and one whose host's deletion fails afterwards has uninstalled itself.

- `Keys`: a page never has the password when it sets up its keys, as `showApp`
  navigates first, so that no private key is ever wrapped: a second browser
  generates a pair of its own and replaces the user's public key, against
  app.js:951-952 ("allowing any browser to reconstruct the keypair after login").
  Two tabs that set up at once, a page closed between the PUT and the store, or a
  store that IndexedDB refuses (app.js:1081), leave a public key whose private half
  is gone. `KeyIsHeld` leaves out just these three (`dropped`). A report of the ephemeral key that is lost is never repeated.
- `Dashboard`: `known` is `Astray` for what a page cannot know better. A fetch may
  replace what a message brought meanwhile (app.js:273). Between `onopen` and the
  relay's registration a page is told nothing and may have fetched already.
  Sessions created, killed or waiting for an approval on another page, and hosts that go offline,
  are announced to nobody. A request decided before it is announced is listed
  for good (hub.go:444). No answer counts as success for all callers but the one
  that creates (app.js:460). The answer to a create is put in front of the list
  whatever is in it (app.js:926). A session_stopped of a session that is not
  listed is dropped. The error of a statement is ignored by the handlers of agents
  (hub.go:330, 351, 362, ws_handlers.go:40, 83), and the pages are told of a change that
  no row has. awaiting_approval is written over whatever the row says
  (ws_handlers.go:94), told to nobody, and taken back by nobody.
- The terminal (not modelled): the events of a session that arrive after its
  terminal was closed and another one opened are written into that one
  (app.js:864), live frames that arrive before the replay come first and twice,
  and a replay misses a chunk whose insert is still under way.

## 6. What is not modelled

- The terminal, beyond keys and stdin: `openTerminal` orders neither the replay
  against live frames nor one terminal against the next; what is left is
  xterm.js.
- The daemon's backoff: a function of time, with no state shared. `Sessions` lets
  the agent dial at any moment.
- Login and cookies, settings, migrations: each request reads what it needs, and
  nothing is kept between requests but rows that are written once.
- The ciphers: in `Keys` and `PtyOutput` a key opens what it sealed and nothing
  else. JSON, framing, logging, service files, deployment scripts, collisions of
  user codes.
- In `Sessions`, the awaiting_approval that a request writes to the row of its
  session: nothing in src/ sends a request, and `Dashboard` has the status.
- In `Enrolment`, errors of the machine's own files and service manager. Each ends
  where another step of the module does: a token that cannot be written
  (install.go:446) is lost like one whose answer was lost; agent.json without
  a service (install.go:73) is what `uninstall` leaves; an agent.json that cannot
  be removed (daemon.go:258) holds the token of a deleted host, like that of a
  machine that was offline when its host was deleted.
- The limit of 50 sessions per list: a user of `Dashboard` has fewer. Pending
  devices are fetched like hosts and changed by no message.
