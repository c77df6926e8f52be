-------------------------------- MODULE Sessions --------------------------------
(***************************************************************************)
(* The life of the sessions of one host, from the API call that creates    *)
(* the row to the exit code the agent reports: the relay's handlers and    *)
(* database, the hub's entry for the host, successive connections of the   *)
(* agent, the agent's process pool and its outgoing buffer.                *)
(*                                                                         *)
(* A connection is a pair of message sequences; the relay's send channel   *)
(* and the network behind it are one sequence.  A connection breaks at     *)
(* most once and each end notices on its own: until then the relay may     *)
(* still read what was in flight, and after that it is lost.  Sessions     *)
(* and connections have fresh identifiers, so each is used once.           *)
(***************************************************************************)
EXTENDS Naturals, Sequences, FiniteSets

CONSTANTS
    Session,  \* session IDs
    Conn,     \* successive connections of the agent
    NoConn,   \* no connection
    HubCap,   \* messages the relay can have under way to a connection
    OutCap,   \* capacity of Daemon.send (256 in the code)
    Faults    \* "break", "restart", "crash", "cancel": the faults that may happen

ASSUME NoConnAssumption == NoConn \notin Conn
ASSUME CapAssumption == HubCap \in Nat \ {0} /\ OutCap \in Nat \ {0}
ASSUME FaultsAssumption == Faults \subseteq {"break", "restart", "crash", "cancel"}

VARIABLES
    row,      \* sessions.status, "none" before the row exists
    deleted,  \* sessions whose deleted_at is set
    exited,   \* sessions whose exit_code and stopped_at are set
    pend,     \* API calls under way: <<what is left to do, session>>
    asked,    \* sessions a user asked to kill
    reg,      \* Hub.hosts: the connection registered for the host
    srv,      \* the relay's handler of each connection
    net,      \* each connection: "new", "up" or "broken"
    toAgent,  \* messages from the relay to the agent
    toRelay,  \* messages from the agent to the relay
    cur,      \* Daemon.wsConn, the agent's connection
    writers,  \* connections whose wsWriter still runs
    outQ,     \* Daemon.send
    ag,       \* where the goroutines of each session are in the agent
    alive,    \* sessions whose process is running
    listed    \* history: sessions in the session_list handled on a connection

vars == <<row, deleted, exited, pend, asked, reg, srv, net, toAgent, toRelay,
          cur, writers, outQ, ag, alive, listed>>

db    == <<row, deleted, exited>>
api   == <<pend, asked>>
relay == <<reg, srv, listed>>
agent == <<cur, writers, outQ, ag, alive>>
wires == <<net, toAgent, toRelay>>

Op == {"create", "fail", "kill", "delete"}

\* start() and its exit goroutine: the create message was received; the PTY
\* runs; the session is in the pool; SessionStarted was sent; the session
\* has left the pool; SessionStopped was sent.  "failed": no process was
\* ever started.  "lost": the daemon died first.
Phase == {"none", "go", "spawned", "pooled", "announced", "removed", "done",
          "failed", "lost"}

\* sessionPool.sessions, which is also what activeIDs returns.
Pool == {s \in Session : ag[s] \in {"pooled", "announced"}}

ToAgentMsg == [type : {"create", "kill"}, s : Session]
Report     == [type : {"started", "stopped"}, s : Session]
List       == [type : {"list"}, ids : SUBSET Session]

Init ==
    /\ row = [s \in Session |-> "none"]
    /\ deleted = {}
    /\ exited = {}
    /\ pend = {}
    /\ asked = {}
    /\ reg = NoConn
    /\ srv = [c \in Conn |-> "none"]
    /\ net = [c \in Conn |-> "new"]
    /\ toAgent = [c \in Conn |-> << >>]
    /\ toRelay = [c \in Conn |-> << >>]
    /\ cur = NoConn
    /\ writers = {}
    /\ outQ = << >>
    /\ ag = [s \in Session |-> "none"]
    /\ alive = {}
    /\ listed = [c \in Conn |-> {}]

----------------------------------------------------------------------------
\* The API handlers.  Each database statement and each SendToHost is a step.

\* SendToHost: there is an entry and room in its channel.
CanSend == reg # NoConn /\ Len(toAgent[reg]) < HubCap

SendToHost(m) ==
    toAgent' = IF CanSend THEN [toAgent EXCEPT ![reg] = Append(@, m)] ELSE toAgent

\* GetSession finds the row.
Visible(s) == row[s] # "none" /\ s \notin deleted

SetStatus(s, st) == row' = [row EXCEPT ![s] = st]

CreateSession(s) ==
    /\ row[s] = "none"
    /\ SetStatus(s, "starting")
    /\ pend' = pend \cup {<<"create", s>>}
    /\ UNCHANGED <<deleted, exited, asked, relay, wires, agent>>

\* Mutation: the result of SendToHost is ignored.
SendCreateIgnoresResult(s) ==
    /\ <<"create", s>> \in pend
    /\ SendToHost([type |-> "create", s |-> s])
    /\ pend' = pend \ {<<"create", s>>}
    /\ UNCHANGED <<db, asked, relay, net, toRelay, agent>>

\* Mutation: the create is sent again after it was sent.
SendCreateAgain(s) ==
    /\ <<"create", s>> \in pend
    /\ SendToHost([type |-> "create", s |-> s])
    /\ UNCHANGED <<db, asked, pend, relay, net, toRelay, agent>>

SendCreate(s) ==
    /\ <<"create", s>> \in pend
    /\ SendToHost([type |-> "create", s |-> s])
    /\ pend' = (pend \ {<<"create", s>>}) \cup (IF CanSend THEN {} ELSE {<<"fail", s>>})
    /\ UNCHANGED <<db, asked, relay, net, toRelay, agent>>

FailCreate(s) ==
    /\ <<"fail", s>> \in pend
    /\ SetStatus(s, "error")
    /\ pend' = pend \ {<<"fail", s>>}
    /\ UNCHANGED <<deleted, exited, asked, relay, wires, agent>>

\* Bound: a session is killed by at most one API call.
KillSession(s) ==
    /\ Visible(s)
    /\ s \notin asked
    /\ asked' = asked \cup {s}
    /\ SendToHost([type |-> "kill", s |-> s])
    /\ pend' = pend \cup {<<"kill", s>>}
    /\ UNCHANGED <<db, relay, net, toRelay, agent>>

\* Mutation: the row gets the status of the response.
FinishKillAsKilled(s) ==
    /\ <<"kill", s>> \in pend
    /\ SetStatus(s, "killed")
    /\ pend' = pend \ {<<"kill", s>>}
    /\ UNCHANGED <<deleted, exited, asked, relay, wires, agent>>

FinishKill(s) ==
    /\ <<"kill", s>> \in pend
    /\ SetStatus(s, "stopped")
    /\ pend' = pend \ {<<"kill", s>>}
    /\ UNCHANGED <<deleted, exited, asked, relay, wires, agent>>

DeleteSession(s) ==
    /\ Visible(s)
    /\ <<"delete", s>> \notin pend
    /\ SendToHost([type |-> "kill", s |-> s])
    /\ pend' = pend \cup {<<"delete", s>>}
    /\ UNCHANGED <<db, asked, relay, net, toRelay, agent>>

FinishDelete(s) ==
    /\ <<"delete", s>> \in pend
    /\ deleted' = deleted \cup {s}
    /\ pend' = pend \ {<<"delete", s>>}
    /\ UNCHANGED <<row, exited, asked, relay, wires, agent>>

\* The client of an API call goes away: its context is cancelled, and the
\* database statement that is left fails.
ClientGone(s) ==
    /\ "cancel" \in Faults
    /\ \E op \in {"fail", "kill", "delete"} :
         /\ <<op, s>> \in pend
         /\ pend' = pend \ {<<op, s>>}
    /\ UNCHANGED <<db, asked, relay, wires, agent>>

----------------------------------------------------------------------------
\* The relay's side of a connection

RegisterHost(c) ==
    /\ net[c] # "new"
    /\ srv[c] = "none"
    /\ srv' = [srv EXCEPT ![c] = "reading"]
    /\ reg' = c
    /\ UNCHANGED <<db, api, listed, wires, agent>>

\* Mutation: only sessions that are not in error are restored.
RestoredRowsNotError(ids) ==
    [s \in Session |-> IF s \in ids /\ Visible(s) /\ row[s] # "error" THEN "running" ELSE row[s]]

\* The rows after a session_list: every session of it that GetSession finds.
\* The loop is one step: what another goroutine does between its statements
\* touches one row, before or after the statement that sets it.
RestoredRows(ids) ==
    [s \in Session |-> IF s \in ids /\ Visible(s) THEN "running" ELSE row[s]]

\* routeHostMessage on the next message of the connection.
Route(c) ==
    /\ srv[c] = "reading"
    /\ toRelay[c] # << >>
    /\ toRelay' = [toRelay EXCEPT ![c] = Tail(@)]
    /\ LET m == Head(toRelay[c]) IN
       \/ /\ m.type = "list"
          /\ row' = RestoredRows(m.ids)
          /\ listed' = [listed EXCEPT ![c] = m.ids]
          /\ UNCHANGED exited
       \/ /\ m.type = "started"
          /\ SetStatus(m.s, "running")
          /\ UNCHANGED <<exited, listed>>
       \/ /\ m.type = "stopped"
          /\ SetStatus(m.s, "stopped")
          /\ exited' = exited \cup {m.s}
          /\ UNCHANGED listed
    /\ UNCHANGED <<deleted, api, reg, srv, net, toAgent, agent>>

\* The reader fails: what was still in flight is lost, and the entry of the
\* host is deleted whichever connection it holds.
UnregisterHost(c) ==
    /\ srv[c] = "reading"
    /\ net[c] = "broken"
    /\ srv' = [srv EXCEPT ![c] = "gone"]
    /\ reg' = NoConn
    /\ toRelay' = [toRelay EXCEPT ![c] = << >>]
    /\ UNCHANGED <<db, api, listed, net, toAgent, agent>>

----------------------------------------------------------------------------
\* The agent's connection

\* Dial, then the session_list, before the reader and the writer start.
Connect(c) ==
    /\ cur = NoConn
    /\ net[c] = "new"
    /\ net' = [net EXCEPT ![c] = "up"]
    /\ cur' = c
    /\ toRelay' = [toRelay EXCEPT ![c] = <<[type |-> "list", ids |-> Pool]>>]
    /\ writers' = writers \cup {c}
    /\ UNCHANGED <<db, api, relay, toAgent, outQ, ag, alive>>

\* The reader or the writer reported an error; connect closes the
\* connection and returns, and does not wait for the other one.
Disconnect(c) ==
    /\ cur = c
    /\ net[c] = "broken"
    /\ cur' = NoConn
    /\ toAgent' = [toAgent EXCEPT ![c] = << >>]
    /\ UNCHANGED <<db, api, relay, net, toRelay, writers, outQ, ag, alive>>

\* handleRelayMessage on the next message: a create starts a goroutine, a
\* kill reaches only a process that is in the pool.
Receive(c) ==
    /\ cur = c
    /\ toAgent[c] # << >>
    /\ toAgent' = [toAgent EXCEPT ![c] = Tail(@)]
    /\ LET m == Head(toAgent[c]) IN
       \/ /\ m.type = "create"
          /\ ag' = [ag EXCEPT ![m.s] = "go"]
          /\ UNCHANGED alive
       \/ /\ m.type = "kill"
          /\ alive' = IF m.s \in Pool THEN alive \ {m.s} ELSE alive
          /\ UNCHANGED ag
    /\ UNCHANGED <<db, api, relay, net, toRelay, cur, writers, outQ>>

\* Mutation: the newest message is taken first.
WriterTakesNewest(c) ==
    /\ c \in writers
    /\ outQ # << >>
    /\ outQ' = SubSeq(outQ, 1, Len(outQ) - 1)
    /\ IF net[c] = "up"
         THEN /\ toRelay' = [toRelay EXCEPT ![c] = Append(@, outQ[Len(outQ)])]
              /\ UNCHANGED writers
         ELSE UNCHANGED toRelay /\ writers' = writers \ {c}
    /\ UNCHANGED <<db, api, relay, net, toAgent, cur, ag, alive>>

\* wsWriter of c takes a message.  It reaches the connection while that
\* works; otherwise it is lost, and the writer ends unless the kernel
\* still took it.
WriterTakes(c) ==
    /\ c \in writers
    /\ outQ # << >>
    /\ outQ' = Tail(outQ)
    /\ IF net[c] = "up"
         THEN toRelay' = [toRelay EXCEPT ![c] = Append(@, Head(outQ))] /\ UNCHANGED writers
         ELSE /\ UNCHANGED toRelay
              /\ \/ cur = c /\ UNCHANGED writers
                 \/ writers' = writers \ {c}
    /\ UNCHANGED <<db, api, relay, net, toAgent, cur, ag, alive>>

\* The ping of wsWriter fails.
WriterEnds(c) ==
    /\ c \in writers
    /\ net[c] = "broken"
    /\ writers' = writers \ {c}
    /\ UNCHANGED <<db, api, relay, wires, cur, outQ, ag, alive>>

----------------------------------------------------------------------------
\* The agent's sessions

\* sendToRelay drops the message when the buffer is full.
SendToRelay(m) == outQ' = IF Len(outQ) < OutCap THEN Append(outQ, m) ELSE outQ

Step(s, from, to) == ag[s] = from /\ ag' = [ag EXCEPT ![s] = to]

\* Mutation: nothing is reported when the PTY cannot be started.
SpawnFailsSilently(s) ==
    /\ Step(s, "go", "failed")
    /\ UNCHANGED <<db, api, relay, wires, cur, writers, outQ, alive>>

\* Mutation: the session is reported as started although the PTY was not.
SpawnFailsAsStarted(s) ==
    /\ Step(s, "go", "failed")
    /\ SendToRelay([type |-> "started", s |-> s])
    /\ UNCHANGED <<db, api, relay, wires, cur, writers, alive>>

SpawnFails(s) ==
    /\ Step(s, "go", "failed")
    /\ SendToRelay([type |-> "stopped", s |-> s])
    /\ UNCHANGED <<db, api, relay, wires, cur, writers, alive>>

Spawn(s) ==
    /\ Step(s, "go", "spawned")
    /\ alive' = alive \cup {s}
    /\ UNCHANGED <<db, api, relay, wires, cur, writers, outQ>>

AddToPool(s) ==
    /\ Step(s, "spawned", "pooled")
    /\ UNCHANGED <<db, api, relay, wires, cur, writers, outQ, alive>>

SendStarted(s) ==
    /\ Step(s, "pooled", "announced")
    /\ SendToRelay([type |-> "started", s |-> s])
    /\ UNCHANGED <<db, api, relay, wires, cur, writers, alive>>

\* The process exits by itself.
Exit(s) ==
    /\ s \in alive
    /\ alive' = alive \ {s}
    /\ UNCHANGED <<db, api, relay, wires, cur, writers, outQ, ag>>

\* Mutation: the exit goroutine does not wait for the process.
RemoveFromPoolEarly(s) ==
    /\ Step(s, "announced", "removed")
    /\ UNCHANGED <<db, api, relay, wires, cur, writers, outQ, alive>>

\* The exit goroutine: cmd.Wait has returned.
RemoveFromPool(s) ==
    /\ s \notin alive
    /\ Step(s, "announced", "removed")
    /\ UNCHANGED <<db, api, relay, wires, cur, writers, outQ, alive>>

SendStopped(s) ==
    /\ Step(s, "removed", "done")
    /\ SendToRelay([type |-> "stopped", s |-> s])
    /\ UNCHANGED <<db, api, relay, wires, cur, writers, alive>>

----------------------------------------------------------------------------
\* Faults

Break(c) ==
    /\ "break" \in Faults
    /\ net[c] = "up"
    /\ net' = [net EXCEPT ![c] = "broken"]
    /\ UNCHANGED <<db, api, relay, toAgent, toRelay, agent>>

BreakAll == net' = [c \in Conn |-> IF net[c] = "new" THEN "new" ELSE "broken"]

\* The relay stops and starts again: MarkStaleSessionsAsError.
RestartRelay ==
    /\ "restart" \in Faults
    /\ row' = [s \in Session |->
                  IF row[s] \in {"starting", "running"} /\ s \notin deleted
                    THEN "error" ELSE row[s]]
    /\ pend' = {}
    /\ reg' = NoConn
    /\ srv' = [c \in Conn |-> IF net[c] = "new" THEN "none" ELSE "gone"]
    /\ toRelay' = [c \in Conn |-> << >>]
    /\ BreakAll
    /\ UNCHANGED <<deleted, exited, asked, listed, toAgent, agent>>

\* The daemon dies, and its PTYs and their processes with it.
CrashAgent ==
    /\ "crash" \in Faults
    /\ ag' = [s \in Session |->
                CASE ag[s] = "go" -> "failed"
                  [] ag[s] \in {"spawned", "pooled", "announced", "removed"} -> "lost"
                  [] OTHER -> ag[s]]
    /\ alive' = {}
    /\ outQ' = << >>
    /\ cur' = NoConn
    /\ writers' = {}
    /\ toAgent' = [c \in Conn |-> IF c = cur THEN << >> ELSE toAgent[c]]
    /\ BreakAll
    /\ UNCHANGED <<db, api, relay, toRelay>>

----------------------------------------------------------------------------
Api(s) ==
    \/ CreateSession(s) \/ SendCreate(s) \/ FailCreate(s)
    \/ KillSession(s) \/ FinishKill(s) \/ DeleteSession(s) \/ FinishDelete(s)
    \/ ClientGone(s)

Goroutines(s) ==
    \/ SpawnFails(s) \/ Spawn(s) \/ AddToPool(s) \/ SendStarted(s)
    \/ RemoveFromPool(s) \/ SendStopped(s)

Connection(c) ==
    \/ RegisterHost(c) \/ Route(c) \/ UnregisterHost(c)
    \/ Connect(c) \/ Disconnect(c) \/ Receive(c) \/ WriterTakes(c) \/ WriterEnds(c)

Next ==
    \/ \E s \in Session : Api(s) \/ Goroutines(s) \/ Exit(s)
    \/ \E c \in Conn : Connection(c) \/ Break(c)
    \/ RestartRelay
    \/ CrashAgent

Spec == Init /\ [][Next]_vars

\* Handlers and goroutines that can go on do; the agent dials again for ever;
\* both ends notice a broken connection.  Users, exits and faults are free.
Fairness ==
    /\ \A s \in Session : /\ WF_vars(SendCreate(s)) /\ WF_vars(FailCreate(s))
                          /\ WF_vars(FinishKill(s)) /\ WF_vars(FinishDelete(s))
                          /\ WF_vars(Goroutines(s))
    /\ \A c \in Conn : /\ WF_vars(RegisterHost(c)) /\ WF_vars(Route(c))
                       /\ WF_vars(UnregisterHost(c)) /\ WF_vars(Connect(c))
                       /\ WF_vars(Disconnect(c)) /\ WF_vars(Receive(c))
                       /\ WF_vars(WriterTakes(c)) /\ WF_vars(WriterEnds(c))

FairSpec == Spec /\ Fairness

----------------------------------------------------------------------------
\* Properties

TypeOK ==
    /\ row \in [Session -> {"none", "starting", "running", "stopped", "error"}]
    /\ deleted \in SUBSET Session
    /\ exited \in SUBSET Session
    /\ pend \in SUBSET (Op \X Session)
    /\ asked \in SUBSET Session
    /\ reg \in Conn \cup {NoConn}
    /\ srv \in [Conn -> {"none", "reading", "gone"}]
    /\ net \in [Conn -> {"new", "up", "broken"}]
    /\ toAgent \in [Conn -> Seq(ToAgentMsg)]
    /\ toRelay \in [Conn -> Seq(List \cup Report)]
    /\ cur \in Conn \cup {NoConn}
    /\ writers \in SUBSET Conn
    /\ outQ \in Seq(Report)
    /\ ag \in [Session -> Phase]
    /\ alive \in SUBSET Session
    /\ listed \in [Conn -> SUBSET Session]

\* An exit code is recorded only for a process that is gone for good: no
\* process runs, or is in the pool, whose row says how it ended, whatever
\* the connections and the two programs went through meanwhile.
ExitIsTrue == \A s \in exited : s \notin alive /\ s \notin Pool /\ ag[s] # "go"

\* A row says "running" only if the agent did start the process.
RunningWasSpawned ==
    \A s \in Session : row[s] = "running" => ag[s] \notin {"none", "go", "failed"}

\* A session is started once: no session_create reaches the agent's
\* goroutines a second time, after any reconnection or restart.
StartedOnce ==
    [][\A s \in Session : ag'[s] = "go" => ag[s] \in {"none", "go"}]_vars

\* What session_list is for (messages.go:33-35): a session reported on the
\* working connection and still in the pool is shown running, unless a user
\* killed or deleted it, although a restart had set it to "error".
RestoredByList ==
    \A c \in Conn, s \in Session :
        (net[c] = "up" /\ s \in listed[c] \cap Pool /\ s \notin asked \cup deleted)
            => row[s] = "running"

\* Nothing is left to happen but a new request or the end of a process.
Quiet ==
    /\ pend = {} /\ outQ = << >>
    /\ cur # NoConn /\ net[cur] = "up" /\ reg = cur
    /\ \A c \in Conn : toRelay[c] = << >> /\ toAgent[c] = << >>
    /\ \A s \in Session : ag[s] \in {"none", "announced", "done", "failed"}
    /\ \A s \in Session : ag[s] = "announced" => s \in alive

\* With nothing under way, the rows agree with the processes: a row is
\* "starting" or "running" only for a live process, a process that is alive
\* is shown running unless a user killed it, and one that ended is stopped.
QuietAgrees ==
    Quiet => \A s \in Session \ deleted :
        /\ row[s] \in {"starting", "running"} => s \in alive
        /\ s \in alive \ asked => row[s] = "running"
        /\ ag[s] \in {"done", "failed"} => row[s] = "stopped"

\* A recorded exit is final: the row of a process that ended is never shown
\* running again.
ExitIsFinal == [][\A s \in exited : row'[s] = "running" => row[s] = "running"]_vars

\* Every session that was created leaves "starting".
CreateSettles == \A s \in Session : row[s] = "starting" ~> row[s] # "starting"

\* daemon.go:139-140 "Report active sessions so the server can restore their
\* status after a restart": with nothing under way on a working connection,
\* a process nobody killed is shown running.
PoolIsRunning ==
    Quiet => \A s \in Pool \ (asked \cup deleted) : row[s] = "running"

\* What became of the process of a session.
Life(s) ==
    IF s \in alive THEN "alive"
    ELSE IF ag[s] \in {"none", "go"} THEN "new"
    ELSE IF ag[s] = "failed" THEN "failed" ELSE "over"

Abstract == INSTANCE SessionLife WITH
    life <- [s \in Session |-> Life(s)],
    shown <- {s \in Session : row[s] = "running"},
    recorded <- exited

\* The relay and the agent, over connections that break and through their own
\* restarts, implement SessionLife: rows say running only of a process that
\* was started, and record an exit only when it is over.
ImplementsSessionLife == Abstract!Spec
============================================================================
