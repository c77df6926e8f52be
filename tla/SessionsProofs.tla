----------------------------- MODULE SessionsProofs -----------------------------
(***************************************************************************)
(* What holds of Sessions for any sets of sessions and connections, any    *)
(* buffer sizes and any faults: TypeOK, ExitIsTrue, RunningWasSpawned,     *)
(* StartedOnce and RestoredByList, from one inductive invariant.           *)
(*                                                                         *)
(* The argument: a session_create exists at most once (CreateOnce), so the *)
(* phase of a session only moves forward; hence a report that was true     *)
(* when the agent queued it is still true whenever the relay reads it      *)
(* (ReportsTrue), and the rows written from reports are true (RowsTrue).   *)
(***************************************************************************)
EXTENDS Sessions, TLAPS

----------------------------------------------------------------------------
\* The inductive invariant

\* The phases of a session that was put in the pool, and of one that ended.
WasPooled == {"pooled", "announced", "removed", "done", "lost"}
HasEnded  == {"done", "failed"}

Pooled(s) == ag[s] \in WasPooled
Ended(s) == ag[s] \in HasEnded

\* What message m reports is so when the phases of the sessions are a.
Truthful(a, m) ==
    /\ m.type = "list" => \A s \in m.ids : a[s] \in WasPooled
    /\ m.type = "started" => a[m.s] \in WasPooled
    /\ m.type = "stopped" => a[m.s] \in HasEnded

AllTrue(a, q) == \A i \in 1 .. Len(q) : Truthful(a, q[i])

ReportsTrue == AllTrue(ag, outQ) /\ \A c \in Conn : AllTrue(ag, toRelay[c])

\* A session_create for s is the i-th message on the way to c.
CreateAt(s, c, i) ==
    /\ i \in 1 .. Len(toAgent[c])
    /\ toAgent[c][i].type = "create"
    /\ toAgent[c][i].s = s

\* Before the goroutine starts there is at most one claim to start it: the
\* API call that has still to send, one message, or the call's failure.
CreateOnce ==
    /\ \A s \in Session : row[s] = "none" =>
          /\ ag[s] = "none" /\ <<"create", s>> \notin pend
          /\ \A c \in Conn : \A i \in Nat : ~CreateAt(s, c, i)
    /\ \A s \in Session : <<"create", s>> \in pend =>
          /\ ag[s] = "none"
          /\ \A c \in Conn : \A i \in Nat : ~CreateAt(s, c, i)
    /\ \A s \in Session : <<"fail", s>> \in pend =>
          /\ row[s] # "none" /\ ag[s] = "none" /\ <<"create", s>> \notin pend
          /\ \A c \in Conn : \A i \in Nat : ~CreateAt(s, c, i)
    /\ \A s \in Session : \A c \in Conn : \A i \in Nat : CreateAt(s, c, i) =>
          /\ ag[s] = "none"
          /\ \A d \in Conn : \A j \in Nat : CreateAt(s, d, j) => c = d /\ i = j

\* What the database and the pool say of the processes.
RowsTrue ==
    /\ \A s \in exited : Ended(s)
    /\ \A s \in Session : row[s] = "running" => Pooled(s)
    /\ \A s \in alive : ag[s] \in {"spawned", "pooled", "announced"}

\* What RestoredByList rests on besides.
ListsTrue ==
    /\ \A s \in Session : <<"kill", s>> \in pend => s \in asked
    /\ \A c \in Conn : net[c] = "new" => srv[c] = "none" /\ listed[c] = {}
    /\ \A c \in Conn : \A s \in listed[c] : Pooled(s)
    /\ RestoredByList

IInv == TypeOK /\ CreateOnce /\ ReportsTrue /\ RowsTrue /\ ListsTrue

----------------------------------------------------------------------------
\* Sequences: what Append adds and Tail leaves.

LEMMA AppendElems ==
    ASSUME NEW S, NEW q \in Seq(S), NEW m \in S
    PROVE  /\ Append(q, m) \in Seq(S)
           /\ Len(Append(q, m)) = Len(q) + 1
           /\ \A i \in 1 .. Len(q) : Append(q, m)[i] = q[i]
           /\ Append(q, m)[Len(q) + 1] = m
OBVIOUS

LEMMA TailElems ==
    ASSUME NEW S, NEW q \in Seq(S), q # << >>
    PROVE  /\ Head(q) \in S /\ Head(q) = q[1]
           /\ 1 \in 1 .. Len(q)
           /\ Tail(q) \in Seq(S)
           /\ Len(Tail(q)) = Len(q) - 1
           /\ \A i \in 1 .. Len(Tail(q)) : Tail(q)[i] = q[i + 1] /\ i + 1 \in 1 .. Len(q)
OBVIOUS

----------------------------------------------------------------------------
\* Type correctness

\* SendToHost keeps the type of the messages on the way to the agent.
LEMMA SendToHostType ==
    ASSUME TypeOK, NEW m \in ToAgentMsg, SendToHost(m)
    PROVE  toAgent' \in [Conn -> Seq(ToAgentMsg)]
<1>1. CASE CanSend
    <2>1. reg \in Conn
        BY <1>1 DEF TypeOK, CanSend
    <2>2. Append(toAgent[reg], m) \in Seq(ToAgentMsg)
        BY <2>1, AppendElems DEF TypeOK
    <2> QED
        BY <1>1, <2>1, <2>2 DEF TypeOK, SendToHost
<1>2. CASE ~CanSend
    BY <1>2 DEF TypeOK, SendToHost
<1> QED
    BY <1>1, <1>2

\* sendToRelay keeps the type of the outgoing buffer.
LEMMA SendToRelayType ==
    ASSUME TypeOK, NEW m \in Report, SendToRelay(m)
    PROVE  outQ' \in Seq(Report)
BY AppendElems DEF TypeOK, SendToRelay

\* The messages the code builds have their types.
LEMMA MessageTypes ==
    ASSUME NEW s \in Session
    PROVE  /\ [type |-> "create", s |-> s] \in ToAgentMsg
           /\ [type |-> "kill", s |-> s] \in ToAgentMsg
           /\ [type |-> "started", s |-> s] \in Report
           /\ [type |-> "stopped", s |-> s] \in Report
BY DEF ToAgentMsg, Report

\* What a message can carry, by its type.
LEMMA MessageFields ==
    /\ \A m \in List \cup Report :
          /\ m.type \in {"list", "started", "stopped"}
          /\ m.type = "list" => m.ids \in SUBSET Session
          /\ m.type # "list" => m.s \in Session
    /\ \A m \in ToAgentMsg : m.type \in {"create", "kill"} /\ m.s \in Session
BY DEF List, Report, ToAgentMsg

\* The initial states are well typed.
LEMMA TypeInit == Init => TypeOK
BY DEF Init, TypeOK, Phase

\* Every step keeps the types.
LEMMA TypeStep == TypeOK /\ [Next]_vars => TypeOK'
<1> SUFFICES ASSUME TypeOK, [Next]_vars PROVE TypeOK'
    OBVIOUS
<1> USE DEF TypeOK, db, api, relay, agent, wires, Op, Phase
<1>1. ASSUME NEW s \in Session, Api(s) PROVE TypeOK'
    <2>1. CASE CreateSession(s)
        BY <2>1 DEF CreateSession, SetStatus
    <2>2. CASE SendCreate(s)
        <3>1. toAgent' \in [Conn -> Seq(ToAgentMsg)]
            <4>1. SendToHost([type |-> "create", s |-> s])
                BY <2>2 DEF SendCreate
            <4> QED
                BY <4>1, SendToHostType, MessageTypes
        <3> QED
            BY <2>2, <3>1 DEF SendCreate
    <2>3. CASE FailCreate(s)
        BY <2>3 DEF FailCreate, SetStatus
    <2>4. CASE KillSession(s)
        <3>1. toAgent' \in [Conn -> Seq(ToAgentMsg)]
            <4>1. SendToHost([type |-> "kill", s |-> s])
                BY <2>4 DEF KillSession
            <4> QED
                BY <4>1, SendToHostType, MessageTypes
        <3> QED
            BY <2>4, <3>1 DEF KillSession
    <2>5. CASE FinishKill(s)
        BY <2>5 DEF FinishKill, SetStatus
    <2>6. CASE DeleteSession(s)
        <3>1. toAgent' \in [Conn -> Seq(ToAgentMsg)]
            <4>1. SendToHost([type |-> "kill", s |-> s])
                BY <2>6 DEF DeleteSession
            <4> QED
                BY <4>1, SendToHostType, MessageTypes
        <3> QED
            BY <2>6, <3>1 DEF DeleteSession
    <2>7. CASE FinishDelete(s)
        BY <2>7 DEF FinishDelete
    <2>8. CASE ClientGone(s)
        BY <2>8 DEF ClientGone
    <2> QED
        BY <1>1, <2>1, <2>2, <2>3, <2>4, <2>5, <2>6, <2>7, <2>8 DEF Api
<1>2. ASSUME NEW s \in Session, Goroutines(s) \/ Exit(s) PROVE TypeOK'
    <2>1. CASE SpawnFails(s)
        BY <2>1, SendToRelayType, MessageTypes DEF SpawnFails, Step
    <2>2. CASE Spawn(s)
        BY <2>2 DEF Spawn, Step
    <2>3. CASE AddToPool(s)
        BY <2>3 DEF AddToPool, Step
    <2>4. CASE SendStarted(s)
        BY <2>4, SendToRelayType, MessageTypes DEF SendStarted, Step
    <2>5. CASE RemoveFromPool(s)
        BY <2>5 DEF RemoveFromPool, Step
    <2>6. CASE SendStopped(s)
        BY <2>6, SendToRelayType, MessageTypes DEF SendStopped, Step
    <2>7. CASE Exit(s)
        BY <2>7 DEF Exit
    <2> QED
        BY <1>2, <2>1, <2>2, <2>3, <2>4, <2>5, <2>6, <2>7 DEF Goroutines
<1>3. ASSUME NEW c \in Conn, Connection(c) \/ Break(c) PROVE TypeOK'
    <2>1. CASE RegisterHost(c)
        BY <2>1 DEF RegisterHost
    <2>2. CASE Route(c)
        <3> DEFINE m == Head(toRelay[c])
        <3>1. /\ m \in List \cup Report
              /\ toRelay' \in [Conn -> Seq(List \cup Report)]
            BY <2>2, TailElems DEF Route
        <3>2. /\ row' \in [Session -> {"none", "starting", "running", "stopped", "error"}]
              /\ exited' \in SUBSET Session
              /\ listed' \in [Conn -> SUBSET Session]
            <4>1. CASE m.type = "list"
                BY <2>2, <3>1, <4>1, MessageFields DEF Route, RestoredRows
            <4>2. CASE m.type # "list"
                BY <2>2, <3>1, <4>2, MessageFields DEF Route, SetStatus
            <4> QED
                BY <4>1, <4>2
        <3> QED
            BY <2>2, <3>1, <3>2 DEF Route
    <2>3. CASE UnregisterHost(c)
        BY <2>3 DEF UnregisterHost
    <2>4. CASE Connect(c)
        BY <2>4 DEF Connect, List, Pool
    <2>5. CASE Disconnect(c)
        BY <2>5 DEF Disconnect
    <2>6. CASE Receive(c)
        <3> DEFINE m == Head(toAgent[c])
        <3>1. /\ m \in ToAgentMsg
              /\ toAgent' \in [Conn -> Seq(ToAgentMsg)]
            BY <2>6, TailElems DEF Receive
        <3>2. /\ ag' \in [Session -> Phase]
              /\ alive' \in SUBSET Session
            <4>1. m.s \in Session /\ m.type \in {"create", "kill"}
                BY <3>1, MessageFields
            <4>2. CASE m.type = "create"
                BY <2>6, <4>1, <4>2 DEF Receive
            <4>3. CASE m.type = "kill"
                BY <2>6, <4>1, <4>3 DEF Receive
            <4> QED
                BY <4>1, <4>2, <4>3
        <3> QED
            BY <2>6, <3>1, <3>2 DEF Receive
    <2>7. CASE WriterTakes(c)
        <3>1. /\ Head(outQ) \in List \cup Report
              /\ outQ' \in Seq(Report)
            BY <2>7, TailElems DEF WriterTakes
        <3>2. Append(toRelay[c], Head(outQ)) \in Seq(List \cup Report)
            BY <3>1, AppendElems
        <3>3. toRelay' \in [Conn -> Seq(List \cup Report)]
            BY <2>7, <3>2 DEF WriterTakes
        <3> QED
            BY <2>7, <3>1, <3>3 DEF WriterTakes
    <2>8. CASE WriterEnds(c)
        BY <2>8 DEF WriterEnds
    <2>9. CASE Break(c)
        BY <2>9 DEF Break
    <2> QED
        BY <1>3, <2>1, <2>2, <2>3, <2>4, <2>5, <2>6, <2>7, <2>8, <2>9 DEF Connection
<1>4. CASE RestartRelay
    BY <1>4 DEF RestartRelay, BreakAll
<1>5. CASE CrashAgent
    BY <1>5 DEF CrashAgent, BreakAll
<1>6. CASE UNCHANGED vars
    BY <1>6 DEF vars
<1> QED
    BY <1>1, <1>2, <1>3, <1>4, <1>5, <1>6 DEF Next

\* The variables keep their types in every behaviour.
THEOREM TypeCorrect == Spec => []TypeOK
BY TypeInit, TypeStep, PTL DEF Spec

----------------------------------------------------------------------------
\* A session is started at most once

\* Steps that add no claim to start a session keep CreateOnce.
LEMMA NoNewClaim ==
    ASSUME CreateOnce,
           \A s \in Session : row'[s] = "none" => row[s] = "none",
           \A s \in Session : ag[s] = "none" => ag'[s] = "none",
           \A s \in Session : <<"create", s>> \in pend' => <<"create", s>> \in pend,
           \A s \in Session : <<"fail", s>> \in pend' => <<"fail", s>> \in pend,
           \A s \in Session, c \in Conn, i \in Nat : CreateAt(s, c, i)' => CreateAt(s, c, i)
    PROVE  CreateOnce'
BY DEF CreateOnce

\* Sending a message that is no create adds no create.
LEMMA KillIsNoCreate ==
    ASSUME TypeOK, NEW k \in Session, SendToHost([type |-> "kill", s |-> k]),
           NEW s \in Session, NEW c \in Conn, NEW i \in Nat, CreateAt(s, c, i)'
    PROVE  CreateAt(s, c, i)
<1> DEFINE m == [type |-> "kill", s |-> k]
<1>1. CASE CanSend /\ c = reg
    <2>1. toAgent[c] \in Seq(ToAgentMsg) /\ m \in ToAgentMsg
        BY MessageTypes DEF TypeOK
    <2>2. toAgent'[c] = Append(toAgent[c], m)
        BY <1>1 DEF SendToHost, TypeOK
    <2>3. /\ Len(toAgent'[c]) = Len(toAgent[c]) + 1
          /\ \A j \in 1 .. Len(toAgent[c]) : toAgent'[c][j] = toAgent[c][j]
          /\ toAgent'[c][Len(toAgent[c]) + 1] = m
        BY <2>1, <2>2, AppendElems
    <2>4. Len(toAgent[c]) \in Nat
        BY <2>1
    <2>5. i # Len(toAgent[c]) + 1
        BY <2>3 DEF CreateAt
    <2> QED
        BY <2>3, <2>4, <2>5 DEF CreateAt
<1>2. CASE ~(CanSend /\ c = reg)
    <2>1. toAgent'[c] = toAgent[c]
        BY <1>2 DEF SendToHost, TypeOK
    <2> QED
        BY <2>1 DEF CreateAt
<1> QED
    BY <1>1, <1>2

\* The create for k that SendToHost appends is the one for s at i on c.
NewCreate(k, s, c, i) == CanSend /\ s = k /\ c = reg /\ i = Len(toAgent[reg]) + 1

\* Sending the create of s adds one message, and only when it is accepted.
LEMMA CreateIsOne ==
    ASSUME TypeOK, NEW k \in Session, SendToHost([type |-> "create", s |-> k]),
           NEW s \in Session, NEW c \in Conn, NEW i \in Nat, CreateAt(s, c, i)'
    PROVE  CreateAt(s, c, i) \/ NewCreate(k, s, c, i)
<1> DEFINE m == [type |-> "create", s |-> k]
<1>1. CASE CanSend /\ c = reg
    <2>1. toAgent[c] \in Seq(ToAgentMsg) /\ m \in ToAgentMsg
        BY MessageTypes DEF TypeOK
    <2>2. toAgent'[c] = Append(toAgent[c], m)
        BY <1>1 DEF SendToHost, TypeOK
    <2>3. /\ Len(toAgent'[c]) = Len(toAgent[c]) + 1
          /\ \A j \in 1 .. Len(toAgent[c]) : toAgent'[c][j] = toAgent[c][j]
          /\ toAgent'[c][Len(toAgent[c]) + 1] = m
        BY <2>1, <2>2, AppendElems
    <2>4. Len(toAgent[c]) \in Nat
        BY <2>1
    <2>5. CASE i = Len(toAgent[c]) + 1
        BY <1>1, <2>3, <2>5 DEF CreateAt, NewCreate
    <2>6. CASE i # Len(toAgent[c]) + 1
        BY <2>3, <2>4, <2>6 DEF CreateAt
    <2> QED
        BY <2>5, <2>6
<1>2. CASE ~(CanSend /\ c = reg)
    <2>1. toAgent'[c] = toAgent[c]
        BY <1>2 DEF SendToHost, TypeOK
    <2> QED
        BY <2>1 DEF CreateAt
<1> QED
    BY <1>1, <1>2

\* Receiving moves every other message one place forward.
LEMMA ReceiveShifts ==
    ASSUME TypeOK, NEW d \in Conn, Receive(d),
           NEW s \in Session, NEW c \in Conn, NEW i \in Nat, CreateAt(s, c, i)'
    PROVE  IF c = d THEN CreateAt(s, c, i + 1) ELSE CreateAt(s, c, i)
<1>1. CASE c = d
    <2>1. toAgent[c] \in Seq(ToAgentMsg) /\ toAgent[c] # << >>
        BY <1>1 DEF TypeOK, Receive
    <2>2. toAgent'[c] = Tail(toAgent[c])
        BY <1>1 DEF TypeOK, Receive
    <2> QED
        BY <1>1, <2>1, <2>2, TailElems DEF CreateAt
<1>2. CASE c # d
    <2>1. toAgent'[c] = toAgent[c]
        BY <1>2 DEF TypeOK, Receive
    <2> QED
        BY <1>2, <2>1 DEF CreateAt
<1> QED
    BY <1>1, <1>2

\* A create message that is received is the first one on its connection.
LEMMA ReceivedCreate ==
    ASSUME TypeOK, NEW d \in Conn, Receive(d), Head(toAgent[d]).type = "create"
    PROVE  /\ Head(toAgent[d]).s \in Session
           /\ CreateAt(Head(toAgent[d]).s, d, 1)
<1>1. toAgent[d] \in Seq(ToAgentMsg) /\ toAgent[d] # << >>
    BY DEF TypeOK, Receive
<1> QED
    BY <1>1, TailElems, MessageFields DEF CreateAt

\* Every step keeps CreateOnce.
LEMMA CreateOnceStep ==
    ASSUME TypeOK, CreateOnce, [Next]_vars
    PROVE  CreateOnce'
<1> USE DEF db, api, relay, agent, wires
<1>1. ASSUME NEW s \in Session, CreateSession(s) PROVE CreateOnce'
    <2>1. \A k \in Session, c \in Conn, i \in Nat : CreateAt(k, c, i)' <=> CreateAt(k, c, i)
        BY <1>1 DEF CreateSession, CreateAt
    <2>2. \A k \in Session \ {s} : row'[k] = row[k]
        BY <1>1 DEF CreateSession, SetStatus, TypeOK
    <2>3. row[s] = "none" /\ row'[s] = "starting"
        BY <1>1 DEF CreateSession, SetStatus, TypeOK
    <2>4. ag' = ag /\ pend' = pend \cup {<<"create", s>>}
        BY <1>1 DEF CreateSession
    <2> QED
        BY <2>1, <2>2, <2>3, <2>4 DEF CreateOnce
<1>2. ASSUME NEW s \in Session, SendCreate(s) PROVE CreateOnce'
    <2>1. SendToHost([type |-> "create", s |-> s]) /\ <<"create", s>> \in pend
        BY <1>2 DEF SendCreate
    <2>2. /\ ag' = ag /\ row' = row
          /\ pend' = (pend \ {<<"create", s>>}) \cup (IF CanSend THEN {} ELSE {<<"fail", s>>})
        BY <1>2 DEF SendCreate
    <2>3. /\ ag[s] = "none" /\ row[s] # "none" /\ <<"fail", s>> \notin pend
          /\ \A c \in Conn, i \in Nat : ~CreateAt(s, c, i)
        BY <2>1 DEF CreateOnce
    <2>4. \A k \in Session, c \in Conn, i \in Nat :
             CreateAt(k, c, i)' => CreateAt(k, c, i) \/ NewCreate(s, k, c, i)
        BY <2>1, CreateIsOne
    <2>5. CASE CanSend
        BY <2>2, <2>3, <2>4, <2>5 DEF CreateOnce, NewCreate
    <2>6. CASE ~CanSend
        BY <2>2, <2>3, <2>4, <2>6 DEF CreateOnce, NewCreate
    <2> QED
        BY <2>5, <2>6
<1>3. ASSUME NEW s \in Session, FailCreate(s) \/ FinishKill(s) \/ FinishDelete(s) \/ ClientGone(s)
      PROVE  CreateOnce'
    <2>1. \A k \in Session : row'[k] = "none" => row[k] = "none"
        BY <1>3 DEF FailCreate, FinishKill, FinishDelete, ClientGone, SetStatus, TypeOK
    <2>2. ag' = ag /\ toAgent' = toAgent /\ pend' \subseteq pend
        BY <1>3 DEF FailCreate, FinishKill, FinishDelete, ClientGone
    <2> QED
        BY <2>1, <2>2, NoNewClaim DEF CreateAt
<1>4. ASSUME NEW s \in Session, KillSession(s) \/ DeleteSession(s) PROVE CreateOnce'
    <2>1. SendToHost([type |-> "kill", s |-> s])
        BY <1>4 DEF KillSession, DeleteSession
    <2>2. \A k \in Session, c \in Conn, i \in Nat : CreateAt(k, c, i)' => CreateAt(k, c, i)
        BY <2>1, KillIsNoCreate
    <2>3. /\ ag' = ag /\ row' = row
          /\ pend' \subseteq pend \cup {<<"kill", s>>, <<"delete", s>>}
        BY <1>4 DEF KillSession, DeleteSession
    <2> QED
        BY <2>2, <2>3, NoNewClaim
<1>5. ASSUME NEW s \in Session, Goroutines(s) PROVE CreateOnce'
    <2>1. \A k \in Session : ag[k] = "none" => ag'[k] = "none"
        BY <1>5 DEF Goroutines, SpawnFails, Spawn, AddToPool, SendStarted,
                    RemoveFromPool, SendStopped, Step, TypeOK
    <2>2. row' = row /\ pend' = pend /\ toAgent' = toAgent
        BY <1>5 DEF Goroutines, SpawnFails, Spawn, AddToPool, SendStarted,
                    RemoveFromPool, SendStopped
    <2> QED
        BY <2>1, <2>2, NoNewClaim DEF CreateAt
<1>6. ASSUME NEW c \in Conn, Receive(c) PROVE CreateOnce'
    <2> DEFINE m == Head(toAgent[c])
    <2>1. row' = row /\ pend' = pend
        BY <1>6 DEF Receive
    <2>2. \A k \in Session, d \in Conn, i \in Nat : CreateAt(k, d, i)' =>
             IF d = c THEN CreateAt(k, d, i + 1) ELSE CreateAt(k, d, i)
        BY <1>6, ReceiveShifts
    <2>3. CASE m.type = "create"
        <3>0. PICK a \in Session : a = m.s
            BY <1>6, <2>3, ReceivedCreate
        <3>1. CreateAt(a, c, 1)
            BY <1>6, <2>3, <3>0, ReceivedCreate
        <3>2. /\ ag'[a] = "go"
              /\ \A k \in Session \ {a} : ag'[k] = ag[k]
            BY <1>6, <2>3, <3>0 DEF Receive, TypeOK
        <3>3. ASSUME NEW d \in Conn, NEW i \in Nat, CreateAt(a, d, i)' PROVE FALSE
            <4>1. i # 0
                BY <3>3 DEF CreateAt
            <4>2. IF d = c THEN CreateAt(a, d, i + 1) ELSE CreateAt(a, d, i)
                BY <2>2, <3>1, <3>3
            <4>3. \A e \in Conn, j \in Nat : CreateAt(a, e, j) => e = c /\ j = 1
                BY <3>1 DEF CreateOnce
            <4>4. CASE d = c
                <5>1. i + 1 \in Nat /\ CreateAt(a, d, i + 1)
                    BY <4>2, <4>4
                <5> QED
                    BY <4>1, <4>3, <5>1
            <4>5. CASE d # c
                BY <4>2, <4>3, <4>5
            <4> QED
                BY <4>4, <4>5
        <3>4. /\ row[a] # "none"
              /\ <<"create", a>> \notin pend /\ <<"fail", a>> \notin pend
            BY <3>1 DEF CreateOnce
        <3>5. \A k \in Session \ {a}, d \in Conn, i \in Nat : CreateAt(k, d, i)' =>
                 \A e \in Conn, j \in Nat : CreateAt(k, e, j)' => d = e /\ i = j
            BY <2>2 DEF CreateOnce
        <3>6. \A k \in Session, d \in Conn, i \in Nat : CreateAt(k, d, i)' =>
                 \E j \in Nat : CreateAt(k, d, j)
            BY <2>2
        <3>7. \A k \in Session \ {a} : (\A d \in Conn : \A i \in Nat : ~CreateAt(k, d, i))
                  => (\A d \in Conn : \A i \in Nat : ~CreateAt(k, d, i)')
            BY <3>6
        <3>8. \A k \in Session \ {a}, d \in Conn, i \in Nat : CreateAt(k, d, i)' => ag'[k] = "none"
            BY <3>2, <3>6 DEF CreateOnce
        <3>9. ASSUME NEW k \in Session
              PROVE  /\ row'[k] = "none" =>
                          /\ ag'[k] = "none" /\ <<"create", k>> \notin pend'
                          /\ \A d \in Conn : \A i \in Nat : ~CreateAt(k, d, i)'
                     /\ <<"create", k>> \in pend' =>
                          /\ ag'[k] = "none"
                          /\ \A d \in Conn : \A i \in Nat : ~CreateAt(k, d, i)'
                     /\ <<"fail", k>> \in pend' =>
                          /\ row'[k] # "none" /\ ag'[k] = "none" /\ <<"create", k>> \notin pend'
                          /\ \A d \in Conn : \A i \in Nat : ~CreateAt(k, d, i)'
                     /\ \A d \in Conn : \A i \in Nat : CreateAt(k, d, i)' =>
                          /\ ag'[k] = "none"
                          /\ \A e \in Conn : \A j \in Nat : CreateAt(k, e, j)' => d = e /\ i = j
            <4>1. CASE k = a
                <5>1. row'[k] # "none" /\ <<"create", k>> \notin pend' /\ <<"fail", k>> \notin pend'
                    BY <2>1, <3>4, <4>1
                <5>2. \A d \in Conn, i \in Nat : ~CreateAt(k, d, i)'
                    BY <3>3, <4>1
                <5> QED
                    BY <5>1, <5>2
            <4>2. CASE k # a
                <5>1. ag'[k] = ag[k] /\ row'[k] = row[k]
                    BY <2>1, <3>2, <4>2
                <5>2. (\A d \in Conn : \A i \in Nat : ~CreateAt(k, d, i))
                         => (\A d \in Conn : \A i \in Nat : ~CreateAt(k, d, i)')
                    BY <3>7, <4>2
                <5>3. \A d \in Conn, i \in Nat : CreateAt(k, d, i)' =>
                         /\ ag'[k] = "none"
                         /\ \A e \in Conn, j \in Nat : CreateAt(k, e, j)' => d = e /\ i = j
                    BY <3>5, <3>8, <4>2
                <5> QED
                    BY <2>1, <5>1, <5>2, <5>3 DEF CreateOnce
            <4> QED
                BY <4>1, <4>2
        <3> QED
            BY <3>9 DEF CreateOnce
    <2>4. CASE m.type # "create"
        <3>1. ag' = ag
            BY <1>6, <2>4 DEF Receive
        <3>2. \A k \in Session, d \in Conn, i \in Nat : CreateAt(k, d, i)' =>
                 /\ \E j \in Nat : CreateAt(k, d, j)
                 /\ \A e \in Conn, j \in Nat : CreateAt(k, e, j)' => d = e /\ i = j
            BY <2>2 DEF CreateOnce
        <3>3. \A k \in Session : (\A d \in Conn : \A i \in Nat : ~CreateAt(k, d, i))
                  => (\A d \in Conn : \A i \in Nat : ~CreateAt(k, d, i)')
            BY <3>2
        <3>4. \A k \in Session, d \in Conn, i \in Nat : CreateAt(k, d, i)' => ag'[k] = "none"
            BY <3>1, <3>2 DEF CreateOnce
        <3> QED
            BY <2>1, <3>1, <3>2, <3>3, <3>4 DEF CreateOnce
    <2> QED
        BY <2>3, <2>4
<1>7. ASSUME NEW c \in Conn, Route(c) PROVE CreateOnce'
    <2>1. \A k \in Session : row'[k] = "none" => row[k] = "none"
        BY <1>7 DEF Route, RestoredRows, SetStatus, TypeOK
    <2>2. ag' = ag /\ pend' = pend /\ toAgent' = toAgent
        BY <1>7 DEF Route
    <2> QED
        BY <2>1, <2>2, NoNewClaim DEF CreateAt
<1>8. ASSUME NEW c \in Conn, Disconnect(c) PROVE CreateOnce'
    <2>1. \A d \in Conn : toAgent'[d] = toAgent[d] \/ toAgent'[d] = << >>
        BY <1>8 DEF Disconnect, TypeOK
    <2>2. \A k \in Session, d \in Conn, i \in Nat : CreateAt(k, d, i)' => CreateAt(k, d, i)
        BY <2>1 DEF CreateAt
    <2>3. row' = row /\ ag' = ag /\ pend' = pend
        BY <1>8 DEF Disconnect
    <2> QED
        BY <2>2, <2>3, NoNewClaim
<1>9. CASE RestartRelay
    <2>1. /\ \A k \in Session : row'[k] = "none" => row[k] = "none"
          /\ pend' = {} /\ ag' = ag /\ toAgent' = toAgent
        BY <1>9 DEF RestartRelay, TypeOK
    <2> QED
        BY <2>1, NoNewClaim DEF CreateAt
<1>10. CASE CrashAgent
    <2>1. /\ \A k \in Session : ag[k] = "none" => ag'[k] = "none"
          /\ row' = row /\ pend' = pend
          /\ \A d \in Conn : toAgent'[d] = toAgent[d] \/ toAgent'[d] = << >>
        BY <1>10 DEF CrashAgent, TypeOK
    <2>2. \A k \in Session, d \in Conn, i \in Nat : CreateAt(k, d, i)' => CreateAt(k, d, i)
        BY <2>1 DEF CreateAt
    <2> QED
        BY <2>1, <2>2, NoNewClaim
<1>11. CASE UNCHANGED <<row, ag, pend, toAgent>>
    BY <1>11, NoNewClaim DEF CreateAt
<1>12. ASSUME NEW c \in Conn,
              RegisterHost(c) \/ UnregisterHost(c) \/ Connect(c) \/ WriterTakes(c)
                \/ WriterEnds(c) \/ Break(c)
       PROVE  UNCHANGED <<row, ag, pend, toAgent>>
    BY <1>12 DEF RegisterHost, UnregisterHost, Connect, WriterTakes, WriterEnds, Break
<1>13. ASSUME NEW s \in Session, Exit(s) PROVE UNCHANGED <<row, ag, pend, toAgent>>
    BY <1>13 DEF Exit
<1>14. CASE UNCHANGED vars
    BY <1>11, <1>14 DEF vars
<1> QED
    BY <1>1, <1>2, <1>3, <1>4, <1>5, <1>6, <1>7, <1>8, <1>9, <1>10, <1>11, <1>12,
       <1>13, <1>14 DEF Next, Api, Connection

\* The phase of a session only moves forward.
LEMMA PhaseForward ==
    ASSUME TypeOK, CreateOnce, [Next]_vars
    PROVE  \A s \in Session :
              /\ Pooled(s) => Pooled(s)'
              /\ Ended(s) => Ended(s)'
              /\ ag'[s] = "go" => ag[s] \in {"none", "go"}
<1> USE DEF Pooled, Ended, WasPooled, HasEnded, TypeOK
<1>1. ASSUME NEW c \in Conn, Receive(c), NEW s \in Session
      PROVE  ag'[s] = ag[s] \/ (ag[s] = "none" /\ ag'[s] = "go")
    <2> DEFINE m == Head(toAgent[c])
    <2>1. CASE m.type = "create"
        <3>1. PICK a \in Session : a = m.s
            BY <1>1, <2>1, ReceivedCreate
        <3>2. ag[a] = "none"
            <4>1. CreateAt(a, c, 1)
                BY <1>1, <2>1, <3>1, ReceivedCreate
            <4> QED
                BY <4>1 DEF CreateOnce
        <3>3. ag' = [ag EXCEPT ![a] = "go"]
            BY <1>1, <2>1, <3>1 DEF Receive
        <3> QED
            BY <3>2, <3>3
    <2>2. CASE m.type # "create"
        BY <1>1, <2>2 DEF Receive
    <2> QED
        BY <2>1, <2>2
<1>2. ASSUME NEW k \in Session, Goroutines(k), NEW s \in Session
      PROVE  /\ Pooled(s) => Pooled(s)'
             /\ Ended(s) => Ended(s)'
             /\ ag'[s] = "go" => ag[s] \in {"none", "go"}
    BY <1>2 DEF Goroutines, SpawnFails, Spawn, AddToPool, SendStarted,
                RemoveFromPool, SendStopped, Step
<1>3. ASSUME CrashAgent, NEW s \in Session
      PROVE  /\ Pooled(s) => Pooled(s)'
             /\ Ended(s) => Ended(s)'
             /\ ag'[s] = "go" => ag[s] \in {"none", "go"}
    BY <1>3 DEF CrashAgent
<1>4. CASE ag' = ag
    BY <1>4
<1>5. ASSUME NEW s \in Session, Api(s) \/ Exit(s) PROVE ag' = ag
    BY <1>5 DEF Api, CreateSession, SendCreate, FailCreate, KillSession, FinishKill,
                DeleteSession, FinishDelete, ClientGone, Exit, agent
<1>6. ASSUME NEW c \in Conn,
             RegisterHost(c) \/ Route(c) \/ UnregisterHost(c) \/ Connect(c) \/ Disconnect(c)
               \/ WriterTakes(c) \/ WriterEnds(c) \/ Break(c)
      PROVE  ag' = ag
    BY <1>6 DEF RegisterHost, Route, UnregisterHost, Connect, Disconnect, WriterTakes,
                WriterEnds, Break, agent
<1>7. CASE RestartRelay \/ UNCHANGED vars
    BY <1>4, <1>7 DEF RestartRelay, vars, agent
<1> QED
    BY <1>1, <1>2, <1>3, <1>4, <1>5, <1>6, <1>7 DEF Next, Connection

----------------------------------------------------------------------------
\* Reports stay true, and so do the rows written from them

\* Lists of true reports, taken from and added to.
LEMMA TrueSequences ==
    ASSUME NEW a, NEW q \in Seq(List \cup Report), AllTrue(a, q)
    PROVE  /\ q # << >> => Truthful(a, Head(q)) /\ AllTrue(a, Tail(q))
           /\ \A m \in List \cup Report : Truthful(a, m) => AllTrue(a, Append(q, m))
<1>1. ASSUME q # << >> PROVE Truthful(a, Head(q)) /\ AllTrue(a, Tail(q))
    <2>1. /\ Head(q) = q[1] /\ 1 \in 1 .. Len(q)
          /\ \A i \in 1 .. Len(Tail(q)) : Tail(q)[i] = q[i + 1] /\ i + 1 \in 1 .. Len(q)
        BY <1>1, TailElems
    <2> QED
        BY <2>1 DEF AllTrue
<1>2. ASSUME NEW m \in List \cup Report, Truthful(a, m) PROVE AllTrue(a, Append(q, m))
    <2>1. /\ Len(Append(q, m)) = Len(q) + 1
          /\ \A i \in 1 .. Len(q) : Append(q, m)[i] = q[i]
          /\ Append(q, m)[Len(q) + 1] = m
        BY AppendElems
    <2>2. Len(q) \in Nat
        OBVIOUS
    <2>3. \A i \in 1 .. Len(q) + 1 : i \in 1 .. Len(q) \/ i = Len(q) + 1
        BY <2>2
    <2> QED
        BY <1>2, <2>1, <2>3 DEF AllTrue
<1> QED
    BY <1>1, <1>2

\* True reports stay true.
LEMMA TruthLasts ==
    ASSUME TypeOK, CreateOnce, [Next]_vars,
           NEW q \in Seq(List \cup Report), AllTrue(ag, q)
    PROVE  AllTrue(ag', q)
<1> SUFFICES ASSUME NEW i \in 1 .. Len(q) PROVE Truthful(ag', q[i])
    BY DEF AllTrue
<1> DEFINE m == q[i]
<1>1. m \in List \cup Report /\ Truthful(ag, m)
    BY DEF AllTrue
<1>2. \A s \in Session :
         /\ ag[s] \in WasPooled => ag'[s] \in WasPooled
         /\ ag[s] \in HasEnded => ag'[s] \in HasEnded
    BY PhaseForward DEF Pooled, Ended
<1>3. /\ m.type = "list" => m.ids \in SUBSET Session
      /\ m.type \in {"started", "stopped"} => m.s \in Session
    BY <1>1, MessageFields
<1> HIDE DEF m
<1>4. Truthful(ag', m)
    BY <1>1, <1>2, <1>3 DEF Truthful
<1> QED
    BY <1>4 DEF m

\* Every message the agent sends is true when it is queued, and stays so.
LEMMA ReportsStep ==
    ASSUME TypeOK, TypeOK', CreateOnce, ReportsTrue, [Next]_vars
    PROVE  ReportsTrue'
<1> DEFINE M == List \cup Report
<1>1. /\ outQ \in Seq(M) /\ AllTrue(ag', outQ)
      /\ \A c \in Conn : toRelay[c] \in Seq(M) /\ AllTrue(ag', toRelay[c])
    <2>1. outQ \in Seq(M) /\ \A c \in Conn : toRelay[c] \in Seq(M)
        BY DEF TypeOK
    <2> QED
        BY <2>1, TruthLasts DEF ReportsTrue
<1>2. AllTrue(ag', << >>)
    BY DEF AllTrue
<1>3. ASSUME NEW s \in Session, Goroutines(s) PROVE AllTrue(ag', outQ') /\ toRelay' = toRelay
    <2>1. CASE SendStarted(s)
        <3>1. Truthful(ag', [type |-> "started", s |-> s])
            BY <2>1 DEF SendStarted, Step, Truthful, WasPooled, TypeOK
        <3> QED
            BY <1>1, <2>1, <3>1, TrueSequences, MessageTypes DEF SendStarted, SendToRelay, wires
    <2>2. CASE SpawnFails(s) \/ SendStopped(s)
        <3>1. Truthful(ag', [type |-> "stopped", s |-> s])
            BY <2>2 DEF SpawnFails, SendStopped, Step, Truthful, HasEnded, TypeOK
        <3> QED
            BY <1>1, <2>2, <3>1, TrueSequences, MessageTypes
               DEF SpawnFails, SendStopped, SendToRelay, wires
    <2>3. CASE Spawn(s) \/ AddToPool(s) \/ RemoveFromPool(s)
        BY <1>1, <2>3 DEF Spawn, AddToPool, RemoveFromPool, wires
    <2> QED
        BY <1>3, <2>1, <2>2, <2>3 DEF Goroutines
<1>4. ASSUME NEW c \in Conn, Route(c) \/ UnregisterHost(c)
      PROVE  outQ' = outQ /\ \A d \in Conn : AllTrue(ag', toRelay'[d])
    <2>1. outQ' = outQ
        BY <1>4 DEF Route, UnregisterHost, agent
    <2>2. CASE Route(c)
        BY <1>1, <2>1, <2>2, TrueSequences DEF Route, TypeOK
    <2>3. CASE UnregisterHost(c)
        BY <1>1, <1>2, <2>1, <2>3 DEF UnregisterHost, TypeOK
    <2> QED
        BY <1>4, <2>1, <2>2, <2>3
<1>5. ASSUME NEW c \in Conn, Connect(c)
      PROVE  outQ' = outQ /\ \A d \in Conn : AllTrue(ag', toRelay'[d])
    <2> DEFINE m == [type |-> "list", ids |-> Pool]
    <2>1. ag' = ag /\ outQ' = outQ /\ toRelay' = [toRelay EXCEPT ![c] = <<m>>]
        BY <1>5 DEF Connect
    <2>2. Truthful(ag', m)
        BY <2>1 DEF Truthful, Pool, WasPooled
    <2>3. AllTrue(ag', <<m>>)
        <3> HIDE DEF m
        <3> QED
            BY <2>2 DEF AllTrue
    <2> QED
        BY <1>1, <2>1, <2>3 DEF TypeOK
<1>6. ASSUME NEW c \in Conn, WriterTakes(c)
      PROVE  AllTrue(ag', outQ') /\ \A d \in Conn : AllTrue(ag', toRelay'[d])
    <2>1. outQ # << >> /\ outQ' = Tail(outQ)
        BY <1>6 DEF WriterTakes
    <2>2. /\ AllTrue(ag', outQ') /\ Truthful(ag', Head(outQ))
          /\ Head(outQ) \in M
        BY <1>1, <2>1, TrueSequences, TailElems
    <2>3. AllTrue(ag', Append(toRelay[c], Head(outQ)))
        BY <1>1, <2>2, TrueSequences
    <2>4. \/ toRelay' = toRelay
          \/ toRelay' = [toRelay EXCEPT ![c] = Append(@, Head(outQ))]
        BY <1>6 DEF WriterTakes
    <2> QED
        BY <1>1, <2>2, <2>3, <2>4 DEF TypeOK
<1>7. CASE RestartRelay
    BY <1>1, <1>2, <1>7 DEF RestartRelay, ReportsTrue, agent
<1>8. CASE CrashAgent
    BY <1>1, <1>2, <1>8 DEF CrashAgent, ReportsTrue
<1>9. CASE outQ' = outQ /\ toRelay' = toRelay
    BY <1>1, <1>9 DEF ReportsTrue
<1>10. ASSUME NEW s \in Session, Api(s) \/ Exit(s) PROVE outQ' = outQ /\ toRelay' = toRelay
    BY <1>10 DEF Api, CreateSession, SendCreate, FailCreate, KillSession, FinishKill,
                 DeleteSession, FinishDelete, ClientGone, Exit, agent, wires
<1>11. ASSUME NEW c \in Conn,
              RegisterHost(c) \/ Disconnect(c) \/ Receive(c) \/ WriterEnds(c) \/ Break(c)
       PROVE  outQ' = outQ /\ toRelay' = toRelay
    BY <1>11 DEF RegisterHost, Disconnect, Receive, WriterEnds, Break, agent, wires
<1>12. CASE UNCHANGED vars
    BY <1>9, <1>12 DEF vars
<1> QED
    BY <1>1, <1>3, <1>4, <1>5, <1>6, <1>7, <1>8, <1>9, <1>10, <1>11, <1>12
       DEF Next, Connection, ReportsTrue

\* The message the relay reads is true.
LEMMA RoutedIsTrue ==
    ASSUME TypeOK, ReportsTrue, NEW c \in Conn, Route(c)
    PROVE  /\ Head(toRelay[c]) \in List \cup Report
           /\ Truthful(ag, Head(toRelay[c]))
           /\ ag' = ag
<1>1. toRelay[c] \in Seq(List \cup Report) /\ toRelay[c] # << >>
    BY DEF TypeOK, Route
<1> QED
    BY <1>1, TailElems, TrueSequences DEF ReportsTrue, Route, agent

\* Rows are written from true reports, and processes end before they leave
\* the phases that have one.
LEMMA RowsStep ==
    ASSUME TypeOK, TypeOK', CreateOnce, ReportsTrue, RowsTrue, [Next]_vars
    PROVE  RowsTrue'
<1> USE DEF db, api, relay, agent, wires
<1>1. \A s \in Session : (Pooled(s) => Pooled(s)') /\ (Ended(s) => Ended(s)')
    BY PhaseForward
<1>2. \A s \in exited' : Ended(s)'
    <2>1. CASE exited' = exited
        BY <1>1, <2>1 DEF RowsTrue, TypeOK
    <2>2. ASSUME NEW c \in Conn, Route(c) PROVE \A s \in exited' : Ended(s)'
        <3> DEFINE m == Head(toRelay[c])
        <3>1. CASE m.type = "stopped"
            <4>1. exited' = exited \cup {m.s} /\ ag' = ag
                BY <2>2, <3>1 DEF Route
            <4>2. ag[m.s] \in HasEnded
                BY <2>2, <3>1, RoutedIsTrue DEF Truthful
            <4> QED
                BY <4>1, <4>2 DEF RowsTrue, Ended
        <3>2. CASE m.type # "stopped"
            BY <2>1, <2>2, <3>2 DEF Route
        <3> QED
            BY <3>1, <3>2
    <2>3. ASSUME NEW s \in Session, Api(s) \/ Goroutines(s) \/ Exit(s) PROVE exited' = exited
        BY <2>3 DEF Api, CreateSession, SendCreate, FailCreate, KillSession, FinishKill,
                    DeleteSession, FinishDelete, ClientGone, Goroutines, SpawnFails, Spawn, AddToPool,
                    SendStarted, RemoveFromPool, SendStopped, Exit
    <2>4. ASSUME NEW c \in Conn, Connection(c) \/ Break(c), ~Route(c) PROVE exited' = exited
        BY <2>4 DEF Connection, RegisterHost, UnregisterHost, Connect, Disconnect, Receive,
                    WriterTakes, WriterEnds, Break
    <2>5. CASE RestartRelay \/ CrashAgent \/ UNCHANGED vars
        BY <2>1, <2>5 DEF RestartRelay, CrashAgent, vars
    <2> QED
        BY <2>1, <2>2, <2>3, <2>4, <2>5 DEF Next
<1>3. \A s \in Session : row'[s] = "running" => Pooled(s)'
    <2>1. CASE \A s \in Session : row'[s] = "running" => row[s] = "running"
        BY <1>1, <2>1 DEF RowsTrue
    <2>2. ASSUME NEW c \in Conn, Route(c)
          PROVE  \A s \in Session : row'[s] = "running" => Pooled(s)'
        <3> DEFINE m == Head(toRelay[c])
        <3>1. Truthful(ag, m) /\ ag' = ag /\ m \in List \cup Report
            BY <2>2, RoutedIsTrue
        <3>2. CASE m.type = "list"
            <4>1. \A s \in Session : row'[s] = "running" => row[s] = "running" \/ s \in m.ids
                BY <2>2, <3>2 DEF Route, RestoredRows
            <4>2. \A s \in m.ids : ag[s] \in WasPooled
                BY <3>1, <3>2 DEF Truthful
            <4> QED
                BY <3>1, <4>1, <4>2 DEF RowsTrue, Pooled
        <3>3. CASE m.type = "started"
            <4>1. \A s \in Session : row'[s] = "running" => row[s] = "running" \/ s = m.s
                BY <2>2, <3>3 DEF Route, SetStatus, TypeOK
            <4>2. ag[m.s] \in WasPooled
                BY <3>1, <3>3 DEF Truthful
            <4> QED
                BY <3>1, <4>1, <4>2 DEF RowsTrue, Pooled
        <3>4. CASE m.type = "stopped"
            BY <2>1, <2>2, <3>4 DEF Route, SetStatus, TypeOK
        <3> QED
            BY <3>1, <3>2, <3>3, <3>4, MessageFields
    <2>3. ASSUME NEW s \in Session, Api(s) \/ Goroutines(s) \/ Exit(s)
          PROVE  \A k \in Session : row'[k] = "running" => row[k] = "running"
        BY <2>3 DEF Api, CreateSession, SendCreate, FailCreate, KillSession, FinishKill,
                    DeleteSession, FinishDelete, ClientGone, Goroutines, SpawnFails, Spawn, AddToPool,
                    SendStarted, RemoveFromPool, SendStopped, Exit, SetStatus, TypeOK
    <2>4. ASSUME NEW c \in Conn, Connection(c) \/ Break(c), ~Route(c) PROVE row' = row
        BY <2>4 DEF Connection, RegisterHost, UnregisterHost, Connect, Disconnect, Receive,
                    WriterTakes, WriterEnds, Break
    <2>5. CASE RestartRelay \/ CrashAgent \/ UNCHANGED vars
        BY <2>1, <2>5 DEF RestartRelay, CrashAgent, vars, TypeOK
    <2> QED
        BY <2>1, <2>2, <2>3, <2>4, <2>5 DEF Next
<1>4. \A s \in alive' : ag'[s] \in {"spawned", "pooled", "announced"}
    <2>1. CASE alive' \subseteq alive /\ ag' = ag
        BY <2>1 DEF RowsTrue
    <2>2. ASSUME NEW s \in Session, Goroutines(s)
          PROVE  \A k \in alive' : ag'[k] \in {"spawned", "pooled", "announced"}
        <3> USE DEF RowsTrue, TypeOK, Step
        <3>1. CASE SpawnFails(s)
            BY <3>1 DEF SpawnFails
        <3>2. CASE Spawn(s)
            BY <3>2 DEF Spawn
        <3>3. CASE AddToPool(s)
            BY <3>3 DEF AddToPool
        <3>4. CASE SendStarted(s)
            BY <3>4 DEF SendStarted
        <3>5. CASE RemoveFromPool(s)
            BY <3>5 DEF RemoveFromPool
        <3>6. CASE SendStopped(s)
            BY <3>6 DEF SendStopped
        <3> QED
            BY <2>2, <3>1, <3>2, <3>3, <3>4, <3>5, <3>6 DEF Goroutines
    <2>3. ASSUME NEW c \in Conn, Receive(c)
          PROVE  \A k \in alive' : ag'[k] \in {"spawned", "pooled", "announced"}
        <3> DEFINE m == Head(toAgent[c])
        <3>1. CASE m.type = "create"
            <4>1. PICK a \in Session : a = m.s
                BY <2>3, <3>1, ReceivedCreate
            <4>2. CreateAt(a, c, 1)
                BY <2>3, <3>1, <4>1, ReceivedCreate
            <4>3. ag[a] = "none"
                BY <4>2 DEF CreateOnce
            <4>4. ag' = [ag EXCEPT ![a] = "go"] /\ alive' = alive
                BY <2>3, <3>1, <4>1 DEF Receive
            <4> QED
                BY <4>3, <4>4 DEF RowsTrue, TypeOK
        <3>2. CASE m.type # "create"
            BY <2>1, <2>3, <3>2 DEF Receive
        <3> QED
            BY <3>1, <3>2
    <2>4. ASSUME NEW s \in Session, Api(s) \/ Exit(s) PROVE alive' \subseteq alive /\ ag' = ag
        BY <2>4 DEF Api, CreateSession, SendCreate, FailCreate, KillSession, FinishKill,
                    DeleteSession, FinishDelete, ClientGone, Exit
    <2>5. ASSUME NEW c \in Conn, Connection(c) \/ Break(c), ~Receive(c)
          PROVE  alive' \subseteq alive /\ ag' = ag
        BY <2>5 DEF Connection, RegisterHost, Route, UnregisterHost, Connect, Disconnect,
                    WriterTakes, WriterEnds, Break
    <2>6. CASE CrashAgent
        BY <2>6 DEF CrashAgent
    <2>7. CASE RestartRelay \/ UNCHANGED vars
        BY <2>1, <2>7 DEF RestartRelay, vars
    <2> QED
        BY <2>1, <2>2, <2>3, <2>4, <2>5, <2>6, <2>7 DEF Next
<1> QED
    BY <1>2, <1>3, <1>4 DEF RowsTrue

\* Session lists are true, a pending kill was asked for, and what a list
\* restored stays restored while the connection lives.
LEMMA ListsStep ==
    ASSUME TypeOK, TypeOK', CreateOnce, ReportsTrue, ListsTrue, [Next]_vars
    PROVE  ListsTrue'
<1> USE DEF db, api, relay, agent, wires
<1>1. \A s \in Session : Pooled(s) => Pooled(s)'
    BY PhaseForward
<1>2. \A s \in Session : <<"kill", s>> \in pend' => s \in asked'
    <2>1. ASSUME NEW s \in Session, KillSession(s) PROVE pend' = pend \cup {<<"kill", s>>} /\ asked' = asked \cup {s}
        BY <2>1 DEF KillSession
    <2>2. ASSUME NEW s \in Session, Api(s), ~KillSession(s)
          PROVE  /\ asked' = asked
                 /\ pend' \subseteq pend \cup {<<"create", s>>, <<"fail", s>>, <<"delete", s>>}
        BY <2>2 DEF Api, CreateSession, SendCreate, FailCreate, FinishKill, DeleteSession, FinishDelete, ClientGone
    <2>3. ASSUME NEW s \in Session, Goroutines(s) \/ Exit(s) PROVE pend' = pend /\ asked' = asked
        BY <2>3 DEF Goroutines, SpawnFails, Spawn, AddToPool, SendStarted,
                    RemoveFromPool, SendStopped, Exit
    <2>4. ASSUME NEW c \in Conn, Connection(c) \/ Break(c) PROVE pend' = pend /\ asked' = asked
        BY <2>4 DEF Connection, RegisterHost, Route, UnregisterHost, Connect, Disconnect,
                    Receive, WriterTakes, WriterEnds, Break
    <2>5. CASE RestartRelay \/ CrashAgent \/ UNCHANGED vars
        BY <2>5 DEF RestartRelay, CrashAgent, vars, ListsTrue
    <2> QED
        BY <2>1, <2>2, <2>3, <2>4, <2>5 DEF Next, ListsTrue
<1>3. \A c \in Conn : net'[c] = "new" => srv'[c] = "none" /\ listed'[c] = {}
    <2>1. CASE UNCHANGED <<net, srv, listed>>
        BY <2>1 DEF ListsTrue
    <2>2. ASSUME NEW s \in Session, Api(s) \/ Goroutines(s) \/ Exit(s)
          PROVE  UNCHANGED <<net, srv, listed>>
        BY <2>2 DEF Api, CreateSession, SendCreate, FailCreate, KillSession, FinishKill,
                    DeleteSession, FinishDelete, ClientGone, Goroutines, SpawnFails, Spawn, AddToPool,
                    SendStarted, RemoveFromPool, SendStopped, Exit
    <2>3. ASSUME NEW c \in Conn, Disconnect(c) \/ Receive(c) \/ WriterTakes(c) \/ WriterEnds(c)
          PROVE  UNCHANGED <<net, srv, listed>>
        BY <2>3 DEF Disconnect, Receive, WriterTakes, WriterEnds
    <2>4. ASSUME NEW c \in Conn, RegisterHost(c) \/ Route(c) \/ UnregisterHost(c)
          PROVE  /\ net' = net /\ net[c] # "new"
                 /\ \A d \in Conn \ {c} : srv'[d] = srv[d] /\ listed'[d] = listed[d]
        BY <2>4 DEF RegisterHost, Route, UnregisterHost, ListsTrue, TypeOK
    <2>5. ASSUME NEW c \in Conn, Connect(c) \/ Break(c)
          PROVE  /\ \A d \in Conn : net'[d] = "new" => net[d] = "new"
                 /\ srv' = srv /\ listed' = listed
        BY <2>5 DEF Connect, Break, TypeOK
    <2>6. CASE RestartRelay \/ CrashAgent
        BY <2>6 DEF RestartRelay, CrashAgent, BreakAll, ListsTrue, TypeOK
    <2>7. CASE UNCHANGED vars
        BY <2>1, <2>7 DEF vars
    <2> QED
        BY <2>1, <2>2, <2>3, <2>4, <2>5, <2>6, <2>7 DEF Next, Connection, ListsTrue
<1>4. ASSUME NEW c \in Conn, Route(c)
      PROVE  /\ \A d \in Conn : \A s \in listed'[d] : Pooled(s)'
             /\ RestoredByList'
    <2> DEFINE m == Head(toRelay[c])
    <2>1. /\ Truthful(ag, m) /\ m \in List \cup Report
          /\ ag' = ag /\ net' = net /\ asked' = asked /\ deleted' = deleted
        BY <1>4, RoutedIsTrue DEF Route
    <2>2. CASE m.type = "list"
        <3>1. \A s \in m.ids : s \in Session /\ ag[s] \in WasPooled
            BY <2>1, <2>2, MessageFields DEF Truthful
        <3>2. /\ listed' = [listed EXCEPT ![c] = m.ids]
              /\ row' = [s \in Session |-> IF s \in m.ids /\ Visible(s) THEN "running" ELSE row[s]]
            BY <1>4, <2>2 DEF Route, RestoredRows
        <3>3. \A d \in Conn : \A s \in listed'[d] : Pooled(s)'
            BY <2>1, <3>1, <3>2 DEF ListsTrue, Pooled, TypeOK
        <3>4. \A s \in m.ids \ deleted : Visible(s)
            BY <3>1 DEF Visible, CreateOnce, WasPooled
        <3>5. \A d \in Conn \ {c} : listed'[d] = listed[d]
            BY <3>2 DEF TypeOK
        <3>6. \A s \in Session : row[s] = "running" => row'[s] = "running"
            BY <3>2
        <3>7. listed'[c] = m.ids
            BY <3>2 DEF TypeOK
        <3>8. \A s \in m.ids \ deleted : row'[s] = "running"
            BY <3>1, <3>2, <3>4
        <3>9. Pool' = Pool
            BY <2>1 DEF Pool
        <3>10. RestoredByList'
            BY <2>1, <3>5, <3>6, <3>7, <3>8, <3>9 DEF RestoredByList, ListsTrue
        <3> QED
            BY <3>3, <3>10
    <2>3. CASE m.type # "list"
        <3>1. listed' = listed
            BY <1>4, <2>3 DEF Route
        <3>2. \A s \in Pool : row[s] = "running" => row'[s] = "running"
            <4>1. CASE m.type = "started"
                BY <1>4, <4>1 DEF Route, SetStatus, TypeOK, Pool
            <4>2. CASE m.type = "stopped"
                <5>1. m.s \notin Pool
                    BY <2>1, <4>2 DEF Truthful, HasEnded, Pool
                <5> QED
                    BY <1>4, <4>2, <5>1 DEF Route, SetStatus, TypeOK, Pool
            <4> QED
                BY <2>1, <2>3, <4>1, <4>2, MessageFields
        <3>3. Pool' = Pool
            BY <2>1 DEF Pool
        <3>4. RestoredByList'
            BY <2>1, <3>1, <3>2, <3>3 DEF RestoredByList, ListsTrue
        <3>5. \A d \in Conn : \A s \in listed'[d] : Pooled(s)'
            BY <2>1, <3>1 DEF ListsTrue, Pooled
        <3> QED
            BY <3>4, <3>5
    <2> QED
        BY <2>2, <2>3
<1>5. ASSUME \A c \in Conn : listed'[c] = listed[c]
      PROVE  \A c \in Conn : \A s \in listed'[c] : Pooled(s)'
    BY <1>1, <1>5 DEF ListsTrue, TypeOK
\* A step keeps RestoredByList that adds no listed session to the pool,
\* turns no broken connection into a working one, and takes "running" only
\* from sessions that are not in question.
<1>6. ASSUME listed' = listed,
             \A c \in Conn : net'[c] = "up" => net[c] = "up" \/ listed[c] = {},
             \A s \in Session : s \in Pool' /\ Pooled(s) => s \in Pool,
             asked \subseteq asked', deleted \subseteq deleted',
             \/ \A c \in Conn : net'[c] # "up"
             \/ \A s \in Pool \ asked' : row[s] = "running" => row'[s] = "running"
      PROVE  RestoredByList'
    <2> SUFFICES ASSUME NEW c \in Conn, NEW s \in Session, net'[c] = "up",
                        s \in listed'[c] \cap Pool', s \notin asked' \cup deleted'
                 PROVE  row'[s] = "running"
        BY DEF RestoredByList
    <2>1. net[c] = "up" /\ s \in listed[c]
        BY <1>6
    <2>2. s \in Pool
        BY <1>6, <2>1 DEF ListsTrue
    <2>3. row[s] = "running"
        BY <1>6, <2>1, <2>2 DEF ListsTrue, RestoredByList
    <2> QED
        BY <1>6, <2>2, <2>3
<1>7. ASSUME NEW s \in Session, Api(s) PROVE listed' = listed /\ RestoredByList'
    <2>1. /\ listed' = listed /\ net' = net /\ Pool' = Pool
          /\ asked \subseteq asked' /\ deleted \subseteq deleted'
        BY <1>7 DEF Api, CreateSession, SendCreate, FailCreate, KillSession, FinishKill,
                    DeleteSession, FinishDelete, ClientGone, Pool
    <2>2. \A k \in Pool \ asked' : row[k] = "running" => row'[k] = "running"
        <3>1. CASE CreateSession(s)
            BY <3>1 DEF CreateSession, SetStatus, TypeOK, Pool
        <3>2. CASE FailCreate(s)
            <4>1. s \notin Pool
                BY <3>2 DEF FailCreate, CreateOnce, Pool
            <4> QED
                BY <3>2, <4>1 DEF FailCreate, SetStatus, TypeOK, Pool
        <3>3. CASE FinishKill(s)
            <4>1. s \in asked'
                BY <3>3 DEF FinishKill, ListsTrue
            <4> QED
                BY <3>3, <4>1 DEF FinishKill, SetStatus, TypeOK, Pool
        <3>4. CASE SendCreate(s) \/ KillSession(s) \/ DeleteSession(s) \/ FinishDelete(s) \/ ClientGone(s)
            BY <3>4 DEF SendCreate, KillSession, DeleteSession, FinishDelete, ClientGone
        <3> QED
            BY <1>7, <3>1, <3>2, <3>3, <3>4 DEF Api
    <2> QED
        BY <1>6, <2>1, <2>2
<1>8. ASSUME NEW s \in Session, Goroutines(s) \/ Exit(s) PROVE listed' = listed /\ RestoredByList'
    <2>1. UNCHANGED <<listed, net, asked, deleted, row>>
        BY <1>8 DEF Goroutines, SpawnFails, Spawn, AddToPool, SendStarted,
                    RemoveFromPool, SendStopped, Exit
    <2>2. \A k \in Session : k \in Pool' /\ Pooled(k) => k \in Pool
        BY <1>8 DEF Goroutines, SpawnFails, Spawn, AddToPool, SendStarted, RemoveFromPool,
                    SendStopped, Exit, Step, Pool, Pooled, WasPooled, TypeOK
    <2> QED
        BY <1>6, <2>1, <2>2
<1>9. ASSUME NEW c \in Conn, Receive(c) PROVE listed' = listed /\ RestoredByList'
    <2>1. UNCHANGED <<listed, net, asked, deleted, row>>
        BY <1>9 DEF Receive
    <2>2. \A k \in Session : k \in Pool' => k \in Pool
        BY <1>9 DEF Receive, Pool, TypeOK
    <2> QED
        BY <1>6, <2>1, <2>2
<1>10. ASSUME NEW c \in Conn,
              RegisterHost(c) \/ UnregisterHost(c) \/ Connect(c) \/ Disconnect(c)
                \/ WriterTakes(c) \/ WriterEnds(c) \/ Break(c)
       PROVE  listed' = listed /\ RestoredByList'
    <2>1. UNCHANGED <<listed, asked, deleted, row, ag>>
        BY <1>10 DEF RegisterHost, UnregisterHost, Connect, Disconnect, WriterTakes,
                     WriterEnds, Break
    <2>2. \A d \in Conn : net'[d] = "up" => net[d] = "up" \/ listed[d] = {}
        BY <1>10 DEF RegisterHost, UnregisterHost, Connect, Disconnect, WriterTakes,
                     WriterEnds, Break, ListsTrue, TypeOK
    <2>3. Pool' = Pool
        BY <2>1 DEF Pool
    <2> QED
        BY <1>6, <2>1, <2>2, <2>3
<1>11. ASSUME RestartRelay PROVE listed' = listed /\ RestoredByList'
    <2>1. /\ listed' = listed /\ UNCHANGED <<asked, deleted, ag>>
          /\ \A d \in Conn : net'[d] # "up"
        BY <1>11 DEF RestartRelay, BreakAll
    <2>2. Pool' = Pool
        BY <2>1 DEF Pool
    <2> QED
        BY <1>6, <2>1, <2>2
<1>12. ASSUME CrashAgent PROVE listed' = listed /\ RestoredByList'
    <2>1. /\ listed' = listed /\ UNCHANGED <<asked, deleted, row>>
          /\ \A d \in Conn : net'[d] # "up"
        BY <1>12 DEF CrashAgent, BreakAll
    <2>2. Pool' = {}
        BY <1>12 DEF CrashAgent, Pool, TypeOK
    <2> QED
        BY <1>6, <2>1, <2>2
<1>13. ASSUME UNCHANGED vars PROVE listed' = listed /\ RestoredByList'
    <2>1. UNCHANGED <<listed, net, asked, deleted, row, ag>>
        BY <1>13 DEF vars
    <2>2. Pool' = Pool
        BY <2>1 DEF Pool
    <2> QED
        BY <1>6, <2>1, <2>2
<1>14. (\A c \in Conn : \A s \in listed'[c] : Pooled(s)') /\ RestoredByList'
    BY <1>4, <1>5, <1>7, <1>8, <1>9, <1>10, <1>11, <1>12, <1>13 DEF Next, Connection
<1> QED
    BY <1>2, <1>3, <1>14 DEF ListsTrue

----------------------------------------------------------------------------
\* Theorems

\* The initial states satisfy the inductive invariant.
LEMMA InvInit == Init => IInv
<1> SUFFICES ASSUME Init PROVE IInv
    OBVIOUS
<1>1. TypeOK
    BY TypeInit
<1>2. CreateOnce
    BY DEF Init, CreateOnce, CreateAt
<1>3. ReportsTrue
    BY DEF Init, ReportsTrue, AllTrue
<1>4. RowsTrue
    BY DEF Init, RowsTrue
<1>5. ListsTrue
    BY DEF Init, ListsTrue, RestoredByList
<1> QED
    BY <1>1, <1>2, <1>3, <1>4, <1>5 DEF IInv

\* Every step keeps the inductive invariant.
LEMMA InvStep == IInv /\ [Next]_vars => IInv'
<1> SUFFICES ASSUME IInv, [Next]_vars PROVE IInv'
    OBVIOUS
<1>1. TypeOK'
    BY TypeStep DEF IInv
<1> QED
    BY <1>1, CreateOnceStep, ReportsStep, RowsStep, ListsStep DEF IInv

\* IInv holds in every behaviour.
THEOREM Invariant == Spec => []IInv
BY InvInit, InvStep, PTL DEF Spec

\* An exit code is recorded only for a process that is gone for good.
THEOREM ExitsAreTrue == Spec => []ExitIsTrue
<1>1. IInv => ExitIsTrue
    BY DEF IInv, RowsTrue, ExitIsTrue, Ended, HasEnded, Pool
<1> QED
    BY <1>1, Invariant, PTL

\* A row says "running" only if the agent started the process.
THEOREM RunningRowsWereSpawned == Spec => []RunningWasSpawned
<1>1. IInv => RunningWasSpawned
    BY DEF IInv, RowsTrue, RunningWasSpawned, Pooled, WasPooled
<1> QED
    BY <1>1, Invariant, PTL

\* What the working connection listed and the pool still holds is shown
\* running, unless a user killed or deleted it.
THEOREM ListRestores == Spec => []RestoredByList
<1>1. IInv => RestoredByList
    BY DEF IInv, ListsTrue
<1> QED
    BY <1>1, Invariant, PTL

\* No session is started a second time.
THEOREM NeverStartedAgain == Spec => StartedOnce
<1>1. IInv /\ [Next]_vars => [\A s \in Session : ag'[s] = "go" => ag[s] \in {"none", "go"}]_vars
    BY PhaseForward DEF IInv
<1> QED
    BY <1>1, Invariant, PTL DEF Spec, StartedOnce

----------------------------------------------------------------------------
\* Refinement: the steps of Sessions are steps of SessionLife.

\* A step that touches neither the processes nor the exit codes sets rows:
\* by the invariant after it, only what was started is shown running.
LEMMA RowsAreShown ==
    ASSUME IInv, IInv', UNCHANGED <<ag, alive, exited>>
    PROVE  Abstract!Next
<1> PICK runs : runs = {s \in Session : row'[s] = "running"}
    OBVIOUS
<1>1. \A s \in Session : Life(s)' = Life(s)
    BY DEF Life
<1>2. ASSUME NEW s \in runs PROVE Life(s) \in {"alive", "over"}
    <2>1. ag'[s] \in WasPooled
        BY DEF IInv, RowsTrue, Pooled
    <2> QED
        BY <2>1 DEF Life, WasPooled
<1>3. Abstract!Show(runs)
    BY <1>1, <1>2 DEF Abstract!Show
<1>4. runs \in SUBSET Session
    OBVIOUS
<1> QED
    BY <1>3, <1>4 DEF Abstract!Next

\* A step that touches no rows and only ends processes and starts.
LEMMA LivesEnd ==
    ASSUME UNCHANGED <<row, exited>>,
           \A s \in Session : \/ Life(s)' = Life(s)
                              \/ Life(s) = "alive" /\ Life(s)' = "over"
                              \/ Life(s) = "new" /\ Life(s)' = "failed"
    PROVE  Abstract!Next
<1> PICK ended, failed :
        /\ ended = {s \in Session : Life(s) = "alive" /\ Life(s)' = "over"}
        /\ failed = {s \in Session : Life(s) = "new" /\ Life(s)' = "failed"}
    OBVIOUS
<1>1. Abstract!End(ended, failed)
    BY DEF Abstract!End
<1>2. ended \in SUBSET Session /\ failed \in SUBSET Session
    OBVIOUS
<1> QED
    BY <1>1, <1>2 DEF Abstract!Next

\* A goroutine of the agent, or the process itself.
LEMMA GoroutineRefines ==
    ASSUME IInv, NEW s \in Session, Goroutines(s) \/ Exit(s)
    PROVE  Abstract!Next
<1> USE DEF db, api, relay, wires, Step
<1>1. \A k \in alive : ag[k] \in {"spawned", "pooled", "announced"}
    BY DEF IInv, RowsTrue
<1>2. ag \in [Session -> Phase]
    BY DEF IInv, TypeOK
<1>3. CASE Spawn(s)
    <2>1. Life(s) = "new" /\ Life(s)' = "alive"
        BY <1>1, <1>3 DEF Spawn, Life
    <2>2. \A k \in Session \ {s} : Life(k)' = Life(k)
        BY <1>2, <1>3 DEF Spawn, Life
    <2>3. UNCHANGED <<row, exited>>
        BY <1>3 DEF Spawn
    <2>4. Abstract!Start(s)
        BY <2>1, <2>2, <2>3 DEF Abstract!Start
    <2> QED
        BY <2>4 DEF Abstract!Next
<1>4. CASE SpawnFails(s)
    <2>1. Life(s) = "new" /\ Life(s)' = "failed"
        BY <1>1, <1>2, <1>4 DEF SpawnFails, Life
    <2>2. \A k \in Session \ {s} : Life(k)' = Life(k)
        BY <1>2, <1>4 DEF SpawnFails, Life
    <2>3. UNCHANGED <<row, exited>>
        BY <1>4 DEF SpawnFails
    <2> QED
        BY <2>1, <2>2, <2>3, LivesEnd
<1>5. CASE AddToPool(s) \/ SendStarted(s) \/ RemoveFromPool(s) \/ SendStopped(s)
    <2>1. UNCHANGED <<row, exited, alive>>
        BY <1>5 DEF AddToPool, SendStarted, RemoveFromPool, SendStopped
    <2>2. /\ ag[s] \in {"spawned", "pooled", "announced", "removed"}
          /\ ag'[s] \in {"pooled", "announced", "removed", "done"}
          /\ \A k \in Session \ {s} : ag'[k] = ag[k]
        BY <1>2, <1>5 DEF AddToPool, SendStarted, RemoveFromPool, SendStopped
    <2>3. \A k \in Session : Life(k)' = Life(k)
        BY <2>1, <2>2 DEF Life
    <2> QED
        BY <2>1, <2>3, LivesEnd
<1>6. CASE Exit(s)
    <2>1. Life(s) = "alive" /\ Life(s)' = "over"
        BY <1>1, <1>6 DEF Exit, Life
    <2>2. \A k \in Session \ {s} : Life(k)' = Life(k)
        BY <1>6 DEF Exit, Life
    <2>3. UNCHANGED <<row, exited>>
        BY <1>6 DEF Exit
    <2> QED
        BY <2>1, <2>2, <2>3, LivesEnd
<1> QED
    BY <1>3, <1>4, <1>5, <1>6 DEF Goroutines

\* The agent takes a message: a create does not start anything yet, a kill
\* may end a process.
LEMMA ReceiveRefines ==
    ASSUME IInv, NEW c \in Conn, Receive(c)
    PROVE  Abstract!Next
<1> DEFINE m == Head(toAgent[c])
<1>1. /\ \A k \in alive : ag[k] \in {"spawned", "pooled", "announced"}
      /\ ag \in [Session -> Phase] /\ TypeOK
    BY DEF IInv, RowsTrue, TypeOK
<1>2. UNCHANGED <<row, exited>>
    BY DEF Receive, db
<1>3. CASE m.type = "create"
    <2>1. PICK a \in Session : a = m.s
        BY <1>1, <1>3, ReceivedCreate
    <2>2. CreateAt(a, c, 1)
        BY <1>1, <1>3, <2>1, ReceivedCreate
    <2>3. ag[a] = "none"
        BY <2>2 DEF CreateOnce, IInv
    <2>4. ag' = [ag EXCEPT ![a] = "go"] /\ alive' = alive
        BY <1>3, <2>1 DEF Receive
    <2>5. \A k \in Session : Life(k)' = Life(k)
        BY <1>1, <2>3, <2>4 DEF Life
    <2> QED
        BY <1>2, <2>5, LivesEnd
<1>4. CASE m.type # "create"
    <2>1. ag' = ag /\ alive' \subseteq alive
        BY <1>4 DEF Receive
    <2>2. \A k \in Session : Life(k)' = Life(k) \/ (Life(k) = "alive" /\ Life(k)' = "over")
        BY <1>1, <2>1 DEF Life
    <2> QED
        BY <1>2, <2>2, LivesEnd
<1> QED
    BY <1>3, <1>4

\* The relay takes a report: an exit is recorded of a process that is over.
LEMMA RouteRefines ==
    ASSUME IInv, IInv', NEW c \in Conn, Route(c)
    PROVE  Abstract!Next
<1> DEFINE m == Head(toRelay[c])
<1>1. UNCHANGED <<ag, alive>>
    BY DEF Route, agent
<1>2. m \in List \cup Report /\ row \in [Session -> {"none", "starting", "running", "stopped", "error"}]
    BY RoutedIsTrue DEF IInv, TypeOK
<1>3. CASE m.type = "stopped"
    <2>1. PICK s \in Session : s = m.s
        BY <1>2, <1>3, MessageFields
    <2>2. row' = [row EXCEPT ![s] = "stopped"] /\ exited' = exited \cup {s}
        BY <1>3, <2>1 DEF Route, SetStatus
    <2>3. ag'[s] \in HasEnded
        BY <2>2 DEF IInv, RowsTrue, Ended
    <2>4. s \notin alive
        BY <1>1, <2>3 DEF IInv, RowsTrue, HasEnded
    <2>5. Life(s) \in {"over", "failed"}
        BY <1>1, <2>3, <2>4 DEF Life, HasEnded
    <2>6. \A k \in Session : Life(k)' = Life(k)
        BY <1>1 DEF Life
    <2>7. {k \in Session : row'[k] = "running"} = {k \in Session : row[k] = "running"} \ {s}
        BY <1>2, <2>2
    <2>8. Abstract!Record(s)
        BY <2>2, <2>5, <2>6, <2>7 DEF Abstract!Record
    <2> QED
        BY <2>8 DEF Abstract!Next
<1>4. CASE m.type # "stopped"
    <2>1. exited' = exited
        BY <1>4 DEF Route
    <2> QED
        BY <1>1, <2>1, RowsAreShown
<1> QED
    BY <1>3, <1>4

\* Every step is one of SessionLife, or a stutter.
LEMMA StepRefines ==
    ASSUME IInv, IInv', [Next]_vars
    PROVE  [Abstract!Next]_Abstract!vars
<1> USE DEF db, api, relay, agent, wires
<1>1. ASSUME NEW s \in Session, Api(s) PROVE UNCHANGED <<ag, alive, exited>>
    BY <1>1 DEF Api, CreateSession, SendCreate, FailCreate, KillSession, FinishKill,
                DeleteSession, FinishDelete, ClientGone
<1>2. ASSUME NEW c \in Conn,
             RegisterHost(c) \/ UnregisterHost(c) \/ Connect(c) \/ Disconnect(c)
                \/ WriterTakes(c) \/ WriterEnds(c) \/ Break(c)
      PROVE  UNCHANGED <<ag, alive, exited>>
    BY <1>2 DEF RegisterHost, UnregisterHost, Connect, Disconnect, WriterTakes,
                WriterEnds, Break
<1>3. CASE CrashAgent
    <2>1. /\ UNCHANGED <<row, exited>> /\ alive' = {}
          /\ \A s \in Session :
                ag'[s] = CASE ag[s] = "go" -> "failed"
                           [] ag[s] \in {"spawned", "pooled", "announced", "removed"} -> "lost"
                           [] OTHER -> ag[s]
        BY <1>3 DEF CrashAgent
    <2>2. \A s \in alive : ag[s] \in {"spawned", "pooled", "announced"}
        BY DEF IInv, RowsTrue
    <2>3. \A s \in Session : \/ Life(s)' = Life(s)
                             \/ Life(s) = "alive" /\ Life(s)' = "over"
                             \/ Life(s) = "new" /\ Life(s)' = "failed"
        BY <2>1, <2>2 DEF Life
    <2> QED
        BY <2>1, <2>3, LivesEnd
<1>4. CASE RestartRelay \/ UNCHANGED vars
    <2>1. UNCHANGED <<ag, alive, exited>>
        BY <1>4 DEF RestartRelay, vars
    <2> QED
        BY <2>1, RowsAreShown
<1> QED
    BY <1>1, <1>2, <1>3, <1>4, RowsAreShown, GoroutineRefines, ReceiveRefines, RouteRefines
       DEF Next, Connection

\* The relay and the agent implement SessionLife.
THEOREM Refinement == Spec => ImplementsSessionLife
<1>1. Init => Abstract!Init
    <2> SUFFICES ASSUME Init PROVE Abstract!Init
        OBVIOUS
    <2>1. \A s \in Session : Life(s) = "new" /\ row[s] # "running"
        BY DEF Init, Life
    <2> QED
        BY <2>1 DEF Init, Abstract!Init
<1>2. IInv /\ IInv' /\ [Next]_vars => [Abstract!Next]_Abstract!vars
    BY StepRefines
<1> QED
    BY <1>1, <1>2, Invariant, PTL DEF Spec, ImplementsSessionLife, Abstract!Spec
=============================================================================
