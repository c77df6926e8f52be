------------------------- MODULE SessionsReliableProofs -------------------------
(***************************************************************************)
(* What holds of Sessions besides while the connection and both programs   *)
(* last: a recorded exit is final, and with nothing under way the rows     *)
(* agree with the processes.                                               *)
(***************************************************************************)
EXTENDS SessionsProofs, FiniteSetTheorems

----------------------------------------------------------------------------
\* A recorded exit is final while the connection lasts
\*
\* Without breaks, restarts and crashes there is one connection at most, so a
\* session's reports are read in the order in which they were queued, and the
\* agent queues "started" before "stopped".

IsStart(m, s) == m.type = "started" /\ m.s = s
IsStop(m, s)  == m.type = "stopped" /\ m.s = s

NoStart(s, q) == \A i \in 1 .. Len(q) : ~IsStart(q[i], s)
Stops(s, q)   == \E i \in 1 .. Len(q) : IsStop(q[i], s)

\* No "started" of s comes behind a "stopped" of s in q.
StopIsLast(s, q) ==
    \A i, j \in 1 .. Len(q) : i < j /\ IsStop(q[i], s) => ~IsStart(q[j], s)

\* The path of the reports of s, from outQ over a connection to exited.
ReportsInOrder(s) ==
    /\ StopIsLast(s, outQ)
    /\ s \in exited => NoStart(s, outQ)
    /\ \A c \in Conn :
          /\ StopIsLast(s, toRelay[c])
          /\ s \in exited => NoStart(s, toRelay[c])
          /\ Stops(s, toRelay[c]) => NoStart(s, outQ)

\* The one connection, whose session_list was sent before any session.
OneConnection ==
    /\ \A c \in Conn : net[c] # "broken" /\ (net[c] = "up" <=> cur = c)
    /\ \A c \in Conn : net[c] = "new" => toRelay[c] = << >>
    /\ cur = NoConn => \A s \in Session : ag[s] = "none"
    /\ \A c \in Conn : \A i \in 1 .. Len(toRelay[c]) :
          toRelay[c][i].type = "list" => toRelay[c][i].ids = {}

FinalInv == OneConnection /\ \A s \in Session : ReportsInOrder(s)

\* The order of the reports in a sequence that is appended to.
LEMMA OrderAppend ==
    ASSUME NEW q \in Seq(List \cup Report), NEW m \in List \cup Report, NEW s
    PROVE  /\ NoStart(s, q) /\ ~IsStart(m, s) => NoStart(s, Append(q, m))
           /\ StopIsLast(s, q) /\ (IsStart(m, s) => ~Stops(s, q))
                 => StopIsLast(s, Append(q, m))
           /\ Stops(s, Append(q, m)) => Stops(s, q) \/ IsStop(m, s)
<1> DEFINE r == Append(q, m)
<1>1. /\ Len(r) = Len(q) + 1 /\ Len(q) \in Nat
      /\ \A i \in 1 .. Len(q) : r[i] = q[i]
      /\ r[Len(q) + 1] = m
    BY AppendElems
<1>2. \A i \in 1 .. Len(r) : i \in 1 .. Len(q) \/ i = Len(q) + 1
    BY <1>1
<1> HIDE DEF r
<1>3. ASSUME NoStart(s, q), ~IsStart(m, s) PROVE NoStart(s, r)
    BY <1>1, <1>2, <1>3 DEF NoStart
<1>4. ASSUME StopIsLast(s, q), IsStart(m, s) => ~Stops(s, q) PROVE StopIsLast(s, r)
    <2> SUFFICES ASSUME NEW i \in 1 .. Len(r), NEW j \in 1 .. Len(r), i < j, IsStop(r[i], s)
                 PROVE  ~IsStart(r[j], s)
        BY DEF StopIsLast
    <2>1. i \in 1 .. Len(q) /\ r[i] = q[i]
        BY <1>1
    <2>2. CASE j \in 1 .. Len(q)
        BY <1>1, <1>4, <2>1, <2>2 DEF StopIsLast
    <2>3. CASE j = Len(q) + 1
        BY <1>1, <1>4, <2>1, <2>3 DEF Stops
    <2> QED
        BY <1>2, <2>2, <2>3
<1>5. ASSUME Stops(s, r) PROVE Stops(s, q) \/ IsStop(m, s)
    BY <1>1, <1>2, <1>5 DEF Stops
<1> QED
    BY <1>3, <1>4, <1>5 DEF r

\* The order of the reports in a sequence whose head is taken.
LEMMA OrderTail ==
    ASSUME NEW q \in Seq(List \cup Report), q # << >>, NEW s
    PROVE  /\ NoStart(s, q) => NoStart(s, Tail(q)) /\ ~IsStart(Head(q), s)
           /\ StopIsLast(s, q) => /\ StopIsLast(s, Tail(q))
                                  /\ IsStop(Head(q), s) => NoStart(s, Tail(q))
           /\ Stops(s, Tail(q)) \/ IsStop(Head(q), s) => Stops(s, q)
<1> DEFINE r == Tail(q)
           h == Head(q)
<1>1. /\ h = q[1] /\ 1 \in 1 .. Len(q) /\ Len(q) \in Nat
      /\ Len(r) = Len(q) - 1
      /\ \A i \in 1 .. Len(r) : r[i] = q[i + 1] /\ i + 1 \in 1 .. Len(q)
    BY TailElems
<1> HIDE DEF r, h
<1>2. ASSUME NoStart(s, q) PROVE NoStart(s, r) /\ ~IsStart(h, s)
    BY <1>1, <1>2 DEF NoStart
<1>3. ASSUME StopIsLast(s, q) PROVE StopIsLast(s, r)
    <2> SUFFICES ASSUME NEW i \in 1 .. Len(r), NEW j \in 1 .. Len(r), i < j, IsStop(r[i], s)
                 PROVE  ~IsStart(r[j], s)
        BY DEF StopIsLast
    <2>1. i + 1 < j + 1
        OBVIOUS
    <2> QED
        BY <1>1, <1>3, <2>1 DEF StopIsLast
<1>4. ASSUME StopIsLast(s, q), IsStop(h, s) PROVE NoStart(s, r)
    <2> SUFFICES ASSUME NEW j \in 1 .. Len(r) PROVE ~IsStart(r[j], s)
        BY DEF NoStart
    <2>1. 1 < j + 1
        OBVIOUS
    <2> QED
        BY <1>1, <1>4, <2>1 DEF StopIsLast
<1>5. ASSUME Stops(s, r) \/ IsStop(h, s) PROVE Stops(s, q)
    BY <1>1, <1>5 DEF Stops
<1> QED
    BY <1>2, <1>3, <1>4, <1>5 DEF r, h

\* A session whose end is reported, or recorded, has ended.
LEMMA StopsMeansEnded ==
    ASSUME TypeOK, ReportsTrue, RowsTrue, NEW s \in Session
    PROVE  /\ Stops(s, outQ) => Ended(s)
           /\ \A c \in Conn : Stops(s, toRelay[c]) => Ended(s)
           /\ s \in exited => Ended(s)
BY DEF ReportsTrue, RowsTrue, AllTrue, Truthful, Stops, IsStop, Ended

\* Every step keeps FinalInv when nothing breaks.
LEMMA FinalStep ==
    ASSUME Faults \subseteq {"cancel"}, IInv, IInv', FinalInv, [Next]_vars
    PROVE  FinalInv'
<1> USE DEF db, api, relay, agent, wires
<1> DEFINE M == List \cup Report
<1>1. /\ TypeOK /\ outQ \in Seq(M) /\ \A c \in Conn : toRelay[c] \in Seq(M)
    <2>1. TypeOK
        BY DEF IInv
    <2>2. outQ \in Seq(M) /\ \A c \in Conn : toRelay[c] \in Seq(M)
        BY <2>1 DEF TypeOK
    <2> QED
        BY <2>1, <2>2
<1>2. ASSUME UNCHANGED <<outQ, toRelay, exited, net, cur>>,
             cur # NoConn \/ ag' = ag
      PROVE  FinalInv'
    BY <1>2 DEF FinalInv, OneConnection, ReportsInOrder
<1>3. ASSUME NEW s \in Session, Goroutines(s) PROVE FinalInv'
    <2>1. cur # NoConn
        BY <1>3, NoConnAssumption DEF FinalInv, OneConnection, Goroutines, SpawnFails, Spawn,
              AddToPool, SendStarted, RemoveFromPool, SendStopped, Step
    <2>2. UNCHANGED <<toRelay, exited, net, cur>>
        BY <1>3 DEF Goroutines, SpawnFails, Spawn, AddToPool, SendStarted,
                    RemoveFromPool, SendStopped
    <2>3. CASE outQ' = outQ
        BY <1>2, <2>1, <2>2, <2>3
    <2>4. ASSUME NEW m \in Report, outQ' = Append(outQ, m),
                 m.type = "stopped" \/ (m.type = "started" /\ m.s = s /\ ~Ended(s))
          PROVE  FinalInv'
        <3>1. OneConnection'
            BY <2>1, <2>2 DEF FinalInv, OneConnection
        <3>2. ASSUME NEW k \in Session PROVE ReportsInOrder(k)'
            <4>1. /\ StopIsLast(k, outQ) /\ (k \in exited => NoStart(k, outQ))
                  /\ \A c \in Conn :
                        /\ StopIsLast(k, toRelay[c])
                        /\ k \in exited => NoStart(k, toRelay[c])
                        /\ Stops(k, toRelay[c]) => NoStart(k, outQ)
                BY DEF FinalInv, ReportsInOrder
            <4>2. IsStart(m, k) => /\ ~Stops(k, outQ) /\ k \notin exited
                                   /\ \A c \in Conn : ~Stops(k, toRelay[c])
                BY <1>1, <2>4, StopsMeansEnded DEF IsStart, IInv
            <4>3. /\ NoStart(k, outQ) /\ ~IsStart(m, k) => NoStart(k, outQ')
                  /\ StopIsLast(k, outQ) /\ (IsStart(m, k) => ~Stops(k, outQ))
                        => StopIsLast(k, outQ')
                BY <1>1, <2>4, OrderAppend
            <4> QED
                BY <2>2, <4>1, <4>2, <4>3 DEF ReportsInOrder
        <3> QED
            BY <3>1, <3>2 DEF FinalInv
    <2>5. CASE SendStarted(s)
        <3>1. ~Ended(s)
            BY <2>5 DEF SendStarted, Step, Ended, HasEnded
        <3> QED
            BY <2>3, <2>4, <2>5, <3>1, MessageTypes DEF SendStarted, SendToRelay
    <2>6. CASE SpawnFails(s) \/ SendStopped(s)
        BY <2>3, <2>4, <2>6, MessageTypes DEF SpawnFails, SendStopped, SendToRelay
    <2>7. CASE Spawn(s) \/ AddToPool(s) \/ RemoveFromPool(s)
        BY <2>3, <2>7 DEF Spawn, AddToPool, RemoveFromPool
    <2> QED
        BY <1>3, <2>5, <2>6, <2>7 DEF Goroutines
<1>4. ASSUME NEW c \in Conn, WriterTakes(c) PROVE FinalInv'
    <2> DEFINE h == Head(outQ)
    <2>1. /\ outQ # << >> /\ outQ' = Tail(outQ) /\ h \in M
          /\ h \in Report
          /\ UNCHANGED <<exited, net, cur, ag>>
          /\ \/ toRelay' = toRelay
             \/ /\ net[c] = "up"
                /\ toRelay' = [toRelay EXCEPT ![c] = Append(@, h)]
        <3>1. outQ # << >> /\ outQ \in Seq(Report)
            BY <1>1, <1>4 DEF WriterTakes, TypeOK
        <3>2. h \in Report
            BY <3>1, TailElems
        <3> QED
            BY <1>4, <3>1, <3>2 DEF WriterTakes
    <2>2. \A d \in Conn : toRelay'[d] = toRelay[d]
                \/ (net[d] = "up" /\ toRelay'[d] = Append(toRelay[d], h))
        BY <1>1, <2>1 DEF TypeOK
    <2> HIDE DEF h
    <2>3. OneConnection'
        <3>1. \A d \in Conn : \A i \in 1 .. Len(toRelay'[d]) :
                 toRelay'[d][i].type = "list" => toRelay'[d][i].ids = {}
            <4> SUFFICES ASSUME NEW d \in Conn, NEW i \in 1 .. Len(toRelay'[d]),
                                toRelay'[d][i].type = "list"
                         PROVE  toRelay'[d][i].ids = {}
                OBVIOUS
            <4>1. CASE toRelay'[d] = toRelay[d]
                BY <4>1 DEF FinalInv, OneConnection
            <4>2. CASE toRelay'[d] = Append(toRelay[d], h)
                <5>1. /\ Len(toRelay'[d]) = Len(toRelay[d]) + 1 /\ Len(toRelay[d]) \in Nat
                      /\ \A j \in 1 .. Len(toRelay[d]) : toRelay'[d][j] = toRelay[d][j]
                      /\ toRelay'[d][Len(toRelay[d]) + 1] = h
                    BY <1>1, <2>1, <4>2, AppendElems
                <5>2. h.type # "list"
                    BY <2>1 DEF Report
                <5>3. i \in 1 .. Len(toRelay[d])
                    BY <5>1, <5>2
                <5> QED
                    BY <5>1, <5>3 DEF FinalInv, OneConnection
            <4> QED
                BY <2>2, <4>1, <4>2
        <3>2. \A d \in Conn : net'[d] = "new" => toRelay'[d] = << >>
            BY <2>1, <2>2 DEF FinalInv, OneConnection
        <3> QED
            BY <2>1, <3>1, <3>2 DEF FinalInv, OneConnection
    <2>4. ASSUME NEW k \in Session PROVE ReportsInOrder(k)'
        <3>1. /\ StopIsLast(k, outQ) /\ (k \in exited => NoStart(k, outQ))
              /\ \A d \in Conn :
                    /\ StopIsLast(k, toRelay[d])
                    /\ k \in exited => NoStart(k, toRelay[d])
                    /\ Stops(k, toRelay[d]) => NoStart(k, outQ)
            BY DEF FinalInv, ReportsInOrder
        <3>2. /\ NoStart(k, outQ) => NoStart(k, outQ') /\ ~IsStart(h, k)
              /\ StopIsLast(k, outQ) => /\ StopIsLast(k, outQ')
                                        /\ IsStop(h, k) => NoStart(k, outQ')
            BY <1>1, <2>1, OrderTail DEF h
        <3>3. ASSUME NEW d \in Conn
              PROVE  /\ StopIsLast(k, toRelay'[d])
                     /\ k \in exited => NoStart(k, toRelay'[d])
                     /\ Stops(k, toRelay'[d]) => NoStart(k, outQ')
            <4>1. CASE toRelay'[d] = toRelay[d]
                BY <3>1, <3>2, <4>1
            <4>2. CASE toRelay'[d] = Append(toRelay[d], h)
                <5> DEFINE r == Append(toRelay[d], h)
                <5>1. /\ NoStart(k, toRelay[d]) /\ ~IsStart(h, k) => NoStart(k, r)
                      /\ StopIsLast(k, toRelay[d]) /\ (IsStart(h, k) => ~Stops(k, toRelay[d]))
                            => StopIsLast(k, r)
                      /\ Stops(k, r) => Stops(k, toRelay[d]) \/ IsStop(h, k)
                    BY <1>1, <2>1, OrderAppend
                <5> QED
                    BY <3>1, <3>2, <4>2, <5>1
            <4> QED
                BY <2>2, <4>1, <4>2
        <3> QED
            BY <2>1, <3>1, <3>2, <3>3 DEF ReportsInOrder
    <2> QED
        BY <2>3, <2>4 DEF FinalInv
<1>5. ASSUME NEW c \in Conn, Route(c) PROVE FinalInv'
    <2> DEFINE h == Head(toRelay[c])
    <2>1. /\ toRelay[c] # << >> /\ toRelay[c] \in Seq(M)
          /\ toRelay' = [toRelay EXCEPT ![c] = Tail(@)]
          /\ UNCHANGED <<net, cur, ag, outQ>>
        BY <1>1, <1>5 DEF Route
    <2>2. \A s \in exited' : s \in exited \/ IsStop(h, s)
        BY <1>5 DEF Route, IsStop
    <2>3. cur = c /\ \A d \in Conn \ {c} : toRelay[d] = << >>
        BY <1>1, <2>1, NoConnAssumption DEF FinalInv, OneConnection, TypeOK
    <2>4. toRelay'[c] = Tail(toRelay[c]) /\ \A d \in Conn \ {c} : toRelay'[d] = << >>
        BY <1>1, <2>1, <2>3 DEF TypeOK
    <2> HIDE DEF h
    <2>5. OneConnection'
        <3>1. \A i \in 1 .. Len(toRelay'[c]) :
                 toRelay'[c][i].type = "list" => toRelay'[c][i].ids = {}
            BY <2>1, <2>4, TailElems DEF FinalInv, OneConnection
        <3>2. net[c] # "new"
            BY <2>1 DEF FinalInv, OneConnection
        <3> QED
            BY <2>1, <2>4, <3>1, <3>2 DEF FinalInv, OneConnection
    <2>6. ASSUME NEW k \in Session PROVE ReportsInOrder(k)'
        <3>1. /\ StopIsLast(k, outQ) /\ (k \in exited => NoStart(k, outQ))
              /\ StopIsLast(k, toRelay[c])
              /\ k \in exited => NoStart(k, toRelay[c])
              /\ Stops(k, toRelay[c]) => NoStart(k, outQ)
            BY DEF FinalInv, ReportsInOrder
        <3>2. /\ NoStart(k, toRelay[c]) => NoStart(k, toRelay'[c])
              /\ StopIsLast(k, toRelay[c]) => /\ StopIsLast(k, toRelay'[c])
                                              /\ IsStop(h, k) => NoStart(k, toRelay'[c])
              /\ Stops(k, toRelay'[c]) \/ IsStop(h, k) => Stops(k, toRelay[c])
            BY <2>1, <2>4, OrderTail DEF h
        <3>3. \A d \in Conn \ {c} : /\ StopIsLast(k, toRelay'[d]) /\ NoStart(k, toRelay'[d])
                                    /\ ~Stops(k, toRelay'[d])
            BY <2>4 DEF StopIsLast, NoStart, Stops
        <3>4. /\ StopIsLast(k, toRelay'[c])
              /\ k \in exited' => NoStart(k, toRelay'[c]) /\ NoStart(k, outQ)
              /\ Stops(k, toRelay'[c]) => NoStart(k, outQ)
            BY <2>2, <3>1, <3>2
        <3> QED
            BY <2>1, <3>1, <3>3, <3>4 DEF ReportsInOrder
    <2> QED
        BY <2>5, <2>6 DEF FinalInv
<1>6. ASSUME NEW c \in Conn, Connect(c) PROVE FinalInv'
    <2> DEFINE m == [type |-> "list", ids |-> Pool]
    <2>1. /\ cur = NoConn /\ net[c] = "new"
          /\ net' = [net EXCEPT ![c] = "up"] /\ cur' = c
          /\ toRelay' = [toRelay EXCEPT ![c] = <<m>>]
          /\ UNCHANGED <<ag, outQ, exited>>
        BY <1>6 DEF Connect
    <2>2. Pool = {}
        BY <2>1 DEF FinalInv, OneConnection, Pool
    <2>3. /\ toRelay'[c] = <<m>> /\ net'[c] = "up"
          /\ \A d \in Conn \ {c} : net'[d] = net[d] /\ toRelay'[d] = toRelay[d]
        BY <1>1, <2>1 DEF TypeOK
    <2>4. m.type = "list" /\ m.ids = {}
        BY <2>2
    <2> HIDE DEF m
    <2>5. /\ Len(<<m>>) = 1 /\ <<m>>[1] = m
          /\ \A i \in 1 .. Len(<<m>>) : i = 1
        OBVIOUS
    <2>6. OneConnection'
        <3>1. \A d \in Conn : net'[d] # "broken" /\ (net'[d] = "up" <=> cur' = d)
            BY <2>1, <2>3, NoConnAssumption DEF FinalInv, OneConnection
        <3>2. \A d \in Conn : net'[d] = "new" => toRelay'[d] = << >>
            BY <2>3 DEF FinalInv, OneConnection
        <3>3. \A d \in Conn : \A i \in 1 .. Len(toRelay'[d]) :
                 toRelay'[d][i].type = "list" => toRelay'[d][i].ids = {}
            BY <2>3, <2>4, <2>5 DEF FinalInv, OneConnection
        <3>4. cur' # NoConn
            BY <2>1, NoConnAssumption
        <3> QED
            BY <3>1, <3>2, <3>3, <3>4 DEF OneConnection
    <2>7. ASSUME NEW k \in Session PROVE ReportsInOrder(k)'
        <3>1. StopIsLast(k, <<m>>) /\ NoStart(k, <<m>>) /\ ~Stops(k, <<m>>)
            BY <2>4, <2>5 DEF StopIsLast, NoStart, Stops, IsStart, IsStop
        <3>2. ReportsInOrder(k)
            BY DEF FinalInv
        <3> QED
            BY <2>1, <2>3, <3>1, <3>2 DEF ReportsInOrder
    <2> QED
        BY <2>6, <2>7 DEF FinalInv
<1>7. ASSUME NEW c \in Conn, Receive(c) PROVE FinalInv'
    <2>1. cur # NoConn /\ UNCHANGED <<outQ, toRelay, exited, net, cur>>
        BY <1>7, NoConnAssumption DEF Receive
    <2> QED
        BY <1>2, <2>1
<1>8. ASSUME NEW s \in Session, Api(s) \/ Exit(s)
      PROVE  UNCHANGED <<outQ, toRelay, exited, net, cur, ag>>
    BY <1>8 DEF Api, CreateSession, SendCreate, FailCreate, KillSession, FinishKill,
                DeleteSession, FinishDelete, ClientGone, Exit
<1>9. ASSUME NEW c \in Conn, RegisterHost(c) \/ WriterEnds(c)
      PROVE  UNCHANGED <<outQ, toRelay, exited, net, cur, ag>>
    BY <1>9 DEF RegisterHost, WriterEnds
<1>10. ASSUME NEW c \in Conn, UnregisterHost(c) \/ Disconnect(c) \/ Break(c) PROVE FALSE
    BY <1>10 DEF UnregisterHost, Disconnect, Break, FinalInv, OneConnection
<1>11. ~RestartRelay /\ ~CrashAgent
    BY DEF RestartRelay, CrashAgent
<1>12. CASE UNCHANGED vars
    BY <1>2, <1>12 DEF vars
<1> QED
    BY <1>2, <1>3, <1>4, <1>5, <1>6, <1>7, <1>8, <1>9, <1>10, <1>11, <1>12 DEF Next, Connection

\* There is no connection at first.
LEMMA FinalInit == Init => FinalInv
BY NoConnAssumption DEF Init, FinalInv, OneConnection, ReportsInOrder, StopIsLast, NoStart, Stops

\* No step shows a session running again whose exit is recorded.
LEMMA ExitStaysFinal ==
    ASSUME Faults \subseteq {"cancel"}, IInv, FinalInv, Next,
           NEW s \in exited, row'[s] = "running"
    PROVE  row[s] = "running"
<1> USE DEF db, api, relay, agent, wires
<1>1. TypeOK /\ s \in Session
    BY DEF IInv, TypeOK
<1>2. ASSUME NEW c \in Conn, Route(c) PROVE row[s] = "running"
    <2> DEFINE h == Head(toRelay[c])
    <2>1. toRelay[c] # << >> /\ toRelay[c] \in Seq(List \cup Report)
        BY <1>1, <1>2 DEF Route, TypeOK
    <2>2. /\ h = toRelay[c][1] /\ 1 \in 1 .. Len(toRelay[c]) /\ h \in List \cup Report
        BY <2>1, TailElems
    <2>3. ~IsStart(h, s) /\ (h.type = "list" => h.ids = {})
        BY <1>1, <2>2 DEF FinalInv, OneConnection, ReportsInOrder, NoStart
    <2>4. CASE h.type = "list"
        BY <1>1, <1>2, <2>3, <2>4 DEF Route, RestoredRows
    <2>5. CASE h.type = "started"
        BY <1>1, <1>2, <2>3, <2>5 DEF Route, SetStatus, TypeOK, IsStart
    <2>6. CASE h.type = "stopped"
        BY <1>1, <1>2, <2>6 DEF Route, SetStatus, TypeOK
    <2> QED
        BY <2>2, <2>4, <2>5, <2>6, MessageFields
<1>3. ASSUME NEW k \in Session, Api(k) \/ Goroutines(k) \/ Exit(k) PROVE row[s] = "running"
    BY <1>1, <1>3 DEF Api, CreateSession, SendCreate, FailCreate, KillSession, FinishKill,
              DeleteSession, FinishDelete, ClientGone, Goroutines, SpawnFails, Spawn, AddToPool,
              SendStarted, RemoveFromPool, SendStopped, Exit, SetStatus, TypeOK
<1>4. ASSUME NEW c \in Conn, Connection(c) \/ Break(c), ~Route(c) PROVE row[s] = "running"
    BY <1>4 DEF Connection, RegisterHost, UnregisterHost, Connect, Disconnect, Receive,
                WriterTakes, WriterEnds, Break
<1>5. ~RestartRelay /\ ~CrashAgent
    BY DEF RestartRelay, CrashAgent
<1> QED
    BY <1>2, <1>3, <1>4, <1>5 DEF Next

\* A recorded exit is final when the connection and the programs last.
THEOREM ExitsAreFinal ==
    ASSUME Faults \subseteq {"cancel"}
    PROVE  Spec => ExitIsFinal
<1>1. IInv /\ IInv' /\ FinalInv /\ [Next]_vars => FinalInv'
    BY FinalStep
<1>2. IInv /\ FinalInv /\ [Next]_vars
         => [\A s \in exited : row'[s] = "running" => row[s] = "running"]_vars
    BY ExitStaysFinal
<1> QED
    BY <1>1, <1>2, FinalInit, Invariant, PTL DEF Spec, ExitIsFinal

----------------------------------------------------------------------------
\* With nothing under way the rows agree with the processes
\*
\* What the relay has still to learn of a session is on its way: as a call of
\* the API or a message to the agent, as a phase in the agent, as a report in
\* outQ or on the connection.

Has(type, s, q) == \E i \in 1 .. Len(q) : q[i].type = type /\ q[i].s = s

OnPath(type, s) == Has(type, s, outQ) \/ \E c \in Conn : Has(type, s, toRelay[c])

CreateOnWay(s) ==
    \/ <<"create", s>> \in pend \/ <<"fail", s>> \in pend
    \/ \E c \in Conn : \E i \in Nat : CreateAt(s, c, i)

\* A row is "starting" while somebody has still to say what became of it.
StartingIsOwed ==
    \A s \in Session : row[s] = "starting" =>
        \/ CreateOnWay(s)
        \/ ag[s] \in {"go", "spawned", "pooled"}
        \/ OnPath("started", s) \/ OnPath("stopped", s)

\* A session that was announced is shown, was killed, or its report is on the way.
AnnouncedIsHeard ==
    \A s \in Session : ag[s] = "announced" =>
        row[s] = "running" \/ s \in asked \/ OnPath("started", s)

\* One that ended is recorded, for good, or its report is on the way.
EndIsHeard ==
    /\ \A s \in Session : Ended(s) => s \in exited \/ OnPath("stopped", s)
    /\ \A s \in exited : row[s] = "stopped"

\* No writer is left whose connection does not work.
WritersWork == \A c \in writers : net[c] = "up"

QuietInv == StartingIsOwed /\ AnnouncedIsHeard /\ EndIsHeard /\ WritersWork

\* Session s reports to the relay.
Reporting(s) == SpawnFails(s) \/ SendStarted(s) \/ SendStopped(s)

\* A report finds the buffer full.
Drops == \E s \in Session : Reporting(s) /\ Len(outQ) >= OutCap

\* Reports stay in a sequence that is appended to, and leave it at its head.
LEMMA HasAppend ==
    ASSUME NEW q \in Seq(List \cup Report), NEW m \in List \cup Report, NEW type, NEW s
    PROVE  /\ Has(type, s, q) => Has(type, s, Append(q, m))
           /\ m.type = type /\ m.s = s => Has(type, s, Append(q, m))
<1> DEFINE r == Append(q, m)
<1>1. /\ Len(r) = Len(q) + 1 /\ Len(q) \in Nat
      /\ \A i \in 1 .. Len(q) : r[i] = q[i] /\ i \in 1 .. Len(r)
      /\ r[Len(q) + 1] = m /\ Len(q) + 1 \in 1 .. Len(r)
    BY AppendElems
<1> HIDE DEF r
<1>2. Has(type, s, q) => Has(type, s, r)
    BY <1>1 DEF Has
<1>3. m.type = type /\ m.s = s => Has(type, s, r)
    BY <1>1 DEF Has
<1> QED
    BY <1>2, <1>3 DEF r

LEMMA HasTail ==
    ASSUME NEW q \in Seq(List \cup Report), q # << >>, NEW type, NEW s, Has(type, s, q)
    PROVE  Has(type, s, Tail(q)) \/ (Head(q).type = type /\ Head(q).s = s)
<1> DEFINE r == Tail(q)
           h == Head(q)
<1>1. h = q[1] /\ Len(q) \in Nat /\ Len(r) = Len(q) - 1
    BY TailElems
<1>2. \A i \in 1 .. Len(r) : r[i] = q[i + 1]
    BY TailElems
<1>3. PICK i \in 1 .. Len(q) : q[i].type = type /\ q[i].s = s
    BY DEF Has
<1> HIDE DEF r, h
<1>4. CASE i = 1
    BY <1>1, <1>3, <1>4 DEF h
<1>5. CASE i # 1
    <2>1. i - 1 \in 1 .. Len(r) /\ r[i - 1] = q[i]
        BY <1>1, <1>2, <1>5
    <2>2. Has(type, s, r)
        BY <1>3, <2>1 DEF Has
    <2> QED
        BY <2>2 DEF r
<1> QED
    BY <1>4, <1>5

\* A report that finds room is on the path.
LEMMA ReportIsOnPath ==
    ASSUME TypeOK, NEW type \in {"started", "stopped"}, NEW s \in Session,
           SendToRelay([type |-> type, s |-> s]), Len(outQ) < OutCap
    PROVE  OnPath(type, s)'
<1> DEFINE m == [type |-> type, s |-> s]
<1>1. m \in List \cup Report /\ outQ \in Seq(List \cup Report)
    <2>1. m \in Report
        BY MessageTypes
    <2>2. outQ \in Seq(List \cup Report)
        BY DEF TypeOK
    <2> QED
        BY <2>1, <2>2
<1>2. outQ' = Append(outQ, m)
    BY DEF SendToRelay
<1>3. m.type = type /\ m.s = s
    OBVIOUS
<1> HIDE DEF m
<1>4. Has(type, s, outQ')
    BY <1>1, <1>2, <1>3, HasAppend
<1> QED
    BY <1>4 DEF OnPath

\* The relay reads a report of s.
Reads(type, s) ==
    \E c \in Conn : Route(c) /\ Head(toRelay[c]).type = type /\ Head(toRelay[c]).s = s

\* A report stays on the path until it is read.
LEMMA PathStep ==
    ASSUME Faults = {}, IInv, FinalInv, WritersWork, [Next]_vars,
           NEW type, NEW s \in Session, OnPath(type, s)
    PROVE  OnPath(type, s)' \/ Reads(type, s)
<1> USE DEF db, api, relay, agent, wires
<1> DEFINE M == List \cup Report
<1>1. TypeOK
    BY DEF IInv
<1>2. outQ \in Seq(M) /\ \A c \in Conn : toRelay[c] \in Seq(M)
    BY <1>1 DEF TypeOK
<1>3. CASE outQ' = outQ /\ toRelay' = toRelay
    BY <1>3 DEF OnPath
<1>4. ASSUME NEW k \in Session, Goroutines(k) PROVE OnPath(type, s)'
    <2>1. toRelay' = toRelay
        BY <1>4 DEF Goroutines, SpawnFails, Spawn, AddToPool, SendStarted,
                    RemoveFromPool, SendStopped
    <2>2. ASSUME NEW m \in Report, SendToRelay(m) PROVE OnPath(type, s)'
        BY <1>2, <2>1, <2>2, HasAppend DEF SendToRelay, OnPath
    <2>3. CASE SendStarted(k)
        BY <2>2, <2>3, MessageTypes DEF SendStarted
    <2>4. CASE SpawnFails(k) \/ SendStopped(k)
        BY <2>2, <2>4, MessageTypes DEF SpawnFails, SendStopped
    <2>5. CASE Spawn(k) \/ AddToPool(k) \/ RemoveFromPool(k)
        BY <2>1, <2>5 DEF Spawn, AddToPool, RemoveFromPool, OnPath
    <2> QED
        BY <1>4, <2>3, <2>4, <2>5 DEF Goroutines
<1>5. ASSUME NEW c \in Conn, WriterTakes(c) PROVE OnPath(type, s)'
    <2> DEFINE h == Head(outQ)
    <2>1. outQ # << >> /\ outQ' = Tail(outQ) /\ net[c] = "up"
        BY <1>5 DEF WriterTakes, WritersWork
    <2>2. h \in M
        BY <1>2, <2>1, TailElems
    <2>3. toRelay' = [toRelay EXCEPT ![c] = Append(@, h)]
        BY <1>5, <2>1 DEF WriterTakes
    <2> HIDE DEF h
    <2>4. toRelay'[c] = Append(toRelay[c], h) /\ \A d \in Conn \ {c} : toRelay'[d] = toRelay[d]
        BY <1>1, <2>3 DEF TypeOK
    <2>5. Has(type, s, outQ) => Has(type, s, outQ') \/ (h.type = type /\ h.s = s)
        BY <1>2, <2>1, HasTail DEF h
    <2>6. /\ Has(type, s, toRelay[c]) => Has(type, s, toRelay'[c])
          /\ h.type = type /\ h.s = s => Has(type, s, toRelay'[c])
        BY <1>2, <2>2, <2>4, HasAppend
    <2> QED
        BY <2>4, <2>5, <2>6 DEF OnPath
<1>6. ASSUME NEW c \in Conn, Route(c) PROVE OnPath(type, s)' \/ Reads(type, s)
    <2> DEFINE h == Head(toRelay[c])
    <2>1. toRelay[c] # << >> /\ outQ' = outQ
        BY <1>6 DEF Route
    <2>2. toRelay'[c] = Tail(toRelay[c]) /\ \A d \in Conn \ {c} : toRelay'[d] = toRelay[d]
        BY <1>1, <1>6 DEF Route, TypeOK
    <2>3. Has(type, s, toRelay[c]) => Has(type, s, toRelay'[c]) \/ (h.type = type /\ h.s = s)
        BY <1>2, <2>1, <2>2, HasTail
    <2>4. h.type = type /\ h.s = s => Reads(type, s)
        BY <1>6 DEF Reads
    <2> QED
        BY <2>1, <2>2, <2>3, <2>4 DEF OnPath
<1>7. ASSUME NEW c \in Conn, Connect(c) PROVE OnPath(type, s)'
    <2>1. toRelay[c] = << >> /\ outQ' = outQ
        BY <1>7 DEF Connect, FinalInv, OneConnection
    <2>2. \A d \in Conn \ {c} : toRelay'[d] = toRelay[d]
        BY <1>1, <1>7 DEF Connect, TypeOK
    <2>3. ~Has(type, s, toRelay[c])
        BY <2>1 DEF Has
    <2> QED
        BY <2>1, <2>2, <2>3 DEF OnPath
<1>8. ASSUME NEW k \in Session, Api(k) \/ Exit(k) PROVE outQ' = outQ /\ toRelay' = toRelay
    BY <1>8 DEF Api, CreateSession, SendCreate, FailCreate, KillSession, FinishKill,
                DeleteSession, FinishDelete, ClientGone, Exit
<1>9. ASSUME NEW c \in Conn, RegisterHost(c) \/ Receive(c) \/ WriterEnds(c)
      PROVE  outQ' = outQ /\ toRelay' = toRelay
    BY <1>9 DEF RegisterHost, Receive, WriterEnds
<1>10. ASSUME NEW c \in Conn, UnregisterHost(c) \/ Disconnect(c) \/ Break(c) PROVE FALSE
    BY <1>10 DEF UnregisterHost, Disconnect, Break, FinalInv, OneConnection
<1>11. ~RestartRelay /\ ~CrashAgent
    BY DEF RestartRelay, CrashAgent
<1>12. CASE UNCHANGED vars
    BY <1>3, <1>12 DEF vars
<1> QED
    BY <1>3, <1>4, <1>5, <1>6, <1>7, <1>8, <1>9, <1>10, <1>11, <1>12 DEF Next, Connection

\* How a row changes.
LEMMA RowChange ==
    ASSUME Faults = {}, IInv, FinalInv, [Next]_vars, NEW s \in Session, row'[s] # row[s]
    PROVE  \/ row[s] = "none" /\ row'[s] = "starting" /\ <<"create", s>> \in pend'
           \/ row'[s] = "error" /\ ag[s] = "none"
           \/ row'[s] = "stopped" /\ s \in asked
           \/ row'[s] = "running" /\ Reads("started", s) /\ s \notin exited
           \/ row'[s] = "stopped" /\ Reads("stopped", s) /\ Ended(s)
<1> USE DEF db, api, relay, agent, wires
<1>1. TypeOK /\ CreateOnce /\ ReportsTrue /\ ListsTrue
    BY DEF IInv
<1>2. ASSUME NEW k \in Session, Api(k)
      PROVE  \/ row[s] = "none" /\ row'[s] = "starting" /\ <<"create", s>> \in pend'
             \/ row'[s] = "error" /\ ag[s] = "none"
             \/ row'[s] = "stopped" /\ s \in asked
    <2>1. CASE CreateSession(k)
        BY <1>1, <2>1 DEF CreateSession, SetStatus, TypeOK
    <2>2. CASE FailCreate(k)
        <3>1. ag[k] = "none"
            BY <1>1, <2>2 DEF FailCreate, CreateOnce
        <3> QED
            BY <1>1, <2>2, <3>1 DEF FailCreate, SetStatus, TypeOK
    <2>3. CASE FinishKill(k)
        <3>1. k \in asked
            BY <1>1, <2>3 DEF FinishKill, ListsTrue
        <3> QED
            BY <1>1, <2>3, <3>1 DEF FinishKill, SetStatus, TypeOK
    <2>4. CASE SendCreate(k) \/ KillSession(k) \/ DeleteSession(k) \/ FinishDelete(k) \/ ClientGone(k)
        BY <2>4 DEF SendCreate, KillSession, DeleteSession, FinishDelete, ClientGone
    <2> QED
        BY <1>2, <2>1, <2>2, <2>3, <2>4 DEF Api
<1>3. ASSUME NEW c \in Conn, Route(c)
      PROVE  \/ row'[s] = "running" /\ Reads("started", s) /\ s \notin exited
             \/ row'[s] = "stopped" /\ Reads("stopped", s) /\ Ended(s)
    <2> DEFINE h == Head(toRelay[c])
    <2>1. toRelay[c] # << >> /\ toRelay[c] \in Seq(List \cup Report)
        BY <1>1, <1>3 DEF Route, TypeOK
    <2>2. h = toRelay[c][1] /\ 1 \in 1 .. Len(toRelay[c]) /\ h \in List \cup Report
        BY <2>1, TailElems
    <2>3. h.type = "list" => h.ids = {}
        BY <2>2 DEF FinalInv, OneConnection
    <2>4. h.type # "list"
        BY <1>1, <1>3, <2>3 DEF Route, RestoredRows, TypeOK
    <2>5. h.type \in {"started", "stopped"} /\ h.s \in Session
        BY <2>2, <2>4, MessageFields
    <2>6. h.s = s
        BY <1>1, <1>3, <2>5 DEF Route, SetStatus, TypeOK
    <2>7. CASE h.type = "started"
        <3>1. s \notin exited
            BY <2>2, <2>6, <2>7 DEF FinalInv, ReportsInOrder, NoStart, IsStart
        <3>2. Reads("started", s)
            BY <1>3, <2>6, <2>7 DEF Reads
        <3> QED
            BY <1>1, <1>3, <2>6, <2>7, <3>1, <3>2 DEF Route, SetStatus, TypeOK
    <2>8. CASE h.type = "stopped"
        <3>1. Ended(s)
            BY <1>1, <1>3, <2>6, <2>8, RoutedIsTrue DEF Truthful, Ended
        <3>2. Reads("stopped", s)
            BY <1>3, <2>6, <2>8 DEF Reads
        <3> QED
            BY <1>1, <1>3, <2>6, <2>8, <3>1, <3>2 DEF Route, SetStatus, TypeOK
    <2> QED
        BY <2>5, <2>7, <2>8
<1>4. ASSUME NEW k \in Session, Goroutines(k) \/ Exit(k) PROVE row' = row
    BY <1>4 DEF Goroutines, SpawnFails, Spawn, AddToPool, SendStarted,
                RemoveFromPool, SendStopped, Exit
<1>5. ASSUME NEW c \in Conn, Connection(c) \/ Break(c), ~Route(c) PROVE row' = row
    BY <1>5 DEF Connection, RegisterHost, UnregisterHost, Connect, Disconnect, Receive,
                WriterTakes, WriterEnds, Break
<1>6. ~RestartRelay /\ ~CrashAgent
    BY DEF RestartRelay, CrashAgent
<1> QED
    BY <1>2, <1>3, <1>4, <1>5, <1>6 DEF Next, vars

\* How the phase of a session changes, and what is sent with it.
LEMMA PhaseChange ==
    ASSUME Faults = {}, IInv, ~Drops, [Next]_vars, NEW s \in Session, ag'[s] # ag[s]
    PROVE  \/ ag[s] = "none" /\ ag'[s] = "go"
           \/ ag[s] = "go" /\ ag'[s] = "spawned"
           \/ ag[s] = "spawned" /\ ag'[s] = "pooled"
           \/ ag[s] = "pooled" /\ ag'[s] = "announced" /\ OnPath("started", s)'
           \/ ag[s] = "announced" /\ ag'[s] = "removed"
           \/ ag[s] \in {"go", "removed"} /\ Ended(s)' /\ OnPath("stopped", s)'
<1> USE DEF db, api, relay, agent, wires
<1>1. TypeOK /\ CreateOnce /\ Len(outQ) \in Nat /\ OutCap \in Nat
    BY CapAssumption DEF IInv, TypeOK
<1>2. ASSUME NEW k \in Session, Goroutines(k)
      PROVE  \/ ag[s] = "go" /\ ag'[s] = "spawned"
             \/ ag[s] = "spawned" /\ ag'[s] = "pooled"
             \/ ag[s] = "pooled" /\ ag'[s] = "announced" /\ OnPath("started", s)'
             \/ ag[s] = "announced" /\ ag'[s] = "removed"
             \/ ag[s] \in {"go", "removed"} /\ Ended(s)' /\ OnPath("stopped", s)'
    <2> USE DEF Step, TypeOK
    <2>1. k = s
        BY <1>1, <1>2 DEF Goroutines, SpawnFails, Spawn, AddToPool, SendStarted,
                    RemoveFromPool, SendStopped
    <2>2. CASE SendStarted(s)
        <3>1. Len(outQ) < OutCap
            BY <1>1, <2>2 DEF Drops, Reporting
        <3>2. OnPath("started", s)'
            BY <1>1, <2>2, <3>1, ReportIsOnPath DEF SendStarted
        <3> QED
            BY <1>1, <2>2, <3>2 DEF SendStarted
    <2>3. CASE SpawnFails(s) \/ SendStopped(s)
        <3>1. Len(outQ) < OutCap
            BY <1>1, <2>3 DEF Drops, Reporting
        <3>2. OnPath("stopped", s)'
            BY <1>1, <2>3, <3>1, ReportIsOnPath DEF SpawnFails, SendStopped
        <3> QED
            BY <1>1, <2>3, <3>2 DEF SpawnFails, SendStopped, Ended, HasEnded
    <2>4. CASE Spawn(s) \/ AddToPool(s) \/ RemoveFromPool(s)
        BY <1>1, <2>4 DEF Spawn, AddToPool, RemoveFromPool
    <2> QED
        BY <1>2, <2>1, <2>2, <2>3, <2>4 DEF Goroutines
<1>3. ASSUME NEW c \in Conn, Receive(c) PROVE ag[s] = "none" /\ ag'[s] = "go"
    <2> DEFINE m == Head(toAgent[c])
    <2>1. m.type = "create"
        BY <1>3 DEF Receive
    <2>2. CreateAt(m.s, c, 1) /\ m.s \in Session
        BY <1>1, <1>3, <2>1, ReceivedCreate
    <2>3. ag[m.s] = "none"
        BY <1>1, <2>2 DEF CreateOnce
    <2>4. ag' = [ag EXCEPT ![m.s] = "go"]
        BY <1>3, <2>1 DEF Receive
    <2> HIDE DEF m
    <2> QED
        BY <1>1, <2>2, <2>3, <2>4 DEF TypeOK
<1>4. ASSUME NEW k \in Session, Api(k) \/ Exit(k) PROVE ag' = ag
    BY <1>4 DEF Api, CreateSession, SendCreate, FailCreate, KillSession, FinishKill,
                DeleteSession, FinishDelete, ClientGone, Exit
<1>5. ASSUME NEW c \in Conn, Connection(c) \/ Break(c), ~Receive(c) PROVE ag' = ag
    BY <1>5 DEF Connection, RegisterHost, UnregisterHost, Connect, Disconnect, Route,
                WriterTakes, WriterEnds, Break
<1>6. ~RestartRelay /\ ~CrashAgent
    BY DEF RestartRelay, CrashAgent
<1> QED
    BY <1>2, <1>3, <1>4, <1>5, <1>6 DEF Next, vars

\* The create of s stays on its way until the agent or the row knows.
LEMMA CreateOnWayStep ==
    ASSUME Faults = {}, IInv, FinalInv, [Next]_vars, NEW s \in Session, CreateOnWay(s)
    PROVE  CreateOnWay(s)' \/ ag'[s] = "go" \/ row'[s] = "error"
<1> USE DEF db, api, relay, agent, wires
<1>1. TypeOK
    BY DEF IInv
<1>2. ASSUME pend \subseteq pend', toAgent' = toAgent PROVE CreateOnWay(s)'
    BY <1>2 DEF CreateOnWay, CreateAt
\* What is on the way to the agent stays where it is when more is sent.
<1>3. ASSUME NEW m \in ToAgentMsg, SendToHost(m), NEW c \in Conn, NEW i \in Nat, CreateAt(s, c, i)
      PROVE  CreateAt(s, c, i)'
    <2>1. CASE CanSend /\ c = reg
        <3>1. toAgent[c] \in Seq(ToAgentMsg) /\ toAgent'[c] = Append(toAgent[c], m)
            BY <1>1, <1>3, <2>1 DEF SendToHost, TypeOK
        <3>2. /\ Len(toAgent'[c]) = Len(toAgent[c]) + 1 /\ Len(toAgent[c]) \in Nat
              /\ \A j \in 1 .. Len(toAgent[c]) : toAgent'[c][j] = toAgent[c][j]
            BY <3>1, AppendElems
        <3> QED
            BY <1>3, <3>2 DEF CreateAt
    <2>2. CASE ~(CanSend /\ c = reg)
        <3>1. toAgent'[c] = toAgent[c]
            BY <1>1, <1>3, <2>2 DEF SendToHost, TypeOK
        <3> QED
            BY <1>3, <3>1 DEF CreateAt
    <2> QED
        BY <2>1, <2>2
<1>4. ASSUME NEW k \in Session, SendCreate(k) PROVE CreateOnWay(s)'
    <2> DEFINE m == [type |-> "create", s |-> k]
    <2>1. SendToHost(m) /\ m \in ToAgentMsg
        BY <1>4, MessageTypes DEF SendCreate
    <2>2. pend' = (pend \ {<<"create", k>>}) \cup (IF CanSend THEN {} ELSE {<<"fail", k>>})
        BY <1>4 DEF SendCreate
    <2>3. CASE k = s /\ CanSend
        <3>1. reg \in Conn /\ toAgent[reg] \in Seq(ToAgentMsg)
            BY <1>1, <2>3 DEF CanSend, TypeOK
        <3>2. toAgent'[reg] = Append(toAgent[reg], m)
            BY <1>1, <2>1, <2>3, <3>1 DEF SendToHost, TypeOK
        <3>3. m.type = "create" /\ m.s = s
            BY <2>3
        <3> HIDE DEF m
        <3>4. /\ Len(toAgent'[reg]) = Len(toAgent[reg]) + 1 /\ Len(toAgent[reg]) \in Nat
              /\ toAgent'[reg][Len(toAgent[reg]) + 1] = m
            BY <2>1, <3>1, <3>2, AppendElems
        <3>5. PICK c \in Conn, i \in Nat : c = reg /\ i = Len(toAgent[reg]) + 1
            BY <3>1, <3>4
        <3>6. CreateAt(s, c, i)'
            BY <3>3, <3>4, <3>5 DEF CreateAt
        <3> QED
            BY <3>6 DEF CreateOnWay
    <2>4. CASE k = s /\ ~CanSend
        BY <2>2, <2>4 DEF CreateOnWay
    <2>5. CASE k # s
        <3>1. \A type \in {"create", "fail"} : <<type, s>> \in pend => <<type, s>> \in pend'
            BY <2>2, <2>5
        <3>2. \A c \in Conn, i \in Nat : CreateAt(s, c, i) => CreateAt(s, c, i)'
            BY <1>3, <2>1
        <3> QED
            BY <3>1, <3>2 DEF CreateOnWay
    <2> QED
        BY <2>3, <2>4, <2>5
<1>5. ASSUME NEW k \in Session, KillSession(k) \/ DeleteSession(k) PROVE CreateOnWay(s)'
    <2>1. pend \subseteq pend' /\ \E m \in ToAgentMsg : SendToHost(m)
        BY <1>5, MessageTypes DEF KillSession, DeleteSession
    <2>2. \A c \in Conn, i \in Nat : CreateAt(s, c, i) => CreateAt(s, c, i)'
        BY <1>3, <2>1
    <2> QED
        BY <2>1, <2>2 DEF CreateOnWay
<1>6. ASSUME NEW k \in Session, FailCreate(k) PROVE CreateOnWay(s)' \/ row'[s] = "error"
    <2>1. CASE k = s
        BY <1>1, <1>6, <2>1 DEF FailCreate, SetStatus, TypeOK
    <2>2. CASE k # s
        BY <1>6, <2>2 DEF FailCreate, CreateOnWay, CreateAt
    <2> QED
        BY <2>1, <2>2
<1>7. ASSUME NEW k \in Session, FinishKill(k) \/ FinishDelete(k) PROVE CreateOnWay(s)'
    <2>1. /\ <<"create", s>> \in pend => <<"create", s>> \in pend'
          /\ <<"fail", s>> \in pend => <<"fail", s>> \in pend'
          /\ toAgent' = toAgent
        BY <1>7 DEF FinishKill, FinishDelete
    <2> QED
        BY <2>1 DEF CreateOnWay, CreateAt
<1>8. ASSUME NEW c \in Conn, Receive(c) PROVE CreateOnWay(s)' \/ ag'[s] = "go"
    <2> DEFINE m == Head(toAgent[c])
    <2>1. /\ toAgent[c] \in Seq(ToAgentMsg) /\ toAgent[c] # << >>
          /\ toAgent' = [toAgent EXCEPT ![c] = Tail(@)] /\ pend' = pend
        BY <1>1, <1>8 DEF Receive, TypeOK
    <2>2. toAgent'[c] = Tail(toAgent[c]) /\ \A d \in Conn \ {c} : toAgent'[d] = toAgent[d]
        BY <1>1, <2>1 DEF TypeOK
    <2>3. ASSUME NEW i \in Nat, CreateAt(s, c, i) PROVE CreateOnWay(s)' \/ ag'[s] = "go"
        <3>1. CASE i = 1
            <4>1. m.type = "create" /\ m.s = s
                BY <2>1, <2>3, <3>1, TailElems DEF CreateAt
            <4>2. ag' = [ag EXCEPT ![m.s] = "go"]
                BY <1>8, <4>1 DEF Receive
            <4> QED
                BY <1>1, <4>1, <4>2 DEF TypeOK
        <3>2. CASE i # 1
            <4> DEFINE q == toAgent[c]
            <4>0. /\ Len(Tail(q)) = Len(q) - 1 /\ Len(q) \in Nat
                  /\ \A j \in 1 .. Len(Tail(q)) : Tail(q)[j] = q[j + 1]
                BY <2>1, TailElems
            <4>1. /\ Len(toAgent'[c]) = Len(toAgent[c]) - 1 /\ Len(toAgent[c]) \in Nat
                  /\ \A j \in 1 .. Len(toAgent'[c]) : toAgent'[c][j] = toAgent[c][j + 1]
                BY <2>2, <4>0
            <4> DEFINE j == i - 1
            <4>2. j \in Nat /\ j + 1 = i /\ j \in 1 .. Len(toAgent'[c])
                BY <2>3, <3>2, <4>1 DEF CreateAt
            <4>3. toAgent'[c][j] = toAgent[c][i]
                BY <4>1, <4>2
            <4> HIDE DEF j
            <4>4. CreateAt(s, c, j)'
                BY <2>3, <4>2, <4>3 DEF CreateAt
            <4> QED
                BY <4>2, <4>4 DEF CreateOnWay
        <3> QED
            BY <3>1, <3>2
    <2>4. ASSUME NEW d \in Conn \ {c}, NEW i \in Nat, CreateAt(s, d, i) PROVE CreateOnWay(s)'
        <3>1. CreateAt(s, d, i)'
            BY <2>2, <2>4 DEF CreateAt
        <3> QED
            BY <3>1 DEF CreateOnWay
    <2> QED
        BY <2>1, <2>3, <2>4 DEF CreateOnWay
<1>9. ASSUME NEW k \in Session, CreateSession(k) \/ Goroutines(k) \/ Exit(k)
      PROVE  pend \subseteq pend' /\ toAgent' = toAgent
    BY <1>9 DEF CreateSession, Goroutines, SpawnFails, Spawn, AddToPool, SendStarted,
                RemoveFromPool, SendStopped, Exit
<1>10. ASSUME NEW c \in Conn,
              RegisterHost(c) \/ Route(c) \/ Connect(c) \/ WriterTakes(c) \/ WriterEnds(c)
       PROVE  pend \subseteq pend' /\ toAgent' = toAgent
    BY <1>10 DEF RegisterHost, Route, Connect, WriterTakes, WriterEnds
<1>11. ASSUME NEW c \in Conn, UnregisterHost(c) \/ Disconnect(c) \/ Break(c) PROVE FALSE
    BY <1>11 DEF UnregisterHost, Disconnect, Break, FinalInv, OneConnection
<1>12. ASSUME NEW k \in Session, ClientGone(k) PROVE FALSE
    BY <1>12 DEF ClientGone
<1>13. ~RestartRelay /\ ~CrashAgent
    BY DEF RestartRelay, CrashAgent
<1>14. CASE UNCHANGED vars
    BY <1>2, <1>14 DEF vars
<1> QED
    BY <1>2, <1>4, <1>5, <1>6, <1>7, <1>8, <1>9, <1>10, <1>11, <1>12, <1>13, <1>14
       DEF Next, Api, Connection

\* Every step that drops no report keeps QuietInv.
LEMMA QuietStep ==
    ASSUME Faults = {}, IInv, IInv', FinalInv, QuietInv, ~Drops, [Next]_vars
    PROVE  QuietInv'
<1> DEFINE Changed(s) ==
        \/ row[s] = "none" /\ row'[s] = "starting" /\ <<"create", s>> \in pend'
        \/ row'[s] = "error" /\ ag[s] = "none"
        \/ row'[s] = "stopped" /\ s \in asked
        \/ row'[s] = "running" /\ Reads("started", s) /\ s \notin exited
        \/ row'[s] = "stopped" /\ Reads("stopped", s) /\ Ended(s)
<1>1. ASSUME NEW s \in Session PROVE row'[s] = row[s] \/ Changed(s)
    BY RowChange
<1>2. TypeOK /\ CreateOnce /\ RowsTrue /\ WritersWork
    BY DEF IInv, QuietInv
<1>3. \A s \in Session : /\ OnPath("started", s) => OnPath("started", s)' \/ Reads("started", s)
                         /\ OnPath("stopped", s) => OnPath("stopped", s)' \/ Reads("stopped", s)
    BY <1>2, PathStep
<1>4. ASSUME NEW s \in Session, Reads("started", s) PROVE row'[s] = "running"
    BY <1>2, <1>4 DEF Reads, Route, SetStatus, TypeOK
<1>5. ASSUME NEW s \in Session, Reads("stopped", s) PROVE row'[s] = "stopped" /\ s \in exited'
    BY <1>2, <1>5 DEF Reads, Route, SetStatus, TypeOK
<1>6. StartingIsOwed'
    <2> SUFFICES ASSUME NEW s \in Session, row'[s] = "starting"
                 PROVE  \/ CreateOnWay(s)' \/ ag'[s] \in {"go", "spawned", "pooled"}
                        \/ OnPath("started", s)' \/ OnPath("stopped", s)'
        BY DEF StartingIsOwed
    <2>1. CASE row[s] # "starting"
        BY <1>1, <2>1 DEF CreateOnWay
    <2>2. CASE row[s] = "starting"
        <3>1. CASE CreateOnWay(s)
            BY <3>1, CreateOnWayStep
        <3>2. CASE ag[s] \in {"go", "spawned", "pooled"}
            BY <3>2, PhaseChange
        <3>3. CASE OnPath("started", s) \/ OnPath("stopped", s)
            BY <1>3, <1>4, <1>5, <3>3
        <3> QED
            BY <2>2, <3>1, <3>2, <3>3 DEF QuietInv, StartingIsOwed
    <2> QED
        BY <2>1, <2>2
<1>7. AnnouncedIsHeard'
    <2> SUFFICES ASSUME NEW s \in Session, ag'[s] = "announced"
                 PROVE  row'[s] = "running" \/ s \in asked' \/ OnPath("started", s)'
        BY DEF AnnouncedIsHeard
    <2>1. CASE ag[s] # "announced"
        BY <2>1, PhaseChange DEF Ended, HasEnded
    <2>2. CASE ag[s] = "announced"
        <3>1. asked \subseteq asked'
            BY DEF Next, Api, CreateSession, SendCreate, FailCreate, KillSession, FinishKill,
                   DeleteSession, FinishDelete, ClientGone, Goroutines, SpawnFails, Spawn,
                   AddToPool, SendStarted, RemoveFromPool, SendStopped, Exit, Connection,
                   RegisterHost, Route, UnregisterHost, Connect, Disconnect, Receive,
                   WriterTakes, WriterEnds, Break, RestartRelay, CrashAgent, vars, api
        <3>2. ~Ended(s) /\ row[s] # "none"
            BY <1>2, <2>2 DEF Ended, HasEnded, CreateOnce
        <3>3. row[s] = "running" => row'[s] = "running" \/ s \in asked
            BY <1>1, <2>2, <3>2
        <3> QED
            BY <1>3, <1>4, <2>2, <3>1, <3>3 DEF QuietInv, AnnouncedIsHeard
    <2> QED
        BY <2>1, <2>2
<1>8. EndIsHeard'
    <2>1. \A s \in exited : s \in exited' /\ s \in Session
        <3>1. exited \subseteq exited'
            BY DEF Next, Api, CreateSession, SendCreate, FailCreate, KillSession, FinishKill,
                   DeleteSession, FinishDelete, ClientGone, Goroutines, SpawnFails, Spawn,
                   AddToPool, SendStarted, RemoveFromPool, SendStopped, Exit, Connection,
                   RegisterHost, Route, UnregisterHost, Connect, Disconnect, Receive,
                   WriterTakes, WriterEnds, Break, RestartRelay, CrashAgent, vars, db
        <3> QED
            BY <1>2, <3>1 DEF TypeOK
    <2>2. ASSUME NEW s \in Session, Ended(s)' PROVE s \in exited' \/ OnPath("stopped", s)'
        <3>1. CASE Ended(s)
            BY <1>3, <1>5, <2>1, <3>1 DEF QuietInv, EndIsHeard
        <3>2. CASE ~Ended(s)
            <4>1. ag'[s] # ag[s]
                BY <2>2, <3>2 DEF Ended
            <4> QED
                BY <2>2, <4>1, PhaseChange DEF Ended, HasEnded
        <3> QED
            BY <3>1, <3>2
    <2>3. ASSUME NEW s \in exited' PROVE row'[s] = "stopped"
        <3>1. s \in Session
            BY DEF IInv, TypeOK
        <3>2. CASE s \in exited
            <4>1. row[s] = "stopped" /\ Ended(s)
                BY <1>2, <3>2 DEF QuietInv, EndIsHeard, RowsTrue
            <4> QED
                BY <1>1, <3>1, <3>2, <4>1 DEF Ended, HasEnded
        <3>3. CASE s \notin exited
            <4>1. Reads("stopped", s)
                BY <2>3, <3>3
                   DEF Next, Api, CreateSession, SendCreate, FailCreate, KillSession, FinishKill,
                       DeleteSession, FinishDelete, ClientGone, Goroutines, SpawnFails, Spawn,
                       AddToPool, SendStarted, RemoveFromPool, SendStopped, Exit, Connection,
                       RegisterHost, Route, UnregisterHost, Connect, Disconnect, Receive,
                       WriterTakes, WriterEnds, Break, RestartRelay, CrashAgent, vars, db, Reads
            <4> QED
                BY <1>5, <3>1, <4>1
        <3> QED
            BY <3>2, <3>3
    <2> QED
        BY <2>2, <2>3 DEF EndIsHeard
<1>9. WritersWork'
    <2>1. CASE UNCHANGED <<writers, net>>
        BY <1>2, <2>1 DEF WritersWork
    <2>2. ASSUME NEW s \in Session, Api(s) \/ Goroutines(s) \/ Exit(s)
          PROVE  UNCHANGED <<writers, net>>
        BY <2>2 DEF Api, CreateSession, SendCreate, FailCreate, KillSession, FinishKill,
                    DeleteSession, FinishDelete, ClientGone, Goroutines, SpawnFails, Spawn,
                    AddToPool, SendStarted, RemoveFromPool, SendStopped, Exit, agent, wires
    <2>3. ASSUME NEW c \in Conn, RegisterHost(c) \/ Route(c) \/ Receive(c)
          PROVE  UNCHANGED <<writers, net>>
        BY <2>3 DEF RegisterHost, Route, Receive, agent, wires
    <2>4. ASSUME NEW c \in Conn, WriterTakes(c) \/ WriterEnds(c)
          PROVE  writers' \subseteq writers /\ net' = net
        BY <2>4 DEF WriterTakes, WriterEnds, wires
    <2>5. ASSUME NEW c \in Conn, Connect(c) PROVE WritersWork'
        BY <1>2, <2>5 DEF Connect, WritersWork, TypeOK
    <2>6. ASSUME NEW c \in Conn, UnregisterHost(c) \/ Disconnect(c) \/ Break(c) PROVE FALSE
        BY <2>6 DEF UnregisterHost, Disconnect, Break, FinalInv, OneConnection
    <2>7. ~RestartRelay /\ ~CrashAgent
        BY DEF RestartRelay, CrashAgent
    <2>8. CASE UNCHANGED vars
        BY <2>1, <2>8 DEF vars
    <2> QED
        BY <1>2, <2>1, <2>2, <2>3, <2>4, <2>5, <2>6, <2>7, <2>8
           DEF Next, Connection, WritersWork
<1> QED
    BY <1>6, <1>7, <1>8, <1>9 DEF QuietInv

\* When nothing is under way what is owed has been said.
LEMMA QuietInvAgrees == IInv /\ QuietInv => QuietAgrees
<1> SUFFICES ASSUME IInv, QuietInv, Quiet, NEW s \in Session \ deleted
             PROVE  /\ row[s] \in {"starting", "running"} => s \in alive
                    /\ s \in alive \ asked => row[s] = "running"
                    /\ ag[s] \in {"done", "failed"} => row[s] = "stopped"
    BY DEF QuietAgrees
<1>1. /\ ~OnPath("started", s) /\ ~OnPath("stopped", s)
      /\ ~CreateOnWay(s)
    BY DEF Quiet, OnPath, Has, CreateOnWay, CreateAt
<1>2. ag[s] \in {"none", "announced", "done", "failed"} /\ (ag[s] = "announced" => s \in alive)
    BY DEF Quiet
<1>3. ag[s] \in {"done", "failed"} => row[s] = "stopped"
    BY <1>1 DEF QuietInv, EndIsHeard, Ended, HasEnded
<1>4. row[s] # "starting"
    BY <1>1, <1>2 DEF QuietInv, StartingIsOwed
<1>5. row[s] = "running" => s \in alive
    BY <1>2, <1>3 DEF IInv, RowsTrue, Pooled, WasPooled
<1>6. s \in alive \ asked => row[s] = "running"
    BY <1>1, <1>2 DEF IInv, RowsTrue, QuietInv, AnnouncedIsHeard
<1> QED
    BY <1>3, <1>4, <1>5, <1>6

\* Nothing is owed at first.
LEMMA QuietInit == Init => QuietInv
BY DEF Init, QuietInv, StartingIsOwed, AnnouncedIsHeard, EndIsHeard, WritersWork, Ended, HasEnded

\* With nothing under way the rows agree with the processes, while connections
\* and programs last and no report finds the agent's buffer full.
THEOREM RowsAgreeUnlessDropped ==
    ASSUME Faults = {}
    PROVE  Spec /\ [][~Drops]_vars => []QuietAgrees
<1>1. IInv /\ IInv' /\ FinalInv /\ QuietInv /\ [Next]_vars /\ [~Drops]_vars => QuietInv'
    <2> SUFFICES ASSUME IInv, IInv', FinalInv, QuietInv, [Next]_vars, [~Drops]_vars
                 PROVE  QuietInv'
        OBVIOUS
    <2>1. CASE UNCHANGED vars
        BY <2>1 DEF vars, QuietInv, StartingIsOwed, AnnouncedIsHeard, EndIsHeard, WritersWork,
                    CreateOnWay, CreateAt, OnPath, Has, Ended
    <2>2. CASE ~Drops
        BY <2>2, QuietStep
    <2> QED
        BY <2>1, <2>2
<1>2. IInv /\ IInv' /\ FinalInv /\ [Next]_vars => FinalInv'
    BY FinalStep
<1> QED
    BY <1>1, <1>2, FinalInit, QuietInit, QuietInvAgrees, Invariant, PTL DEF Spec

----------------------------------------------------------------------------
\* A buffer with room for two reports of every session drops none.

\* What is in the buffer was sent once.
BufferDistinct ==
    /\ \A i, j \in 1 .. Len(outQ) : outQ[i] = outQ[j] => i = j
    /\ \A s \in Session : Has("started", s, outQ) =>
          ag[s] \in {"announced", "removed", "done", "lost"}

\* A report that is sent is not in the buffer.
LEMMA ReportIsNew ==
    ASSUME IInv, BufferDistinct, NEW s \in Session, NEW i \in 1 .. Len(outQ)
    PROVE  /\ SendStarted(s) => outQ[i] # [type |-> "started", s |-> s]
           /\ SpawnFails(s) \/ SendStopped(s) => outQ[i] # [type |-> "stopped", s |-> s]
<1>1. SendStarted(s) => outQ[i] # [type |-> "started", s |-> s]
    BY DEF SendStarted, Step, BufferDistinct, Has
<1>2. outQ[i] = [type |-> "stopped", s |-> s] => ag[s] \in HasEnded
    BY DEF IInv, ReportsTrue, AllTrue, Truthful
<1>3. SpawnFails(s) \/ SendStopped(s) => outQ[i] # [type |-> "stopped", s |-> s]
    BY <1>2 DEF SpawnFails, SendStopped, Step, HasEnded
<1> QED
    BY <1>1, <1>3

\* Every step keeps the buffer distinct.
LEMMA DistinctStep ==
    ASSUME IInv, BufferDistinct, [Next]_vars
    PROVE  BufferDistinct'
<1> USE DEF db, api, relay, agent, wires
<1>1. TypeOK /\ CreateOnce /\ outQ \in Seq(Report)
    BY DEF IInv, TypeOK
<1> DEFINE Late == {"announced", "removed", "done", "lost"}
<1>2. ASSUME outQ' = outQ,
             \A s \in Session : ag[s] \in Late => ag'[s] \in Late
      PROVE  BufferDistinct'
    BY <1>2 DEF BufferDistinct, Has
<1>3. ASSUME NEW s \in Session, Goroutines(s) PROVE BufferDistinct'
    <2>1. \A k \in Session : ag[k] \in Late => ag'[k] \in Late
        BY <1>1, <1>3 DEF Goroutines, SpawnFails, Spawn, AddToPool, SendStarted,
                          RemoveFromPool, SendStopped, Step, TypeOK
    <2>2. ASSUME NEW m \in Report, SendToRelay(m), \A i \in 1 .. Len(outQ) : outQ[i] # m,
                 m.type = "started" => ag'[m.s] \in Late
          PROVE  BufferDistinct'
        <3>1. CASE outQ' = outQ
            BY <1>2, <2>1, <3>1
        <3>2. CASE outQ' = Append(outQ, m)
            <4>1. /\ Len(outQ') = Len(outQ) + 1 /\ Len(outQ) \in Nat
                  /\ \A i \in 1 .. Len(outQ) : outQ'[i] = outQ[i]
                  /\ outQ'[Len(outQ) + 1] = m
                BY <1>1, <3>2, AppendElems
            <4>2. \A i \in 1 .. Len(outQ') : i \in 1 .. Len(outQ) \/ i = Len(outQ) + 1
                BY <4>1
            <4>3. \A i, j \in 1 .. Len(outQ') : outQ'[i] = outQ'[j] => i = j
                BY <2>2, <4>1, <4>2 DEF BufferDistinct
            <4>4. ASSUME NEW k \in Session, NEW i \in 1 .. Len(outQ'),
                         outQ'[i].type = "started", outQ'[i].s = k
                  PROVE  ag'[k] \in Late
                <5>1. CASE i \in 1 .. Len(outQ)
                    BY <2>1, <4>1, <4>4, <5>1 DEF BufferDistinct, Has
                <5>2. CASE i = Len(outQ) + 1
                    BY <2>2, <4>1, <4>4, <5>2
                <5> QED
                    BY <4>2, <5>1, <5>2
            <4> QED
                BY <4>3, <4>4 DEF BufferDistinct, Has
        <3> QED
            BY <2>2, <3>1, <3>2 DEF SendToRelay
    <2>3. CASE SendStarted(s)
        <3> DEFINE m == [type |-> "started", s |-> s]
        <3>1. m \in Report /\ m.s = s
            BY MessageTypes
        <3>2. ag'[s] \in Late
            BY <1>1, <2>3 DEF SendStarted, Step, TypeOK
        <3>3. SendToRelay(m) /\ \A i \in 1 .. Len(outQ) : outQ[i] # m
            BY <2>3, ReportIsNew DEF SendStarted
        <3> HIDE DEF m
        <3> QED
            BY <2>2, <3>1, <3>2, <3>3
    <2>4. CASE SpawnFails(s) \/ SendStopped(s)
        <3> DEFINE m == [type |-> "stopped", s |-> s]
        <3>1. m \in Report /\ m.type # "started"
            BY MessageTypes
        <3>2. SendToRelay(m) /\ \A i \in 1 .. Len(outQ) : outQ[i] # m
            BY <2>4, ReportIsNew DEF SpawnFails, SendStopped
        <3> HIDE DEF m
        <3> QED
            BY <2>2, <3>1, <3>2
    <2>5. CASE Spawn(s) \/ AddToPool(s) \/ RemoveFromPool(s)
        BY <1>2, <2>1, <2>5 DEF Spawn, AddToPool, RemoveFromPool
    <2> QED
        BY <1>3, <2>3, <2>4, <2>5 DEF Goroutines
<1>4. ASSUME NEW c \in Conn, WriterTakes(c) PROVE BufferDistinct'
    <2>1. outQ # << >> /\ outQ' = Tail(outQ) /\ ag' = ag
        BY <1>4 DEF WriterTakes
    <2>2. \A i \in 1 .. Len(outQ') : outQ'[i] = outQ[i + 1] /\ i + 1 \in 1 .. Len(outQ)
        BY <1>1, <2>1, TailElems
    <2>3. \A i, j \in 1 .. Len(outQ') : outQ'[i] = outQ'[j] => i = j
        <3> SUFFICES ASSUME NEW i \in 1 .. Len(outQ'), NEW j \in 1 .. Len(outQ'),
                            outQ'[i] = outQ'[j]
                     PROVE  i = j
            OBVIOUS
        <3>1. i + 1 = j + 1
            BY <2>2 DEF BufferDistinct
        <3> QED
            BY <3>1
    <2> QED
        BY <2>1, <2>2, <2>3 DEF BufferDistinct, Has
<1>5. ASSUME NEW c \in Conn, Receive(c) PROVE BufferDistinct'
    <2>1. outQ' = outQ
        BY <1>5 DEF Receive
    <2>2. \A s \in Session : ag[s] \in Late => ag'[s] \in Late
        <3> DEFINE m == Head(toAgent[c])
        <3>1. CASE m.type = "create"
            <4>1. m.s \in Session /\ ag[m.s] = "none"
                BY <1>1, <1>5, <3>1, ReceivedCreate DEF CreateOnce
            <4>2. ag' = [ag EXCEPT ![m.s] = "go"]
                BY <1>5, <3>1 DEF Receive
            <4> HIDE DEF m
            <4> QED
                BY <1>1, <4>1, <4>2 DEF TypeOK
        <3>2. CASE m.type # "create"
            BY <1>5, <3>2 DEF Receive
        <3> QED
            BY <3>1, <3>2
    <2> QED
        BY <1>2, <2>1, <2>2
<1>6. CASE CrashAgent
    BY <1>6 DEF CrashAgent, BufferDistinct, Has
<1>7. ASSUME NEW s \in Session, Api(s) \/ Exit(s) PROVE outQ' = outQ /\ ag' = ag
    BY <1>7 DEF Api, CreateSession, SendCreate, FailCreate, KillSession, FinishKill,
                DeleteSession, FinishDelete, ClientGone, Exit
<1>8. ASSUME NEW c \in Conn, Connection(c) \/ Break(c), ~WriterTakes(c), ~Receive(c)
      PROVE  outQ' = outQ /\ ag' = ag
    BY <1>8 DEF Connection, RegisterHost, Route, UnregisterHost, Connect, Disconnect,
                WriterEnds, Break
<1>9. CASE RestartRelay \/ UNCHANGED vars
    BY <1>2, <1>9 DEF RestartRelay, vars
<1> QED
    BY <1>2, <1>3, <1>4, <1>5, <1>6, <1>7, <1>8, <1>9 DEF Next

\* A sequence of distinct elements of a finite set that has not all of them is
\* shorter than the set is large.
LEMMA DistinctIsShort ==
    ASSUME NEW T, IsFiniteSet(T), NEW q \in Seq(T), NEW m \in T,
           \A i, j \in 1 .. Len(q) : q[i] = q[j] => i = j,
           \A i \in 1 .. Len(q) : q[i] # m
    PROVE  Len(q) < Cardinality(T)
<1> DEFINE U == T \ {m}
<1>1. IsFiniteSet(U) /\ Cardinality(U) = Cardinality(T) - 1 /\ Cardinality(T) \in Nat
    BY FS_RemoveElement, FS_CardinalityType
<1>2. Len(q) \in Nat /\ q \in [1 .. Len(q) -> U]
    OBVIOUS
<1>3. q \in Injection(1 .. Len(q), U)
    BY <1>2 DEF Injection, IsInjective
<1>4. Cardinality(1 .. Len(q)) <= Cardinality(U)
    BY <1>1, <1>3, FS_Injection
<1>5. Cardinality(1 .. Len(q)) = Len(q)
    BY <1>2, FS_Interval
<1> QED
    BY <1>1, <1>2, <1>4, <1>5

\* There are two reports of each session.
LEMMA ReportsAreTwo ==
    ASSUME IsFiniteSet(Session)
    PROVE  IsFiniteSet(Report) /\ Cardinality(Report) <= 2 * Cardinality(Session)
<1> DEFINE K == {"started", "stopped"}
           P == K \X Session
           f == [p \in P |-> [type |-> p[1], s |-> p[2]]]
<1>1. IsFiniteSet(K) /\ Cardinality(K) = 2
    <2>1. IsFiniteSet({"started"}) /\ Cardinality({"started"}) = 1
        BY FS_Singleton
    <2>2. K = {"started"} \cup {"stopped"} /\ "stopped" \notin {"started"}
        OBVIOUS
    <2> QED
        BY <2>1, <2>2, FS_AddElement
<1>2. IsFiniteSet(P) /\ Cardinality(P) = 2 * Cardinality(Session)
    BY <1>1, FS_Product
<1>3. f \in Surjection(P, Report)
    <2>1. f \in [P -> Report]
        BY DEF Report
    <2>2. \A r \in Report : \E p \in P : f[p] = r
        <3> SUFFICES ASSUME NEW r \in Report PROVE \E p \in P : f[p] = r
            OBVIOUS
        <3>1. <<r.type, r.s>> \in P /\ r = [type |-> r.type, s |-> r.s]
            BY DEF Report
        <3> QED
            BY <3>1
    <2> QED
        BY <2>1, <2>2 DEF Surjection
<1> QED
    BY <1>2, <1>3, FS_Surjection

\* No report finds such a buffer full.
LEMMA NothingDrops ==
    ASSUME IsFiniteSet(Session), OutCap >= 2 * Cardinality(Session), IInv, BufferDistinct
    PROVE  ~Drops
<1> SUFFICES ASSUME NEW s \in Session, Reporting(s) PROVE Len(outQ) < OutCap
    BY CapAssumption DEF Drops, IInv, TypeOK
<1>1. outQ \in Seq(Report) /\ Len(outQ) \in Nat /\ OutCap \in Nat
    BY CapAssumption DEF IInv, TypeOK
<1>2. PICK m \in Report : \A i \in 1 .. Len(outQ) : outQ[i] # m
    <2>1. CASE SendStarted(s)
        <3>1. \A i \in 1 .. Len(outQ) : outQ[i] # [type |-> "started", s |-> s]
            BY <2>1, ReportIsNew
        <3> QED
            BY <3>1, MessageTypes
    <2>2. CASE SpawnFails(s) \/ SendStopped(s)
        <3>1. \A i \in 1 .. Len(outQ) : outQ[i] # [type |-> "stopped", s |-> s]
            BY <2>2, ReportIsNew
        <3> QED
            BY <3>1, MessageTypes
    <2> QED
        BY <2>1, <2>2 DEF Reporting
<1>3. IsFiniteSet(Report) /\ Cardinality(Report) <= 2 * Cardinality(Session)
    BY ReportsAreTwo
<1>4. Len(outQ) < Cardinality(Report)
    BY <1>1, <1>2, <1>3, DistinctIsShort DEF BufferDistinct
<1>5. Cardinality(Report) \in Nat /\ Cardinality(Session) \in Nat
    BY <1>3, FS_CardinalityType
<1> QED
    BY <1>1, <1>3, <1>4, <1>5

\* With nothing under way the rows agree with the processes, while connections
\* and programs last and the buffer has room for the reports of all sessions.
THEOREM RowsAgree ==
    ASSUME Faults = {}, IsFiniteSet(Session), OutCap >= 2 * Cardinality(Session)
    PROVE  Spec => []QuietAgrees
<1>1. Init => BufferDistinct
    BY DEF Init, BufferDistinct, Has
<1>2. IInv /\ BufferDistinct /\ [Next]_vars => BufferDistinct'
    BY DistinctStep
<1>3. IInv /\ BufferDistinct => ~Drops
    BY NothingDrops
<1>4. Spec => [][~Drops]_vars
    BY <1>1, <1>2, <1>3, Invariant, PTL DEF Spec
<1> QED
    BY <1>4, RowsAgreeUnlessDropped, PTL
=============================================================================
