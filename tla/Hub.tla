---------------------------------- MODULE Hub ----------------------------------
(***************************************************************************)
(* The relay hub: the registry of host and browser connections, the       *)
(* goroutines that serve them, and the two ways a message crosses it,      *)
(* SendToHost and the broadcast to a user's browsers.                      *)
(*                                                                         *)
(* Every goroutine is cut where another one can run between two of its     *)
(* steps: at each critical section of hub.mu, at each channel operation    *)
(* and at each database statement.  Payloads are left out: a buffered      *)
(* channel is the number of messages it holds.  A connection identifier    *)
(* stands for one handler goroutine with its HostConn (or BrowserConn),    *)
(* its channel and its writer, and is used again only once all of them     *)
(* are gone and no caller still holds the pointer.                         *)
(***************************************************************************)
EXTENDS Naturals, FiniteSets

CONSTANTS
    Host,        \* host IDs
    HostConn,    \* host connections
    HostOf,      \* the host whose token each host connection presents
    BrowserConn, \* browser connections
    UserOf,      \* the user of each host and of each browser connection
    Sender,      \* goroutines that call SendToHost
    SendCap,     \* capacity of a send channel (256 in the code)
    NoConn       \* no entry in the map, or a nil pointer

ASSUME HostOfAssumption == HostOf \in [HostConn -> Host]
ASSUME ConnAssumption == HostConn \cap BrowserConn = {}
ASSUME SendCapAssumption == SendCap \in Nat \ {0}
ASSUME NoConnAssumption == NoConn \notin HostConn \cup BrowserConn

VARIABLES
    hosts,      \* Hub.hosts: host ID -> connection
    browsers,   \* Hub.browsers: the registered browser connections
    pc,         \* where the handler goroutine of each connection is
    todo,       \* browsers a broadcast in progress has still to visit
    open,       \* connections whose send channel exists and is not closed
    queue,      \* messages in each send channel
    writer,     \* RunWriter: "none", "running" or "stopped"
    broken,     \* connections whose WebSocket no longer works
    sender,     \* the connection a SendToHost caller has looked up
    outcome,    \* how the last SendToHost of each caller ended
    status,     \* the hosts.status column
    blown       \* connections whose handler panicked in a broadcast

vars == <<hosts, browsers, pc, todo, open, queue, writer, broken, sender,
          outcome, status, blown>>

registry == <<hosts, browsers>>
channels == <<open, queue, writer, broken>>
senders  == <<sender, outcome>>

Conn == HostConn \cup BrowserConn

\* The handler of a host connection goes through the states of
\* handleHostWS, RunReader and UnregisterHost in this order.
HostPC == {"idle", "upgraded", "online", "announcing", "announced", "reading",
           "routing", "failed", "deleted", "notifying", "closing", "closed"}
BrowserPC == {"idle", "registered", "reading", "failed", "closing"}

\* The goroutines inside broadcastToUserBrowsersByUserID hold hub.mu for
\* reading; whoever needs it for writing waits until there is none.
Broadcasting == {c \in HostConn : pc[c] \in {"announcing", "routing", "notifying"}}
CanLock == Broadcasting = {}

Init ==
    /\ hosts = [h \in Host |-> NoConn]
    /\ browsers = {}
    /\ pc = [c \in Conn |-> "idle"]
    /\ todo = [c \in HostConn |-> {}]
    /\ open = {}
    /\ queue = [c \in Conn |-> 0]
    /\ writer = [c \in Conn |-> "none"]
    /\ broken = {}
    /\ sender = [s \in Sender |-> NoConn]
    /\ outcome = [s \in Sender |-> "none"]
    /\ status = [h \in Host |-> "offline"]
    /\ blown = {}

Goto(c, p) == pc' = [pc EXCEPT ![c] = p]

\* Nothing of an earlier use of c is left: the handler has returned, the
\* writer has stopped and no sender holds the pointer.
Fresh(c) ==
    /\ pc[c] = "idle"
    /\ writer[c] # "running"
    /\ \A s \in Sender : sender[s] # c

\* make(chan []byte, 256) of a new connection, and `go RunWriter()`.
Opened(c) ==
    /\ open' = open \cup {c}
    /\ queue' = [queue EXCEPT ![c] = 0]
    /\ writer' = [writer EXCEPT ![c] = "running"]

----------------------------------------------------------------------------
\* The handler of a host connection

\* The agent dials again only after it has given up on its previous
\* connection, which the relay may not have noticed yet.
Upgrade(c) ==
    /\ Fresh(c)
    /\ \A d \in HostConn \ {c} : HostOf[d] = HostOf[c] => pc[d] = "idle" \/ d \in broken
    /\ broken' = broken \ {c}
    /\ Goto(c, "upgraded")
    /\ UNCHANGED <<registry, todo, open, queue, writer, senders, status, blown>>

StoreOnline(c) ==
    /\ pc[c] = "upgraded"
    /\ status' = [status EXCEPT ![HostOf[c]] = "online"]
    /\ Goto(c, "online")
    /\ UNCHANGED <<registry, todo, channels, senders, blown>>

\* Take hub.mu for reading and start walking over the user's browsers.
StartBroadcast(c, p) ==
    /\ todo' = [todo EXCEPT ![c] =
                   {b \in browsers : UserOf[b] = UserOf[HostOf[c]]}]
    /\ Goto(c, p)

Announce(c) ==
    /\ pc[c] = "online"
    /\ StartBroadcast(c, "announcing")
    /\ UNCHANGED <<registry, channels, senders, status, blown>>

RegisterHost(c) ==
    /\ pc[c] = "announced"
    /\ CanLock
    /\ hosts' = [hosts EXCEPT ![HostOf[c]] = c]
    /\ Opened(c)
    /\ Goto(c, "reading")
    /\ UNCHANGED <<browsers, todo, broken, senders, status, blown>>

\* A message of the agent is routed to the user's browsers.
Route(c) ==
    /\ pc[c] = "reading"
    /\ StartBroadcast(c, "routing")
    /\ UNCHANGED <<registry, channels, senders, status, blown>>

\* Mutation: the channel is closed as soon as the read fails, before the
\* connection is unregistered.
ReadFailsCloses(c) ==
    /\ pc[c] = "reading"
    /\ c \in broken
    /\ open' = open \ {c}
    /\ Goto(c, "failed")
    /\ UNCHANGED <<registry, todo, queue, writer, broken, senders, status, blown>>

\* ReadMessage fails: the peer is gone or the read deadline passed.
ReadFails(c) ==
    /\ pc[c] = "reading"
    /\ c \in broken
    /\ Goto(c, "failed")
    /\ UNCHANGED <<registry, todo, channels, senders, status, blown>>

\* Mutation: nothing is deleted when the writer has already returned.
DeleteEntryUnlessStopped(c) ==
    /\ pc[c] = "failed"
    /\ CanLock
    /\ hosts' = IF writer[c] = "stopped" THEN hosts
                ELSE [hosts EXCEPT ![HostOf[c]] = NoConn]
    /\ Goto(c, "deleted")
    /\ UNCHANGED <<browsers, todo, channels, senders, status, blown>>

\* The first half of UnregisterHost, by host ID.
DeleteEntry(c) ==
    /\ pc[c] = "failed"
    /\ CanLock
    /\ hosts' = [hosts EXCEPT ![HostOf[c]] = NoConn]
    /\ Goto(c, "deleted")
    /\ UNCHANGED <<browsers, todo, channels, senders, status, blown>>

\* The second half: the user to tell is looked up in the map the entry was
\* just deleted from, and there is nobody to tell when it is not there.
NotifyOffline(c) ==
    /\ pc[c] = "deleted"
    /\ IF hosts[HostOf[c]] = NoConn
         THEN Goto(c, "closing") /\ UNCHANGED todo
         ELSE StartBroadcast(c, "notifying")
    /\ UNCHANGED <<registry, channels, senders, status, blown>>

\* close(hc.send), the last deferred call of RunReader.
CloseHostChannel(c) ==
    /\ pc[c] = "closing"
    /\ open' = open \ {c}
    /\ Goto(c, "closed")
    /\ UNCHANGED <<registry, todo, queue, writer, broken, senders, status, blown>>

StoreOffline(c) ==
    /\ pc[c] = "closed"
    /\ status' = [status EXCEPT ![HostOf[c]] = "offline"]
    /\ Goto(c, "idle")
    /\ UNCHANGED <<registry, todo, channels, senders, blown>>

----------------------------------------------------------------------------
\* Broadcasts

\* Mutation: the send has no default and waits for room in the channel.
DeliverWaits(c, b) ==
    /\ b \in todo[c]
    /\ b \in open => queue[b] < SendCap
    /\ todo' = [todo EXCEPT ![c] = @ \ {b}]
    /\ blown' = IF b \in open THEN blown ELSE blown \cup {c}
    /\ queue' = [queue EXCEPT ![b] = IF b \in open THEN @ + 1 ELSE @]
    /\ UNCHANGED <<registry, pc, open, writer, broken, senders, status>>

\* One iteration of the loop: a select with a default, on a channel that
\* panics the goroutine when it is closed.
Deliver(c, b) ==
    /\ b \in todo[c]
    /\ todo' = [todo EXCEPT ![c] = @ \ {b}]
    /\ blown' = IF b \in open THEN blown ELSE blown \cup {c}
    /\ queue' = [queue EXCEPT ![b] = IF b \in open /\ @ < SendCap THEN @ + 1 ELSE @]
    /\ UNCHANGED <<registry, pc, open, writer, broken, senders, status>>

\* Release hub.mu and go on with the handler.
EndBroadcast(c) ==
    /\ c \in Broadcasting
    /\ todo[c] = {}
    /\ Goto(c, CASE pc[c] = "announcing" -> "announced"
                 [] pc[c] = "routing"    -> "reading"
                 [] pc[c] = "notifying"  -> "closing")
    /\ UNCHANGED <<registry, todo, channels, senders, status, blown>>

----------------------------------------------------------------------------
\* The handler of a browser connection

RegisterBrowser(b) ==
    /\ Fresh(b)
    /\ CanLock
    /\ browsers' = browsers \cup {b}
    /\ Opened(b)
    /\ broken' = broken \ {b}
    /\ Goto(b, "registered")
    /\ UNCHANGED <<hosts, todo, senders, status, blown>>

\* One message for each session of the user whose tokens are known, outside
\* hub.mu, while broadcasts already reach the same channel.
PushTokenStates(b) ==
    /\ pc[b] = "registered"
    /\ \E n \in queue[b] .. SendCap : queue' = [queue EXCEPT ![b] = n]
    /\ Goto(b, "reading")
    /\ UNCHANGED <<registry, todo, open, writer, broken, senders, status, blown>>

BrowserReadFails(b) ==
    /\ pc[b] = "reading"
    /\ b \in broken
    /\ Goto(b, "failed")
    /\ UNCHANGED <<registry, todo, channels, senders, status, blown>>

\* Mutation: the map is changed without hub.mu.
UnregisterBrowserUnlocked(b) ==
    /\ pc[b] = "failed"
    /\ browsers' = browsers \ {b}
    /\ Goto(b, "closing")
    /\ UNCHANGED <<hosts, todo, channels, senders, status, blown>>

UnregisterBrowser(b) ==
    /\ pc[b] = "failed"
    /\ CanLock
    /\ browsers' = browsers \ {b}
    /\ Goto(b, "closing")
    /\ UNCHANGED <<hosts, todo, channels, senders, status, blown>>

CloseBrowserChannel(b) ==
    /\ pc[b] = "closing"
    /\ open' = open \ {b}
    /\ Goto(b, "idle")
    /\ UNCHANGED <<registry, todo, queue, writer, broken, senders, status, blown>>

----------------------------------------------------------------------------
\* RunWriter of a host or a browser connection; it closes the WebSocket
\* whichever way it returns.

Stop(c) ==
    /\ writer' = [writer EXCEPT ![c] = "stopped"]
    /\ broken' = broken \cup {c}

\* A message is taken; a write on a dead WebSocket may still succeed, into
\* the kernel's buffer.
WriterTakes(c) ==
    /\ writer[c] = "running"
    /\ queue[c] > 0
    /\ queue' = [queue EXCEPT ![c] = @ - 1]
    /\ \/ UNCHANGED <<writer, broken>>
       \/ c \in broken /\ Stop(c)
    /\ UNCHANGED <<registry, pc, todo, open, senders, status, blown>>

\* The ping of the ticker fails.
PingFails(c) ==
    /\ writer[c] = "running"
    /\ c \in broken
    /\ Stop(c)
    /\ UNCHANGED <<registry, pc, todo, open, queue, senders, status, blown>>

\* The channel is closed and drained.
WriterSeesClosed(c) ==
    /\ writer[c] = "running"
    /\ c \notin open
    /\ queue[c] = 0
    /\ Stop(c)
    /\ UNCHANGED <<registry, pc, todo, open, queue, senders, status, blown>>

\* The environment: a WebSocket in use breaks.
Break(c) ==
    /\ pc[c] # "idle"
    /\ c \notin broken
    /\ broken' = broken \cup {c}
    /\ UNCHANGED <<registry, pc, todo, open, queue, writer, senders, status, blown>>

----------------------------------------------------------------------------
\* SendToHost, called by API handlers and by the readers of browsers

\* The lookup under the read lock.
Lookup(s, h) ==
    /\ sender[s] = NoConn
    /\ sender' = [sender EXCEPT ![s] = hosts[h]]
    /\ outcome' = [outcome EXCEPT ![s] = IF hosts[h] = NoConn THEN "false" ELSE "none"]
    /\ UNCHANGED <<registry, pc, todo, channels, status, blown>>

\* The select on the channel of the connection found, outside the lock.  A
\* send on a closed channel panics; net/http recovers the handler's panic.
Send(s) ==
    LET c == sender[s] IN
    /\ c # NoConn
    /\ sender' = [sender EXCEPT ![s] = NoConn]
    /\ outcome' = [outcome EXCEPT ![s] = CASE c \notin open -> "panic"
                                           [] c \in open /\ queue[c] < SendCap -> "true"
                                           [] OTHER -> "false"]
    /\ queue' = [queue EXCEPT ![c] = IF c \in open /\ @ < SendCap THEN @ + 1 ELSE @]
    /\ UNCHANGED <<registry, pc, todo, open, writer, broken, status, blown>>

\* Mutation: a message is added whether there is room for it or not.
ShutdownUnbounded ==
    /\ CanLock
    /\ LET told == browsers \cup {c \in HostConn : \E h \in Host : hosts[h] = c}
       IN queue' = [c \in Conn |-> IF c \in told THEN queue[c] + 1 ELSE queue[c]]
    /\ UNCHANGED <<registry, pc, todo, open, writer, broken, senders, status, blown>>

\* Hub.Shutdown: under the write lock, a message for every connection that
\* has room for it.
Shutdown ==
    /\ CanLock
    /\ LET told == browsers \cup {c \in HostConn : \E h \in Host : hosts[h] = c}
       IN queue' = [c \in Conn |-> IF c \in told /\ queue[c] < SendCap
                                     THEN queue[c] + 1 ELSE queue[c]]
    /\ UNCHANGED <<registry, pc, todo, open, writer, broken, senders, status, blown>>

----------------------------------------------------------------------------
HostHandler(c) ==
    \/ Upgrade(c) \/ StoreOnline(c) \/ Announce(c) \/ RegisterHost(c)
    \/ Route(c) \/ ReadFails(c) \/ DeleteEntry(c) \/ NotifyOffline(c)
    \/ CloseHostChannel(c) \/ StoreOffline(c) \/ EndBroadcast(c)
    \/ \E b \in BrowserConn : Deliver(c, b)

BrowserHandler(b) ==
    \/ RegisterBrowser(b) \/ PushTokenStates(b) \/ BrowserReadFails(b)
    \/ UnregisterBrowser(b) \/ CloseBrowserChannel(b)

Writer(c) == WriterTakes(c) \/ PingFails(c) \/ WriterSeesClosed(c)

Next ==
    \/ \E c \in HostConn : HostHandler(c)
    \/ \E b \in BrowserConn : BrowserHandler(b)
    \/ \E c \in Conn : Writer(c) \/ Break(c)
    \/ \E s \in Sender : Send(s) \/ \E h \in Host : Lookup(s, h)
    \/ Shutdown

Spec == Init /\ [][Next]_vars

\* What the Go scheduler and the connection deadlines guarantee: a goroutine
\* that can go on does.  New connections, agent traffic and failures are up
\* to the environment.  A writer waiting for hub.mu keeps later readers out
\* (sync.RWMutex), so it is served although readers come and go.
HostProgress(c) ==
    \/ StoreOnline(c) \/ Announce(c) \/ ReadFails(c) \/ NotifyOffline(c)
    \/ CloseHostChannel(c) \/ StoreOffline(c) \/ EndBroadcast(c)
    \/ \E b \in BrowserConn : Deliver(c, b)

Fairness ==
    /\ \A c \in HostConn : /\ WF_vars(HostProgress(c))
                           /\ SF_vars(ReadFails(c))
                           /\ SF_vars(RegisterHost(c) \/ DeleteEntry(c))
    /\ \A b \in BrowserConn : /\ WF_vars(PushTokenStates(b) \/ BrowserReadFails(b)
                                          \/ CloseBrowserChannel(b))
                              /\ SF_vars(UnregisterBrowser(b))
    /\ \A c \in Conn : WF_vars(PingFails(c)) /\ WF_vars(WriterSeesClosed(c))
    /\ \A s \in Sender : WF_vars(Send(s))

FairSpec == Spec /\ Fairness

----------------------------------------------------------------------------
\* Properties

TypeOK ==
    /\ hosts \in [Host -> HostConn \cup {NoConn}]
    /\ browsers \subseteq BrowserConn
    /\ pc \in [Conn -> HostPC \cup BrowserPC]
    /\ todo \in [HostConn -> SUBSET BrowserConn]
    /\ open \subseteq Conn
    /\ queue \in [Conn -> 0 .. SendCap]
    /\ writer \in [Conn -> {"none", "running", "stopped"}]
    /\ broken \subseteq Conn
    /\ sender \in [Sender -> HostConn \cup {NoConn}]
    /\ outcome \in [Sender -> {"none", "true", "false", "panic"}]
    /\ status \in [Host -> {"online", "offline"}]
    /\ blown \subseteq HostConn

\* A connection found in either map has an open channel: the handlers
\* unregister before they close, whichever connection of the host they
\* delete, and no entry comes back.
RegisteredIsOpen ==
    /\ \A h \in Host : hosts[h] # NoConn => hosts[h] \in open
    /\ browsers \subseteq open

\* No broadcast ever sends on a closed browser channel, whenever tabs come
\* and go: the read lock is held over the whole loop, and a browser is
\* unregistered under the write lock before its channel is closed.
BroadcastNeverPanics == blown = {}

\* Once every connection of a host is gone its entry and its online status
\* are gone too, whatever order overlapping handlers finished in.
AtRestOffline ==
    \A h \in Host :
        (\A c \in HostConn : HostOf[c] = h => pc[c] = "idle")
            => hosts[h] = NoConn /\ status[h] = "offline"

\* Each broken connection's two goroutines end: no host or browser that
\* disappears leaves its handler or its writer behind, even while other
\* goroutines broadcast to it with its channel full.
NoGoroutineLeak ==
    \A c \in Conn : c \in broken ~> (pc[c] = "idle" /\ writer[c] # "running")

\* hub.go:36 "All public methods are goroutine-safe": no SendToHost panics.
NoSendPanic == \A s \in Sender : outcome[s] # "panic"

\* hub.go:35 "Hub routes messages between connected host agents and browser
\* clients": a host whose only live handler serves a working connection can
\* be reached through the map.
ConnectedIsRoutable ==
    \A c \in HostConn :
        (/\ pc[c] = "reading"
         /\ c \notin broken
         /\ \A d \in HostConn \ {c} : HostOf[d] = HostOf[c] => pc[d] = "idle")
            => hosts[HostOf[c]] = c
============================================================================
