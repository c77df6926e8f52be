-------------------------------- MODULE HubProofs --------------------------------
(***************************************************************************)
(* What holds of Hub for any hosts, connections, senders and capacity:     *)
(* TypeOK, RegisteredIsOpen, BroadcastNeverPanics and AtRestOffline, from  *)
(* one inductive invariant that ties both maps, the channels and the host  *)
(* status to where each handler goroutine is.                              *)
(***************************************************************************)
EXTENDS Hub, TLAPS

----------------------------------------------------------------------------
\* The inductive invariant

\* Handlers that may be in the map; handlers whose channel is open; handlers
\* that have marked their host online and not yet offline.
InMap  == {"reading", "routing", "failed"}
HasChannel == InMap \cup {"deleted", "notifying", "closing"}
Marked == HasChannel \cup {"online", "announcing", "announced", "closed"}

\* An entry is of the right host, and its handler has not unregistered yet.
EntriesServed ==
    \A h \in Host : hosts[h] # NoConn =>
        HostOf[hosts[h]] = h /\ pc[hosts[h]] \in InMap

\* The browsers in the map are those whose handler has not unregistered.
BrowsersServed ==
    \A b \in BrowserConn : b \in browsers <=> pc[b] \in {"registered", "reading", "failed"}

\* A channel is closed only by its handler's last step.
ChannelsOpen ==
    /\ \A c \in HostConn : pc[c] \in HasChannel => c \in open
    /\ \A b \in BrowserConn : pc[b] \in {"registered", "reading", "failed", "closing"} => b \in open

\* A broadcast has only registered browsers left to visit, and has met no
\* closed channel.
BroadcastsSafe ==
    /\ \A c \in HostConn : todo[c] # {} => c \in Broadcasting
    /\ \A c \in HostConn : todo[c] \subseteq browsers
    /\ blown = {}

\* A host is online only while some handler of it has still to mark it
\* offline.
OnlineServed ==
    \A h \in Host : status[h] = "online" =>
        \E c \in HostConn : HostOf[c] = h /\ pc[c] \in Marked

IInv ==
    /\ TypeOK
    /\ EntriesServed
    /\ BrowsersServed
    /\ ChannelsOpen
    /\ BroadcastsSafe
    /\ OnlineServed

----------------------------------------------------------------------------
\* The initial states satisfy the inductive invariant.
LEMMA InvInit == Init => IInv
<1> SUFFICES ASSUME Init PROVE IInv
    OBVIOUS
<1>1. TypeOK
    BY SendCapAssumption DEF Init, TypeOK, HostPC, BrowserPC
<1>2. EntriesServed /\ BrowsersServed /\ OnlineServed
    BY DEF Init, EntriesServed, BrowsersServed, OnlineServed, Conn
<1>3. ChannelsOpen /\ BroadcastsSafe
    BY DEF Init, ChannelsOpen, BroadcastsSafe, HasChannel, InMap, Conn
<1> QED
    BY <1>1, <1>2, <1>3 DEF IInv

\* Every step of a host's handler keeps the types.
LEMMA HostHandlerType == ASSUME TypeOK, BroadcastsSafe, NEW c \in HostConn, HostHandler(c) PROVE TypeOK'
<1> USE HostOfAssumption, NoConnAssumption, SendCapAssumption
    DEF TypeOK, registry, channels, senders, Goto, Conn, HostPC, BrowserPC
<1>1. CASE Upgrade(c)
    BY <1>1 DEF Upgrade, Fresh
<1>2. CASE StoreOnline(c)
    BY <1>2 DEF StoreOnline
<1>3. CASE Announce(c)
    BY <1>3 DEF Announce, StartBroadcast
<1>4. CASE RegisterHost(c)
    BY <1>4 DEF RegisterHost, Opened
<1>5. CASE Route(c)
    BY <1>5 DEF Route, StartBroadcast
<1>6. CASE ReadFails(c)
    BY <1>6 DEF ReadFails
<1>7. CASE DeleteEntry(c)
    BY <1>7 DEF DeleteEntry
<1>8. CASE NotifyOffline(c)
    BY <1>8 DEF NotifyOffline, StartBroadcast
<1>9. CASE CloseHostChannel(c)
    BY <1>9 DEF CloseHostChannel
<1>10. CASE StoreOffline(c)
    BY <1>10 DEF StoreOffline
<1>11. CASE EndBroadcast(c)
    BY <1>11 DEF EndBroadcast, Broadcasting
<1>12. ASSUME NEW b \in BrowserConn, Deliver(c, b) PROVE TypeOK'
    BY <1>12 DEF Deliver, Broadcasting, BroadcastsSafe
<1> QED
    BY <1>1, <1>2, <1>3, <1>4, <1>5, <1>6, <1>7, <1>8, <1>9, <1>10, <1>11, <1>12 DEF HostHandler

\* Every other step keeps the types.
LEMMA OtherType ==
    ASSUME TypeOK, [Next]_vars, \A c \in HostConn : ~HostHandler(c)
    PROVE  TypeOK'
<1> USE HostOfAssumption, NoConnAssumption, SendCapAssumption
    DEF TypeOK, registry, channels, senders, Goto, Conn, HostPC, BrowserPC
<1>1. ASSUME NEW b \in BrowserConn, BrowserHandler(b) PROVE TypeOK'
    <2>1. CASE RegisterBrowser(b)
        BY <2>1 DEF RegisterBrowser, Opened
    <2>2. CASE PushTokenStates(b)
        BY <2>2 DEF PushTokenStates
    <2>3. CASE BrowserReadFails(b)
        BY <2>3 DEF BrowserReadFails
    <2>4. CASE UnregisterBrowser(b)
        BY <2>4 DEF UnregisterBrowser
    <2>5. CASE CloseBrowserChannel(b)
        BY <2>5 DEF CloseBrowserChannel
    <2> QED
        BY <1>1, <2>1, <2>2, <2>3, <2>4, <2>5 DEF BrowserHandler
<1>2. ASSUME NEW c \in Conn, Writer(c) \/ Break(c) PROVE TypeOK'
    <2>1. CASE WriterTakes(c)
        BY <2>1 DEF WriterTakes, Stop
    <2>2. CASE PingFails(c)
        BY <2>2 DEF PingFails, Stop
    <2>3. CASE WriterSeesClosed(c)
        BY <2>3 DEF WriterSeesClosed, Stop
    <2>4. CASE Break(c)
        BY <2>4 DEF Break
    <2> QED
        BY <1>2, <2>1, <2>2, <2>3, <2>4 DEF Writer
<1>3. ASSUME NEW s \in Sender, Send(s) PROVE TypeOK'
    <2>1. sender[s] \in HostConn
        BY <1>3 DEF Send
    <2>2. outcome' \in [Sender -> {"none", "true", "false", "panic"}]
        BY <1>3 DEF Send
    <2>3. queue' \in [Conn -> 0 .. SendCap]
        BY <1>3, <2>1 DEF Send
    <2> QED
        BY <1>3, <2>2, <2>3 DEF Send
<1>4. ASSUME NEW s \in Sender, NEW h \in Host, Lookup(s, h) PROVE TypeOK'
    BY <1>4 DEF Lookup
<1>5. CASE Shutdown
    BY <1>5 DEF Shutdown
<1>6. CASE UNCHANGED vars
    BY <1>6 DEF vars
<1> QED
    BY <1>1, <1>2, <1>3, <1>4, <1>5, <1>6 DEF Next

----------------------------------------------------------------------------
\* The steps of a host's handler keep the rest of the invariant.
LEMMA HostHandlerStep ==
    ASSUME IInv, NEW c \in HostConn, HostHandler(c)
    PROVE  EntriesServed' /\ BrowsersServed' /\ ChannelsOpen' /\ BroadcastsSafe' /\ OnlineServed'
<1> USE HostOfAssumption, NoConnAssumption, ConnAssumption
    DEF IInv, TypeOK, registry, channels, senders, Goto, Conn, InMap, HasChannel, Marked,
        EntriesServed, BrowsersServed, ChannelsOpen, BroadcastsSafe, OnlineServed, Broadcasting
<1>1. CASE Upgrade(c)
    BY <1>1 DEF Upgrade, Fresh
<1>2. CASE StoreOnline(c)
    BY <1>2 DEF StoreOnline
<1>3. CASE Announce(c)
    BY <1>3 DEF Announce, StartBroadcast
<1>4. CASE RegisterHost(c)
    BY <1>4 DEF RegisterHost, Opened, CanLock
<1>5. CASE Route(c)
    BY <1>5 DEF Route, StartBroadcast
<1>6. CASE ReadFails(c)
    BY <1>6 DEF ReadFails
<1>7. CASE DeleteEntry(c)
    BY <1>7 DEF DeleteEntry, CanLock
<1>8. CASE NotifyOffline(c)
    <2>1. EntriesServed'
        BY <1>8 DEF NotifyOffline, StartBroadcast
    <2>2. BrowsersServed'
        BY <1>8 DEF NotifyOffline, StartBroadcast
    <2>3. ChannelsOpen'
        BY <1>8 DEF NotifyOffline, StartBroadcast
    <2>4. BroadcastsSafe'
        <3>1. todo[c] = {}
            BY <1>8 DEF NotifyOffline
        <3>2. CASE hosts[HostOf[c]] = NoConn
            BY <1>8, <3>1, <3>2 DEF NotifyOffline
        <3>3. CASE hosts[HostOf[c]] # NoConn
            <4>1. /\ pc' = [pc EXCEPT ![c] = "notifying"]
                  /\ todo' = [todo EXCEPT ![c] = todo'[c]]
                  /\ todo'[c] \subseteq browsers
                  /\ UNCHANGED <<browsers, blown>>
                BY <1>8, <3>3 DEF NotifyOffline, StartBroadcast
            <4> QED
                BY <4>1
        <3> QED
            BY <3>2, <3>3
    <2>5. OnlineServed'
        BY <1>8 DEF NotifyOffline, StartBroadcast
    <2> QED
        BY <2>1, <2>2, <2>3, <2>4, <2>5
<1>9. CASE CloseHostChannel(c)
    BY <1>9 DEF CloseHostChannel
<1>10. CASE StoreOffline(c)
    BY <1>10 DEF StoreOffline
<1>11. CASE EndBroadcast(c)
    BY <1>11 DEF EndBroadcast
<1>12. ASSUME NEW b \in BrowserConn, Deliver(c, b)
       PROVE  EntriesServed' /\ BrowsersServed' /\ ChannelsOpen' /\ BroadcastsSafe' /\ OnlineServed'
    BY <1>12 DEF Deliver
<1> QED
    BY <1>1, <1>2, <1>3, <1>4, <1>5, <1>6, <1>7, <1>8, <1>9, <1>10, <1>11, <1>12 DEF HostHandler

\* So do all other steps.
LEMMA OtherStep ==
    ASSUME IInv, [Next]_vars, \A c \in HostConn : ~HostHandler(c)
    PROVE  EntriesServed' /\ BrowsersServed' /\ ChannelsOpen' /\ BroadcastsSafe' /\ OnlineServed'
<1> USE HostOfAssumption, NoConnAssumption, ConnAssumption
    DEF IInv, TypeOK, registry, channels, senders, Goto, Conn, InMap, HasChannel, Marked,
        EntriesServed, BrowsersServed, ChannelsOpen, BroadcastsSafe, OnlineServed, Broadcasting
<1>1. ASSUME NEW b \in BrowserConn, BrowserHandler(b)
      PROVE  EntriesServed' /\ BrowsersServed' /\ ChannelsOpen' /\ BroadcastsSafe' /\ OnlineServed'
    <2>1. CASE RegisterBrowser(b)
        BY <2>1 DEF RegisterBrowser, Opened, CanLock, Fresh
    <2>2. CASE PushTokenStates(b)
        BY <2>2 DEF PushTokenStates
    <2>3. CASE BrowserReadFails(b)
        BY <2>3 DEF BrowserReadFails
    <2>4. CASE UnregisterBrowser(b)
        BY <2>4 DEF UnregisterBrowser, CanLock
    <2>5. CASE CloseBrowserChannel(b)
        BY <2>5 DEF CloseBrowserChannel
    <2> QED
        BY <1>1, <2>1, <2>2, <2>3, <2>4, <2>5 DEF BrowserHandler
<1>2. CASE UNCHANGED <<registry, pc, todo, open, status, blown>>
    BY <1>2
<1>3. ASSUME NEW c \in Conn, Writer(c) \/ Break(c)
      PROVE  UNCHANGED <<registry, pc, todo, open, status, blown>>
    BY <1>3 DEF Writer, WriterTakes, PingFails, WriterSeesClosed, Break
<1>4. ASSUME NEW s \in Sender, Send(s) \/ \E h \in Host : Lookup(s, h)
      PROVE  UNCHANGED <<registry, pc, todo, open, status, blown>>
    BY <1>4 DEF Send, Lookup
<1>5. CASE Shutdown
    BY <1>2, <1>5 DEF Shutdown
<1>6. CASE UNCHANGED vars
    BY <1>2, <1>6 DEF vars
<1> QED
    BY <1>1, <1>2, <1>3, <1>4, <1>5, <1>6 DEF Next

\* Every step keeps the inductive invariant.
LEMMA InvStep == IInv /\ [Next]_vars => IInv'
<1> SUFFICES ASSUME IInv, [Next]_vars PROVE IInv'
    OBVIOUS
<1>1. ASSUME NEW c \in HostConn, HostHandler(c) PROVE IInv'
    BY <1>1, HostHandlerType, HostHandlerStep DEF IInv
<1>2. CASE \A c \in HostConn : ~HostHandler(c)
    BY <1>2, OtherType, OtherStep DEF IInv
<1> QED
    BY <1>1, <1>2

----------------------------------------------------------------------------
\* Theorems

\* IInv, and with it TypeOK, holds in every behaviour.
THEOREM Invariant == Spec => []IInv
BY InvInit, InvStep, PTL DEF Spec

\* The variables keep their types.
THEOREM TypeCorrect == Spec => []TypeOK
<1>1. IInv => TypeOK
    BY DEF IInv
<1> QED
    BY <1>1, Invariant, PTL

\* Whatever connection an old handler's UnregisterHost deletes, no entry of
\* either map is a connection whose channel is closed.
THEOREM RegisteredAreOpen == Spec => []RegisteredIsOpen
<1>1. IInv => RegisteredIsOpen
    BY DEF IInv, TypeOK, EntriesServed, BrowsersServed, ChannelsOpen, RegisteredIsOpen,
           InMap, HasChannel
<1> QED
    BY <1>1, Invariant, PTL

\* No broadcast meets a closed channel.
THEOREM BroadcastsNeverPanic == Spec => []BroadcastNeverPanics
<1>1. IInv => BroadcastNeverPanics
    BY DEF IInv, BroadcastsSafe, BroadcastNeverPanics
<1> QED
    BY <1>1, Invariant, PTL

\* A host none of whose handlers is left has no entry and is not online.
THEOREM RestIsOffline == Spec => []AtRestOffline
<1>1. IInv => AtRestOffline
    BY DEF IInv, TypeOK, EntriesServed, OnlineServed, AtRestOffline, InMap, HasChannel, Marked
<1> QED
    BY <1>1, Invariant, PTL
=============================================================================
