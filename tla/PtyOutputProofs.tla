----------------------------- MODULE PtyOutputProofs -----------------------------
(***************************************************************************)
(* What holds of PtyOutput for any number of connections, any capacity and *)
(* any amount of output: TypeOK, NumbersDiffer, NumbersFollowOutput and    *)
(* OneSpoiled.  The inductive invariant follows a chunk from the PTY to    *)
(* its row: what comes first in the output is ahead on its way, and every  *)
(* number was given out by the counter that is there now or by one that is *)
(* gone.                                                                   *)
(***************************************************************************)
EXTENDS PtyOutput, Functions, SequenceTheorems, FiniteSetTheorems, TLAPS

----------------------------------------------------------------------------
\* The inductive invariant

\* The chunk m comes before the chunk n; session_stopped is no chunk.
Precedes(m, n) == m = Stopped \/ n = Stopped \/ m < n

Ordered(s) == \A i, j \in 1 .. Len(s) : i < j => Precedes(s[i], s[j])

Numbered == events \cup inserts

\* What was sent was read, and the chunk in hand was not sent yet.
Sent(m) == m <= taken /\ (hand # "empty" => m < taken)

ReadBeforeSent ==
    /\ hand # "empty" => taken > 0
    /\ \A m \in Range(out) : Sent(m)
    /\ \A c \in Conn : \A m \in Range(wire[c]) : Sent(m)
    /\ \A e \in Numbered : Sent(e.n)

\* The channel and each connection keep the order of the output, a connection
\* is ahead of the channel, and what was numbered is ahead of both.
InOrder ==
    /\ Ordered(out)
    /\ \A c \in Conn : Ordered(wire[c])
    /\ \A c \in Conn : \A m \in Range(wire[c]), n \in Range(out) : Precedes(m, n)
    /\ \A e \in Numbered : \A n \in Range(wire[e.conn]) \cup Range(out) : Precedes(e.n, n)

\* No number is ahead of the counter that gave it.
Counted ==
    \A e \in Numbered : e.epoch <= epoch /\ (e.epoch = epoch => e.seq <= seq)

\* Only the last chunk read can be spoiled, and only after the PTY is closed.
SpoiledIsLast == spoiled \subseteq {taken} /\ (spoiled # {} => ~Open)

IInv ==
    /\ TypeOK
    /\ ReadBeforeSent
    /\ InOrder
    /\ Counted
    /\ NumbersDiffer
    /\ NumbersFollowOutput
    /\ SpoiledIsLast

----------------------------------------------------------------------------
\* Sequences

\* What Append adds, and that it keeps the order when all precedes the new
\* entry.
LEMMA AppendEntries ==
    ASSUME NEW s \in Seq(Message), NEW m \in Message
    PROVE  /\ Append(s, m) \in Seq(Message)
           /\ Range(Append(s, m)) = Range(s) \cup {m}
           /\ (Ordered(s) /\ (\A x \in Range(s) : Precedes(x, m))) => Ordered(Append(s, m))
<1>1. /\ Append(s, m) \in Seq(Message)
      /\ Len(s) \in Nat
      /\ DOMAIN s = 1 .. Len(s)
      /\ Len(Append(s, m)) = Len(s) + 1
      /\ DOMAIN Append(s, m) = 1 .. Len(s) + 1
      /\ \A i \in 1 .. Len(s) : Append(s, m)[i] = s[i]
      /\ Append(s, m)[Len(s) + 1] = m
    BY AppendProperties, LenProperties
<1>2. Range(Append(s, m)) = Range(s) \cup {m}
    <2>1. \A i \in 1 .. Len(s) + 1 : i \in 1 .. Len(s) \/ i = Len(s) + 1
        BY <1>1
    <2>2. ASSUME NEW x \in Range(Append(s, m)) PROVE x \in Range(s) \cup {m}
        BY <1>1, <2>1, <2>2 DEF Range
    <2>3. ASSUME NEW x \in Range(s) \cup {m} PROVE x \in Range(Append(s, m))
        <3>1. CASE x = m
            <4>1. Len(s) + 1 \in 1 .. Len(s) + 1
                BY <1>1
            <4> QED
                BY <1>1, <3>1, <4>1 DEF Range
        <3>2. CASE x \in Range(s)
            <4>1. PICK i \in 1 .. Len(s) : x = s[i]
                BY <1>1, <3>2 DEF Range
            <4>2. i \in 1 .. Len(s) + 1 /\ Append(s, m)[i] = x
                BY <1>1, <4>1
            <4> QED
                BY <1>1, <4>2 DEF Range
        <3> QED
            BY <2>3, <3>1, <3>2
    <2> QED
        BY <2>2, <2>3
<1>3. ASSUME Ordered(s), \A x \in Range(s) : Precedes(x, m) PROVE Ordered(Append(s, m))
    <2> SUFFICES ASSUME NEW i \in 1 .. Len(s) + 1, NEW j \in 1 .. Len(s) + 1, i < j
                 PROVE  Precedes(Append(s, m)[i], Append(s, m)[j])
        BY <1>1 DEF Ordered
    <2>1. i \in 1 .. Len(s) /\ s[i] \in Range(s)
        BY <1>1 DEF Range
    <2>2. CASE j = Len(s) + 1
        BY <1>1, <1>3, <2>1, <2>2
    <2>3. CASE j \in 1 .. Len(s)
        BY <1>1, <1>3, <2>1, <2>3 DEF Ordered
    <2> QED
        BY <1>1, <2>2, <2>3
<1> QED
    BY <1>1, <1>2, <1>3

\* What Tail keeps, and that in order the head precedes it.
LEMMA TailEntries ==
    ASSUME NEW s \in Seq(Message), s # <<>>
    PROVE  /\ Head(s) \in Message
           /\ Head(s) \in Range(s)
           /\ Tail(s) \in Seq(Message)
           /\ Range(Tail(s)) \subseteq Range(s)
           /\ Ordered(s) => Ordered(Tail(s)) /\ \A x \in Range(Tail(s)) : Precedes(Head(s), x)
<1>1. /\ Head(s) \in Message
      /\ Tail(s) \in Seq(Message)
      /\ Len(s) \in Nat \ {0}
      /\ DOMAIN s = 1 .. Len(s)
      /\ Len(Tail(s)) = Len(s) - 1
      /\ \A i \in 1 .. Len(s) - 1 : Tail(s)[i] = s[i + 1]
    BY HeadTailProperties, LenProperties, EmptySeq
<1>2. Head(s) = s[1] /\ 1 \in 1 .. Len(s)
    BY <1>1
<1>3. DOMAIN Tail(s) = 1 .. Len(s) - 1
    BY <1>1, LenProperties
<1>4. \A i \in 1 .. Len(s) - 1 : i + 1 \in 1 .. Len(s) /\ 1 < i + 1
    BY <1>1
<1>5. Head(s) \in Range(s) /\ Range(Tail(s)) \subseteq Range(s)
    BY <1>1, <1>2, <1>3, <1>4 DEF Range
<1>6. ASSUME Ordered(s) PROVE Ordered(Tail(s)) /\ \A x \in Range(Tail(s)) : Precedes(Head(s), x)
    <2>1. Ordered(Tail(s))
        BY <1>1, <1>4, <1>6 DEF Ordered
    <2>2. \A x \in Range(Tail(s)) : Precedes(Head(s), x)
        BY <1>1, <1>2, <1>3, <1>4, <1>6 DEF Ordered, Range
    <2> QED
        BY <2>1, <2>2
<1> QED
    BY <1>1, <1>5, <1>6

\* What is left when the end of a sequence is lost.
LEMMA PrefixEntries ==
    ASSUME NEW s \in Seq(Message), NEW k \in 0 .. Len(s)
    PROVE  /\ SubSeq(s, 1, k) \in Seq(Message)
           /\ Range(SubSeq(s, 1, k)) \subseteq Range(s)
           /\ Ordered(s) => Ordered(SubSeq(s, 1, k))
<1>1. Len(s) \in Nat /\ DOMAIN s = 1 .. Len(s) /\ \A i \in 1 .. Len(s) : s[i] \in Message
    BY LenProperties, ElementOfSeq
<1>2. k \in Nat /\ \A i \in 1 .. k : i \in 1 .. Len(s)
    BY <1>1
<1> DEFINE t == SubSeq(s, 1, k)
<1>3. t \in Seq(Message) /\ Len(t) = k /\ \A i \in 1 .. k : t[i] = s[i]
    BY <1>1, <1>2, SubSeqProperties
<1>4. DOMAIN t = 1 .. k
    BY <1>3, LenProperties
<1> HIDE DEF t
<1>5. Range(t) \subseteq Range(s)
    BY <1>1, <1>2, <1>3, <1>4 DEF Range
<1>6. Ordered(s) => Ordered(t)
    BY <1>2, <1>3 DEF Ordered
<1> QED
    BY <1>3, <1>5, <1>6 DEF t

\* What sendToRelay leaves in the channel.
LEMMA SendEntries ==
    ASSUME TypeOK, NEW m \in Message, SendToRelay(m)
    PROVE  /\ out' \in Seq(Message)
           /\ Len(out') <= OutCap
           /\ Range(out') \subseteq Range(out) \cup {m}
           /\ (Ordered(out) /\ (\A x \in Range(out) : Precedes(x, m))) => Ordered(out')
<1>1. out \in Seq(Message) /\ Len(out) \in Nat /\ Len(out) <= OutCap /\ OutCap \in Nat
    BY OutCapAssumption, LenProperties DEF TypeOK
<1>2. Len(Append(out, m)) = Len(out) + 1
    BY <1>1, AppendProperties
<1>3. CASE Len(out) < OutCap
    <2>1. out' = Append(out, m)
        BY <1>3 DEF SendToRelay
    <2> QED
        BY <1>1, <1>2, <1>3, <2>1, AppendEntries
<1>4. CASE ~(Len(out) < OutCap)
    <2>1. out' = out
        BY <1>4 DEF SendToRelay
    <2> QED
        BY <1>1, <2>1
<1> QED
    BY <1>3, <1>4

----------------------------------------------------------------------------
\* The invariant is inductive

\* The initial states satisfy the invariant.
LEMMA InitInv == Init => IInv
<1> SUFFICES ASSUME Init PROVE IInv
    OBVIOUS
<1>1. Len(<<>>) = 0 /\ <<>> \in Seq(Message) /\ Range(<<>>) = {}
    BY EmptySeq DEF Range
<1>2. TypeOK
    <2>1. over \in BOOLEAN
        BY DEF Init
    <2>2. Len(out) <= OutCap /\ out \in Seq(Message) /\ wire \in [Conn -> Seq(Message)]
        BY <1>1, OutCapAssumption DEF Init
    <2> QED
        BY <2>1, <2>2, BoundsAssumption DEF Init, TypeOK
<1>3. ReadBeforeSent /\ InOrder
    BY <1>1 DEF Init, ReadBeforeSent, InOrder, Ordered, Numbered
<1>4. Counted /\ NumbersDiffer /\ NumbersFollowOutput /\ SpoiledIsLast
    BY DEF Init, Counted, NumbersDiffer, NumbersFollowOutput, SpoiledIsLast, Numbered
<1> QED
    BY <1>2, <1>3, <1>4 DEF IInv

\* Every step keeps the types.
LEMMA TypeStep == ASSUME TypeOK, ReadBeforeSent, [Next]_vars PROVE TypeOK'
<1> USE BoundsAssumption DEF TypeOK, agent, daemon, relay, Open, Chunk
<1>1. CASE Output
    BY <1>1 DEF Output
<1>2. CASE ReadChunk
    BY <1>2 DEF ReadChunk
<1>3. CASE Seal
    <2>1. hand = "read" => taken \in Chunk
        BY DEF ReadBeforeSent
    <2> QED
        BY <1>3, <2>1 DEF Seal
<1>4. CASE SendFrame
    <2>1. taken \in Message
        BY DEF Message, Stopped
    <2> QED
        BY <1>4, <2>1, SendEntries DEF SendFrame
<1>5. CASE Exit \/ ClosePty \/ ZeroKey
    BY <1>5 DEF Exit, ClosePty, ZeroKey, Ending
<1>6. CASE SendStopped
    BY <1>6, SendEntries DEF SendStopped, Ending, Message
<1>7. ASSUME NEW c \in Conn, Connect(c) PROVE TypeOK'
    BY <1>7 DEF Connect
<1>8. ASSUME NEW c \in Conn, WriterEnds(c) PROVE TypeOK'
    <2>1. out # <<>> => Tail(out) \in Seq(Message) /\ Len(Tail(out)) = Len(out) - 1
        BY HeadTailProperties
    <2>2. Len(out) \in Nat /\ OutCap \in Nat
        BY LenProperties, OutCapAssumption
    <2>3. out' = out \/ (out # <<>> /\ out' = Tail(out))
        BY <1>8 DEF WriterEnds
    <2>4. Len(out) - 1 <= OutCap
        BY <2>2
    <2>5. out' \in Seq(Message) /\ Len(out') <= OutCap
        BY <2>1, <2>3, <2>4
    <2> QED
        BY <1>8, <2>5 DEF WriterEnds
<1>9. ASSUME NEW c \in Conn, Number(c) PROVE TypeOK'
    <2> DEFINE e == [n |-> Head(wire[c]), seq |-> seq + 1, conn |-> c, epoch |-> epoch]
    <2>1. wire[c] \in Seq(Message) /\ wire[c] # <<>>
        BY <1>9 DEF Number
    <2>2. Head(wire[c]) \in Chunk /\ Tail(wire[c]) \in Seq(Message)
        BY <1>9, <2>1, HeadTailProperties DEF Number, Message
    <2>3. e \in Event
        BY <2>2 DEF Event
    <2> HIDE DEF e
    <2>4. inserts' = inserts \cup {e} /\ wire' = [wire EXCEPT ![c] = Tail(@)] /\ seq' = seq + 1
        BY <1>9 DEF Number, e
    <2> QED
        BY <1>9, <2>2, <2>3, <2>4 DEF Number
<1>10. ASSUME NEW c \in Conn, Release(c) PROVE TypeOK'
    <2>1. Tail(wire[c]) \in Seq(Message)
        BY <1>10, HeadTailProperties DEF Release
    <2> QED
        BY <1>10, <2>1 DEF Release
<1>11. CASE Disconnect
    <2>1. PICK k \in 0 .. Len(wire[link]) : wire' = [wire EXCEPT ![link] = SubSeq(@, 1, k)]
        BY <1>11 DEF Disconnect
    <2>2. link \in Conn
        BY <1>11 DEF Disconnect
    <2>3. SubSeq(wire[link], 1, k) \in Seq(Message)
        BY <2>1, <2>2, PrefixEntries
    <2> QED
        BY <1>11, <2>1, <2>2, <2>3 DEF Disconnect
<1>12. CASE Write
    <2>1. link \in Conn /\ out # <<>>
        BY <1>12 DEF Write
    <2>2. /\ Head(out) \in Message
          /\ Tail(out) \in Seq(Message)
          /\ Len(Tail(out)) = Len(out) - 1
        BY <2>1, HeadTailProperties
    <2>3. Append(wire[link], Head(out)) \in Seq(Message)
        BY <2>1, <2>2, AppendEntries
    <2>4. Len(out) \in Nat /\ OutCap \in Nat
        BY LenProperties, OutCapAssumption
    <2> QED
        BY <1>12, <2>1, <2>2, <2>3, <2>4 DEF Write
<1>13. ASSUME NEW e \in inserts, AppendSessionEvent(e) PROVE TypeOK'
    BY <1>13 DEF AppendSessionEvent
<1>14. CASE PruneSessionEvents
    BY <1>14 DEF PruneSessionEvents
<1>15. CASE RestartRelay
    <2>1. <<>> \in Seq(Message)
        BY EmptySeq
    <2> QED
        BY <1>15, <2>1 DEF RestartRelay
<1>16. CASE UNCHANGED vars
    BY <1>16 DEF vars
<1> QED
    BY <1>1, <1>2, <1>3, <1>4, <1>5, <1>6, <1>7, <1>8, <1>9, <1>10, <1>11, <1>12, <1>13, <1>14,
       <1>15, <1>16 DEF Next

\* Every step keeps SpoiledIsLast: no chunk is read once the PTY is closed.
LEMMA SpoiledStep == ASSUME TypeOK, SpoiledIsLast, [Next]_vars PROVE SpoiledIsLast'
<1> USE DEF SpoiledIsLast, agent, Open
<1>1. CASE ReadChunk
    BY <1>1 DEF ReadChunk
<1>2. CASE Seal
    BY <1>2 DEF Seal
<1>3. CASE Exit \/ ClosePty \/ ZeroKey \/ SendStopped
    BY <1>3 DEF Exit, ClosePty, ZeroKey, SendStopped, Ending
<1>4. CASE Output \/ SendFrame
    BY <1>4 DEF Output, SendFrame
<1>5. ASSUME NEW c \in Conn, Connect(c) \/ WriterEnds(c) \/ Number(c) \/ Release(c)
      PROVE  SpoiledIsLast'
    BY <1>5 DEF Connect, WriterEnds, Number, Release
<1>6. CASE Disconnect \/ Write \/ RestartRelay \/ PruneSessionEvents
    BY <1>6 DEF Disconnect, Write, RestartRelay, PruneSessionEvents
<1>7. ASSUME NEW e \in inserts, AppendSessionEvent(e) PROVE SpoiledIsLast'
    BY <1>7 DEF AppendSessionEvent
<1>8. CASE UNCHANGED vars
    BY <1>8 DEF vars
<1> QED
    BY <1>1, <1>2, <1>3, <1>4, <1>5, <1>6, <1>7, <1>8 DEF Next

\* Every step keeps the numbers apart: a new one is ahead of all those of
\* the same counter, and a new counter has given none yet.
LEMMA NumbersStep ==
    ASSUME TypeOK, Counted, NumbersDiffer, [Next]_vars
    PROVE  Counted' /\ NumbersDiffer'
<1>1. /\ \A e \in Numbered : e.epoch \in Nat /\ e.seq \in Nat
      /\ epoch \in Nat /\ seq \in Nat
    BY DEF TypeOK, Numbered, Event
<1>2. ASSUME NEW c \in Conn, Number(c) PROVE Counted' /\ NumbersDiffer'
    <2> DEFINE new == [n |-> Head(wire[c]), seq |-> seq + 1, conn |-> c, epoch |-> epoch]
    <2>1. new.seq = seq + 1 /\ new.epoch = epoch
        OBVIOUS
    <2>2. Numbered' = Numbered \cup {new} /\ seq' = seq + 1 /\ epoch' = epoch
        BY <1>2 DEF Number, Numbered
    <2> HIDE DEF new
    <2>3. Counted'
        BY <1>1, <2>1, <2>2 DEF Counted
    <2>4. \A e \in Numbered : ~(e.epoch = new.epoch /\ e.seq = new.seq)
        BY <1>1, <2>1 DEF Counted
    <2>5. \A e, f \in Numbered \cup {new} : e.epoch = f.epoch /\ e.seq = f.seq => e = f
        BY <2>4 DEF NumbersDiffer, Numbered
    <2> QED
        BY <2>2, <2>3, <2>5 DEF NumbersDiffer, Numbered
<1>3. ASSUME Numbered' \subseteq Numbered, epoch' = epoch + 1 PROVE Counted' /\ NumbersDiffer'
    BY <1>1, <1>3 DEF Counted, NumbersDiffer, Numbered
<1>4. ASSUME Numbered' \subseteq Numbered, epoch' = epoch, seq' = seq
      PROVE  Counted' /\ NumbersDiffer'
    BY <1>4 DEF Counted, NumbersDiffer, Numbered
<1>5. ASSUME NEW c \in Conn, Release(c) PROVE Counted' /\ NumbersDiffer'
    BY <1>3, <1>5 DEF Release, Numbered
<1>6. CASE RestartRelay
    BY <1>3, <1>6 DEF RestartRelay, Numbered
<1>7. ASSUME NEW e \in inserts, AppendSessionEvent(e) PROVE Counted' /\ NumbersDiffer'
    BY <1>4, <1>7 DEF AppendSessionEvent, Numbered
<1>8. ASSUME NEW c \in Conn, Connect(c) \/ WriterEnds(c) PROVE Counted' /\ NumbersDiffer'
    BY <1>4, <1>8 DEF Connect, WriterEnds, Numbered, relay
<1>9. CASE Disconnect \/ Write
    BY <1>4, <1>9 DEF Disconnect, Write, Numbered, relay
<1>10. CASE Output \/ ReadChunk \/ Seal \/ SendFrame
    BY <1>4, <1>10 DEF Output, ReadChunk, Seal, SendFrame, Numbered, relay
<1>11. CASE Exit \/ ClosePty \/ ZeroKey \/ SendStopped
    BY <1>4, <1>11 DEF Exit, ClosePty, ZeroKey, SendStopped, Numbered, relay
<1>12. CASE UNCHANGED vars \/ PruneSessionEvents
    BY <1>4, <1>12 DEF vars, Numbered, PruneSessionEvents
<1> QED
    BY <1>2, <1>5, <1>6, <1>7, <1>8, <1>9, <1>10, <1>11, <1>12 DEF Next

\* A step that sends nothing keeps the order of what is left.
LEMMA LeftInOrder ==
    ASSUME ReadBeforeSent, InOrder, NumbersFollowOutput,
           taken' = taken,
           hand' # "empty" => hand # "empty",
           Range(out') \subseteq Range(out),
           Ordered(out'),
           \A c \in Conn : Range(wire'[c]) \subseteq Range(wire[c]) /\ Ordered(wire'[c]),
           Numbered' \subseteq Numbered,
           \A e \in Numbered : e.conn \in Conn
    PROVE  ReadBeforeSent' /\ InOrder' /\ NumbersFollowOutput'
<1>1. ReadBeforeSent'
    BY DEF ReadBeforeSent, Sent
<1>2. InOrder'
    BY DEF InOrder, Ordered
<1>3. NumbersFollowOutput'
    BY DEF NumbersFollowOutput, Numbered
<1> QED
    BY <1>1, <1>2, <1>3

\* Every step keeps the order of the output.
LEMMA OrderStep ==
    ASSUME TypeOK, ReadBeforeSent, InOrder, Counted, NumbersFollowOutput, [Next]_vars
    PROVE  ReadBeforeSent' /\ InOrder' /\ NumbersFollowOutput'
<1> DEFINE Goal == ReadBeforeSent' /\ InOrder' /\ NumbersFollowOutput'
<1>1. /\ \A e \in Numbered : e.conn \in Conn /\ e.n \in Chunk
      /\ \A c \in Conn : wire[c] \in Seq(Message)
      /\ out \in Seq(Message)
    BY DEF TypeOK, Numbered, Event
<1>2. /\ Range(out) \subseteq Nat
      /\ \A c \in Conn : Range(wire[c]) \subseteq Nat
      /\ \A e \in Numbered : e.n \in Nat \ {Stopped}
    <2>1. Chunk \subseteq Nat \ {Stopped} /\ Message \subseteq Nat
        BY BoundsAssumption DEF Message, Chunk, Stopped
    <2>2. \A s \in Seq(Message) : Range(s) \subseteq Message
        BY LenProperties DEF Range
    <2> QED
        BY <1>1, <2>1, <2>2
<1>3. taken \in Nat /\ written \in Nat
    BY BoundsAssumption DEF TypeOK
<1>4. Ordered(out) /\ \A c \in Conn : Ordered(wire[c])
    BY DEF InOrder
<1>5. CASE ReadChunk
    <2>1. /\ taken' = taken + 1
          /\ UNCHANGED <<out, wire, events, inserts>>
        BY <1>5 DEF ReadChunk, daemon, relay
    <2>2. ReadBeforeSent'
        <3>1. \A m \in Nat : m <= taken => m < taken'
            BY <1>3, <2>1
        <3>2. \A m \in Nat : Sent(m) => Sent(m)'
            BY <1>3, <2>1, <3>1 DEF Sent
        <3> QED
            BY <1>2, <1>3, <2>1, <3>2 DEF ReadBeforeSent, Numbered
    <2>3. InOrder' /\ NumbersFollowOutput'
        BY <2>1 DEF InOrder, NumbersFollowOutput, Numbered, Ordered
    <2> QED
        BY <2>2, <2>3
<1>6. CASE SendFrame
    <2>1. /\ SendToRelay(taken)
          /\ hand = "sealed"
          /\ hand' = "empty"
          /\ UNCHANGED <<taken, wire, events, inserts>>
        BY <1>6 DEF SendFrame, relay
    <2>2. taken \in Message
        BY BoundsAssumption DEF TypeOK, Message, Stopped, Chunk
    <2>3. /\ \A m \in Range(out) : m < taken
          /\ \A c \in Conn : \A m \in Range(wire[c]) : m < taken
          /\ \A e \in Numbered : e.n < taken
        BY <2>1 DEF ReadBeforeSent, Sent
    <2>4. Range(out') \subseteq Range(out) \cup {taken} /\ Ordered(out')
        BY <1>4, <2>1, <2>2, <2>3, SendEntries DEF Precedes
    <2>5. ReadBeforeSent'
        BY <1>3, <2>1, <2>4 DEF ReadBeforeSent, Sent, Numbered
    <2>6. InOrder'
        BY <2>1, <2>3, <2>4 DEF InOrder, Numbered, Precedes, Ordered
    <2> QED
        BY <2>1, <2>5, <2>6 DEF NumbersFollowOutput
<1>7. CASE SendStopped
    <2>1. /\ SendToRelay(Stopped)
          /\ UNCHANGED <<taken, hand, wire, events, inserts>>
        BY <1>7 DEF SendStopped, relay
    <2>2. Range(out') \subseteq Range(out) \cup {Stopped} /\ Ordered(out')
        BY <1>4, <2>1, SendEntries DEF Precedes, Message
    <2>3. ReadBeforeSent'
        BY <1>3, <2>1, <2>2 DEF ReadBeforeSent, Sent, Numbered, Stopped
    <2>4. InOrder'
        BY <2>1, <2>2 DEF InOrder, Numbered, Precedes, Ordered
    <2> QED
        BY <2>1, <2>3, <2>4 DEF NumbersFollowOutput
<1>8. CASE Write
    <2>1. /\ link \in Conn
          /\ out # <<>>
          /\ wire' = [wire EXCEPT ![link] = Append(wire[link], Head(out))]
          /\ out' = Tail(out)
          /\ UNCHANGED <<taken, hand, events, inserts>>
        BY <1>8 DEF Write, TypeOK, agent, relay
    <2>2. /\ Head(out) \in Message
          /\ Head(out) \in Range(out)
          /\ Range(out') \subseteq Range(out)
          /\ Ordered(out')
          /\ \A x \in Range(out') : Precedes(Head(out), x)
        BY <1>1, <1>4, <2>1, TailEntries
    <2>3. \A x \in Range(wire[link]) : Precedes(x, Head(out))
        BY <2>1, <2>2 DEF InOrder
    <2>4. /\ Range(Append(wire[link], Head(out))) = Range(wire[link]) \cup {Head(out)}
          /\ Ordered(Append(wire[link], Head(out)))
        BY <1>1, <1>4, <2>1, <2>2, <2>3, AppendEntries
    <2>5. \A c \in Conn : wire'[c] = IF c = link THEN Append(wire[link], Head(out)) ELSE wire[c]
        BY <2>1 DEF TypeOK
    <2>6. \A c \in Conn : /\ Ordered(wire'[c])
                          /\ Range(wire'[c]) \subseteq Range(wire[c]) \cup {Head(out)}
        BY <1>4, <2>4, <2>5
    <2>7. ReadBeforeSent'
        BY <2>1, <2>2, <2>6 DEF ReadBeforeSent, Sent, Numbered
    <2>8. InOrder'
        <3>1. \A c \in Conn : \A m \in Range(wire'[c]), n \in Range(out') : Precedes(m, n)
            BY <2>2, <2>6 DEF InOrder
        <3>2. \A e \in Numbered : \A n \in Range(wire'[e.conn]) \cup Range(out') : Precedes(e.n, n)
            BY <1>1, <2>2, <2>6 DEF InOrder
        <3>3. Numbered' = Numbered
            BY <2>1 DEF Numbered
        <3> QED
            BY <2>2, <2>6, <3>1, <3>2, <3>3 DEF InOrder, Precedes, Ordered
    <2> QED
        BY <2>1, <2>7, <2>8 DEF NumbersFollowOutput
<1>9. ASSUME NEW c \in Conn, Number(c) PROVE Goal
    <2> DEFINE new == [n |-> Head(wire[c]), seq |-> seq + 1, conn |-> c, epoch |-> epoch]
    <2>1. /\ new.n = Head(wire[c])
          /\ new.conn = c
          /\ new.seq = seq + 1
          /\ new.epoch = epoch
        OBVIOUS
    <2>2. /\ wire[c] # <<>>
          /\ Head(wire[c]) # Stopped
          /\ wire' = [wire EXCEPT ![c] = Tail(wire[c])]
          /\ Numbered' = Numbered \cup {new}
          /\ events' \cup inserts' = Numbered \cup {new}
          /\ UNCHANGED <<taken, hand, out>>
        BY <1>9 DEF Number, Numbered, agent
    <2> HIDE DEF new
    <2>3. /\ Head(wire[c]) \in Range(wire[c])
          /\ Range(Tail(wire[c])) \subseteq Range(wire[c])
          /\ Ordered(Tail(wire[c]))
          /\ \A x \in Range(Tail(wire[c])) : Precedes(Head(wire[c]), x)
        BY <1>1, <1>4, <2>2, TailEntries
    <2>4. \A d \in Conn : wire'[d] = IF d = c THEN Tail(wire[c]) ELSE wire[d]
        BY <2>2 DEF TypeOK
    <2>5. \A d \in Conn : Range(wire'[d]) \subseteq Range(wire[d]) /\ Ordered(wire'[d])
        BY <1>4, <2>3, <2>4
    <2>6. ReadBeforeSent'
        BY <2>1, <2>2, <2>3, <2>5 DEF ReadBeforeSent, Sent
    <2>7. InOrder'
        <3>1. \A d \in Conn : \A m \in Range(wire'[d]), n \in Range(out) : Precedes(m, n)
            BY <2>5 DEF InOrder
        <3>2. \A e \in Numbered : \A n \in Range(wire'[e.conn]) \cup Range(out) : Precedes(e.n, n)
            BY <1>1, <2>5 DEF InOrder
        <3>3. \A n \in Range(wire'[c]) \cup Range(out) : Precedes(new.n, n)
            BY <2>1, <2>3, <2>4 DEF InOrder
        <3> QED
            BY <1>4, <2>1, <2>2, <2>5, <3>1, <3>2, <3>3 DEF InOrder, Precedes, Ordered
    <2>8. \A f \in Numbered : f.conn = c => f.n < new.n
        BY <1>2, <2>1, <2>2, <2>3 DEF InOrder, Precedes
    <2>9. \A f \in Numbered : f.epoch = epoch => f.seq < new.seq
        BY <2>1 DEF Counted, TypeOK, Numbered, Event
    <2>10. new.n \in Nat /\ \A f \in Numbered : f.n \in Nat
        BY <1>2, <2>1, <2>3
    <2>11. \A e, f \in Numbered \cup {new} :
              e.epoch = f.epoch /\ e.conn = f.conn /\ e.n < f.n => e.seq < f.seq
        BY <2>1, <2>8, <2>9, <2>10 DEF NumbersFollowOutput, Numbered
    <2> QED
        BY <2>2, <2>6, <2>7, <2>11 DEF NumbersFollowOutput
<1>10. ASSUME NEW c \in Conn, Release(c) PROVE Goal
    <2>1. /\ wire[c] # <<>>
          /\ wire' = [wire EXCEPT ![c] = Tail(wire[c])]
          /\ UNCHANGED <<taken, hand, out, events, inserts>>
        BY <1>10 DEF Release, agent
    <2>2. Range(Tail(wire[c])) \subseteq Range(wire[c]) /\ Ordered(Tail(wire[c]))
        BY <1>1, <1>4, <2>1, TailEntries
    <2>3. \A d \in Conn : Range(wire'[d]) \subseteq Range(wire[d]) /\ Ordered(wire'[d])
        BY <1>4, <2>1, <2>2 DEF TypeOK
    <2>4. Ordered(out') /\ Numbered' = Numbered
        BY <1>4, <2>1 DEF Numbered
    <2> QED
        BY <1>1, <2>1, <2>3, <2>4, LeftInOrder
<1>11. CASE Disconnect
    <2>1. link \in Conn /\ UNCHANGED <<taken, hand, out, events, inserts>>
        BY <1>11 DEF Disconnect, TypeOK, agent, relay
    <2>2. PICK k \in 0 .. Len(wire[link]) : wire' = [wire EXCEPT ![link] = SubSeq(wire[link], 1, k)]
        BY <1>11 DEF Disconnect
    <2>3. /\ Range(SubSeq(wire[link], 1, k)) \subseteq Range(wire[link])
          /\ Ordered(SubSeq(wire[link], 1, k))
        BY <1>1, <1>4, <2>1, PrefixEntries
    <2>4. \A d \in Conn : Range(wire'[d]) \subseteq Range(wire[d]) /\ Ordered(wire'[d])
        BY <1>4, <2>1, <2>2, <2>3 DEF TypeOK
    <2>5. Ordered(out') /\ Numbered' = Numbered
        BY <1>4, <2>1 DEF Numbered
    <2> QED
        BY <1>1, <2>1, <2>4, <2>5, LeftInOrder
<1>12. ASSUME NEW c \in Conn, WriterEnds(c) PROVE Goal
    <2>1. UNCHANGED <<taken, hand, wire, events, inserts>>
        BY <1>12 DEF WriterEnds, agent, relay
    <2>2. out' = out \/ (out # <<>> /\ out' = Tail(out))
        BY <1>12 DEF WriterEnds
    <2>3. Range(out') \subseteq Range(out) /\ Ordered(out')
        BY <1>1, <1>4, <2>2, TailEntries
    <2>4. Numbered' = Numbered
        BY <2>1 DEF Numbered
    <2> QED
        BY <1>1, <1>4, <2>1, <2>3, <2>4, LeftInOrder
<1>13. CASE RestartRelay
    <2>1. /\ UNCHANGED <<taken, hand, out>>
          /\ \A d \in Conn : wire'[d] = <<>>
          /\ Numbered' \subseteq Numbered
        BY <1>13 DEF RestartRelay, Numbered, agent
    <2>2. Range(<<>>) = {} /\ Ordered(<<>>)
        BY DEF Range, Ordered
    <2>3. \A d \in Conn : Range(wire'[d]) \subseteq Range(wire[d]) /\ Ordered(wire'[d])
        BY <2>1, <2>2
    <2> QED
        BY <1>1, <1>4, <2>1, <2>3, LeftInOrder
<1>14. ASSUME taken' = taken,
              hand' # "empty" => hand # "empty",
              UNCHANGED <<out, wire>>,
              Numbered' \subseteq Numbered
       PROVE  Goal
    BY <1>1, <1>4, <1>14, LeftInOrder
<1>15. ASSUME NEW e \in inserts, AppendSessionEvent(e) PROVE Goal
    BY <1>14, <1>15 DEF AppendSessionEvent, Numbered, agent, daemon
<1>16. CASE Seal
    BY <1>14, <1>16 DEF Seal, Numbered, daemon, relay
<1>17. CASE Output \/ Exit \/ ClosePty \/ ZeroKey
    BY <1>14, <1>17 DEF Output, Exit, ClosePty, ZeroKey, Numbered, daemon, relay
<1>18. ASSUME NEW c \in Conn, Connect(c) PROVE Goal
    BY <1>14, <1>18 DEF Connect, Numbered, agent, relay
<1>19. CASE UNCHANGED vars \/ PruneSessionEvents
    BY <1>14, <1>19 DEF vars, Numbered, PruneSessionEvents, agent, daemon
<1> QED
    BY <1>5, <1>6, <1>7, <1>8, <1>9, <1>10, <1>11, <1>12, <1>13, <1>15, <1>16, <1>17, <1>18, <1>19
    DEF Next

----------------------------------------------------------------------------
\* The theorems

\* The inductive invariant: a chunk keeps its place from the PTY to its row,
\* and the numbers come from the counter.
THEOREM Invariant == Spec => []IInv
<1>1. ASSUME IInv, [Next]_vars PROVE IInv'
    BY <1>1, TypeStep, SpoiledStep, NumbersStep, OrderStep DEF IInv
<1> QED
    BY InitInv, <1>1, PTL DEF Spec

\* The state keeps its types, and the daemon's channel its capacity.
THEOREM TypeCorrect == Spec => []TypeOK
<1>1. IInv => TypeOK
    BY DEF IInv
<1> QED
    BY Invariant, <1>1, PTL

\* While the relay keeps a counter, no two chunks get one number.
THEOREM NumbersAreUnique == Spec => []NumbersDiffer
<1>1. IInv => NumbersDiffer
    BY DEF IInv
<1> QED
    BY Invariant, <1>1, PTL

\* The chunks of a connection are numbered in the order of the output.
THEOREM NumbersAreInOrder == Spec => []NumbersFollowOutput
<1>1. IInv => NumbersFollowOutput
    BY DEF IInv
<1> QED
    BY Invariant, <1>1, PTL

\* No more than one chunk is encrypted with a zeroed key.
THEOREM AtMostOneSpoiled == Spec => []OneSpoiled
<1>1. ASSUME spoiled \subseteq {taken} PROVE OneSpoiled
    <2>1. spoiled = {} \/ spoiled = {taken}
        BY <1>1
    <2>2. Cardinality({}) = 0 /\ Cardinality({taken}) = 1
        BY FS_EmptySet, FS_Singleton
    <2> QED
        BY <2>1, <2>2 DEF OneSpoiled
<1>2. IInv => OneSpoiled
    BY <1>1 DEF IInv, SpoiledIsLast
<1> QED
    BY Invariant, <1>2, PTL

----------------------------------------------------------------------------
\* Refinement: the steps of PtyOutput are steps of OutputLog.

\* What a connection brings next follows everything it has brought since the
\* counter was lost.
LEMMA NumberAdds ==
    ASSUME IInv, NEW c \in Conn, Number(c)
    PROVE  Abstract!Next
<1> DEFINE n == Head(wire[c])
<1>1. wire[c] \in Seq(Message) /\ wire[c] # <<>> /\ n # Stopped
    BY DEF Number, IInv, TypeOK
<1>2. n \in Range(wire[c]) /\ n \in Chunk
    BY <1>1, TailEntries DEF Message
<1>3. ASSUME NEW e \in Numbered, e.conn = c PROVE e.n < n
    <2>1. e.n # Stopped
        BY DEF IInv, TypeOK, Numbered, Event, Chunk, Stopped
    <2> QED
        BY <1>1, <1>2, <1>3, <2>1 DEF IInv, InOrder, Precedes
<1>4. Abstract!Add(n, c)
    BY <1>3 DEF Number, Numbered, Abstract!Add
<1> QED
    BY <1>2, <1>4 DEF Abstract!Next

\* Every step is one of OutputLog, or a stutter.
LEMMA StepRefines ==
    ASSUME IInv, [Next]_vars
    PROVE  [Abstract!Next]_Abstract!vars
<1> USE DEF agent, daemon, relay
<1>1. ASSUME UNCHANGED <<seq, epoch, inserts, events>> PROVE UNCHANGED Abstract!vars
    BY <1>1 DEF Abstract!vars
<1>2. ASSUME NEW c \in Conn, Release(c) PROVE Abstract!Next
    BY <1>2 DEF Release, Abstract!Next, Abstract!Reset
<1>3. CASE RestartRelay
    BY <1>3 DEF RestartRelay, Abstract!Next, Abstract!Reset
<1>4. ASSUME NEW e \in inserts, AppendSessionEvent(e) PROVE Abstract!Next
    BY <1>4 DEF AppendSessionEvent, Abstract!Next, Abstract!Lose
<1>5. CASE PruneSessionEvents
    BY <1>5 DEF PruneSessionEvents, Abstract!Next, Abstract!Lose
<1>6. CASE Output \/ ReadChunk \/ Seal \/ SendFrame \/ Exit \/ ClosePty \/ ZeroKey
             \/ SendStopped \/ Disconnect \/ Write \/ UNCHANGED vars
    BY <1>1, <1>6 DEF Output, ReadChunk, Seal, SendFrame, Exit, ClosePty, ZeroKey,
                      SendStopped, Disconnect, Write, vars
<1>7. ASSUME NEW c \in Conn, Connect(c) \/ WriterEnds(c) PROVE UNCHANGED Abstract!vars
    BY <1>1, <1>7 DEF Connect, WriterEnds
<1> QED
    BY <1>2, <1>3, <1>4, <1>5, <1>6, <1>7, NumberAdds DEF Next

\* The goroutines that read, number and store the output implement OutputLog.
THEOREM Refinement == Spec => ImplementsOutputLog
<1>1. Init => Abstract!Init
    BY DEF Init, Abstract!Init
<1>2. IInv /\ [Next]_vars => [Abstract!Next]_Abstract!vars
    BY StepRefines
<1> QED
    BY <1>1, <1>2, Invariant, PTL DEF Spec, ImplementsOutputLog, Abstract!Spec
============================================================================
