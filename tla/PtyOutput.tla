-------------------------------- MODULE PtyOutput --------------------------------
(***************************************************************************)
(* The output of one session: the goroutine of the agent that reads the    *)
(* PTY, the one that ends the session, the channel and the connections of  *)
(* the daemon, the readers of those connections in the relay, which number *)
(* each chunk, and the goroutine per chunk that stores it for replay.      *)
(*                                                                         *)
(* A chunk is what one read of the PTY returns; chunks are numbered in the *)
(* order of the output, and the session is encrypted.  What browsers see   *)
(* live is not modelled here.                                              *)
(***************************************************************************)
EXTENDS Naturals, Sequences, FiniteSets

CONSTANTS
    Conn,        \* connections of the daemon to the relay, each used once
    NoConn,      \* no connection
    OutCap,      \* capacity of the daemon's channel; 256 in the code
    MaxChunk,    \* bound on the output of the process
    MaxRestart   \* bound on the losses of the counter before a restart

ASSUME NoConnAssumption == NoConn \notin Conn
ASSUME OutCapAssumption == OutCap \in Nat \ {0}
ASSUME BoundsAssumption == MaxChunk \in Nat /\ MaxRestart \in Nat

VARIABLES
    written, \* chunks the process has written
    ended,   \* how far the goroutine that waits for the process is
    taken,   \* chunks streamOutput has read
    hand,    \* what streamOutput does with the last of them
    spoiled, \* history: chunks encrypted after the key was zeroed
    out,     \* Daemon.send
    link,    \* the connection the daemon works with
    fresh,   \* connections that were not used yet
    writers, \* connections whose wsWriter still runs
    wire,    \* what is on its way on each connection
    seq,     \* Hub.sessionSeqs of the session, 0 without an entry
    epoch,   \* history: how often the entry was lost
    inserts, \* goroutines that store a chunk
    events,  \* session_events
    over     \* the session's row has its stopped_at

vars == <<written, ended, taken, hand, spoiled, out, link, fresh, writers,
          wire, seq, epoch, inserts, events, over>>

agent  == <<written, ended, taken, hand, spoiled>>
daemon == <<out, link, fresh, writers, wire>>
relay  == <<seq, epoch, inserts, events, over>>

Chunk == 1 .. MaxChunk
Stopped == 0    \* session_stopped; a frame of output is its chunk
Message == Chunk \cup {Stopped}

Init ==
    /\ written = 0
    /\ ended = "no"
    /\ taken = 0
    /\ hand = "empty"
    /\ spoiled = {}
    /\ out = <<>>
    /\ link = NoConn
    /\ fresh = Conn
    /\ writers = {}
    /\ wire = [c \in Conn |-> <<>>]
    /\ seq = 0
    /\ epoch = 0
    /\ inserts = {}
    /\ events = {}
    /\ over = FALSE

----------------------------------------------------------------------------
\* The agent

Open == ended \in {"no", "exited"}

\* Mutation: the daemon waits for no room.
SendUnbounded(m) == out' = Append(out, m)

\* sendToRelay: a full channel drops the message.
SendToRelay(m) == out' = IF Len(out) < OutCap THEN Append(out, m) ELSE out

\* The process, or one it left behind, writes.  Bound: MaxChunk.
Output ==
    /\ Open
    /\ written < MaxChunk
    /\ written' = written + 1
    /\ UNCHANGED <<ended, taken, hand, spoiled, daemon, relay>>

\* Mutation: the PTY is not closed.
ReadChunkAlways ==
    /\ hand = "empty"
    /\ taken < written
    /\ taken' = taken + 1
    /\ hand' = "read"
    /\ UNCHANGED <<written, ended, spoiled, daemon, relay>>

\* streamOutput: the chunk is read, while the PTY is open,
ReadChunk ==
    /\ Open
    /\ hand = "empty"
    /\ taken < written
    /\ taken' = taken + 1
    /\ hand' = "read"
    /\ UNCHANGED <<written, ended, spoiled, daemon, relay>>

\* encrypted with the key the other goroutine may have zeroed, or skipped
\* when that fails,
Seal ==
    /\ hand = "read"
    /\ \/ /\ hand' = "sealed"
          /\ spoiled' = IF ended \in {"zeroed", "reported"} THEN spoiled \cup {taken} ELSE spoiled
       \/ /\ hand' = "empty"
          /\ UNCHANGED spoiled
    /\ UNCHANGED <<written, ended, taken, daemon, relay>>

\* and sent.
SendFrame ==
    /\ hand = "sealed"
    /\ hand' = "empty"
    /\ SendToRelay(taken)
    /\ UNCHANGED <<written, ended, taken, spoiled, link, fresh, writers, wire, relay>>

Ending(x, y) == ended = x /\ ended' = y

\* The other goroutine: cmd.Wait returns,
Exit ==
    /\ Ending("no", "exited")
    /\ UNCHANGED <<written, taken, hand, spoiled, daemon, relay>>

\* the PTY is closed, with what it still holds,
ClosePty ==
    /\ Ending("exited", "closed")
    /\ UNCHANGED <<written, taken, hand, spoiled, daemon, relay>>

\* the key is zeroed,
ZeroKey ==
    /\ Ending("closed", "zeroed")
    /\ UNCHANGED <<written, taken, hand, spoiled, daemon, relay>>

\* and the end is reported, whether or not a chunk is still in hand.
SendStopped ==
    /\ Ending("zeroed", "reported")
    /\ SendToRelay(Stopped)
    /\ UNCHANGED <<written, taken, hand, spoiled, link, fresh, writers, wire, relay>>

----------------------------------------------------------------------------
\* Connections

Connect(c) ==
    /\ link = NoConn
    /\ c \in fresh
    /\ link' = c
    /\ fresh' = fresh \ {c}
    /\ writers' = writers \cup {c}
    /\ UNCHANGED <<agent, out, wire, relay>>

\* The connection breaks, and keeps a part of what is on its way.
Disconnect ==
    /\ link # NoConn
    /\ link' = NoConn
    /\ \E k \in 0 .. Len(wire[link]) : wire' = [wire EXCEPT ![link] = SubSeq(@, 1, k)]
    /\ UNCHANGED <<agent, out, fresh, writers, relay>>

\* wsWriter.
Write ==
    /\ link # NoConn
    /\ out # <<>>
    /\ wire' = [wire EXCEPT ![link] = Append(@, Head(out))]
    /\ out' = Tail(out)
    /\ UNCHANGED <<agent, link, fresh, writers, relay>>

\* The writer of a broken connection takes a message, cannot write it, and
\* ends; or its ping fails.
WriterEnds(c) ==
    /\ c \in writers
    /\ c # link
    /\ writers' = writers \ {c}
    /\ \/ out # <<>> /\ out' = Tail(out)
       \/ UNCHANGED out
    /\ UNCHANGED <<agent, link, fresh, wire, relay>>

----------------------------------------------------------------------------
\* The relay

\* Mutation: the counter is incremented outside the lock, and another
\* reader's increment may be lost.
NumberUnlocked(c) ==
    /\ wire[c] # <<>>
    /\ Head(wire[c]) # Stopped
    /\ wire' = [wire EXCEPT ![c] = Tail(@)]
    /\ seq' \in {seq, seq + 1}
    /\ inserts' = inserts \cup {[n |-> Head(wire[c]), seq |-> seq + 1, conn |-> c, epoch |-> epoch]}
    /\ UNCHANGED <<agent, out, link, fresh, writers, epoch, events, over>>

\* routePTYOutput, in the reader of the connection: the chunk gets the next
\* number, and a goroutine of its own to store it.
Number(c) ==
    /\ wire[c] # <<>>
    /\ Head(wire[c]) # Stopped
    /\ wire' = [wire EXCEPT ![c] = Tail(@)]
    /\ seq' = seq + 1
    /\ inserts' = inserts \cup {[n |-> Head(wire[c]), seq |-> seq + 1, conn |-> c, epoch |-> epoch]}
    /\ UNCHANGED <<agent, out, link, fresh, writers, epoch, events, over>>

\* session_stopped: StopSession, and the counter is released.
Release(c) ==
    /\ wire[c] # <<>>
    /\ Head(wire[c]) = Stopped
    /\ wire' = [wire EXCEPT ![c] = Tail(@)]
    /\ seq' = 0
    /\ epoch' = epoch + 1
    /\ over' = TRUE
    /\ UNCHANGED <<agent, out, link, fresh, writers, inserts, events>>

\* Mutation: the number is taken by the goroutine.
AppendNumbering(e) ==
    /\ inserts' = inserts \ {e}
    /\ seq' = seq + 1
    /\ events' = events \cup {[e EXCEPT !.seq = seq + 1]}
    /\ UNCHANGED <<agent, daemon, epoch, over>>

\* AppendSessionEvent; an error is only logged.
AppendSessionEvent(e) ==
    /\ inserts' = inserts \ {e}
    /\ \/ events' = events \cup {e}
       \/ UNCHANGED events
    /\ UNCHANGED <<agent, daemon, seq, epoch, over>>

\* PruneSessionEvents: the rows of an ended session that are old enough.
PruneSessionEvents ==
    /\ over
    /\ \E old \in SUBSET events : events' = events \ old
    /\ UNCHANGED <<agent, daemon, seq, epoch, inserts, over>>

\* The relay stops and starts again, with the rows only.  What the daemon
\* writes until it notices is lost as if it had been on its way.
\* Bound: MaxRestart, on the losses of the counter before it.
RestartRelay ==
    /\ epoch < MaxRestart
    /\ seq' = 0
    /\ epoch' = epoch + 1
    /\ inserts' = {}
    /\ wire' = [c \in Conn |-> <<>>]
    /\ link' = NoConn
    /\ UNCHANGED <<agent, out, fresh, writers, events, over>>

\* What handleSessionEvents answers are the rows of ListSessionEvents, ORDER BY
\* seq; it leaves the order of equal numbers open.
ReturnedBefore(e, f) == e.seq < f.seq

Next ==
    \/ Output \/ ReadChunk \/ Seal \/ SendFrame
    \/ Exit \/ ClosePty \/ ZeroKey \/ SendStopped
    \/ \E c \in Conn : Connect(c) \/ WriterEnds(c) \/ Number(c) \/ Release(c)
    \/ Disconnect \/ Write
    \/ \E e \in inserts : AppendSessionEvent(e)
    \/ PruneSessionEvents \/ RestartRelay

Spec == Init /\ [][Next]_vars

----------------------------------------------------------------------------
\* Properties

Event == [n : Chunk, seq : Nat \ {0}, conn : Conn, epoch : Nat]

TypeOK ==
    /\ written \in 0 .. MaxChunk
    /\ ended \in {"no", "exited", "closed", "zeroed", "reported"}
    /\ taken \in 0 .. written
    /\ hand \in {"empty", "read", "sealed"}
    /\ spoiled \in SUBSET Chunk
    /\ out \in Seq(Message)
    /\ Len(out) <= OutCap
    /\ link \in Conn \cup {NoConn}
    /\ fresh \in SUBSET Conn
    /\ writers \in SUBSET Conn
    /\ wire \in [Conn -> Seq(Message)]
    /\ seq \in Nat
    /\ epoch \in Nat
    /\ inserts \in SUBSET Event
    /\ events \in SUBSET Event
    /\ over \in BOOLEAN

\* While the relay keeps a counter no two chunks get one number, although the
\* readers of two connections number chunks at once.
NumbersDiffer ==
    \A e, f \in events \cup inserts : e.epoch = f.epoch /\ e.seq = f.seq => e = f

\* The chunks of one connection are numbered in the order of the output,
\* whatever order their goroutines store them in, as long as the counter is
\* kept.
NumbersFollowOutput ==
    \A e, f \in events \cup inserts :
        e.epoch = f.epoch /\ e.conn = f.conn /\ e.n < f.n => e.seq < f.seq

\* At most one chunk, the one in hand when the PTY was closed, is encrypted
\* with a zeroed key.
OneSpoiled == Cardinality(spoiled) <= 1

\* hub.go:285 "Persist PTY bytes so they can be replayed when reopening the
\* terminal": ListSessionEvents never returns a chunk before one that precedes
\* it in the output.
ReplayIsOrdered == \A e, f \in events : ReturnedBefore(e, f) => e.n < f.n

Abstract == INSTANCE OutputLog WITH
    Source <- Conn, log <- events \cup inserts, counter <- seq

\* The goroutines that read, number and store the output implement OutputLog:
\* between two losses of the counter, a log numbered in the order of each
\* connection's output.
ImplementsOutputLog == Abstract!Spec
============================================================================
