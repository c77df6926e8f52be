-------------------------------- MODULE Approvals --------------------------------
(***************************************************************************)
(* Approval requests inside the relay: the readers of the connections of   *)
(* a user's hosts persist, announce and register requests statement by     *)
(* statement, while API calls resolve requests, browsers connect and       *)
(* answer, and the relay may restart.  Each connection has its own reader, *)
(* and two connections of one host overlap when it reconnects.  Nothing in *)
(* the agent sends a request; whoever does is the environment.             *)
(*                                                                         *)
(* A step is one database statement, one critical section, or one send.    *)
(* Any statement may fail; a reader ignores that and goes on.  What they    *)
(* write to sessions.status is in Dashboard; nothing here depends on it.   *)
(* A request also carries the token usage of its session, so a request is  *)
(* its own token value.                                                    *)
(***************************************************************************)
EXTENDS Naturals, FiniteSets

CONSTANTS
    Request,   \* approval request IDs
    Session,   \* session IDs
    SessionOf, \* the session of each request
    Plain,     \* requests with a tool name, an input and a risk level in clear
    Conn,      \* connections of hosts, each with its reader
    Browser,   \* browser connections
    Resolver,  \* API calls that resolve a request
    Nothing    \* no request, no decision

ASSUME SessionOfAssumption == SessionOf \in [Request -> Session]
ASSUME PlainAssumption == Plain \subseteq Request
ASSUME NothingAssumption == Nothing \notin Request

VARIABLES
    deleted,  \* sessions whose deleted_at is set
    db,       \* approval_requests.status, "none" without a row
    subject,  \* the request each reader is working on
    at,       \* how far it is with it
    seen,     \* requests that have arrived
    waiting,  \* Hub.pendingApprovals: requests with a channel in the map
    tokens,   \* Hub.sessionTokens
    tab,      \* the handler of each browser connection
    left,     \* what PushTokenStates has read and not sent, by browser
    bar,      \* last session_tokens put in each browser's channel
    call,     \* the API calls under way
    toHost,   \* decisions sent to the host
    pushed,   \* decisions pushed to the browsers
    overtaken \* history: counts broadcast when a newer one was in the map

vars == <<deleted, db, subject, at, seen, waiting, tokens, tab, left,
          bar, call, toHost, pushed, overtaken>>

db_    == <<deleted, db>>
reader == <<subject, at, seen, overtaken>>
tabs   == <<tab, left, bar>>
calls  == <<call, toHost, pushed>>

Decision == {"approved", "rejected"}

\* The decision in the words of the protocol.
Proto(d) == IF d = "rejected" THEN "deny" ELSE "allow"

NoTokens == [s \in Session |-> Nothing]
NoCall == [at |-> "idle", r |-> Nothing, d |-> Nothing]

Init ==
    /\ deleted = {}
    /\ db = [r \in Request |-> "none"]
    /\ subject = [c \in Conn |-> Nothing]
    /\ at = [c \in Conn |-> "idle"]
    /\ seen = {}
    /\ waiting = {}
    /\ tokens = NoTokens
    /\ tab = [b \in Browser |-> "gone"]
    /\ left = [b \in Browser |-> NoTokens]
    /\ bar = [b \in Browser |-> NoTokens]
    /\ call = [p \in Resolver |-> NoCall]
    /\ toHost = [r \in Request |-> {}]
    /\ pushed = [r \in Request |-> {}]
    /\ overtaken = {}

----------------------------------------------------------------------------
\* handleApprovalRequest, in the goroutine that reads a host's connection

Go(c, x, p) == subject' = [subject EXCEPT ![c] = x] /\ at' = [at EXCEPT ![c] = p]

\* The reader of c, at step x with request r, goes on to y.
Step(c, r, x, y) == subject[c] = r /\ at[c] = x /\ Go(c, r, y)

\* The session is looked up; without it, or when the lookup fails, nothing
\* is persisted, and the request is announced all the same.
FindSession(c, r) ==
    /\ at[c] = "idle"
    /\ r \notin seen
    /\ seen' = seen \cup {r}
    /\ \/ SessionOf[r] \notin deleted /\ Go(c, r, "found")
       \/ Go(c, r, "persisted")
    /\ UNCHANGED <<db_, waiting, tokens, overtaken, tabs, calls>>

\* The error of the insert is ignored; without a column in clear it always
\* fails, as NOT NULL columns would be empty.
Insert(c, r) ==
    /\ Step(c, r, "found", "persisted")
    /\ \/ r \in Plain /\ db' = [db EXCEPT ![r] = "pending"]
       \/ UNCHANGED db
    /\ UNCHANGED <<deleted, seen, waiting, tokens, overtaken, tabs, calls>>

\* Those who hold sessionTokensMu for reading.
Pushing == {b \in Browser : tab[b] = "pushing"}

\* Hub.browsers.
Registered == {b \in Browser : tab[b] # "gone"}

\* Mutation: the map is written without the lock.
TrackUnlocked(c, r) ==
    /\ Step(c, r, "persisted", "tracked")
    /\ tokens' = [tokens EXCEPT ![SessionOf[r]] = r]
    /\ UNCHANGED <<db_, seen, waiting, overtaken, tabs, calls>>

Track(c, r) ==
    /\ Step(c, r, "persisted", "tracked")
    /\ Pushing = {}
    /\ tokens' = [tokens EXCEPT ![SessionOf[r]] = r]
    /\ UNCHANGED <<db_, seen, waiting, overtaken, tabs, calls>>

\* The message carries no context window.
SkipTokens(c, r) ==
    /\ Step(c, r, "persisted", "told")
    /\ UNCHANGED <<db_, seen, waiting, tokens, overtaken, tabs, calls>>

\* The session_tokens broadcast, after the lock was released; a full channel
\* drops it.
TellTokens(c, r) ==
    /\ Step(c, r, "tracked", "told")
    /\ \E got \in SUBSET Registered :
         bar' = [b \in Browser |->
                   IF b \notin Registered THEN bar[b]
                   ELSE [bar[b] EXCEPT ![SessionOf[r]] = IF b \in got THEN r ELSE "lost"]]
    /\ overtaken' = IF tokens[SessionOf[r]] = r THEN overtaken ELSE overtaken \cup {r}
    /\ UNCHANGED <<db_, seen, waiting, tokens, tab, left, calls>>

\* The request gets a channel in the map and is pushed to the browsers.
AddPending(c, r) ==
    /\ subject[c] = r /\ at[c] = "told"
    /\ waiting' = waiting \cup {r}
    /\ Go(c, Nothing, "idle")
    /\ UNCHANGED <<db_, seen, tokens, overtaken, tabs, calls>>

\* session_stopped in the same goroutine: the token state is released.
ForgetTokens(c, s) ==
    /\ at[c] = "idle"
    /\ Pushing = {}
    /\ tokens' = [tokens EXCEPT ![s] = Nothing]
    /\ UNCHANGED <<db_, subject, at, seen, waiting, overtaken, tabs, calls>>

----------------------------------------------------------------------------
\* Browser connections

RegisterBrowser(b) ==
    /\ tab[b] = "gone"
    /\ tab' = [tab EXCEPT ![b] = "joined"]
    /\ UNCHANGED <<db_, reader, waiting, tokens, left, bar, calls>>

\* PushTokenStates takes the read lock.
StartPush(b) ==
    /\ tab[b] = "joined"
    /\ tab' = [tab EXCEPT ![b] = "pushing"]
    /\ left' = [left EXCEPT ![b] = tokens]
    /\ UNCHANGED <<db_, reader, waiting, tokens, bar, calls>>

\* It sends the entry of one session.
PushTokens(b, s) ==
    /\ tab[b] = "pushing"
    /\ left[b][s] # Nothing
    /\ \E v \in {left[b][s], "lost"} : bar' = [bar EXCEPT ![b][s] = v]
    /\ left' = [left EXCEPT ![b][s] = Nothing]
    /\ UNCHANGED <<db_, reader, waiting, tokens, tab, calls>>

EndPush(b) ==
    /\ tab[b] = "pushing"
    /\ left[b] = NoTokens
    /\ tab' = [tab EXCEPT ![b] = "open"]
    /\ UNCHANGED <<db_, reader, waiting, tokens, left, bar, calls>>

\* The channel goes with its connection.
UnregisterBrowser(b) ==
    /\ tab[b] = "open"
    /\ tab' = [tab EXCEPT ![b] = "gone"]
    /\ bar' = [bar EXCEPT ![b] = NoTokens]
    /\ UNCHANGED <<db_, reader, waiting, tokens, left, calls>>

\* handleApprovalResponse: whoever finds the channel takes it off the map.
Answer(r) == waiting' = waiting \ {r}

\* An approval_response over a browser's WebSocket goes no further.
BrowserAnswers(b, r) ==
    /\ tab[b] = "open"
    /\ r \in waiting
    /\ Answer(r)
    /\ UNCHANGED <<db_, reader, tokens, tabs, calls>>

----------------------------------------------------------------------------
\* handleResolveApproval

Phase(p, x, y) == call[p].at = x /\ call' = [call EXCEPT ![p].at = y]

FindApproval(p, r, d) ==
    /\ call[p].at = "idle"
    /\ db[r] # "none"
    /\ call' = [call EXCEPT ![p] = [at |-> "found", r |-> r, d |-> d]]
    /\ UNCHANGED <<db_, reader, waiting, tokens, tabs, toHost, pushed>>

\* Mutation: the update has no condition on the status.
ResolveAlways(p) ==
    /\ Phase(p, "found", "stored")
    /\ db' = [db EXCEPT ![call[p].r] = call[p].d]
    /\ UNCHANGED <<deleted, reader, waiting, tokens, tabs, toHost, pushed>>

\* Mutation: a call whose update failed goes on.
ResolveIgnoresError(p) ==
    /\ Phase(p, "found", "stored")
    /\ \/ db' = IF db[call[p].r] = "pending" THEN [db EXCEPT ![call[p].r] = call[p].d] ELSE db
       \/ UNCHANGED db
    /\ UNCHANGED <<deleted, reader, waiting, tokens, tabs, toHost, pushed>>

\* Mutation: the row gets the decision in the words of the protocol.
ResolveAsProto(p) ==
    /\ Phase(p, "found", "stored")
    /\ db' = IF db[call[p].r] = "pending"
               THEN [db EXCEPT ![call[p].r] = Proto(call[p].d)] ELSE db
    /\ UNCHANGED <<deleted, reader, waiting, tokens, tabs, toHost, pushed>>

\* UPDATE ... AND status = 'pending'; a call that comes second is not told.
ResolveApproval(p) ==
    /\ Phase(p, "found", "stored")
    /\ db' = IF db[call[p].r] = "pending" THEN [db EXCEPT ![call[p].r] = call[p].d] ELSE db
    /\ UNCHANGED <<deleted, reader, waiting, tokens, tabs, toHost, pushed>>

\* The client went away and its context was cancelled: the update fails.
ResolveFails(p) ==
    /\ call[p].at = "found"
    /\ call' = [call EXCEPT ![p] = NoCall]
    /\ UNCHANGED <<db_, reader, waiting, tokens, tabs, toHost, pushed>>

\* GetSession, whose error is ignored: without a session, because it was
\* deleted or because the context was cancelled, the host is not told.
FindHost(p) ==
    /\ \/ Phase(p, "stored", "routed") /\ SessionOf[call[p].r] \notin deleted
       \/ Phase(p, "stored", "answered")
    /\ UNCHANGED <<db_, reader, waiting, tokens, tabs, toHost, pushed>>

\* SendToHost, whose result is ignored.
SendDecision(p) ==
    /\ Phase(p, "routed", "sent")
    /\ \/ toHost' = [toHost EXCEPT ![call[p].r] = @ \cup {Proto(call[p].d)}]
       \/ UNCHANGED toHost
    /\ UNCHANGED <<db_, reader, waiting, tokens, tabs, pushed>>

AnswerWaiter(p) ==
    /\ Phase(p, "sent", "answered")
    /\ Answer(call[p].r)
    /\ UNCHANGED <<db_, reader, tokens, tabs, toHost, pushed>>

PushDecision(p) ==
    /\ call[p].at = "answered"
    /\ pushed' = [pushed EXCEPT ![call[p].r] = @ \cup {call[p].d}]
    /\ call' = [call EXCEPT ![p] = NoCall]
    /\ UNCHANGED <<db_, reader, waiting, tokens, tabs, toHost>>

----------------------------------------------------------------------------
\* Other operations on the same state

\* DeleteSession of the API, with what handleDeleteSession does elsewhere.
DeleteSession(s) ==
    /\ s \notin deleted
    /\ deleted' = deleted \cup {s}
    /\ UNCHANGED <<db, reader, waiting, tokens, tabs, calls>>

\* The relay stops and starts again; only the database survives.
RestartRelay ==
    /\ subject' = [c \in Conn |-> Nothing]
    /\ at' = [c \in Conn |-> "idle"]
    /\ waiting' = {}
    /\ tokens' = NoTokens
    /\ tab' = [b \in Browser |-> "gone"]
    /\ left' = [b \in Browser |-> NoTokens]
    /\ bar' = [b \in Browser |-> NoTokens]
    /\ call' = [p \in Resolver |-> NoCall]
    /\ UNCHANGED <<deleted, db, seen, overtaken, toHost, pushed>>

Reader(c) ==
    \/ \E r \in Request :
         \/ FindSession(c, r) \/ Insert(c, r) \/ Track(c, r)
         \/ SkipTokens(c, r) \/ TellTokens(c, r) \/ AddPending(c, r)
    \/ \E s \in Session : ForgetTokens(c, s)

Tab(b) ==
    \/ RegisterBrowser(b) \/ StartPush(b) \/ EndPush(b) \/ UnregisterBrowser(b)
    \/ \E s \in Session : PushTokens(b, s)
    \/ \E r \in Request : BrowserAnswers(b, r)

Resolve(p) ==
    \/ \E r \in Request, d \in Decision : FindApproval(p, r, d)
    \/ ResolveApproval(p) \/ ResolveFails(p) \/ FindHost(p) \/ SendDecision(p)
    \/ AnswerWaiter(p) \/ PushDecision(p)

Next ==
    \/ \E c \in Conn : Reader(c)
    \/ \E b \in Browser : Tab(b)
    \/ \E p \in Resolver : Resolve(p)
    \/ \E s \in Session : DeleteSession(s)
    \/ RestartRelay

Spec == Init /\ [][Next]_vars

----------------------------------------------------------------------------
\* Properties

CallPhase == {"idle", "found", "stored", "routed", "sent", "answered"}

TypeOK ==
    /\ deleted \in SUBSET Session
    /\ db \in [Request -> {"none", "pending"} \cup Decision]
    /\ subject \in [Conn -> Request \cup {Nothing}]
    /\ at \in [Conn -> {"idle", "found", "persisted", "tracked", "told"}]
    /\ seen \in SUBSET Request
    /\ waiting \in SUBSET Request
    /\ tokens \in [Session -> Request \cup {Nothing}]
    /\ tab \in [Browser -> {"gone", "joined", "pushing", "open"}]
    /\ left \in [Browser -> [Session -> Request \cup {Nothing}]]
    /\ bar \in [Browser -> [Session -> Request \cup {Nothing, "lost"}]]
    /\ call \in [Resolver -> [at : CallPhase, r : Request \cup {Nothing},
                              d : Decision \cup {Nothing}]]
    /\ toHost \in [Request -> SUBSET {"allow", "deny"}]
    /\ pushed \in [Request -> SUBSET Decision]
    /\ overtaken \in SUBSET Request

\* Of any number of API calls that race to decide a request, one decides it:
\* what the row says is never changed again, by any of them or by a restart.
DecidedOnce ==
    [][\A r \in Request : db[r] \in Decision => db'[r] = db[r]]_vars

\* Nobody is told of a decision before the row has one, so that a restart
\* cannot bring back as pending a request the host has acted on.
ToldIsDecided ==
    \A r \in Request : toHost[r] # {} \/ pushed[r] # {} => db[r] \in Decision

\* The reader that wrote the current count of s has still to broadcast it.
Telling(s) ==
    \E c \in Conn : at[c] = "tracked" /\ SessionOf[subject[c]] = s /\ tokens[s] = subject[c]

\* A browser never keeps an older token count: whatever counts arrived while
\* it connected, once it has been sent what PushTokenStates read, the last
\* count put in its channel is the current one, or one was dropped.  The one
\* exception is the race the code leaves open: a count that a reader
\* broadcasts when the reader of another connection has already stored a
\* newer one.
TokensCurrent ==
    \A b \in Browser, s \in Session :
        \/ tab[b] # "open"
        \/ tokens[s] = Nothing
        \/ bar[b][s] \in {tokens[s], "lost"} \cup overtaken
        \/ Telling(s)

\* api_handlers.go:356 "Push updated approval state to all browser clients":
\* a decision that is pushed is the one in the row.
PushedIsStored == \A r \in Request : pushed[r] \subseteq {db[r]}

\* The requests somebody was told a decision of.
Told == {r \in Request : toHost[r] # {} \/ pushed[r] # {}}

Abstract == INSTANCE OneDecision WITH outcome <- db, told <- Told

\* The handlers, cut at every statement and restarted at any moment, implement
\* OneDecision: a request is asked, decided once and told, in this order.
ImplementsOneDecision == Abstract!Spec
============================================================================
