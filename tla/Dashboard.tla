------------------------------- MODULE Dashboard -------------------------------
(***************************************************************************)
(* The lists one page of the dashboard keeps of its user's hosts, sessions *)
(* and approval requests: fetched over HTTP, changed by the messages of    *)
(* its WebSocket and by the answers to what the user does on it, while     *)
(* other pages and the agents change the rows.                             *)
(*                                                                         *)
(* The relay is here what it does to the rows and what it broadcasts, in   *)
(* two steps, as in every handler; in Sessions, Approvals and Enrolment    *)
(* are the handlers themselves.  A list holds the first entry of each      *)
(* object.  Encrypted requests are left out: they have no row.             *)
(***************************************************************************)
EXTENDS Naturals, Sequences

CONSTANTS
    Host, Session, Approval,
    HostOf,     \* the host of each session
    Absent,     \* not in the list
    InitRows,   \* what the rows may be when the page is loaded
    Fetch,      \* fetches that can be under way at once
    SendCap,    \* capacity of the relay's channel to the page; 256 in the code
    MaxChange,  \* bound on the statements that change rows, or are to
    Faults      \* what may fail: connections ("break"), requests ("net"),
                \* statements ("db")

ASSUME HostOfAssumption == HostOf \in [Session -> Host]
ASSUME DisjointAssumption ==
    Host \cap Session = {} /\ Host \cap Approval = {} /\ Session \cap Approval = {}
ASSUME AbsentAssumption == Absent \notin STRING
ASSUME BoundsAssumption == SendCap \in Nat /\ MaxChange \in Nat

VARIABLES
    db,      \* the rows: the status of each, "none" before and "gone" after it
    clock,   \* history: how many statements changed rows, or were to
    ver,     \* history: how often each row was changed
    todo,    \* broadcasts whose handler has changed the row already
    link,    \* the page's side of the WebSocket
    reg,     \* the relay has registered the connection
    queue,   \* what is in its channel and on its way
    fetch,   \* the requests of each fetch
    call,    \* what the user asked for last on the page
    list,    \* state.hosts, state.sessions and state.approvals
    known    \* history: the version each entry is of, Astray if the page was misled

vars == <<db, clock, ver, todo, link, reg, queue, fetch, call, list, known>>

relay == <<db, clock, ver, todo>>
wire  == <<link, reg, queue>>
lists == <<list, known>>

Object == Host \cup Session \cup Approval

\* Larger than every version: that of an entry the page was misled about, and
\* of an announcement nothing in the rows came of.
Astray == MaxChange + 2

\* The statuses of a row; "other" is awaiting_approval or error.
Status == [x \in Object |->
    CASE x \in Host     -> {"none", "offline", "online", "gone"}
      [] x \in Session  -> {"none", "starting", "running", "other", "stopped", "gone"}
      [] x \in Approval -> {"none", "pending", "decided"}]

ASSUME InitRowsAssumption ==
    \A d \in InitRows : d \in [Object -> STRING] /\ \A x \in Object : d[x] \in Status[x]

Kind == {Host, Session, Approval}    \* GET /api/hosts, /api/sessions, /api/approvals

\* What the three GETs return of a row: nothing of one that is not there,
\* deleted, or of a request that is not pending.
View(x) == IF x \in {"none", "gone", "decided"} THEN Absent ELSE x

Asking(kinds) == [left |-> kinds, got |-> [x \in {} |-> Absent]]
NoFetch == Asking({})
NoCall == [op |-> "none", at |-> "idle", of |-> Absent, ver |-> 0]

\* A page that was just loaded, with its first fetchAll under way.
Init ==
    /\ db \in InitRows
    /\ clock = 0
    /\ ver = [x \in Object |-> IF db[x] = "none" THEN 0 ELSE 1]
    /\ todo = {}
    /\ link = "closed"
    /\ reg = FALSE
    /\ queue = <<>>
    /\ \E f \in Fetch : fetch = [g \in Fetch |-> IF g = f THEN Asking(Kind) ELSE NoFetch]
    /\ call = NoCall
    /\ list = [x \in Object |-> Absent]
    /\ known = [x \in Object |-> 0]

----------------------------------------------------------------------------
\* What the page knows

\* The page is told val[x], of version v[x], of each x in S.  It is misled when
\* its entry was of a later version, and no longer when this is the last one.
Learn(S, val, v) ==
    /\ list' = [x \in Object |-> IF x \in S THEN val[x] ELSE list[x]]
    /\ known' = [x \in Object |->
           IF x \notin S THEN known[x]
           ELSE IF v[x] # ver[x] /\ (known[x] = Astray \/ v[x] < known[x]) THEN Astray
           ELSE v[x]]

\* Its entries of S are not what it was told last.
Mislead(S) == known' = [x \in Object |-> IF x \in S THEN Astray ELSE known[x]]

\* What it was to be told of S does not reach its list.  A page that is not
\* connected will fetch everything.
Unheard(S) == IF link = "open" THEN Mislead(S) ELSE UNCHANGED known

\* The entry of x is older than version v.
OlderThan(x, v) == known[x] = Astray \/ known[x] < v

----------------------------------------------------------------------------
\* The relay changes rows

\* Bound: MaxChange.
Execute == clock < MaxChange /\ clock' = clock + 1

ChangeAll(S, val) ==
    /\ Execute
    /\ db' = [x \in Object |-> IF x \in S THEN val ELSE db[x]]
    /\ ver' = [x \in Object |-> IF x \in S THEN ver[x] + 1 ELSE ver[x]]

Change(x, val) == ChangeAll({x}, val)

\* A statement that fails or finds nothing to change.
ChangeNothing == Execute /\ UNCHANGED <<db, ver>>

Message(type, S, mine) ==
    [type |-> type, vers |-> [x \in S |-> ver'[x]], mine |-> mine]

\* Of a change that was not made.
False(type, x) == [type |-> type, vers |-> [y \in {x} |-> Astray], mine |-> FALSE]

\* The row of x changes and the pages are told; when the statement fails its
\* error is ignored, and they are told all the same.
ChangeAndTell(x, val, type) ==
    \/ /\ Change(x, val)
       /\ todo' = todo \cup {Message(type, {x}, FALSE)}
    \/ /\ "db" \in Faults
       /\ ChangeNothing
       /\ todo' = todo \cup {False(type, x)}

ByReader == {"session_started", "session_stopped", "approval_request"}

\* The reader of the host's connection handles one message after another.
ReaderFree == \A m \in todo : m.type \notin ByReader

\* A handler serves the page's own call or one of another page.
Asked(op, x) == call.op = op /\ call.of = x /\ call.at = "asked"

Serve(op, x, mine, at) ==
    IF mine THEN Asked(op, x) /\ call' = [call EXCEPT !.at = at, !.ver = ver'[x]]
    ELSE UNCHANGED call

\* handleHostWS.
HostOnline(h) ==
    /\ db[h] \in {"offline", "online"}
    /\ ChangeAndTell(h, "online", "host_status")
    /\ UNCHANGED <<wire, fetch, call, lists>>

\* The agent reports on a session.  That of a deleted one changes nothing the
\* lists show, and is broadcast all the same.
Report(s, type, status) ==
    /\ ReaderFree
    /\ db[s] # "none"
    /\ \/ db[s] # "gone" /\ ChangeAndTell(s, status, type)
       \/ /\ db[s] = "gone"
          /\ todo' = todo \cup {[type |-> type, vers |-> [x \in {s} |-> 0], mine |-> FALSE]}
          /\ UNCHANGED <<db, clock, ver>>
    /\ UNCHANGED <<wire, fetch, call, lists>>

\* session_started, or an entry of session_list.
Started(s) == Report(s, "session_started", "running")

Stopped(s) == Report(s, "session_stopped", "stopped")

Request(a) ==
    /\ ReaderFree
    /\ db[a] = "none"
    /\ ChangeAndTell(a, "pending", "approval_request")
    /\ UNCHANGED <<wire, fetch, call, lists>>

\* A request that is decided already stays as it is, and its decision is
\* broadcast again.
Resolve(a, mine) ==
    /\ \/ db[a] = "pending" /\ Change(a, "decided")
       \/ db[a] = "decided" /\ ChangeNothing
    /\ todo' = todo \cup {Message("approval_resolved", {a}, mine)}
    /\ Serve("resolve", a, mine, "served")
    /\ UNCHANGED <<wire, fetch, lists>>

DeleteSession(s, mine) ==
    /\ db[s] \notin {"none", "gone"}
    /\ Change(s, "gone")
    /\ todo' = todo \cup {Message("session_deleted", {s}, mine)}
    /\ Serve("delete", s, mine, "served")
    /\ UNCHANGED <<wire, fetch, lists>>

SessionsOf(h) == {s \in Session : HostOf[s] = h}

\* handleDeleteHost: the rows of the sessions and of the host.
DeleteHost(h, mine) ==
    /\ db[h] \notin {"none", "gone"}
    /\ ChangeAll({h} \cup {s \in SessionsOf(h) : db[s] \notin {"none", "gone"}}, "gone")
    /\ todo' = todo \cup {Message("host_deleted", {h} \cup SessionsOf(h), mine)}
    /\ Serve("remove", h, mine, "served")
    /\ UNCHANGED <<wire, fetch, lists>>

\* Nobody is told of what follows.  A session is created, on a host that was
\* there when the handler looked,
CreateSession(s, mine) ==
    /\ db[s] = "none"
    /\ Change(s, "starting")
    /\ Serve("create", s, mine, "answered")
    /\ Unheard({s})
    /\ UNCHANGED <<todo, wire, fetch, list>>

\* killed,
KillSession(s, mine) ==
    /\ db[s] \notin {"none", "gone"}
    /\ Change(s, "stopped")
    /\ Serve("kill", s, mine, "answered")
    /\ Unheard({s})
    /\ UNCHANGED <<todo, wire, fetch, list>>

\* waits for an approval, is in error after its create could not be sent or the
\* relay was restarted, or is deleted with its host, whose own delete fails; a
\* host is enrolled or goes offline.
ChangeSilently(x) ==
    /\ \/ /\ x \in Session /\ db[x] \notin {"none", "gone"}
          /\ \E status \in {"other"} \cup (IF "db" \in Faults THEN {"gone"} ELSE {}) :
                 Change(x, status)
       \/ /\ x \in Host /\ db[x] \in {"none", "online"}
          /\ Change(x, "offline")
    /\ Unheard({x})
    /\ UNCHANGED <<todo, wire, fetch, call, list>>

\* What the message says of the rows that the page does not know.
News(m) == {x \in DOMAIN m.vers : m.vers[x] # Astray /\ OlderThan(x, m.vers[x])}

\* Mutation: the channel grows without limit.
BroadcastQueued(m) ==
    /\ m \in todo
    /\ todo' = todo \ {m}
    /\ IF reg
       THEN queue' = Append(queue, m) /\ UNCHANGED known
       ELSE Unheard(News(m)) /\ UNCHANGED queue
    /\ call' = IF m.mine /\ call.at = "served" THEN [call EXCEPT !.at = "answered"] ELSE call
    /\ UNCHANGED <<db, clock, ver, link, reg, fetch, list>>

\* BroadcastToUser: into the channel, if the page is registered and there is
\* room; the page's own call is answered afterwards.
Broadcast(m) ==
    /\ m \in todo
    /\ todo' = todo \ {m}
    /\ IF reg /\ Len(queue) < SendCap
       THEN queue' = Append(queue, m) /\ UNCHANGED known
       ELSE Unheard(News(m)) /\ UNCHANGED queue
    /\ call' = IF m.mine /\ call.at = "served" THEN [call EXCEPT !.at = "answered"] ELSE call
    /\ UNCHANGED <<db, clock, ver, link, reg, fetch, list>>

----------------------------------------------------------------------------
\* Fetches

\* Bound: a fetch begins when one of Fetch is free.
Begin(kinds) ==
    \E f \in Fetch : fetch[f] = NoFetch /\ fetch' = [fetch EXCEPT ![f] = Asking(kinds)]

\* The 4-second poll, the one of the enrolment dialogue, and authorizeDevice.
RefreshHosts ==
    /\ Begin({Host})
    /\ UNCHANGED <<relay, wire, call, lists>>

\* One of the list handlers reads its rows.
Read(f, kind) ==
    /\ kind \in fetch[f].left
    /\ fetch' = [fetch EXCEPT ![f] =
           [left |-> @.left \ {kind},
            got  |-> [x \in DOMAIN @.got \cup kind |->
                         IF x \in kind THEN [val |-> View(db[x]), ver |-> ver[x]] ELSE @.got[x]]]]
    /\ UNCHANGED <<relay, wire, call, lists>>

Behind(S) == {x \in S : OlderThan(x, ver[x])}

\* A request has no answer: its list is left as it is.
ReadUnheard(f, kind) ==
    /\ "net" \in Faults
    /\ kind \in fetch[f].left
    /\ fetch' = [fetch EXCEPT ![f] = [left |-> @.left \ {kind}, got |-> @.got]]
    /\ Unheard(Behind(kind))
    /\ UNCHANGED <<relay, wire, call, list>>

\* One answers an error: Promise.all rejects, and nothing is applied.
ReadFails(f) ==
    /\ "db" \in Faults
    /\ fetch[f].left # {}
    /\ fetch' = [fetch EXCEPT ![f] = NoFetch]
    /\ Unheard(Behind((UNION fetch[f].left) \cup DOMAIN fetch[f].got))
    /\ UNCHANGED <<relay, wire, call, list>>

\* The answers replace the lists, all at once.
Apply(f) ==
    LET got == fetch[f].got
    IN  /\ fetch[f].left = {}
        /\ DOMAIN got # {}
        /\ Learn(DOMAIN got, [x \in DOMAIN got |-> got[x].val], [x \in DOMAIN got |-> got[x].ver])
        /\ fetch' = [fetch EXCEPT ![f] = NoFetch]
        /\ UNCHANGED <<relay, wire, call>>

----------------------------------------------------------------------------
\* The WebSocket

\* connectWS, and the upgrade of handleBrowserWS.
Dial ==
    /\ link = "closed"
    /\ link' = "connecting"
    /\ UNCHANGED <<relay, reg, queue, fetch, call, lists>>

\* Mutation: the lists are taken for good.
OpenOnly ==
    /\ link = "connecting"
    /\ link' = "open"
    /\ UNCHANGED <<relay, reg, queue, fetch, call, lists>>

\* onopen, which may come before the relay has registered the connection.
Open ==
    /\ link = "connecting"
    /\ link' = "open"
    /\ Begin(Kind)
    /\ UNCHANGED <<relay, reg, queue, call, lists>>

Register ==
    /\ link \in {"connecting", "open"}
    /\ ~reg
    /\ reg' = TRUE
    /\ UNCHANGED <<relay, link, queue, fetch, call, lists>>

\* The connection ends with what is on its way; what is broadcast until the
\* relay notices is lost like what is broadcast after.
Break ==
    /\ "break" \in Faults
    /\ link # "closed"
    /\ link' = "closed"
    /\ reg' = FALSE
    /\ queue' = <<>>
    /\ UNCHANGED <<relay, fetch, call, lists>>

\* handleWS, by what a message says of which objects.
Tells(m, val) ==
    LET S == DOMAIN m.vers
    IN  Learn(S, [x \in S |-> val], m.vers)

Of(m) == CHOOSE x \in DOMAIN m.vers : TRUE

\* The object is not listed: everything is fetched.
Unlisted(m) ==
    /\ m.type \in {"host_status", "session_started"}
    /\ list[Of(m)] = Absent
    /\ Begin(Kind)
    /\ UNCHANGED lists

\* The status of a listed object changes.
NewStatus(m) ==
    /\ list[Of(m)] # Absent
    /\ \/ m.type = "host_status" /\ Tells(m, "online")
       \/ m.type = "session_started" /\ Tells(m, "running")
       \/ m.type = "session_stopped" /\ Tells(m, "stopped")
    /\ UNCHANGED fetch

\* A session that stopped is not listed, and is not looked for.
StoppedUnlisted(m) ==
    /\ m.type = "session_stopped"
    /\ list[Of(m)] = Absent
    /\ Unheard(News(m))
    /\ UNCHANGED <<fetch, list>>

\* A request is added unless it is listed.
AddRequest(m) ==
    /\ m.type = "approval_request"
    /\ IF list[Of(m)] = Absent THEN Tells(m, "pending") ELSE UNCHANGED lists
    /\ UNCHANGED fetch

\* Whatever the message names leaves the lists.
Remove(m) ==
    /\ m.type \in {"approval_resolved", "session_deleted", "host_deleted"}
    /\ Tells(m, Absent)
    /\ UNCHANGED fetch

Handle ==
    /\ link = "open"
    /\ queue # <<>>
    /\ queue' = Tail(queue)
    /\ LET m == Head(queue)
       IN  Unlisted(m) \/ NewStatus(m) \/ StoppedUnlisted(m) \/ AddRequest(m) \/ Remove(m)
    /\ UNCHANGED <<relay, link, reg, call>>

----------------------------------------------------------------------------
\* The user

Click(op, x) ==
    /\ call = NoCall
    /\ \/ op = "resolve" /\ x \in Approval /\ list[x] # Absent
       \/ op \in {"kill", "delete"} /\ x \in Session /\ list[x] # Absent
       \/ op = "remove" /\ x \in Host /\ list[x] # Absent
       \/ op = "create" /\ x \in Session /\ db[x] = "none" /\ list[HostOf[x]] = "online"
    /\ call' = [op |-> op, at |-> "asked", of |-> x, ver |-> 0]
    /\ UNCHANGED <<relay, wire, fetch, lists>>

\* What the page does with an answer that says no error: it changes its list
\* as it expects the row to have changed.  The answer to a create has no status.
Expected(op) ==
    CASE op \in {"resolve", "delete", "remove"} -> Absent
      [] op = "kill" -> "stopped"
      [] op = "create" -> "blank"

Answer ==
    /\ call.at = "answered"
    /\ call' = NoCall
    /\ IF call.op = "kill" /\ list[call.of] = Absent
       THEN Unheard({call.of}) /\ UNCHANGED list
       ELSE IF call.op = "create"
       THEN /\ list' = [list EXCEPT ![call.of] = "blank"]
            /\ Mislead({call.of})
       ELSE Learn({call.of}, [x \in {call.of} |-> Expected(call.op)], [x \in {call.of} |-> call.ver])
    /\ UNCHANGED <<relay, wire, fetch>>

\* No answer is taken for a good one, by all but a create; the request may
\* still be served, as one of another page.
AnswerUnheard ==
    /\ "net" \in Faults
    /\ call.at # "idle"
    /\ call' = NoCall
    /\ IF call.op = "create" \/ (call.op = "kill" /\ list[call.of] = Absent)
       THEN UNCHANGED list
       ELSE list' = [list EXCEPT ![call.of] = Expected(call.op)]
    /\ Mislead({call.of})
    /\ UNCHANGED <<relay, wire, fetch>>

\* An error leaves the list as it is.
AnswerFails ==
    /\ call.at = "asked"
    /\ call' = NoCall
    /\ UNCHANGED <<relay, wire, fetch, lists>>

----------------------------------------------------------------------------
Serving ==
    \/ \E h \in Host : HostOnline(h)
    \/ \E s \in Session : Started(s) \/ Stopped(s)
    \/ \E a \in Approval : Request(a)
    \/ \E mine \in BOOLEAN :
           \/ \E a \in Approval : Resolve(a, mine)
           \/ \E s \in Session : DeleteSession(s, mine) \/ CreateSession(s, mine) \/ KillSession(s, mine)
           \/ \E h \in Host : DeleteHost(h, mine)
    \/ \E x \in Object : ChangeSilently(x)
    \/ \E m \in todo : Broadcast(m)

Fetching ==
    \/ RefreshHosts
    \/ \E f \in Fetch :
           \/ \E kind \in fetch[f].left : Read(f, kind) \/ ReadUnheard(f, kind)
           \/ ReadFails(f) \/ Apply(f)

Connecting == Dial \/ Open \/ Register \/ Break \/ Handle

Using ==
    \/ \E op \in {"resolve", "kill", "delete", "remove", "create"}, x \in Object : Click(op, x)
    \/ Answer \/ AnswerUnheard \/ AnswerFails

Next == Serving \/ Fetching \/ Connecting \/ Using

Spec == Init /\ [][Next]_vars

----------------------------------------------------------------------------
\* Properties

Types == {"host_status", "session_started", "session_stopped", "approval_request",
          "approval_resolved", "session_deleted", "host_deleted"}

OfMessage(m) ==
    /\ m.type \in Types /\ m.mine \in BOOLEAN
    /\ DOMAIN m.vers \subseteq Object
    /\ \A x \in DOMAIN m.vers : m.vers[x] \in 0 .. ver[x] \cup {Astray}
    /\ m.type # "host_deleted" => \E x \in Object : DOMAIN m.vers = {x}

\* The state has its types: a message names objects of its type, what a fetch
\* got is of kinds it does not wait for, no version is of the future, and an
\* answer is awaited of what was asked.
TypeOK ==
    /\ DOMAIN db = Object /\ \A x \in Object : db[x] \in Status[x]
    /\ clock \in 0 .. MaxChange
    /\ ver \in [Object -> 0 .. clock + 1]
    /\ \A m \in todo : OfMessage(m)
    /\ link \in {"closed", "connecting", "open"} /\ reg \in BOOLEAN
    /\ Len(queue) <= SendCap /\ \A i \in DOMAIN queue : OfMessage(queue[i])
    /\ \A f \in Fetch :
           /\ fetch[f].left \subseteq Kind
           /\ DOMAIN fetch[f].got \subseteq Object \ UNION fetch[f].left
           /\ \A x \in DOMAIN fetch[f].got : fetch[f].got[x].ver \in 0 .. ver[x]
    /\ call = NoCall \/ (call.at \in {"asked", "served", "answered"} /\ call.of \in Object
                        /\ call.ver \in 0 .. ver[call.of])
    /\ \A x \in Object : list[x] # Absent => list[x] \in Status[x] \cup {"blank"}
    /\ \A x \in Object : known[x] \in 0 .. ver[x] \cup {Astray}

\* Nothing is under way and the page is connected.
Quiet ==
    /\ todo = {}
    /\ link = "open" /\ reg /\ queue = <<>>
    /\ \A f \in Fetch : fetch[f] = NoFetch
    /\ call = NoCall

\* When nothing is under way the page shows each object as its row has it,
\* unless, while it was connected, the last change of the row was announced to
\* nobody, the announcement was lost or was of a session stopped that is not
\* listed, or a request of a fetch failed; or unless an answer or message
\* replaced what was newer, or was of a change that had failed.
ListsFollow == Quiet => \A x \in Object : known[x] # Astray => list[x] = View(db[x])
================================================================================
