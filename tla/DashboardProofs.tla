---------------------------- MODULE DashboardProofs ----------------------------
(***************************************************************************)
(* Proof that the state keeps its types and that the lists of a page       *)
(* follow the rows, for any number of objects, fetches, changes and any    *)
(* capacity of the channel.  Each entry is of a version of its row; unless *)
(* the page was misled about it, or is not connected, the entry is of the  *)
(* last one or that one is on its way: in a broadcast, in the channel, or  *)
(* in what a fetch got or will get.                                        *)
(***************************************************************************)
EXTENDS Dashboard, TLAPS

----------------------------------------------------------------------------
\* The inductive invariant

Versions == UNION {[S -> Nat] : S \in SUBSET Object}
Said == [type : Types, vers : Versions, mine : BOOLEAN]
Ops == {"resolve", "kill", "delete", "remove", "create"}
Asks == [op : Ops \cup {"none"}, at : {"idle", "asked", "served", "answered"},
         of : Object \cup {Absent}, ver : Nat]

Typed ==
    /\ db = [x \in Object |-> db[x]]
    /\ clock \in Nat /\ clock <= MaxChange
    /\ ver \in [Object -> Nat]
    /\ todo \subseteq Said
    /\ queue \in Seq(Said)
    /\ fetch = [f \in Fetch |-> fetch[f]]
    /\ call \in Asks
    /\ list = [x \in Object |-> list[x]]
    /\ known \in [Object -> Nat]

\* No version is of the future, and a row has none before it is there.
Counted ==
    \A x \in Object :
        /\ ver[x] <= clock + 1
        /\ ver[x] = 0 <=> db[x] = "none"
        /\ known[x] <= ver[x] \/ known[x] = Astray

\* The entry of a page that was told the last version is that version, and an
\* object it was told nothing of is not listed.
Told ==
    \A x \in Object :
        /\ known[x] = ver[x] => list[x] = View(db[x])
        /\ known[x] = 0 => list[x] = Absent

\* What a message of each type says.
Says == [type \in Types |->
    CASE type = "host_status"      -> "online"
      [] type = "session_started"  -> "running"
      [] type = "session_stopped"  -> "stopped"
      [] type = "approval_request" -> "pending"
      [] type \in {"approval_resolved", "session_deleted", "host_deleted"} -> Absent]

\* A message of the last version says what the row is.  One without a version
\* is the report on a deleted session, or names one that never was; one that is
\* astray is of a change that failed.
Honest(m, v, d) ==
    \A x \in DOMAIN m.vers :
        /\ x \in Object
        /\ m.vers[x] <= v[x] \/ m.vers[x] = Astray
        /\ m.vers[x] = v[x] => Says[m.type] = View(d[x])
        /\ m.vers[x] = 0 => \/ Says[m.type] = Absent
                            \/ m.type \in {"session_started", "session_stopped"} /\ v[x] # 0
        /\ m.type = "approval_request" => m.vers[x] \in {1, Astray}
        /\ m.type # "host_deleted" => DOMAIN m.vers = {x}

\* So does what a fetch got,
Fetched(r, v, d) ==
    /\ r.left \subseteq Kind
    /\ \A x \in DOMAIN r.got :
        /\ x \in Object
        /\ r.got[x].ver \in Nat
        /\ r.got[x].ver <= v[x]
        /\ r.got[x].ver = v[x] => r.got[x].val = View(d[x])
        /\ r.got[x].ver = 0 => r.got[x].val = Absent

\* and an answer.
Answered ==
    call.at \in {"served", "answered"} =>
        /\ call.of \in Object
        /\ call.op \in Ops
        /\ call.ver # 0
        /\ call.ver <= ver[call.of]
        /\ call.ver = ver[call.of] /\ call.op # "create" => Expected(call.op) = View(db[call.of])

Bears(m, x) == x \in DOMAIN m.vers /\ m.vers[x] = ver[x]

Brings(r, x) == x \in UNION r.left \/ (x \in DOMAIN r.got /\ r.got[x].ver = ver[x])

\* The last version of the row is on its way to the page.
Coming(x) ==
    \/ \E m \in todo : Bears(m, x)
    \/ \E i \in DOMAIN queue : Bears(queue[i], x)
    \/ \E f \in Fetch : Brings(fetch[f], x)

Follows == \A x \in Object :
    known[x] = Astray \/ link # "open" \/ known[x] = ver[x] \/ Coming(x)

IInv ==
    /\ Typed /\ Counted /\ Told /\ Answered /\ Follows
    /\ \A m \in todo : Honest(m, ver, db)
    /\ \A i \in DOMAIN queue : Honest(queue[i], ver, db)
    /\ \A f \in Fetch : Fetched(fetch[f], ver, db)

----------------------------------------------------------------------------
\* The invariant holds at first

LEMMA NoCallTyped == NoCall \in Asks
BY DEF NoCall, Asks, Ops

\* Every initial state satisfies IInv: the page is not connected
\* when it is loaded.
LEMMA Initially == Init => IInv
<1> SUFFICES ASSUME Init PROVE IInv
    OBVIOUS
<1> USE DEF Init, Asking, NoFetch
<1>1. \A x \in Object : known[x] = 0 /\ list[x] = Absent /\ ver[x] \in {0, 1}
    OBVIOUS
<1>2. Typed
  <2>1. db = [x \in Object |-> db[x]]
    <3>1. db \in [Object -> STRING]
        BY InitRowsAssumption
    <3> QED
        BY <3>1
  <2>2. call \in Asks
      BY NoCallTyped
  <2>3. queue \in Seq(Said)
      OBVIOUS
  <2>4. fetch = [f \in Fetch |-> fetch[f]]
      OBVIOUS
  <2> QED
      BY <2>1, <2>2, <2>3, <2>4, BoundsAssumption DEF Typed
<1>3. Counted
    BY DEF Counted
<1>4. Told
    BY <1>1 DEF Told, View
<1>5. Answered
    BY DEF Answered, NoCall
<1>6. Follows
    BY DEF Follows
<1>7. \A f \in Fetch : Fetched(fetch[f], ver, db)
    BY DEF Fetched
<1> QED
    BY <1>2, <1>3, <1>4, <1>5, <1>6, <1>7 DEF IInv

----------------------------------------------------------------------------
\* What the page is told

\* Being told of objects keeps what is known right, and what was known last is
\* known last or known to be astray.
LEMMA Learning ==
    ASSUME Typed, Counted, Told, NEW S \in SUBSET Object, NEW val, NEW v,
           \A x \in S : /\ v[x] \in Nat /\ (v[x] <= ver[x] \/ v[x] = Astray)
                        /\ v[x] = ver[x] => val[x] = View(db[x])
                        /\ v[x] = 0 => val[x] = Absent \/ (known[x] # 0 /\ ver[x] # 0),
           Learn(S, val, v), UNCHANGED <<db, clock, ver>>
    PROVE  /\ list' = [x \in Object |-> list'[x]] /\ known' \in [Object -> Nat]
           /\ Counted' /\ Told'
           /\ \A x \in Object : known[x] \in {Astray, ver[x]} => known'[x] \in {Astray, ver[x]}
           /\ \A x \in S : v[x] = ver[x] => known'[x] = ver[x]
<1> USE DEF Learn
<1>1. Astray \in Nat
    BY BoundsAssumption DEF Astray
<1>2. \A x \in Object : known[x] \in Nat /\ ver[x] \in Nat /\ ver[x] < Astray
    BY BoundsAssumption DEF Typed, Counted, Astray
<1>3. list' = [x \in Object |-> list'[x]]
    OBVIOUS
<1>4. known' \in [Object -> Nat]
    BY <1>1, <1>2
<1>5. \A x \in S : \/ known'[x] = Astray /\ v[x] # ver[x] /\ list'[x] = val[x]
                   \/ known'[x] = v[x] /\ list'[x] = val[x] /\ (v[x] = ver[x] \/ (known[x] <= v[x] /\ known[x] # Astray))
    BY <1>1, <1>2
<1>6. \A x \in Object \ S : known'[x] = known[x] /\ list'[x] = list[x]
    OBVIOUS
<1>7. Counted'
    BY <1>2, <1>5, <1>6 DEF Counted
<1>8. Told'
  <2> SUFFICES ASSUME NEW x \in Object
               PROVE  /\ known'[x] = ver[x] => list'[x] = View(db[x])
                      /\ known'[x] = 0 => list'[x] = Absent
      BY DEF Told
  <2>1. CASE x \notin S
      BY <2>1, <1>6 DEF Told
  <2>2. CASE x \in S /\ known'[x] = Astray
      BY <2>2, <1>2, BoundsAssumption DEF Astray
  <2>3. CASE x \in S /\ known'[x] = v[x]
      BY <2>3, <1>2, <1>5
  <2> QED
      BY <2>1, <2>2, <2>3, <1>5
<1>9. \A x \in Object : known[x] \in {Astray, ver[x]} => known'[x] \in {Astray, ver[x]}
    BY <1>2, <1>5, <1>6
<1> QED
    BY <1>2, <1>3, <1>4, <1>5, <1>7, <1>8, <1>9

\* So does being misled, whatever the entries become.
LEMMA Misleading ==
    ASSUME Typed, Counted, Told, NEW S \in SUBSET Object, Mislead(S),
           list' = [x \in Object |-> list'[x]], \A x \in Object \ S : list'[x] = list[x],
           UNCHANGED <<db, clock, ver>>
    PROVE  /\ known' \in [Object -> Nat]
           /\ Counted' /\ Told'
           /\ \A x \in S : known'[x] = Astray
           /\ \A x \in Object \ S : known'[x] = known[x]
<1> USE DEF Mislead
<1>1. Astray \in Nat /\ Astray # 0
    BY BoundsAssumption DEF Astray
<1>2. \A x \in Object : known[x] \in Nat /\ ver[x] \in Nat /\ ver[x] # Astray
    BY BoundsAssumption DEF Typed, Counted, Astray
<1>3. \A x \in S : known'[x] = Astray
    BY <1>2 DEF Typed
<1>4. \A x \in Object \ S : known'[x] = known[x]
    BY <1>2 DEF Typed
<1>5. known' \in [Object -> Nat]
    BY <1>1, <1>2
<1>6. Counted'
    BY <1>3, <1>4 DEF Counted
<1>7. Told'
    BY <1>1, <1>2, <1>3, <1>4 DEF Told
<1> QED
    BY <1>3, <1>4, <1>5, <1>6, <1>7

\* And so does not hearing what was to be told.
LEMMA NotHearing ==
    ASSUME Typed, Counted, Told, NEW S \in SUBSET Object, Unheard(S),
           UNCHANGED <<db, clock, ver, list>>
    PROVE  /\ known' \in [Object -> Nat]
           /\ Counted' /\ Told'
           /\ link = "open" => \A x \in S : known'[x] = Astray
           /\ \A x \in Object : known'[x] = known[x] \/ (x \in S /\ known'[x] = Astray)
<1>1. CASE link = "open"
  <2>1. list' = [x \in Object |-> list'[x]]
      BY DEF Typed
  <2> QED
      BY <1>1, <2>1, Misleading DEF Unheard
<1>2. CASE link # "open"
  <2>1. known' = known
      BY <1>2 DEF Unheard
  <2> QED
      BY <1>2, <2>1 DEF Typed, Counted, Told
<1> QED
    BY <1>1, <1>2

----------------------------------------------------------------------------
\* The rows change

\* A change makes a new version of the rows of S, and of no other.
LEMMA Changing ==
    ASSUME Typed, Counted, Told, NEW S \in SUBSET Object, NEW val, val # "none",
           ChangeAll(S, val), list' = list, known' \in [Object -> Nat],
           \A x \in Object : known'[x] = known[x] \/ known'[x] = Astray
    PROVE  /\ db' = [x \in Object |-> db'[x]] /\ ver' \in [Object -> Nat]
           /\ clock' \in Nat /\ clock' <= MaxChange
           /\ Counted' /\ Told'
           /\ \A x \in S : db'[x] = val /\ ver'[x] = ver[x] + 1 /\ ver'[x] # Astray
           /\ \A x \in Object \ S : db'[x] = db[x] /\ ver'[x] = ver[x]
<1> USE DEF ChangeAll, Execute
<1>1. \A x \in Object : known[x] \in Nat /\ ver[x] \in Nat
    BY DEF Typed
<1>2. db' = [x \in Object |-> db'[x]] /\ ver' \in [Object -> Nat]
    BY <1>1
<1>3. clock' \in Nat /\ clock' <= MaxChange /\ clock' = clock + 1 /\ clock \in Nat
    BY BoundsAssumption DEF Typed
<1>4. \A x \in S : db'[x] = val /\ ver'[x] = ver[x] + 1
    OBVIOUS
<1>5. \A x \in Object \ S : db'[x] = db[x] /\ ver'[x] = ver[x]
    OBVIOUS
<1>6. Counted'
    BY <1>1, <1>3, <1>4, <1>5 DEF Counted
<1>8. \A x \in Object : ver'[x] # Astray /\ Astray # 0
    BY <1>3, <1>6, BoundsAssumption DEF Counted, Astray
<1>7. Told'
  <2> SUFFICES ASSUME NEW x \in Object
               PROVE  /\ known'[x] = ver'[x] => list'[x] = View(db'[x])
                      /\ known'[x] = 0 => list'[x] = Absent
      BY DEF Told
  <2>1. ver'[x] # Astray /\ Astray # 0
      BY <1>8
  <2>2. known'[x] # Astray => known'[x] = known[x] /\ known[x] <= ver[x]
      BY DEF Counted
  <2>3. CASE x \in S
      BY <1>1, <1>4, <2>1, <2>2, <2>3 DEF Told
  <2>4. CASE x \notin S
      BY <1>1, <1>5, <2>1, <2>2, <2>4 DEF Told
  <2> QED
      BY <2>3, <2>4
<1> QED
    BY <1>2, <1>3, <1>4, <1>5, <1>6, <1>7, <1>8

\* What was said and fetched is as honest as before, of older versions.
LEMMA HonestStays ==
    ASSUME ver \in [Object -> Nat], ver' \in [Object -> Nat], NEW S \in SUBSET Object,
           \A x \in S : ver'[x] = ver[x] + 1 /\ ver'[x] # Astray,
           \A x \in Object \ S : db'[x] = db[x] /\ ver'[x] = ver[x]
    PROVE  /\ \A m \in Said : Honest(m, ver, db) => Honest(m, ver', db')
           /\ \A r : Fetched(r, ver, db) => Fetched(r, ver', db')
<1>1. ASSUME NEW m \in Said, Honest(m, ver, db)
      PROVE  Honest(m, ver', db')
  <2>1. \A x \in DOMAIN m.vers : m.vers[x] \in Nat
      BY DEF Said, Versions
  <2> QED
      BY <1>1, <2>1 DEF Honest
<1>2. ASSUME NEW r, Fetched(r, ver, db)
      PROVE  Fetched(r, ver', db')
    BY <1>2 DEF Fetched
<1> QED
    BY <1>1, <1>2

\* What is on its way stays on its way while nothing is lost.
LEMMA ComingStays ==
    ASSUME NEW x \in Object, Coming(x), ver'[x] = ver[x], todo \subseteq todo',
           UNCHANGED <<queue, fetch>>
    PROVE  Coming(x)'
BY DEF Coming, Bears, Brings

LEMMA AskedOf ==
    ASSUME NEW c \in Asks, NEW at, NEW n
    PROVE  [c EXCEPT !.at = at, !.ver = n] = [op |-> c.op, at |-> at, of |-> c.of, ver |-> n]
<1> DEFINE b == [c EXCEPT !.at = at]
<1>1. c = [op |-> c.op, at |-> c.at, of |-> c.of, ver |-> c.ver]
    BY DEF Asks
<1>2. b = [op |-> c.op, at |-> at, of |-> c.of, ver |-> c.ver]
    BY <1>1
<1> HIDE DEF b
<1>3. [b EXCEPT !.ver = n] = [op |-> c.op, at |-> at, of |-> c.of, ver |-> n]
    BY <1>2
<1> QED
    BY <1>3 DEF b

\* A handler that serves a call remembers what it made of the row.
LEMMA CallServed ==
    ASSUME IInv, NEW S \in SUBSET Object, NEW val, val # "none", ChangeAll(S, val),
           NEW x \in S, NEW op \in Ops, NEW at \in {"served", "answered"}, NEW mine \in BOOLEAN,
           op = "create" \/ Expected(op) = View(val), Serve(op, x, mine, at)
    PROVE  call' \in Asks /\ Answered'
<1>1. ver \in [Object -> Nat] /\ call \in Asks
    BY DEF IInv, Typed
<1>2. \A y \in S : db'[y] = val /\ ver'[y] = ver[y] + 1
    BY DEF ChangeAll
<1>3. \A y \in Object \ S : db'[y] = db[y] /\ ver'[y] = ver[y]
    BY DEF ChangeAll
<1>4. CASE mine
  <2>1. call' = [call EXCEPT !.at = at, !.ver = ver'[x]] /\ call.op = op /\ call.of = x
      BY <1>4 DEF Serve, Asked
  <2>2. call' = [op |-> op, at |-> at, of |-> x, ver |-> ver'[x]]
      BY <1>1, <2>1, AskedOf
  <2>3. ver'[x] \in Nat
      BY <1>1, <1>2
  <2>4. call' \in Asks
      BY <2>2, <2>3 DEF Asks
  <2> QED
      BY <1>1, <1>2, <2>2, <2>4 DEF Answered
<1>5. CASE ~mine
  <2>1. call' = call
      BY <1>5 DEF Serve
  <2>2. call.ver \in Nat
      BY <1>1 DEF Asks
  <2>3. Answered
      BY DEF IInv
  <2> QED
      BY <1>1, <1>2, <1>3, <2>1, <2>2, <2>3 DEF Answered
<1> QED
    BY <1>4, <1>5

\* So does one that finds the row as the call wanted it.
LEMMA CallServedAgain ==
    ASSUME IInv, UNCHANGED <<db, ver>>, NEW x \in Object, ver[x] # 0, NEW op \in Ops,
           NEW at \in {"served", "answered"}, NEW mine \in BOOLEAN,
           Expected(op) = View(db[x]), Serve(op, x, mine, at)
    PROVE  call' \in Asks /\ Answered'
<1>1. ver \in [Object -> Nat] /\ call \in Asks /\ Answered
    BY DEF IInv, Typed
<1>2. CASE mine
  <2>1. call' = [call EXCEPT !.at = at, !.ver = ver'[x]] /\ call.op = op /\ call.of = x
      BY <1>2 DEF Serve, Asked
  <2>2. call' = [op |-> op, at |-> at, of |-> x, ver |-> ver'[x]]
      BY <1>1, <2>1, AskedOf
  <2>3. ver'[x] \in Nat
      BY <1>1
  <2>4. call' \in Asks
      BY <2>2, <2>3 DEF Asks
  <2> QED
      BY <1>1, <2>2, <2>3, <2>4 DEF Answered
<1>3. CASE ~mine
    BY <1>1, <1>3 DEF Serve, Answered
<1> QED
    BY <1>2, <1>3

\* A change that is to be broadcast to every page.
LEMMA LoudChange ==
    ASSUME IInv, NEW S \in SUBSET Object, NEW val, val # "none", ChangeAll(S, val),
           NEW m \in Said, Honest(m, ver', db'), \A x \in S : x \in DOMAIN m.vers /\ m.vers[x] = ver'[x],
           todo' = todo \cup {m}, call' \in Asks, Answered', UNCHANGED <<wire, fetch, lists>>
    PROVE  IInv'
<1> USE DEF wire, lists
<1>1. Typed /\ Counted /\ Told /\ ver \in [Object -> Nat] /\ known \in [Object -> Nat]
    BY DEF IInv, Typed
<1>2. /\ db' = [x \in Object |-> db'[x]] /\ ver' \in [Object -> Nat]
      /\ clock' \in Nat /\ clock' <= MaxChange
      /\ Counted' /\ Told'
      /\ \A x \in S : db'[x] = val /\ ver'[x] = ver[x] + 1 /\ ver'[x] # Astray
      /\ \A x \in Object \ S : db'[x] = db[x] /\ ver'[x] = ver[x]
    BY <1>1, Changing
<1>3. Typed'
    BY <1>1, <1>2 DEF Typed
<1>4. /\ \A q \in Said : Honest(q, ver, db) => Honest(q, ver', db')
      /\ \A r : Fetched(r, ver, db) => Fetched(r, ver', db')
    BY <1>1, <1>2, HonestStays
<1>5. /\ \A q \in todo' : Honest(q, ver', db')
      /\ \A i \in DOMAIN queue' : Honest(queue'[i], ver', db')
      /\ \A f \in Fetch : Fetched(fetch'[f], ver', db')
  <2>1. todo \subseteq Said /\ \A i \in DOMAIN queue : queue[i] \in Said
      BY DEF IInv, Typed
  <2>2. /\ \A q \in todo : Honest(q, ver, db)
        /\ \A i \in DOMAIN queue : Honest(queue[i], ver, db)
        /\ \A f \in Fetch : Fetched(fetch[f], ver, db)
      BY DEF IInv
  <2> QED
      BY <1>4, <2>1, <2>2
<1>6. Follows'
  <2> SUFFICES ASSUME NEW x \in Object
               PROVE  known[x] = Astray \/ link # "open" \/ known[x] = ver'[x] \/ Coming(x)'
      BY DEF Follows
  <2>1. CASE x \in S
      BY <2>1 DEF Coming, Bears
  <2>2. CASE x \notin S
      BY <2>2, <1>2, ComingStays DEF IInv, Follows
  <2> QED
      BY <2>1, <2>2
<1> QED
    BY <1>2, <1>3, <1>5, <1>6 DEF IInv

\* A change that nobody is told of.
LEMMA SilentChange ==
    ASSUME IInv, NEW S \in SUBSET Object, NEW val, val # "none", ChangeAll(S, val), Unheard(S),
           call' \in Asks, Answered', UNCHANGED <<todo, wire, fetch, list>>
    PROVE  IInv'
<1> USE DEF wire
<1>1. Typed /\ Counted /\ Told /\ ver \in [Object -> Nat] /\ known \in [Object -> Nat]
    BY DEF IInv, Typed
<1>2. /\ known' \in [Object -> Nat]
      /\ \A x \in Object : known'[x] = known[x] \/ known'[x] = Astray
      /\ link = "open" => \A x \in S : known'[x] = Astray
      /\ \A x \in Object \ S : known'[x] = known[x]
    BY <1>1, BoundsAssumption DEF Unheard, Mislead, Astray
<1>3. /\ db' = [x \in Object |-> db'[x]] /\ ver' \in [Object -> Nat]
      /\ clock' \in Nat /\ clock' <= MaxChange
      /\ Counted' /\ Told'
      /\ \A x \in S : db'[x] = val /\ ver'[x] = ver[x] + 1 /\ ver'[x] # Astray
      /\ \A x \in Object \ S : db'[x] = db[x] /\ ver'[x] = ver[x]
    BY <1>1, <1>2, Changing
<1>4. Typed'
    BY <1>1, <1>2, <1>3 DEF Typed
<1>5. /\ \A q \in Said : Honest(q, ver, db) => Honest(q, ver', db')
      /\ \A r : Fetched(r, ver, db) => Fetched(r, ver', db')
    BY <1>1, <1>3, HonestStays
<1>6. /\ \A q \in todo' : Honest(q, ver', db')
      /\ \A i \in DOMAIN queue' : Honest(queue'[i], ver', db')
      /\ \A f \in Fetch : Fetched(fetch'[f], ver', db')
  <2>1. todo \subseteq Said /\ \A i \in DOMAIN queue : queue[i] \in Said
      BY DEF IInv, Typed
  <2>2. /\ \A q \in todo : Honest(q, ver, db)
        /\ \A i \in DOMAIN queue : Honest(queue[i], ver, db)
        /\ \A f \in Fetch : Fetched(fetch[f], ver, db)
      BY DEF IInv
  <2> QED
      BY <1>5, <2>1, <2>2
<1>7. Follows'
  <2> SUFFICES ASSUME NEW x \in Object
               PROVE  known'[x] = Astray \/ link # "open" \/ known'[x] = ver'[x] \/ Coming(x)'
      BY DEF Follows
  <2>1. CASE x \in S
      BY <2>1, <1>2
  <2>2. CASE x \notin S
      BY <2>2, <1>2, <1>3, ComingStays DEF IInv, Follows
  <2> QED
      BY <2>1, <2>2
<1> QED
    BY <1>3, <1>4, <1>6, <1>7 DEF IInv

\* A handler changes nothing of what the page asked for.
LEMMA NotServing ==
    ASSUME IInv, NEW S \in SUBSET Object, NEW val, val # "none", ChangeAll(S, val), UNCHANGED call
    PROVE  call' \in Asks /\ Answered'
<1>1. ver \in [Object -> Nat] /\ call \in Asks /\ call.ver \in Nat /\ Answered
    BY DEF IInv, Typed, Asks
<1>2. \A x \in S : ver'[x] = ver[x] + 1
    BY DEF ChangeAll
<1>3. \A x \in Object \ S : db'[x] = db[x] /\ ver'[x] = ver[x]
    BY DEF ChangeAll
<1> QED
    BY <1>1, <1>2, <1>3 DEF Answered

\* What is said of one object whose row has just been changed is honest.
LEMMA Announcement ==
    ASSUME ver \in [Object -> Nat], NEW x \in Object, NEW val, ChangeAll({x}, val),
           NEW type \in Types, type # "host_deleted", Says[type] = View(val), NEW mine \in BOOLEAN,
           type = "approval_request" => ver[x] = 0
    PROVE  /\ Message(type, {x}, mine) \in Said
           /\ Honest(Message(type, {x}, mine), ver', db')
           /\ Message(type, {x}, mine).vers[x] = ver'[x] /\ DOMAIN Message(type, {x}, mine).vers = {x}
<1> DEFINE m == Message(type, {x}, mine)
<1>1. ver'[x] = ver[x] + 1 /\ db'[x] = val /\ ver'[x] \in Nat
    BY DEF ChangeAll
<1>2. [y \in {x} |-> ver'[y]] \in Versions
  <2>1. [y \in {x} |-> ver'[y]] \in [{x} -> Nat]
      BY <1>1
  <2> QED
      BY <2>1 DEF Versions
<1>3. m.type = type /\ DOMAIN m.vers = {x} /\ m.vers[x] = ver'[x]
    BY DEF Message
<1>4. m \in Said
  <2>1. m = [type |-> type, vers |-> [y \in {x} |-> ver'[y]], mine |-> mine]
      BY DEF Message
  <2> QED
      BY <1>2, <2>1 DEF Said
<1>5. Honest(m, ver', db')
  <2> HIDE DEF m
  <2> SUFFICES ASSUME NEW y \in DOMAIN m.vers
               PROVE  /\ y \in Object /\ m.vers[y] <= ver'[y]
                      /\ m.vers[y] = ver'[y] => Says[m.type] = View(db'[y])
                      /\ m.vers[y] # 0
                      /\ m.type = "approval_request" => m.vers[y] = 1
                      /\ DOMAIN m.vers = {y}
      BY Zenon DEF Honest
  <2>1. y = x /\ ver[x] \in Nat
      BY <1>3
  <2> QED
      BY <1>1, <1>3, <2>1
<1> QED
    BY <1>3, <1>4, <1>5

LEMMA WhatIsSaid ==
    /\ Says["host_status"] = "online" /\ Says["session_started"] = "running"
    /\ Says["session_stopped"] = "stopped" /\ Says["approval_request"] = "pending"
    /\ Says["approval_resolved"] = Absent /\ Says["session_deleted"] = Absent
    /\ Says["host_deleted"] = Absent
BY DEF Says, Types

\* The change of one row that is announced in one message.
LEMMA Announcing ==
    ASSUME IInv, NEW x \in Object, NEW val, val # "none", Change(x, val),
           NEW type \in Types, type # "host_deleted", Says[type] = View(val), NEW mine \in BOOLEAN,
           type = "approval_request" => ver[x] = 0,
           todo' = todo \cup {Message(type, {x}, mine)},
           call' \in Asks, Answered', UNCHANGED <<wire, fetch, lists>>
    PROVE  IInv'
<1>1. ChangeAll({x}, val) /\ ver \in [Object -> Nat]
    BY DEF Change, IInv, Typed
<1>2. /\ Message(type, {x}, mine) \in Said
      /\ Honest(Message(type, {x}, mine), ver', db')
      /\ Message(type, {x}, mine).vers[x] = ver'[x] /\ DOMAIN Message(type, {x}, mine).vers = {x}
    BY <1>1, Announcement
<1>3. \A y \in {x} : /\ y \in DOMAIN Message(type, {x}, mine).vers
                     /\ Message(type, {x}, mine).vers[y] = ver'[y]
    BY <1>2
<1>4. {x} \in SUBSET Object
    OBVIOUS
<1> QED
    BY <1>1, <1>2, <1>3, <1>4, LoudChange

\* What is said while the rows stay as they are has to be honest, no more.
LEMMA Saying ==
    ASSUME IInv, NEW m \in Said, Honest(m, ver, db), todo' = todo \cup {m},
           UNCHANGED <<db, ver>>, clock' = clock \/ Execute,
           call' \in Asks, Answered', UNCHANGED <<wire, fetch, lists>>
    PROVE  IInv'
<1> USE DEF wire, lists
<1>1. clock \in Nat /\ clock' \in Nat /\ clock <= clock' /\ clock' <= MaxChange
    BY BoundsAssumption DEF IInv, Typed, Execute
<1>2. Typed'
    BY <1>1 DEF IInv, Typed
<1>3. Counted'
  <2>1. \A x \in Object : ver[x] \in Nat
      BY DEF IInv, Typed
  <2> QED
      BY <1>1, <2>1 DEF IInv, Counted
<1>4. Told'
    BY DEF IInv, Told
<1>5. \A q \in todo' : Honest(q, ver', db')
    BY DEF IInv
<1>6. Follows'
  <2> SUFFICES ASSUME NEW x \in Object
               PROVE  known[x] = Astray \/ link # "open" \/ known[x] = ver[x] \/ Coming(x)'
      BY DEF Follows
  <2>1. Coming(x) => Coming(x)'
      BY ComingStays
  <2> QED
      BY <2>1 DEF IInv, Follows
<1>7. \A i \in DOMAIN queue' : Honest(queue'[i], ver', db')
    BY DEF IInv
<1>8. \A f \in Fetch : Fetched(fetch'[f], ver', db')
    BY DEF IInv
<1> QED
    BY <1>2, <1>3, <1>4, <1>5, <1>6, <1>7, <1>8 DEF IInv

\* What names one object, of a version it has or of none.
LEMMA OfOne ==
    ASSUME NEW type \in Types, type # "host_deleted", NEW x \in Object, NEW n \in Nat, NEW mine \in BOOLEAN,
           NEW v, NEW d, n <= v[x] \/ n = Astray, n = v[x] => Says[type] = View(d[x]),
           n = 0 => type \in {"session_started", "session_stopped"} /\ v[x] # 0,
           type = "approval_request" => n \in {1, Astray}
    PROVE  /\ [type |-> type, vers |-> [y \in {x} |-> n], mine |-> mine] \in Said
           /\ Honest([type |-> type, vers |-> [y \in {x} |-> n], mine |-> mine], v, d)
<1> DEFINE m == [type |-> type, vers |-> [y \in {x} |-> n], mine |-> mine]
<1>1. m \in Said
  <2>1. [y \in {x} |-> n] \in [{x} -> Nat]
      OBVIOUS
  <2>2. [y \in {x} |-> n] \in Versions
      BY <2>1 DEF Versions
  <2> QED
      BY <2>2 DEF Said
<1>2. m.type = type /\ DOMAIN m.vers = {x} /\ m.vers[x] = n
    OBVIOUS
<1> HIDE DEF m
<1>3. Honest(m, v, d)
    BY <1>2 DEF Honest
<1> QED
    BY <1>1, <1>3 DEF m

\* Astray is no version of a row.
LEMMA NoVersion == ASSUME IInv, NEW x \in Object PROVE Astray \in Nat /\ Astray # 0 /\ ver[x] # Astray
BY BoundsAssumption DEF IInv, Typed, Counted, Astray

\* A row changes, or its change fails, and the pages are told that it did.
LEMMA Telling ==
    ASSUME IInv, NEW x \in Object, NEW val, val # "none", NEW type \in Types, type # "host_deleted",
           Says[type] = View(val), type = "approval_request" => ver[x] = 0,
           ChangeAndTell(x, val, type), UNCHANGED <<wire, fetch, call, lists>>
    PROVE  IInv'
<1>1. CASE Change(x, val) /\ todo' = todo \cup {Message(type, {x}, FALSE)}
  <2>1. call' \in Asks /\ Answered'
      BY <1>1, NotServing DEF Change
  <2> QED
      BY <1>1, <2>1, Announcing
<1>2. CASE ChangeNothing /\ todo' = todo \cup {False(type, x)}
  <2>1. False(type, x) \in Said /\ Honest(False(type, x), ver, db)
      BY NoVersion, OfOne DEF False
  <2>2. call' \in Asks /\ Answered'
      BY <1>2 DEF ChangeNothing, IInv, Typed, Answered
  <2> QED
      BY <1>2, <2>1, <2>2, Saying DEF ChangeNothing
<1> QED
    BY <1>1, <1>2 DEF ChangeAndTell

LEMMA HostOnlineKeeps == ASSUME IInv, NEW h \in Host, HostOnline(h) PROVE IInv'
<1>1. h \in Object
    BY DEF Object
<1>2. Says["host_status"] = View("online") /\ "host_status" \in Types
    BY WhatIsSaid DEF View, Types
<1> QED
    BY <1>1, <1>2, Telling DEF HostOnline

\* The report on a deleted session changes no row.
LEMMA Reporting ==
    ASSUME IInv, NEW s \in Session, NEW type \in {"session_started", "session_stopped"}, db[s] = "gone",
           todo' = todo \cup {[type |-> type, vers |-> [x \in {s} |-> 0], mine |-> FALSE]},
           UNCHANGED <<db, clock, ver, wire, fetch, call, lists>>
    PROVE  IInv'
<1> DEFINE m == [type |-> type, vers |-> [x \in {s} |-> 0], mine |-> FALSE]
<1>1. s \in Object /\ type \in Types
    BY DEF Object, Types
<1>2. ver[s] # 0 /\ 0 <= ver[s]
    BY <1>1 DEF IInv, Typed, Counted
<1>3. m \in Said /\ Honest(m, ver, db)
  <2>1. type # "host_deleted" /\ type # "approval_request" /\ 0 \in Nat
      OBVIOUS
  <2> QED
      BY <1>1, <1>2, <2>1, OfOne
<1>4. call' \in Asks /\ Answered'
    BY DEF IInv, Typed, Answered
<1> HIDE DEF m
<1>5. todo' = todo \cup {m}
    BY DEF m
<1> QED
    BY <1>3, <1>4, <1>5, Saying

LEMMA ReportKeeps ==
    ASSUME IInv, NEW s \in Session, NEW type \in {"session_started", "session_stopped"}, NEW status,
           status # "none", Says[type] = View(status), Report(s, type, status)
    PROVE  IInv'
<1>1. CASE ChangeAndTell(s, status, type)
  <2>1. s \in Object /\ type \in Types
      BY DEF Object, Types
  <2> QED
      BY <1>1, <2>1, Telling DEF Report
<1>2. CASE /\ db[s] = "gone"
           /\ todo' = todo \cup {[type |-> type, vers |-> [x \in {s} |-> 0], mine |-> FALSE]}
           /\ UNCHANGED <<db, clock, ver>>
    BY <1>2, Reporting DEF Report
<1> QED
    BY <1>1, <1>2 DEF Report

LEMMA StartedKeeps == ASSUME IInv, NEW s \in Session, Started(s) PROVE IInv'
BY ReportKeeps, WhatIsSaid DEF Started, View

LEMMA StoppedKeeps == ASSUME IInv, NEW s \in Session, Stopped(s) PROVE IInv'
BY ReportKeeps, WhatIsSaid DEF Stopped, View

LEMMA RequestKeeps == ASSUME IInv, NEW a \in Approval, Request(a) PROVE IInv'
<1>1. a \in Object
    BY DEF Object
<1>2. Says["approval_request"] = View("pending") /\ "approval_request" \in Types
    BY WhatIsSaid DEF View, Types
<1>3. ver[a] = 0
    BY <1>1 DEF Request, IInv, Counted
<1> QED
    BY <1>1, <1>2, <1>3, Telling DEF Request

LEMMA ResolveKeeps == ASSUME IInv, NEW a \in Approval, NEW mine \in BOOLEAN, Resolve(a, mine) PROVE IInv'
<1>1. a \in Object
    BY DEF Object
<1>2. Expected("resolve") = View("decided") /\ "resolve" \in Ops
    BY DEF Expected, View, Ops
<1>3. Says["approval_resolved"] = View("decided") /\ "approval_resolved" \in Types
    BY WhatIsSaid DEF View, Types
<1>4. CASE Change(a, "decided")
  <2>1. ChangeAll({a}, "decided")
      BY <1>4 DEF Change
  <2>2. call' \in Asks /\ Answered'
      BY <1>1, <1>2, <2>1, CallServed DEF Resolve
  <2> QED
      BY <1>1, <1>3, <1>4, <2>2, Announcing DEF Resolve
<1>5. CASE db[a] = "decided" /\ ChangeNothing
  <2>1. UNCHANGED <<db, ver>> /\ Execute
      BY <1>5 DEF ChangeNothing
  <2>2. ver[a] # 0 /\ ver[a] \in Nat
      BY <1>1, <1>5 DEF IInv, Typed, Counted
  <2>3. call' \in Asks /\ Answered'
      BY <1>1, <1>2, <1>5, <2>1, <2>2, CallServedAgain DEF Resolve
  <2> DEFINE m == [type |-> "approval_resolved", vers |-> [x \in {a} |-> ver[a]], mine |-> mine]
  <2>4. m \in Said /\ Honest(m, ver, db)
      BY <1>1, <1>3, <1>5, <2>2, OfOne
  <2>5. m = Message("approval_resolved", {a}, mine)
      BY <2>1 DEF Message
  <2> HIDE DEF m
  <2> QED
      BY <2>1, <2>3, <2>4, <2>5, Saying DEF Resolve
<1> QED
    BY <1>4, <1>5 DEF Resolve

LEMMA DeleteSessionKeeps ==
    ASSUME IInv, NEW s \in Session, NEW mine \in BOOLEAN, DeleteSession(s, mine) PROVE IInv'
<1>1. s \in Object /\ Change(s, "gone") /\ ChangeAll({s}, "gone")
    BY DEF DeleteSession, Object, Change
<1>2. call' \in Asks /\ Answered'
  <2>1. Expected("delete") = View("gone") /\ "delete" \in Ops
      BY DEF Expected, View, Ops
  <2> QED
      BY <1>1, <2>1, CallServed DEF DeleteSession
<1>3. Says["session_deleted"] = View("gone") /\ "session_deleted" \in Types
    BY WhatIsSaid DEF View, Types
<1> QED
    BY <1>1, <1>2, <1>3, Announcing DEF DeleteSession

LEMMA DeleteHostKeeps ==
    ASSUME IInv, NEW h \in Host, NEW mine \in BOOLEAN, DeleteHost(h, mine) PROVE IInv'
<1> DEFINE S == {h} \cup {s \in SessionsOf(h) : db[s] \notin {"none", "gone"}}
           D == {h} \cup SessionsOf(h)
           m == Message("host_deleted", D, mine)
<1>1. S \in SUBSET Object /\ S \subseteq D /\ D \subseteq Object /\ h \in S
    BY DEF Object, SessionsOf
<1>2. ChangeAll(S, "gone")
    BY DEF DeleteHost
<1>3. call' \in Asks /\ Answered'
  <2>1. Expected("remove") = View("gone") /\ "remove" \in Ops
      BY DEF Expected, View, Ops
  <2>2. Serve("remove", h, mine, "served")
      BY DEF DeleteHost
  <2> QED
      BY <1>1, <1>2, <2>1, <2>2, CallServed
<1>4. ver \in [Object -> Nat] /\ ver' \in [Object -> Nat]
    BY <1>1, <1>2 DEF ChangeAll, IInv, Typed
<1>5. m = [type |-> "host_deleted", vers |-> [x \in D |-> ver'[x]], mine |-> mine]
    BY DEF Message
<1>6. m \in Said
  <2>1. [x \in D |-> ver'[x]] \in [D -> Nat]
      BY <1>1, <1>4
  <2>2. [x \in D |-> ver'[x]] \in Versions
      BY <1>1, <2>1 DEF Versions
  <2> QED
      BY <1>5, <2>2 DEF Said, Types
<1>7. \A x \in D : View(db'[x]) = Absent
  <2>1. \A x \in S : db'[x] = "gone"
      BY <1>1, <1>2 DEF ChangeAll
  <2>2. \A x \in D \ S : db'[x] \in {"none", "gone"}
      BY <1>1, <1>2 DEF ChangeAll
  <2> QED
      BY <2>1, <2>2 DEF View
<1>8. m.type = "host_deleted" /\ DOMAIN m.vers = D /\ \A x \in D : m.vers[x] = ver'[x]
    BY <1>5
<1>9. todo' = todo \cup {m} /\ UNCHANGED <<wire, fetch, lists>>
    BY DEF DeleteHost
<1> HIDE DEF m, D, S
<1>10. Honest(m, ver', db')
    BY <1>1, <1>4, <1>7, <1>8, WhatIsSaid DEF Honest
<1>11. \A x \in S : x \in DOMAIN m.vers /\ m.vers[x] = ver'[x]
    BY <1>1, <1>8
<1> QED
    BY <1>1, <1>2, <1>3, <1>6, <1>9, <1>10, <1>11, LoudChange

LEMMA CreateSessionKeeps ==
    ASSUME IInv, NEW s \in Session, NEW mine \in BOOLEAN, CreateSession(s, mine) PROVE IInv'
<1>1. {s} \in SUBSET Object /\ ChangeAll({s}, "starting")
    BY DEF CreateSession, Object, Change
<1>2. call' \in Asks /\ Answered'
    BY <1>1, CallServed DEF CreateSession, Ops
<1> QED
    BY <1>1, <1>2, SilentChange DEF CreateSession

LEMMA KillSessionKeeps ==
    ASSUME IInv, NEW s \in Session, NEW mine \in BOOLEAN, KillSession(s, mine) PROVE IInv'
<1>1. {s} \in SUBSET Object /\ ChangeAll({s}, "stopped")
    BY DEF KillSession, Object, Change
<1>2. call' \in Asks /\ Answered'
  <2>1. Expected("kill") = View("stopped") /\ "kill" \in Ops
      BY DEF Expected, View, Ops
  <2> QED
      BY <1>1, <2>1, CallServed DEF KillSession
<1> QED
    BY <1>1, <1>2, SilentChange DEF KillSession

LEMMA ChangeSilentlyKeeps ==
    ASSUME IInv, NEW x \in Object, ChangeSilently(x) PROVE IInv'
<1>1. PICK val \in {"other", "gone", "offline"} : ChangeAll({x}, val)
    BY DEF ChangeSilently, Change
<1>2. call' \in Asks /\ Answered'
    BY <1>1, NotServing DEF ChangeSilently
<1> QED
    BY <1>1, <1>2, SilentChange DEF ChangeSilently

----------------------------------------------------------------------------
\* Broadcasts

\* What is put into the channel is still on its way, and what is not is known to
\* be lost or is known already.
LEMMA BroadcastKeeps == ASSUME IInv, NEW m \in todo, Broadcast(m) PROVE IInv'
<1>1. Typed /\ Counted /\ Told /\ m \in Said /\ Honest(m, ver, db) /\ queue \in Seq(Said)
    BY DEF IInv, Typed
<1>2. News(m) \in SUBSET Object /\ \A x \in DOMAIN m.vers : x \in Object
    BY <1>1 DEF News, Honest
<1>3. UNCHANGED <<db, clock, ver, link, reg, fetch, list>> /\ todo' = todo \ {m}
    BY DEF Broadcast
<1>4. call' \in Asks /\ Answered'
  <2>1. call' = call \/ (call.at = "served" /\ call' = [call EXCEPT !.at = "answered"])
      BY DEF Broadcast
  <2>2. CASE call' = call
      BY <1>3, <2>2 DEF IInv, Typed, Answered
  <2>3. CASE call.at = "served" /\ call' = [call EXCEPT !.at = "answered"]
    <3>1. call \in Asks
        BY <1>1 DEF Typed
    <3>2. call' = [op |-> call.op, at |-> "answered", of |-> call.of, ver |-> call.ver]
        BY <2>3, <3>1 DEF Asks
    <3>3. call' \in Asks
        BY <3>1, <3>2 DEF Asks
    <3> QED
        BY <1>3, <2>3, <3>2, <3>3 DEF IInv, Answered
  <2> QED
      BY <2>1, <2>2, <2>3
<1>5. CASE queue' = Append(queue, m) /\ UNCHANGED known
  <2>1. queue' \in Seq(Said) /\ \A i \in DOMAIN queue' : queue'[i] = m \/ (i \in DOMAIN queue /\ queue'[i] = queue[i])
      BY <1>1, <1>5
  <2>2. \A i \in DOMAIN queue : i \in DOMAIN queue' /\ queue'[i] = queue[i]
      BY <1>1, <1>5
  <2>3. \E i \in DOMAIN queue' : queue'[i] = m
      BY <1>1, <1>5
  <2>4. \A i \in DOMAIN queue' : Honest(queue'[i], ver, db)
      BY <1>1, <2>1 DEF IInv
  <2>5. Typed' /\ Counted' /\ Told'
      BY <1>1, <1>3, <1>4, <1>5, <2>1 DEF Typed, Counted, Told
  <2>6. Follows'
    <3> SUFFICES ASSUME NEW x \in Object, Coming(x)
                 PROVE  Coming(x)'
        BY <1>3, <1>5 DEF IInv, Follows
    <3> QED
        BY <1>3, <2>2, <2>3 DEF Coming, Bears, Brings
  <2> QED
      BY <1>3, <1>4, <2>4, <2>5, <2>6 DEF IInv
<1>6. CASE Unheard(News(m)) /\ UNCHANGED queue
  <2>1. /\ known' \in [Object -> Nat] /\ Counted' /\ Told'
        /\ link = "open" => \A x \in News(m) : known'[x] = Astray
        /\ \A x \in Object : known'[x] = known[x] \/ (x \in News(m) /\ known'[x] = Astray)
      BY <1>1, <1>2, <1>3, <1>6, NotHearing
  <2>2. Typed'
      BY <1>1, <1>3, <1>4, <1>6, <2>1 DEF Typed
  <2>3. Follows'
    <3> SUFFICES ASSUME NEW x \in Object, link = "open"
                 PROVE  known'[x] = Astray \/ known'[x] = ver[x] \/ Coming(x)'
        BY <1>3 DEF Follows
    <3>1. CASE Bears(m, x)
      <4>1. CASE x \in News(m)
          BY <2>1, <4>1
      <4>2. CASE x \notin News(m)
          BY <1>1, <2>1, <3>1, <4>2, NoVersion DEF News, OlderThan, Bears, Typed, Counted
      <4> QED
          BY <4>1, <4>2
    <3>2. CASE ~Bears(m, x)
      <4>1. Coming(x) => Coming(x)'
          BY <1>3, <1>6, <3>2 DEF Coming, Bears, Brings
      <4> QED
          BY <2>1, <4>1 DEF IInv, Follows
    <3> QED
        BY <3>1, <3>2
  <2> QED
      BY <1>3, <1>4, <1>6, <2>1, <2>2, <2>3 DEF IInv
<1> QED
    BY <1>5, <1>6 DEF Broadcast

----------------------------------------------------------------------------
\* Fetches

\* A fetch that begins brings what it asks for, and disturbs no other.
LEMMA Beginning ==
    ASSUME Typed, NEW kinds \in SUBSET Kind, Begin(kinds), UNCHANGED ver,
           \A f \in Fetch : Fetched(fetch[f], ver, db)
    PROVE  /\ fetch' = [f \in Fetch |-> fetch'[f]]
           /\ \A f \in Fetch : Fetched(fetch'[f], ver, db)
           /\ \A x \in Object, f \in Fetch : Brings(fetch[f], x) => Brings(fetch'[f], x)
           /\ \E f \in Fetch : fetch'[f].left = kinds
<1>1. PICK f \in Fetch : fetch[f] = NoFetch /\ fetch' = [fetch EXCEPT ![f] = Asking(kinds)]
    BY DEF Begin
<1>2. /\ fetch' = [g \in Fetch |-> fetch'[g]] /\ fetch'[f] = Asking(kinds)
      /\ \A g \in Fetch \ {f} : fetch'[g] = fetch[g]
    BY <1>1 DEF Typed
<1>3. Fetched(Asking(kinds), ver, db) /\ Asking(kinds).left = kinds
    BY DEF Asking, Fetched
<1>4. \A x \in Object : ~Brings(fetch[f], x)
    BY <1>1 DEF NoFetch, Asking, Brings
<1> QED
    BY <1>2, <1>3, <1>4

LEMMA RefreshHostsKeeps == ASSUME IInv, RefreshHosts PROVE IInv'
<1> USE DEF relay, wire, lists
<1>1. UNCHANGED <<db, clock, ver, todo, link, queue, call, list, known>>
    BY DEF RefreshHosts
<1>2. /\ fetch' = [f \in Fetch |-> fetch'[f]]
      /\ \A f \in Fetch : Fetched(fetch'[f], ver, db)
      /\ \A x \in Object, f \in Fetch : Brings(fetch[f], x) => Brings(fetch'[f], x)
    BY <1>1, Beginning DEF RefreshHosts, Kind, IInv
<1>3. Follows'
    BY <1>1, <1>2 DEF IInv, Follows, Coming, Bears, Brings
<1>4. Typed' /\ Counted' /\ Told' /\ Answered'
    BY <1>1, <1>2 DEF IInv, Typed, Counted, Told, Answered
<1> QED
    BY <1>1, <1>2, <1>3, <1>4 DEF IInv

LEMMA ReadKeeps == ASSUME IInv, NEW f \in Fetch, NEW kind \in fetch[f].left, Read(f, kind) PROVE IInv'
<1> DEFINE r == [left |-> fetch[f].left \ {kind},
                 got  |-> [x \in DOMAIN fetch[f].got \cup kind |->
                     IF x \in kind THEN [val |-> View(db[x]), ver |-> ver[x]] ELSE fetch[f].got[x]]]
<1>1. Typed /\ Counted /\ Fetched(fetch[f], ver, db)
    BY DEF IInv
<1>2. UNCHANGED <<db, clock, ver, todo, link, queue, call, list, known>> /\ fetch' = [fetch EXCEPT ![f] = r]
    BY DEF Read, relay, wire, lists
<1>3. kind \in Kind /\ kind \subseteq Object
    BY <1>1 DEF Fetched, Kind, Object
<1>4. /\ r.left = fetch[f].left \ {kind} /\ DOMAIN r.got = DOMAIN fetch[f].got \cup kind
      /\ \A x \in kind : r.got[x].val = View(db[x]) /\ r.got[x].ver = ver[x]
      /\ \A x \in DOMAIN fetch[f].got \ kind : r.got[x] = fetch[f].got[x]
    OBVIOUS
<1> HIDE DEF r
<1>5. Fetched(r, ver, db)
  <2> SUFFICES ASSUME NEW x \in DOMAIN r.got
               PROVE  /\ x \in Object
                      /\ r.got[x].ver \in Nat /\ r.got[x].ver <= ver[x]
                      /\ r.got[x].ver = ver[x] => r.got[x].val = View(db[x])
                      /\ r.got[x].ver = 0 => r.got[x].val = Absent
      BY <1>1, <1>4 DEF Fetched
  <2>1. CASE x \in kind
    <3>1. ver[x] \in Nat /\ (ver[x] = 0 => View(db[x]) = Absent)
        BY <1>1, <1>3, <2>1 DEF Typed, Counted, View
    <3> QED
        BY <1>3, <1>4, <2>1, <3>1
  <2>2. CASE x \notin kind
      BY <1>1, <1>4, <2>2 DEF Fetched
  <2> QED
      BY <2>1, <2>2
<1>6. /\ fetch' = [g \in Fetch |-> fetch'[g]] /\ fetch'[f] = r
      /\ \A g \in Fetch \ {f} : fetch'[g] = fetch[g]
    BY <1>1, <1>2 DEF Typed
<1>7. \A x \in Object : Brings(fetch[f], x) => Brings(r, x)
  <2> SUFFICES ASSUME NEW x \in Object, Brings(fetch[f], x), x \notin kind
               PROVE  Brings(r, x)
      BY <1>4 DEF Brings
  <2> QED
      BY <1>4 DEF Brings
<1>8. Follows'
  <2> SUFFICES ASSUME NEW x \in Object, Coming(x)
               PROVE  Coming(x)'
      BY <1>2 DEF IInv, Follows
  <2>1. CASE \E g \in Fetch : Brings(fetch[g], x)
    <3>1. PICK g \in Fetch : Brings(fetch[g], x)
        BY <2>1
    <3>2. Brings(fetch'[g], x)
        BY <1>6, <1>7, <3>1
    <3> QED
        BY <1>2, <3>2 DEF Coming, Brings
  <2>2. CASE ~\E g \in Fetch : Brings(fetch[g], x)
      BY <1>2, <2>2 DEF Coming, Bears
  <2> QED
      BY <2>1, <2>2
<1>9. \A g \in Fetch : Fetched(fetch'[g], ver, db)
    BY <1>5, <1>6 DEF IInv
<1>10. Typed' /\ Counted' /\ Told' /\ Answered'
    BY <1>2, <1>6 DEF IInv, Typed, Counted, Told, Answered
<1> QED
    BY <1>2, <1>8, <1>9, <1>10 DEF IInv

\* A fetch f is to bring less, of what nobody but it brings the page is misled.
LEMMA Forgetting ==
    ASSUME IInv, NEW f \in Fetch, NEW r, fetch' = [fetch EXCEPT ![f] = r], Fetched(r, ver, db),
           NEW S \in SUBSET Object, Unheard(Behind(S)),
           \A x \in Object \ S : Brings(fetch[f], x) => Brings(r, x),
           UNCHANGED <<db, clock, ver, todo, link, queue, call, list>>
    PROVE  IInv'
<1>1. Typed /\ Counted /\ Told
    BY DEF IInv
<1>2. Behind(S) \in SUBSET Object
    BY DEF Behind
<1>3. /\ known' \in [Object -> Nat] /\ Counted' /\ Told'
      /\ link = "open" => \A x \in Behind(S) : known'[x] = Astray
      /\ \A x \in Object : known'[x] = known[x] \/ (x \in Behind(S) /\ known'[x] = Astray)
    BY <1>1, <1>2, NotHearing
<1>4. /\ fetch' = [g \in Fetch |-> fetch'[g]] /\ fetch'[f] = r
      /\ \A g \in Fetch \ {f} : fetch'[g] = fetch[g]
    BY <1>1 DEF Typed
<1>5. Follows'
  <2> SUFFICES ASSUME NEW x \in Object, link = "open"
               PROVE  known'[x] = Astray \/ known'[x] = ver[x] \/ Coming(x)'
      BY DEF Follows
  <2>1. CASE x \in S
    <3>1. x \in Behind(S) \/ known[x] = ver[x]
        BY <1>1, <2>1 DEF Behind, OlderThan, Typed, Counted
    <3> QED
        BY <1>3, <3>1
  <2>2. CASE x \notin S
    <3>1. Coming(x) => Coming(x)'
      <4> SUFFICES ASSUME Coming(x) PROVE Coming(x)'
          OBVIOUS
      <4>1. CASE \E g \in Fetch : Brings(fetch[g], x)
        <5>1. PICK g \in Fetch : Brings(fetch[g], x)
            BY <4>1
        <5>2. Brings(fetch'[g], x)
            BY <1>4, <2>2, <5>1
        <5> QED
            BY <5>2 DEF Coming, Brings
      <4>2. CASE ~\E g \in Fetch : Brings(fetch[g], x)
          BY <4>2 DEF Coming, Bears
      <4> QED
          BY <4>1, <4>2
    <3>2. known'[x] = known[x]
        BY <1>3, <2>2 DEF Behind
    <3> QED
        BY <3>1, <3>2 DEF IInv, Follows
  <2> QED
      BY <2>1, <2>2
<1>6. \A g \in Fetch : Fetched(fetch'[g], ver, db)
    BY <1>4 DEF IInv
<1>7. Typed' /\ Answered'
    BY <1>3, <1>4 DEF IInv, Typed, Answered
<1> QED
    BY <1>3, <1>5, <1>6, <1>7 DEF IInv

LEMMA ReadUnheardKeeps ==
    ASSUME IInv, NEW f \in Fetch, NEW kind \in fetch[f].left, ReadUnheard(f, kind) PROVE IInv'
<1> DEFINE r == [left |-> fetch[f].left \ {kind}, got |-> fetch[f].got]
<1>1. Fetched(fetch[f], ver, db)
    BY DEF IInv
<1>2. kind \in SUBSET Object
    BY <1>1 DEF Fetched, Kind, Object
<1>3. Fetched(r, ver, db)
    BY <1>1 DEF Fetched
<1>4. \A x \in Object \ kind : Brings(fetch[f], x) => Brings(r, x)
    BY DEF Brings
<1>5. UNCHANGED <<db, clock, ver, todo, link, queue, call, list>> /\ Unheard(Behind(kind))
    BY DEF ReadUnheard, relay, wire
<1>6. fetch' = [fetch EXCEPT ![f] = r]
    BY DEF ReadUnheard
<1> HIDE DEF r
<1> QED
    BY <1>2, <1>3, <1>4, <1>5, <1>6, Forgetting

LEMMA ReadFailsKeeps == ASSUME IInv, NEW f \in Fetch, ReadFails(f) PROVE IInv'
<1> DEFINE S == (UNION fetch[f].left) \cup DOMAIN fetch[f].got
<1>1. Fetched(fetch[f], ver, db)
    BY DEF IInv
<1>2. S \in SUBSET Object
    BY <1>1 DEF Fetched, Kind, Object
<1>3. Fetched(NoFetch, ver, db)
    BY DEF Fetched, NoFetch, Asking
<1>4. \A x \in Object \ S : Brings(fetch[f], x) => Brings(NoFetch, x)
    BY DEF Brings
<1>5. UNCHANGED <<db, clock, ver, todo, link, queue, call, list>> /\ Unheard(Behind(S))
    BY DEF ReadFails, relay, wire
<1>6. fetch' = [fetch EXCEPT ![f] = NoFetch]
    BY DEF ReadFails
<1> HIDE DEF S
<1> QED
    BY <1>2, <1>3, <1>4, <1>5, <1>6, Forgetting

\* What a fetch got of the last version is in the lists now.
LEMMA ApplyKeeps == ASSUME IInv, NEW f \in Fetch, Apply(f) PROVE IInv'
<1> DEFINE got == fetch[f].got
           S == DOMAIN got
           e == [x \in S |-> got[x].val]
           n == [x \in S |-> got[x].ver]
<1>1. Typed /\ Counted /\ Told /\ Fetched(fetch[f], ver, db)
    BY DEF IInv
<1>2. /\ UNCHANGED <<db, clock, ver, todo, link, queue, call>> /\ Learn(S, e, n)
      /\ fetch[f].left = {} /\ fetch' = [fetch EXCEPT ![f] = NoFetch]
    BY DEF Apply, relay, wire
<1>3. /\ S \in SUBSET Object
      /\ \A x \in S : n[x] \in Nat /\ n[x] <= ver[x]
      /\ \A x \in S : n[x] = ver[x] => e[x] = View(db[x])
      /\ \A x \in S : n[x] = 0 => e[x] = Absent
    BY <1>1 DEF Fetched
<1>4. \A x \in Object : Brings(fetch[f], x) => x \in S /\ n[x] = ver[x]
    BY <1>2 DEF Brings
<1> HIDE DEF got, S, e, n
<1>11. \A x \in S : /\ n[x] \in Nat /\ n[x] <= ver[x]
                    /\ n[x] = ver[x] => e[x] = View(db[x])
                    /\ n[x] = 0 => e[x] = Absent \/ (known[x] # 0 /\ ver[x] # 0)
    BY <1>3
<1>12. Learn(S, e, n) /\ UNCHANGED <<db, clock, ver>> /\ S \in SUBSET Object
    BY <1>2, <1>3
<1>5. /\ list' = [x \in Object |-> list'[x]] /\ known' \in [Object -> Nat]
      /\ Counted' /\ Told'
      /\ \A x \in Object : known[x] \in {Astray, ver[x]} => known'[x] \in {Astray, ver[x]}
      /\ \A x \in S : n[x] = ver[x] => known'[x] = ver[x]
    BY <1>1, <1>11, <1>12, Learning
<1>6. /\ fetch' = [g \in Fetch |-> fetch'[g]] /\ fetch'[f] = NoFetch
      /\ \A g \in Fetch \ {f} : fetch'[g] = fetch[g]
    BY <1>1, <1>2 DEF Typed
<1>7. Follows'
  <2> SUFFICES ASSUME NEW x \in Object, link = "open"
               PROVE  known'[x] = Astray \/ known'[x] = ver[x] \/ Coming(x)'
      BY <1>2 DEF Follows
  <2>1. CASE Brings(fetch[f], x)
      BY <1>4, <1>5, <2>1
  <2>2. CASE ~Brings(fetch[f], x)
    <3>1. Coming(x) => Coming(x)'
        BY <1>2, <1>6, <2>2 DEF Coming, Bears, Brings
    <3> QED
        BY <1>5, <3>1 DEF IInv, Follows
  <2> QED
      BY <2>1, <2>2
<1>8. Fetched(NoFetch, ver, db)
    BY DEF Fetched, NoFetch, Asking
<1>9. \A g \in Fetch : Fetched(fetch'[g], ver, db)
    BY <1>6, <1>8 DEF IInv
<1>10. Typed' /\ Answered'
    BY <1>2, <1>5, <1>6 DEF IInv, Typed, Answered
<1> QED
    BY <1>2, <1>5, <1>7, <1>9, <1>10 DEF IInv

----------------------------------------------------------------------------
\* The WebSocket

LEMMA DialKeeps == ASSUME IInv, Dial PROVE IInv'
<1>1. UNCHANGED <<db, clock, ver, todo, queue, fetch, call, list, known>> /\ link' # "open"
    BY DEF Dial, relay, lists
<1>2. Typed' /\ Counted' /\ Told' /\ Answered'
    BY <1>1 DEF IInv, Typed, Counted, Told, Answered
<1>3. Follows'
    BY <1>1 DEF Follows
<1> QED
    BY <1>1, <1>2, <1>3 DEF IInv

\* A page that connects fetches everything.
LEMMA OpenKeeps == ASSUME IInv, Open PROVE IInv'
<1>1. UNCHANGED <<db, clock, ver, todo, queue, call, list, known>>
    BY DEF Open, relay, lists
<1>2. /\ fetch' = [f \in Fetch |-> fetch'[f]]
      /\ \A f \in Fetch : Fetched(fetch'[f], ver, db)
      /\ \E f \in Fetch : fetch'[f].left = Kind
    BY <1>1, Beginning DEF Open, IInv
<1>3. Follows'
    BY <1>2 DEF Follows, Coming, Brings, Kind, Object
<1>4. Typed' /\ Counted' /\ Told' /\ Answered'
    BY <1>1, <1>2 DEF IInv, Typed, Counted, Told, Answered
<1> QED
    BY <1>1, <1>2, <1>3, <1>4 DEF IInv

LEMMA RegisterKeeps == ASSUME IInv, Register PROVE IInv'
<1>1. UNCHANGED <<db, clock, ver, todo, link, queue, fetch, call, list, known>>
    BY DEF Register, relay, lists
<1>2. Typed' /\ Counted' /\ Told' /\ Answered'
    BY <1>1 DEF IInv, Typed, Counted, Told, Answered
<1>3. Follows'
    BY <1>1 DEF IInv, Follows, Coming, Bears, Brings
<1> QED
    BY <1>1, <1>2, <1>3 DEF IInv

LEMMA BreakKeeps == ASSUME IInv, Break PROVE IInv'
<1>1. UNCHANGED <<db, clock, ver, todo, fetch, call, list, known>> /\ link' # "open" /\ queue' = <<>>
    BY DEF Break, relay, lists
<1>2. Typed' /\ Counted' /\ Told' /\ Answered'
    BY <1>1 DEF IInv, Typed, Counted, Told, Answered
<1>3. Follows'
    BY <1>1 DEF Follows
<1> QED
    BY <1>1, <1>2, <1>3 DEF IInv

LEMMA Popped ==
    ASSUME NEW q \in Seq(Said), q # <<>>
    PROVE  /\ Head(q) \in Said /\ Tail(q) \in Seq(Said)
           /\ \A i \in DOMAIN Tail(q) : i + 1 \in DOMAIN q /\ Tail(q)[i] = q[i + 1]
           /\ \A i \in DOMAIN q : q[i] = Head(q) \/ (i - 1 \in DOMAIN Tail(q) /\ Tail(q)[i - 1] = q[i])
OBVIOUS

\* What handling a message has to do: of what it bears the page knows the last
\* version, is astray, or waits for a fetch.
LEMMA Handling ==
    ASSUME IInv, NEW m, queue # <<>>, m = Head(queue), queue' = Tail(queue),
           UNCHANGED <<db, clock, ver, todo, link, call>>,
           fetch' = [f \in Fetch |-> fetch'[f]], \A f \in Fetch : Fetched(fetch'[f], ver, db),
           \A x \in Object, f \in Fetch : Brings(fetch[f], x) => Brings(fetch'[f], x),
           list' = [x \in Object |-> list'[x]], known' \in [Object -> Nat], Counted', Told',
           \A x \in Object : known[x] \in {Astray, ver[x]} => known'[x] \in {Astray, ver[x]},
           \A x \in Object : Bears(m, x) =>
               known'[x] \in {Astray, ver[x]} \/ \E f \in Fetch : Brings(fetch'[f], x)
    PROVE  IInv'
<1>1. queue \in Seq(Said)
    BY DEF IInv, Typed
<1>2. /\ Tail(queue) \in Seq(Said)
      /\ \A i \in DOMAIN Tail(queue) : i + 1 \in DOMAIN queue /\ Tail(queue)[i] = queue[i + 1]
      /\ \A i \in DOMAIN queue : queue[i] = m \/ (i - 1 \in DOMAIN Tail(queue) /\ Tail(queue)[i - 1] = queue[i])
    BY <1>1, Popped
<1>3. Typed' /\ Answered'
    BY <1>2 DEF IInv, Typed, Answered
<1>4. \A i \in DOMAIN queue' : Honest(queue'[i], ver, db)
    BY <1>2 DEF IInv
<1>5. Follows'
  <2> SUFFICES ASSUME NEW x \in Object, link = "open"
               PROVE  known'[x] = Astray \/ known'[x] = ver[x] \/ Coming(x)'
      BY DEF Follows
  <2>1. CASE known[x] \in {Astray, ver[x]}
      BY <2>1
  <2>2. CASE Coming(x)
    <3>1. CASE \E n \in todo : Bears(n, x)
        BY <3>1 DEF Coming, Bears
    <3>2. CASE \E f \in Fetch : Brings(fetch[f], x)
        BY <3>2 DEF Coming, Brings
    <3>3. CASE Bears(m, x)
        BY <3>3 DEF Coming, Brings
    <3>4. ASSUME NEW i \in DOMAIN queue, Bears(queue[i], x), ~Bears(m, x)
          PROVE  Coming(x)'
        BY <1>2, <3>4 DEF Coming, Bears
    <3> QED
        BY <2>2, <3>1, <3>2, <3>3, <3>4 DEF Coming
  <2> QED
      BY <2>1, <2>2 DEF IInv, Follows
<1> QED
    BY <1>3, <1>4, <1>5 DEF IInv

\* The page learns what an honest message says, if it does not take the report
\* on a session that is not listed for that of a listed one.
LEMMA Hearing ==
    ASSUME IInv, NEW m \in Said, Honest(m, ver, db), NEW say, say = Says[m.type],
           m.type \in {"session_started", "session_stopped"} => \A x \in DOMAIN m.vers : list[x] # Absent,
           Tells(m, say), UNCHANGED <<db, clock, ver>>
    PROVE  /\ list' = [x \in Object |-> list'[x]] /\ known' \in [Object -> Nat]
           /\ Counted' /\ Told'
           /\ \A x \in Object : known[x] \in {Astray, ver[x]} => known'[x] \in {Astray, ver[x]}
           /\ \A x \in Object : Bears(m, x) => known'[x] = ver[x]
<1> DEFINE S == DOMAIN m.vers
           e == [x \in S |-> say]
           n == m.vers
<1>1. Typed /\ Counted /\ Told
    BY DEF IInv
<1>2. S \in SUBSET Object
    BY DEF Honest
<1>3. \A x \in S : m.vers[x] \in Nat
    BY DEF Said, Versions
<1>4. Learn(S, e, n)
    BY DEF Tells
<1>5. \A x \in S : /\ n[x] \in Nat /\ (n[x] <= ver[x] \/ n[x] = Astray)
                   /\ n[x] = ver[x] => e[x] = View(db[x])
                   /\ n[x] = 0 => e[x] = Absent \/ (known[x] # 0 /\ ver[x] # 0)
  <2> SUFFICES ASSUME NEW x \in S
               PROVE  /\ n[x] \in Nat /\ (n[x] <= ver[x] \/ n[x] = Astray)
                      /\ n[x] = ver[x] => say = View(db[x])
                      /\ n[x] = 0 => say = Absent \/ (known[x] # 0 /\ ver[x] # 0)
      OBVIOUS
  <2>1. known[x] = 0 => list[x] = Absent
      BY <1>1, <1>2 DEF Told
  <2> QED
      BY <1>3, <2>1 DEF Honest
<1>6. \A x \in Object : Bears(m, x) => x \in S /\ n[x] = ver[x]
    BY DEF Bears
<1> HIDE DEF S, e, n
<1>7. /\ list' = [x \in Object |-> list'[x]] /\ known' \in [Object -> Nat]
      /\ Counted' /\ Told'
      /\ \A x \in Object : known[x] \in {Astray, ver[x]} => known'[x] \in {Astray, ver[x]}
      /\ \A x \in S : n[x] = ver[x] => known'[x] = ver[x]
    BY <1>1, <1>2, <1>4, <1>5, Learning
<1> QED
    BY <1>6, <1>7

LEMMA HandleKeeps == ASSUME IInv, Handle PROVE IInv'
<1> DEFINE m == Head(queue)
<1>1. Typed /\ Counted /\ Told /\ queue \in Seq(Said) /\ queue # <<>>
    BY DEF IInv, Typed, Handle
<1>2. UNCHANGED <<db, clock, ver, todo, link, call>> /\ queue' = Tail(queue) /\ link = "open"
    BY DEF Handle, relay
<1>3. m \in Said /\ Honest(m, ver, db)
  <2>1. m \in Said
      BY <1>1
  <2>2. 1 \in DOMAIN queue /\ m = queue[1]
      BY <1>1
  <2> QED
      BY <2>1, <2>2 DEF IInv
<1>4. Unlisted(m) \/ NewStatus(m) \/ StoppedUnlisted(m) \/ AddRequest(m) \/ Remove(m)
    BY DEF Handle
<1> HIDE DEF m
<1>5. m.type # "host_deleted" => \A x \in DOMAIN m.vers : x = Of(m) /\ x \in Object
    BY <1>3 DEF Honest, Of
<1>6. m = Head(queue)
    BY DEF m
<1>7. /\ UNCHANGED fetch => /\ fetch' = [f \in Fetch |-> fetch'[f]]
                            /\ \A f \in Fetch : Fetched(fetch'[f], ver, db)
                            /\ \A x \in Object, f \in Fetch : Brings(fetch[f], x) => Brings(fetch'[f], x)
      /\ UNCHANGED lists => /\ list' = [x \in Object |-> list'[x]] /\ known' \in [Object -> Nat] /\ known' = known
                            /\ Counted' /\ Told'
  <2>1. ASSUME UNCHANGED fetch
        PROVE  /\ fetch' = [f \in Fetch |-> fetch'[f]]
               /\ \A f \in Fetch : Fetched(fetch'[f], ver, db)
               /\ \A x \in Object, f \in Fetch : Brings(fetch[f], x) => Brings(fetch'[f], x)
      BY <1>1, <2>1 DEF IInv, Typed
  <2>2. ASSUME UNCHANGED lists
        PROVE  /\ list' = [x \in Object |-> list'[x]] /\ known' \in [Object -> Nat] /\ known' = known
               /\ Counted' /\ Told'
      BY <1>1, <1>2, <2>2 DEF lists, Typed, Counted, Told
  <2> QED
      BY <2>1, <2>2
<1>8. ASSUME NEW say, say = Says[m.type], Tells(m, say), UNCHANGED fetch,
             m.type \in {"session_started", "session_stopped"} => \A x \in DOMAIN m.vers : list[x] # Absent
      PROVE  IInv'
  <2>1. /\ list' = [x \in Object |-> list'[x]] /\ known' \in [Object -> Nat]
        /\ Counted' /\ Told'
        /\ \A x \in Object : known[x] \in {Astray, ver[x]} => known'[x] \in {Astray, ver[x]}
        /\ \A x \in Object : Bears(m, x) => known'[x] = ver[x]
      BY <1>2, <1>3, <1>8, Hearing
  <2>2. \A x \in Object : Bears(m, x) =>
            known'[x] \in {Astray, ver[x]} \/ \E f \in Fetch : Brings(fetch'[f], x)
      BY <2>1
  <2> QED
      BY <1>1, <1>2, <1>6, <1>7, <1>8, <2>1, <2>2, Handling
<1>9. CASE Unlisted(m)
  <2>1. /\ fetch' = [f \in Fetch |-> fetch'[f]]
        /\ \A f \in Fetch : Fetched(fetch'[f], ver, db)
        /\ \A x \in Object, f \in Fetch : Brings(fetch[f], x) => Brings(fetch'[f], x)
        /\ \E f \in Fetch : fetch'[f].left = Kind
      BY <1>1, <1>2, <1>9, Beginning DEF Unlisted, IInv
  <2>2. \A x \in Object : \E f \in Fetch : Brings(fetch'[f], x)
      BY <2>1 DEF Brings, Kind, Object
  <2>3. /\ list' = [x \in Object |-> list'[x]] /\ known' \in [Object -> Nat] /\ known' = known
        /\ Counted' /\ Told'
      BY <1>7, <1>9 DEF Unlisted
  <2> QED
      BY <1>1, <1>2, <1>6, <2>1, <2>2, <2>3, Handling
<1>10. CASE NewStatus(m)
  <2>1. m.type # "host_deleted" /\ UNCHANGED fetch /\ Tells(m, Says[m.type])
      BY <1>10, WhatIsSaid DEF NewStatus
  <2>2. \A x \in DOMAIN m.vers : list[x] # Absent
      BY <1>5, <1>10, <2>1 DEF NewStatus
  <2> QED
      BY <1>8, <2>1, <2>2
<1>11. CASE StoppedUnlisted(m)
  <2>1. m.type # "host_deleted" /\ Unheard(News(m)) /\ UNCHANGED <<fetch, list>>
      BY <1>11 DEF StoppedUnlisted
  <2>2. News(m) \in SUBSET Object
      BY <1>3 DEF News, Honest
  <2>3. /\ known' \in [Object -> Nat] /\ Counted' /\ Told'
        /\ \A x \in News(m) : known'[x] = Astray
        /\ \A x \in Object : known'[x] = known[x] \/ known'[x] = Astray
      BY <1>1, <1>2, <2>1, <2>2, NotHearing
  <2>4. \A x \in Object : known[x] \in {Astray, ver[x]} => known'[x] \in {Astray, ver[x]}
      BY <2>3
  <2>5. \A x \in Object : Bears(m, x) => known'[x] \in {Astray, ver[x]}
    <3> SUFFICES ASSUME NEW x \in Object, Bears(m, x)
                 PROVE  known'[x] \in {Astray, ver[x]}
        OBVIOUS
    <3>1. x \in News(m) \/ known[x] \in {Astray, ver[x]}
        BY <1>1, NoVersion DEF Bears, News, OlderThan, Typed, Counted
    <3> QED
        BY <2>3, <2>4, <3>1
  <2>6. list' = [x \in Object |-> list'[x]]
      BY <1>1, <2>1 DEF Typed
  <2> QED
      BY <1>1, <1>2, <1>6, <1>7, <2>1, <2>3, <2>4, <2>5, <2>6, Handling
<1>12. CASE AddRequest(m)
  <2>1. m.type = "approval_request" /\ UNCHANGED fetch
      BY <1>12 DEF AddRequest
  <2>2. CASE list[Of(m)] = Absent
    <3>1. Tells(m, Says[m.type])
        BY <1>12, <2>1, <2>2, WhatIsSaid DEF AddRequest
    <3> QED
        BY <1>8, <2>1, <3>1
  <2>3. CASE list[Of(m)] # Absent
    <3>1. UNCHANGED lists
        BY <1>12, <2>3 DEF AddRequest
    <3>2. /\ list' = [x \in Object |-> list'[x]] /\ known' \in [Object -> Nat] /\ known' = known
          /\ Counted' /\ Told'
        BY <1>7, <3>1
    <3>3. \A x \in Object : Bears(m, x) => known[x] \in {Astray, ver[x]}
      <4> SUFFICES ASSUME NEW x \in Object, Bears(m, x)
                   PROVE  known[x] \in {Astray, ver[x]}
          OBVIOUS
      <4>1. x = Of(m) /\ ver[x] = 1
          BY <1>3, <1>5, <2>1, NoVersion DEF Bears, Honest
      <4>2. known[x] # 0 /\ known[x] \in Nat
          BY <1>1, <2>3, <4>1 DEF Told, Typed
      <4> QED
          BY <1>1, <4>1, <4>2 DEF Counted
    <3> QED
        BY <1>1, <1>2, <1>6, <1>7, <2>1, <3>2, <3>3, Handling
  <2> QED
      BY <2>2, <2>3
<1>13. CASE Remove(m)
  <2>1. m.type \in {"approval_resolved", "session_deleted", "host_deleted"} /\ UNCHANGED fetch
      BY <1>13 DEF Remove
  <2>2. Says[m.type] = Absent
      BY <2>1, WhatIsSaid
  <2>3. Tells(m, Says[m.type])
      BY <1>13, <2>2 DEF Remove
  <2> QED
      BY <1>8, <2>1, <2>3
<1> QED
    BY <1>4, <1>9, <1>10, <1>11, <1>12, <1>13

----------------------------------------------------------------------------
\* The user

\* What changes only the lists and the call.
LEMMA PageOnly ==
    ASSUME IInv, UNCHANGED <<relay, wire, fetch>>, call' \in Asks, Answered',
           list' = [x \in Object |-> list'[x]], known' \in [Object -> Nat], Counted', Told',
           \A x \in Object : known[x] \in {Astray, ver[x]} => known'[x] \in {Astray, ver[x]}
    PROVE  IInv'
<1>1. UNCHANGED <<db, clock, ver, todo, link, queue, fetch>>
    BY DEF relay, wire
<1>2. Typed'
    BY <1>1 DEF IInv, Typed
<1>3. Follows'
  <2> SUFFICES ASSUME NEW x \in Object, link = "open"
               PROVE  known'[x] = Astray \/ known'[x] = ver[x] \/ Coming(x)'
      BY <1>1 DEF Follows
  <2>1. Coming(x) => Coming(x)'
      BY <1>1 DEF Coming, Bears, Brings
  <2> QED
      BY <2>1 DEF IInv, Follows
<1> QED
    BY <1>1, <1>2, <1>3 DEF IInv

LEMMA ListsStay ==
    ASSUME IInv, UNCHANGED <<relay, lists>>
    PROVE  /\ list' = [x \in Object |-> list'[x]] /\ known' \in [Object -> Nat] /\ known' = known
           /\ Counted' /\ Told'
BY DEF IInv, Typed, Counted, Told, relay, lists

LEMMA Idle == call' = NoCall => call' \in Asks /\ Answered'
BY NoCallTyped DEF NoCall, Answered

LEMMA ClickKeeps == ASSUME IInv, NEW op \in Ops, NEW x \in Object, Click(op, x) PROVE IInv'
<1>1. call' = [op |-> op, at |-> "asked", of |-> x, ver |-> 0] /\ UNCHANGED <<relay, wire, fetch, lists>>
    BY DEF Click
<1>2. call' \in Asks
    BY <1>1 DEF Asks
<1>3. Answered'
    BY <1>1 DEF Answered
<1> QED
    BY <1>1, <1>2, <1>3, ListsStay, PageOnly

LEMMA AnswerFailsKeeps == ASSUME IInv, AnswerFails PROVE IInv'
BY Idle, ListsStay, PageOnly DEF AnswerFails

LEMMA AnswerUnheardKeeps == ASSUME IInv, AnswerUnheard PROVE IInv'
<1> DEFINE S == {call.of} \cap Object
<1>1. Typed /\ Counted /\ Told
    BY DEF IInv
<1>2. UNCHANGED <<relay, wire, fetch>> /\ call' = NoCall /\ Mislead({call.of})
    BY DEF AnswerUnheard
<1>3. Mislead(S)
    BY <1>2 DEF Mislead
<1>4. list' = list \/ list' = [list EXCEPT ![call.of] = Expected(call.op)]
    BY DEF AnswerUnheard
<1>5. list' = [x \in Object |-> list'[x]] /\ \A x \in Object \ S : list'[x] = list[x]
    BY <1>1, <1>4 DEF Typed
<1>6. S \in SUBSET Object /\ UNCHANGED <<db, clock, ver>>
    BY <1>2 DEF relay
<1> HIDE DEF S
<1>7. /\ known' \in [Object -> Nat]
      /\ Counted' /\ Told'
      /\ \A x \in S : known'[x] = Astray
      /\ \A x \in Object \ S : known'[x] = known[x]
    BY <1>1, <1>3, <1>5, <1>6, Misleading
<1>8. \A x \in Object : known[x] \in {Astray, ver[x]} => known'[x] \in {Astray, ver[x]}
    BY <1>7
<1> QED
    BY <1>2, <1>5, <1>7, <1>8, Idle, PageOnly

LEMMA AnswerKeeps == ASSUME IInv, Answer PROVE IInv'
<1> DEFINE S == {call.of}
<1>1. Typed /\ Counted /\ Told /\ Answered /\ call \in Asks
    BY DEF IInv, Typed
<1>2. UNCHANGED <<relay, wire, fetch>> /\ call' = NoCall /\ call.at = "answered"
    BY DEF Answer
<1>3. call' \in Asks /\ Answered'
    BY <1>2, Idle
<1>4. UNCHANGED <<db, clock, ver>> /\ call.of \in Object /\ S \in SUBSET Object
    BY <1>1, <1>2 DEF relay, Answered
<1>5. ASSUME Mislead(S), list' = [x \in Object |-> list'[x]], \A x \in Object \ S : list'[x] = list[x]
      PROVE  IInv'
  <2> HIDE DEF S
  <2>1. /\ known' \in [Object -> Nat]
        /\ Counted' /\ Told'
        /\ \A x \in S : known'[x] = Astray
        /\ \A x \in Object \ S : known'[x] = known[x]
      BY <1>1, <1>4, <1>5, Misleading
  <2>2. \A x \in Object : known[x] \in {Astray, ver[x]} => known'[x] \in {Astray, ver[x]}
      BY <2>1
  <2> QED
      BY <1>2, <1>3, <1>5, <2>1, <2>2, PageOnly
<1>6. CASE call.op = "kill" /\ list[call.of] = Absent
  <2>1. Unheard(S) /\ UNCHANGED list
      BY <1>6 DEF Answer
  <2> HIDE DEF S
  <2>2. /\ known' \in [Object -> Nat] /\ Counted' /\ Told'
        /\ \A x \in Object : known'[x] = known[x] \/ (x \in S /\ known'[x] = Astray)
      BY <1>1, <1>4, <2>1, NotHearing
  <2>3. \A x \in Object : known[x] \in {Astray, ver[x]} => known'[x] \in {Astray, ver[x]}
      BY <2>2
  <2>4. list' = [x \in Object |-> list'[x]]
      BY <1>1, <2>1 DEF Typed
  <2> QED
      BY <1>2, <1>3, <2>2, <2>3, <2>4, PageOnly
<1>7. CASE call.op = "create"
  <2>1. Mislead(S) /\ list' = [list EXCEPT ![call.of] = "blank"]
      BY <1>7 DEF Answer
  <2>2. list' = [x \in Object |-> list'[x]] /\ \A x \in Object \ S : list'[x] = list[x]
      BY <1>1, <2>1 DEF Typed
  <2> QED
      BY <1>5, <2>1, <2>2
<1>8. CASE ~(call.op = "kill" /\ list[call.of] = Absent) /\ call.op # "create"
  <2> DEFINE e == [x \in S |-> Expected(call.op)]
             n == [x \in S |-> call.ver]
  <2>1. Learn(S, e, n)
      BY <1>8 DEF Answer
  <2>2. \A x \in S : /\ n[x] \in Nat /\ (n[x] <= ver[x] \/ n[x] = Astray)
                     /\ n[x] = ver[x] => e[x] = View(db[x])
                     /\ n[x] = 0 => e[x] = Absent \/ (known[x] # 0 /\ ver[x] # 0)
    <3>1. call.ver \in Nat
        BY <1>1 DEF Asks
    <3> QED
        BY <1>1, <1>2, <1>8, <3>1 DEF Answered
  <2> HIDE DEF S, e, n
  <2>3. /\ list' = [x \in Object |-> list'[x]] /\ known' \in [Object -> Nat]
        /\ Counted' /\ Told'
        /\ \A x \in Object : known[x] \in {Astray, ver[x]} => known'[x] \in {Astray, ver[x]}
      BY <1>1, <1>4, <2>1, <2>2, Learning
  <2> QED
      BY <1>2, <1>3, <2>3, PageOnly
<1> QED
    BY <1>6, <1>7, <1>8

----------------------------------------------------------------------------
\* The invariant is inductive

LEMMA StutterKeeps == ASSUME IInv, UNCHANGED vars PROVE IInv'
<1>1. UNCHANGED <<relay, wire, fetch, call, lists>>
    BY DEF vars, relay, wire, lists
<1>2. call' \in Asks /\ Answered'
    BY <1>1 DEF IInv, Typed, Answered, relay
<1> QED
    BY <1>1, <1>2, ListsStay, PageOnly

LEMMA NextKeeps == ASSUME IInv, [Next]_vars PROVE IInv'
<1>1. CASE Serving
  <2>1. ASSUME NEW h \in Host, HostOnline(h) PROVE IInv'
      BY <2>1, HostOnlineKeeps
  <2>2. ASSUME NEW s \in Session, Started(s) \/ Stopped(s) PROVE IInv'
      BY <2>2, StartedKeeps, StoppedKeeps
  <2>3. ASSUME NEW a \in Approval, Request(a) PROVE IInv'
      BY <2>3, RequestKeeps
  <2>4. ASSUME NEW mine \in BOOLEAN, NEW a \in Approval, Resolve(a, mine) PROVE IInv'
      BY <2>4, ResolveKeeps
  <2>5. ASSUME NEW mine \in BOOLEAN, NEW s \in Session,
               DeleteSession(s, mine) \/ CreateSession(s, mine) \/ KillSession(s, mine)
        PROVE  IInv'
      BY <2>5, DeleteSessionKeeps, CreateSessionKeeps, KillSessionKeeps
  <2>6. ASSUME NEW mine \in BOOLEAN, NEW h \in Host, DeleteHost(h, mine) PROVE IInv'
      BY <2>6, DeleteHostKeeps
  <2>7. ASSUME NEW x \in Object, ChangeSilently(x) PROVE IInv'
      BY <2>7, ChangeSilentlyKeeps
  <2>8. ASSUME NEW m \in todo, Broadcast(m) PROVE IInv'
      BY <2>8, BroadcastKeeps
  <2> QED
      BY <1>1, <2>1, <2>2, <2>3, <2>4, <2>5, <2>6, <2>7, <2>8 DEF Serving
<1>2. CASE Fetching
    BY <1>2, RefreshHostsKeeps, ReadKeeps, ReadUnheardKeeps, ReadFailsKeeps, ApplyKeeps DEF Fetching
<1>3. CASE Connecting
    BY <1>3, DialKeeps, OpenKeeps, RegisterKeeps, BreakKeeps, HandleKeeps DEF Connecting
<1>4. CASE Using
    BY <1>4, ClickKeeps, AnswerKeeps, AnswerUnheardKeeps, AnswerFailsKeeps DEF Using, Ops
<1>5. CASE UNCHANGED vars
    BY <1>5, StutterKeeps
<1> QED
    BY <1>1, <1>2, <1>3, <1>4, <1>5 DEF Next

\* Every entry of a connected page is of the last version of its row, or that
\* version is on its way, or the page was misled: fetchAll, handleWS, the
\* handlers' broadcasts and the registration of the page together.
THEOREM Invariant == Spec => []IInv
<1>1. Init => IInv
    BY Initially
<1>2. IInv /\ [Next]_vars => IInv'
    BY NextKeeps
<1> QED
    BY <1>1, <1>2, PTL DEF Spec

\* A page at rest shows what the rows are, of everything it was not misled about.
THEOREM ListsFollowRows == Spec => []ListsFollow
<1>1. IInv => ListsFollow
  <2> SUFFICES ASSUME IInv, Quiet, NEW x \in Object, known[x] # Astray
               PROVE  list[x] = View(db[x])
      BY DEF ListsFollow
  <2>1. queue = <<>> /\ todo = {} /\ link = "open" /\ \A f \in Fetch : fetch[f] = NoFetch
      BY DEF Quiet
  <2>2. ~Coming(x)
      BY <2>1 DEF Coming, Brings, NoFetch, Asking
  <2> QED
      BY <2>1, <2>2 DEF IInv, Follows, Told
<1> QED
    BY <1>1, Invariant, PTL

----------------------------------------------------------------------------
\* The types of the state
\*
\* IInv says how versions relate; what the statuses are, and whose, is here.

\* What a message of each type names.
About == [type \in Types |->
    CASE type = "host_status" -> Host
      [] type \in {"session_started", "session_stopped", "session_deleted"} -> Session
      [] type \in {"approval_request", "approval_resolved"} -> Approval
      [] type = "host_deleted" -> Host \cup Session]

\* What a list may hold of x.
Shown(x) == Status[x] \cup {"blank", Absent}

RowsTyped == \A x \in Object : db[x] \in Status[x]

Named(m) ==
    /\ DOMAIN m.vers \subseteq About[m.type]
    /\ m.type # "host_deleted" => \E x \in Object : DOMAIN m.vers = {x}

WireTyped ==
    /\ \A m \in todo : Named(m)
    /\ \A i \in DOMAIN queue : Named(queue[i])
    /\ Len(queue) <= SendCap
    /\ link \in {"closed", "connecting", "open"} /\ reg \in BOOLEAN

Held(r) ==
    \A x \in DOMAIN r.got : x \notin UNION r.left /\ r.got[x].val \in Shown(x)

\* A session is all that is created or killed.
Called(c) ==
    c = NoCall \/ /\ c.at \in {"asked", "served", "answered"}
                  /\ c.at = "asked" => c.ver = 0
                  /\ c.op \in Ops /\ c.of \in Object
                  /\ c.op \in {"kill", "create"} => c.of \in Session

PageTyped ==
    /\ \A f \in Fetch : Held(fetch[f])
    /\ Called(call)
    /\ \A x \in Object : list[x] \in Shown(x)

\* The statuses of each kind of object.
LEMMA StatusOf ==
    /\ \A h \in Host : Status[h] = {"none", "offline", "online", "gone"}
    /\ \A s \in Session : Status[s] = {"none", "starting", "running", "other", "stopped", "gone"}
    /\ \A a \in Approval : Status[a] = {"none", "pending", "decided"}
BY DisjointAssumption DEF Status, Object

\* What a page is shown of a row is what a list may hold.
LEMMA ViewIsShown == ASSUME RowsTyped, NEW x \in Object PROVE View(db[x]) \in Shown(x)
BY DEF RowsTyped, View, Shown

\* The initial states have the types.
LEMMA TypedInit == Init => RowsTyped /\ WireTyped /\ PageTyped
<1> SUFFICES ASSUME Init PROVE RowsTyped /\ WireTyped /\ PageTyped
    OBVIOUS
<1>1. RowsTyped
    BY InitRowsAssumption DEF Init, RowsTyped
<1>2. WireTyped
  <2>1. Len(queue) <= SendCap /\ \A i \in DOMAIN queue : Named(queue[i])
      BY BoundsAssumption DEF Init
  <2>2. todo = {} /\ link = "closed" /\ reg = FALSE
      BY DEF Init
  <2> QED
      BY <2>1, <2>2 DEF WireTyped
<1>3. PageTyped
    BY DEF Init, PageTyped, Held, Called, Shown, NoFetch, Asking
<1> QED
    BY <1>1, <1>2, <1>3

\* The rows: a handler writes what its kind of row may be.
LEMMA RowsWritten ==
    ASSUME RowsTyped, NEW S \in SUBSET Object, NEW val, \A x \in S : val \in Status[x],
           ChangeAll(S, val) \/ UNCHANGED db
    PROVE  RowsTyped'
BY DEF RowsTyped, ChangeAll

\* The handlers of the relay write statuses of the kind of the row.
LEMMA ServingKeepsRows == ASSUME RowsTyped, Serving PROVE RowsTyped'
<1> USE DEF Object
<1>1. ASSUME NEW h \in Host, HostOnline(h) PROVE RowsTyped'
  <2>1. ChangeAll({h}, "online") \/ UNCHANGED db
      BY <1>1 DEF HostOnline, ChangeAndTell, ChangeNothing, Change
  <2> QED
      BY <2>1, StatusOf, RowsWritten
<1>2. ASSUME NEW s \in Session, Started(s) \/ Stopped(s) PROVE RowsTyped'
  <2>1. CASE UNCHANGED db
      BY <2>1 DEF RowsTyped
  <2>2. CASE \E status \in {"running", "stopped"} : Change(s, status)
      BY <2>2, StatusOf, RowsWritten DEF Change
  <2> QED
      BY <1>2, <2>1, <2>2 DEF Started, Stopped, Report, ChangeAndTell, ChangeNothing
<1>3. ASSUME NEW a \in Approval, NEW mine \in BOOLEAN, Request(a) \/ Resolve(a, mine) PROVE RowsTyped'
  <2>1. PICK status \in {"pending", "decided"} : Change(a, status) \/ UNCHANGED db
      BY <1>3 DEF Request, Resolve, ChangeAndTell, ChangeNothing
  <2> QED
      BY <2>1, StatusOf, RowsWritten DEF Change
<1>4. ASSUME NEW s \in Session, NEW mine \in BOOLEAN,
             DeleteSession(s, mine) \/ CreateSession(s, mine) \/ KillSession(s, mine)
      PROVE  RowsTyped'
  <2>1. PICK status \in {"gone", "starting", "stopped"} : Change(s, status)
      BY <1>4 DEF DeleteSession, CreateSession, KillSession
  <2> QED
      BY <2>1, StatusOf, RowsWritten DEF Change
<1>5. ASSUME NEW h \in Host, NEW mine \in BOOLEAN, DeleteHost(h, mine) PROVE RowsTyped'
  <2> DEFINE S == {h} \cup {s \in SessionsOf(h) : db[s] \notin {"none", "gone"}}
  <2>1. ChangeAll(S, "gone")
      BY <1>5 DEF DeleteHost
  <2>2. S \in SUBSET Object /\ \A x \in S : "gone" \in Status[x]
      BY StatusOf DEF SessionsOf
  <2> HIDE DEF S
  <2> QED
      BY <2>1, <2>2, RowsWritten
<1>6. ASSUME NEW x \in Object, ChangeSilently(x) PROVE RowsTyped'
  <2>1. \/ x \in Session /\ \E status \in {"other", "gone"} : Change(x, status)
        \/ x \in Host /\ Change(x, "offline")
      BY <1>6 DEF ChangeSilently
  <2> QED
      BY <2>1, StatusOf, RowsWritten DEF Change
<1>7. ASSUME NEW m \in todo, Broadcast(m) PROVE RowsTyped'
    BY <1>7 DEF Broadcast, RowsTyped
<1> QED
    BY <1>1, <1>2, <1>3, <1>4, <1>5, <1>6, <1>7 DEF Serving

\* So does every step.
LEMMA RowsKeep == ASSUME RowsTyped, [Next]_vars PROVE RowsTyped'
<1>1. CASE Serving
    BY <1>1, ServingKeepsRows
<1>2. CASE UNCHANGED db
    BY <1>2 DEF RowsTyped
<1>3. Fetching \/ Connecting \/ Using => UNCHANGED db
    BY DEF Fetching, RefreshHosts, Read, ReadUnheard, ReadFails, Apply,
           Connecting, Dial, Open, Register, Break, Handle,
           Using, Click, Answer, AnswerUnheard, AnswerFails, relay
<1> QED
    BY <1>1, <1>2, <1>3 DEF Next, vars

\* The messages: each handler announces what its message names.
LEMMA NamesItsKind ==
    /\ About["host_status"] = Host
    /\ \A type \in {"session_started", "session_stopped", "session_deleted"} : About[type] = Session
    /\ \A type \in {"approval_request", "approval_resolved"} : About[type] = Approval
    /\ About["host_deleted"] = Host \cup Session
BY DEF About, Types

\* A message about one object of its kind names it,
LEMMA MessageNamed ==
    ASSUME NEW type \in Types, NEW x \in Object, x \in About[type], NEW mine
    PROVE  Named(Message(type, {x}, mine))
BY DEF Named, Message

\* and so does one of a change that failed.
LEMMA FalseNamed ==
    ASSUME NEW type \in Types, NEW x \in Object, x \in About[type]
    PROVE  Named(False(type, x))
BY DEF Named, False

\* They may be broadcast.
LEMMA TodoNamed ==
    ASSUME IInv, WireTyped, NEW m, Named(m), todo' = todo \cup {m}, UNCHANGED wire
    PROVE  WireTyped'
BY DEF WireTyped, wire

\* The messages of a handler name objects of their kind.
LEMMA ServingKeepsWire == ASSUME IInv, WireTyped, Serving PROVE WireTyped'
<1> USE NamesItsKind DEF Object, Types
<1>1. ASSUME NEW h \in Host, HostOnline(h) PROVE WireTyped'
    BY <1>1, MessageNamed, FalseNamed, TodoNamed DEF HostOnline, ChangeAndTell
<1>2. ASSUME NEW s \in Session, NEW type \in {"session_started", "session_stopped"}, NEW status,
             Report(s, type, status)
      PROVE  WireTyped'
  <2>1. Named(Message(type, {s}, FALSE)) /\ Named(False(type, s))
      BY MessageNamed, FalseNamed
  <2>2. Named([type |-> type, vers |-> [x \in {s} |-> 0], mine |-> FALSE])
      BY DEF Named
  <2> QED
      BY <1>2, <2>1, <2>2, TodoNamed DEF Report, ChangeAndTell
<1>3. ASSUME NEW a \in Approval, NEW mine \in BOOLEAN, Request(a) \/ Resolve(a, mine) PROVE WireTyped'
    BY <1>3, MessageNamed, FalseNamed, TodoNamed DEF Request, Resolve, ChangeAndTell
<1>4. ASSUME NEW s \in Session, NEW mine \in BOOLEAN, DeleteSession(s, mine) PROVE WireTyped'
    BY <1>4, MessageNamed, TodoNamed DEF DeleteSession
<1>5. ASSUME NEW h \in Host, NEW mine \in BOOLEAN, DeleteHost(h, mine) PROVE WireTyped'
  <2>1. Named(Message("host_deleted", {h} \cup SessionsOf(h), mine))
      BY DEF Named, Message, SessionsOf
  <2> QED
      BY <1>5, <2>1, TodoNamed DEF DeleteHost
<1>6. ASSUME UNCHANGED <<todo, wire>> PROVE WireTyped'
    BY <1>6 DEF WireTyped, wire
<1>7. ASSUME NEW m \in todo, Broadcast(m) PROVE WireTyped'
  <2>1. queue \in Seq(Said) /\ m \in Said /\ Named(m)
      BY DEF IInv, Typed, WireTyped
  <2>2. todo' \subseteq todo /\ UNCHANGED <<link, reg>>
      BY <1>7 DEF Broadcast
  <2>3. CASE Len(queue) < SendCap /\ queue' = Append(queue, m)
    <3>1. Len(queue') <= SendCap
        BY <2>1, <2>3, BoundsAssumption
    <3>2. \A i \in DOMAIN queue' : queue'[i] = m \/ (i \in DOMAIN queue /\ queue'[i] = queue[i])
        BY <2>1, <2>3
    <3> QED
        BY <2>1, <2>2, <3>1, <3>2 DEF WireTyped
  <2>4. CASE UNCHANGED queue
      BY <2>2, <2>4 DEF WireTyped
  <2> QED
      BY <1>7, <2>3, <2>4 DEF Broadcast
<1>8. ASSUME NEW s \in Session, NEW mine \in BOOLEAN, CreateSession(s, mine) \/ KillSession(s, mine)
      PROVE  WireTyped'
    BY <1>6, <1>8 DEF CreateSession, KillSession
<1>9. ASSUME NEW x \in Object, ChangeSilently(x) PROVE WireTyped'
    BY <1>6, <1>9 DEF ChangeSilently
<1> QED
    BY <1>1, <1>2, <1>3, <1>4, <1>5, <1>7, <1>8, <1>9 DEF Serving, Started, Stopped

\* Every step keeps the messages on their way to the page typed.
LEMMA WireKeeps == ASSUME IInv, WireTyped, [Next]_vars PROVE WireTyped'
<1> USE DEF relay, wire
<1>1. CASE Serving
    BY <1>1, ServingKeepsWire
<1>2. CASE UNCHANGED <<todo, link, reg, queue>>
    BY <1>2 DEF WireTyped
<1>3. CASE Dial \/ Open \/ Register
    BY <1>3 DEF WireTyped, Dial, Open, Register
<1>4. CASE Break
  <2>1. queue' = <<>> /\ todo' = todo /\ link' = "closed" /\ reg' = FALSE
      BY <1>4 DEF Break
  <2>2. Len(queue') <= SendCap /\ \A i \in DOMAIN queue' : Named(queue'[i])
      BY <2>1, BoundsAssumption
  <2> QED
      BY <2>1, <2>2 DEF WireTyped
<1>5. CASE Handle
  <2>1. queue \in Seq(Said) /\ queue # <<>> /\ queue' = Tail(queue) /\ UNCHANGED <<todo, link, reg>>
      BY <1>5 DEF Handle, IInv, Typed
  <2>2. \A i \in DOMAIN queue' : i + 1 \in DOMAIN queue /\ queue'[i] = queue[i + 1]
      BY <2>1, Popped
  <2>3. Len(queue') <= Len(queue) /\ Len(queue) \in Nat /\ Len(queue') \in Nat
      BY <2>1
  <2> QED
      BY <2>1, <2>2, <2>3, BoundsAssumption DEF WireTyped
<1>6. Fetching \/ Using => UNCHANGED <<todo, link, reg, queue>>
    BY DEF Fetching, RefreshHosts, Read, ReadUnheard, ReadFails, Apply,
           Using, Click, Answer, AnswerUnheard, AnswerFails
<1> QED
    BY <1>1, <1>2, <1>3, <1>4, <1>5, <1>6 DEF Next, Connecting, vars

\* The page: its fetches, its call and its lists.
LEMMA Learned ==
    ASSUME PageTyped, NEW S, NEW val, NEW v, \A x \in S \cap Object : val[x] \in Shown(x), Learn(S, val, v)
    PROVE  \A x \in Object : list'[x] \in Shown(x)
BY DEF PageTyped, Learn

\* The handlers of the relay change of the page no more than how far its call is.
LEMMA ServingKeepsPage == ASSUME IInv, PageTyped, Serving PROVE PageTyped'
<1>1. UNCHANGED <<fetch, list>>
    BY DEF Serving, HostOnline, Started, Stopped, Report, Request, Resolve, DeleteSession,
           CreateSession, KillSession, DeleteHost, ChangeSilently, Broadcast, lists
<1>2. Called(call')
  <2>1. \/ UNCHANGED call
        \/ /\ call.at \in {"asked", "served"}
           /\ \E at \in {"served", "answered"} : \E n :
                  call' = [call EXCEPT !.at = at] \/ call' = [call EXCEPT !.at = at, !.ver = n]
      BY DEF Serving, HostOnline, Started, Stopped, Report, Request, Resolve, DeleteSession,
             CreateSession, KillSession, DeleteHost, ChangeSilently, Broadcast, Serve, Asked
  <2>2. CASE UNCHANGED call
      BY <2>2 DEF PageTyped
  <2>3. ASSUME call.at \in {"asked", "served"}, NEW at \in {"served", "answered"}, NEW n,
               call' = [call EXCEPT !.at = at] \/ call' = [call EXCEPT !.at = at, !.ver = n]
        PROVE  Called(call')
    <3>1. call \in Asks /\ call # NoCall /\ Called(call)
        BY <2>3 DEF IInv, Typed, NoCall, PageTyped
    <3>2. call'.at = at /\ call'.op = call.op /\ call'.of = call.of
        BY <2>3, <3>1 DEF Asks
    <3> QED
        BY <3>1, <3>2 DEF Called
  <2> QED
      BY <2>1, <2>2, <2>3
<1> QED
    BY <1>1, <1>2 DEF PageTyped, Held

\* A fetch that goes on holds what it may, and the others what they held.
LEMMA FetchHeld ==
    ASSUME Typed, PageTyped, NEW f \in Fetch, NEW r, Held(r), fetch' = [fetch EXCEPT ![f] = r]
    PROVE  \A g \in Fetch : Held(fetch'[g])
BY DEF Typed, PageTyped

\* A fetch that begins holds nothing yet.
LEMMA BeginHeld ==
    ASSUME Typed, PageTyped, NEW kinds, Begin(kinds)
    PROVE  \A f \in Fetch : Held(fetch'[f])
<1>1. Held(Asking(kinds))
    BY DEF Held, Asking
<1> QED
    BY <1>1, FetchHeld DEF Begin

\* Fetches keep the page typed,
LEMMA FetchingKeepsPage == ASSUME IInv, RowsTyped, PageTyped, Fetching PROVE PageTyped'
<1>1. Typed
    BY DEF IInv
<1>2. Called(call') /\ UNCHANGED call
    BY DEF Fetching, RefreshHosts, Read, ReadUnheard, ReadFails, Apply, PageTyped
<1>3. CASE RefreshHosts
    BY <1>1, <1>2, <1>3, BeginHeld DEF RefreshHosts, PageTyped, lists
<1>4. ASSUME NEW f \in Fetch, NEW kind \in fetch[f].left, Read(f, kind) PROVE PageTyped'
  <2> DEFINE r == [left |-> fetch[f].left \ {kind},
                   got  |-> [x \in DOMAIN fetch[f].got \cup kind |->
                       IF x \in kind THEN [val |-> View(db[x]), ver |-> ver[x]] ELSE fetch[f].got[x]]]
  <2>1. fetch[f].left \subseteq Kind /\ Held(fetch[f])
      BY DEF IInv, Fetched, PageTyped
  <2>2. kind \subseteq Object /\ \A k \in fetch[f].left \ {kind} : kind \cap k = {}
      BY <2>1, DisjointAssumption DEF Kind, Object
  <2>3. /\ r.left = fetch[f].left \ {kind} /\ DOMAIN r.got = DOMAIN fetch[f].got \cup kind
        /\ \A x \in kind : r.got[x].val = View(db[x])
        /\ \A x \in DOMAIN fetch[f].got \ kind : r.got[x] = fetch[f].got[x]
      OBVIOUS
  <2>4. fetch' = [fetch EXCEPT ![f] = r] /\ UNCHANGED list
      BY <1>4 DEF Read, lists
  <2> HIDE DEF r
  <2>5. Held(r)
    <3> SUFFICES ASSUME NEW x \in DOMAIN r.got
                 PROVE  x \notin UNION r.left /\ r.got[x].val \in Shown(x)
        BY DEF Held
    <3>1. CASE x \in kind
        BY <2>2, <2>3, <3>1, ViewIsShown
    <3>2. CASE x \notin kind
        BY <2>1, <2>3, <3>2 DEF Held
    <3> QED
        BY <3>1, <3>2
  <2> QED
      BY <1>1, <1>2, <2>4, <2>5, FetchHeld DEF PageTyped
<1>5. ASSUME NEW f \in Fetch, NEW kind \in fetch[f].left, ReadUnheard(f, kind) PROVE PageTyped'
  <2>1. Held([left |-> fetch[f].left \ {kind}, got |-> fetch[f].got])
      BY DEF Held, PageTyped
  <2> QED
      BY <1>1, <1>2, <1>5, <2>1, FetchHeld DEF ReadUnheard, PageTyped
<1>6. Held(NoFetch)
    BY DEF Held, NoFetch, Asking
<1>7. ASSUME NEW f \in Fetch, ReadFails(f) PROVE PageTyped'
    BY <1>1, <1>2, <1>6, <1>7, FetchHeld DEF ReadFails, PageTyped
<1>8. ASSUME NEW f \in Fetch, Apply(f) PROVE PageTyped'
  <2> DEFINE got == fetch[f].got
             e == [x \in DOMAIN got |-> got[x].val]
             n == [x \in DOMAIN got |-> got[x].ver]
  <2>1. Learn(DOMAIN got, e, n)
      BY <1>8 DEF Apply
  <2>2. \A x \in DOMAIN got \cap Object : e[x] \in Shown(x)
      BY DEF PageTyped, Held
  <2>3. \A x \in Object : list'[x] \in Shown(x)
      BY <2>1, <2>2, Learned
  <2> QED
      BY <1>1, <1>2, <1>6, <1>8, <2>3, FetchHeld DEF Apply, PageTyped
<1> QED
    BY <1>3, <1>4, <1>5, <1>7, <1>8 DEF Fetching

\* A message changes the lists to what its kind of object may be.
LEMMA HandleKeepsPage == ASSUME IInv, WireTyped, PageTyped, Handle PROVE PageTyped'
<1> DEFINE m == Head(queue)
<1>1. Typed /\ queue \in Seq(Said) /\ queue # <<>> /\ UNCHANGED call
    BY DEF IInv, Typed, Handle
<1>2. m = queue[1] /\ 1 \in DOMAIN queue /\ m \in Said
    BY <1>1
<1>3. Named(m) /\ m.type \in Types
    BY <1>2 DEF WireTyped, Said
<1>4. Unlisted(m) \/ NewStatus(m) \/ StoppedUnlisted(m) \/ AddRequest(m) \/ Remove(m)
    BY DEF Handle
<1> HIDE DEF m
<1>5. Called(call')
    BY <1>1 DEF PageTyped
<1>6. ASSUME NEW say, \A x \in DOMAIN m.vers \cap Object : say \in Shown(x), Tells(m, say), UNCHANGED fetch
      PROVE  PageTyped'
  <2>1. \A x \in Object : list'[x] \in Shown(x)
      BY <1>6, Learned DEF Tells
  <2> QED
      BY <1>5, <1>6, <2>1 DEF PageTyped
<1>7. \A x \in Object : Absent \in Shown(x)
    BY DEF Shown
<1>8. CASE Unlisted(m)
    BY <1>1, <1>5, <1>8, BeginHeld DEF Unlisted, PageTyped, lists
<1>9. CASE NewStatus(m)
  <2>1. UNCHANGED fetch
      BY <1>9 DEF NewStatus
  <2>2. CASE m.type = "host_status" /\ Tells(m, "online")
      BY <1>3, <1>6, <2>1, <2>2, StatusOf, NamesItsKind DEF Named, Shown
  <2>3. CASE m.type = "session_started" /\ Tells(m, "running")
      BY <1>3, <1>6, <2>1, <2>3, StatusOf, NamesItsKind DEF Named, Shown
  <2>4. CASE m.type = "session_stopped" /\ Tells(m, "stopped")
      BY <1>3, <1>6, <2>1, <2>4, StatusOf, NamesItsKind DEF Named, Shown
  <2> QED
      BY <1>9, <2>2, <2>3, <2>4 DEF NewStatus
<1>10. CASE StoppedUnlisted(m)
    BY <1>5, <1>10 DEF StoppedUnlisted, PageTyped
<1>11. CASE AddRequest(m)
  <2>1. \A x \in DOMAIN m.vers : "pending" \in Shown(x)
      BY <1>3, <1>11, StatusOf, NamesItsKind DEF AddRequest, Named, Shown
  <2>2. CASE UNCHANGED lists
      BY <1>5, <1>11, <2>2 DEF AddRequest, PageTyped, lists
  <2> QED
      BY <1>6, <1>11, <2>1, <2>2 DEF AddRequest
<1>12. CASE Remove(m)
    BY <1>6, <1>7, <1>12 DEF Remove
<1> QED
    BY <1>4, <1>8, <1>9, <1>10, <1>11, <1>12

\* and so do connections and messages,
LEMMA ConnectingKeepsPage == ASSUME IInv, WireTyped, PageTyped, Connecting PROVE PageTyped'
<1>1. CASE Dial \/ Register \/ Break
    BY <1>1 DEF Dial, Register, Break, PageTyped, lists
<1>2. CASE Open
  <2>1. Typed
      BY DEF IInv
  <2> QED
      BY <1>2, <2>1, BeginHeld DEF Open, PageTyped, lists
<1> QED
    BY <1>1, <1>2, HandleKeepsPage DEF Connecting

\* So do the answers.
LEMMA UsingKeepsPage == ASSUME IInv, PageTyped, Using PROVE PageTyped'
<1>1. \A f \in Fetch : Held(fetch'[f])
    BY DEF Using, Click, Answer, AnswerUnheard, AnswerFails, PageTyped
<1>2. Called(NoCall)
    BY DEF Called
<1>3. ASSUME NEW op \in Ops, NEW x \in Object, Click(op, x) PROVE PageTyped'
  <2>1. Called([op |-> op, at |-> "asked", of |-> x, ver |-> 0])
      BY <1>3 DEF Called, Click
  <2> QED
      BY <1>1, <1>3, <2>1 DEF Click, PageTyped, lists
<1>4. call # NoCall => Expected(call.op) \in Shown(call.of)
  <2> SUFFICES ASSUME call # NoCall
               PROVE  Expected(call.op) \in Shown(call.of)
      OBVIOUS
  <2>1. call.op \in Ops /\ (call.op = "kill" => call.of \in Session)
      BY DEF PageTyped, Called
  <2> QED
      BY <2>1, StatusOf DEF Ops, Expected, Shown
<1>5. \A x \in Object : "blank" \in Shown(x)
    BY DEF Shown
<1>6. CASE Answer
  <2>1. call # NoCall /\ call' = NoCall
      BY <1>6 DEF Answer, NoCall
  <2> DEFINE e == [x \in {call.of} |-> Expected(call.op)]
             n == [x \in {call.of} |-> call.ver]
  <2>2. CASE Learn({call.of}, e, n)
    <3>1. \A x \in {call.of} \cap Object : e[x] \in Shown(x)
        BY <1>4, <2>1
    <3>2. \A x \in Object : list'[x] \in Shown(x)
        BY <2>2, <3>1, Learned
    <3> QED
        BY <1>1, <1>2, <2>1, <3>2 DEF PageTyped
  <2>3. CASE UNCHANGED list \/ list' = [list EXCEPT ![call.of] = "blank"]
      BY <1>1, <1>2, <1>5, <2>1, <2>3 DEF PageTyped, IInv, Typed
  <2> QED
      BY <1>6, <2>2, <2>3 DEF Answer
<1>7. CASE AnswerUnheard
  <2>1. call # NoCall /\ call' = NoCall
      BY <1>7 DEF AnswerUnheard, NoCall
  <2>2. UNCHANGED list \/ list' = [list EXCEPT ![call.of] = Expected(call.op)]
      BY <1>7 DEF AnswerUnheard
  <2>3. \A x \in Object : list'[x] \in Shown(x)
      BY <1>4, <2>1, <2>2 DEF PageTyped, IInv, Typed
  <2> QED
      BY <1>1, <1>2, <2>1, <2>3 DEF PageTyped
<1>8. CASE AnswerFails
    BY <1>1, <1>2, <1>8 DEF AnswerFails, PageTyped, lists
<1> QED
    BY <1>3, <1>6, <1>7, <1>8 DEF Using, Ops

\* and every step.
LEMMA PageKeeps == ASSUME IInv, RowsTyped, WireTyped, PageTyped, [Next]_vars PROVE PageTyped'
<1>1. CASE UNCHANGED vars
    BY <1>1 DEF vars, PageTyped
<1> QED
    BY <1>1, ServingKeepsPage, FetchingKeepsPage, ConnectingKeepsPage, UsingKeepsPage DEF Next

\* What the invariants say of a message, a fetch and a call is what TypeOK says.
LEMMA TypesFollow == ASSUME IInv, RowsTyped, WireTyped, PageTyped PROVE TypeOK
<1>1. Typed /\ Counted
    BY DEF IInv
<1>0. \A x \in Object : ver[x] \in Nat
    BY <1>1 DEF Typed
<1>2. ver \in [Object -> 0 .. clock + 1] /\ clock \in 0 .. MaxChange
    BY <1>1, BoundsAssumption DEF Typed, Counted
<1>3. ASSUME NEW m \in Said, Honest(m, ver, db), Named(m) PROVE OfMessage(m)
  <2>1. \A x \in DOMAIN m.vers : m.vers[x] \in Nat
      BY DEF Said, Versions
  <2>2. m.type \in Types /\ m.mine \in BOOLEAN
      BY DEF Said
  <2>3. \A x \in DOMAIN m.vers : x \in Object /\ m.vers[x] \in 0 .. ver[x] \cup {Astray}
      BY <1>0, <1>3, <2>1 DEF Honest
  <2> QED
      BY <1>3, <2>2, <2>3 DEF OfMessage, Named
<1>4. \A m \in todo : OfMessage(m)
    BY <1>1, <1>3 DEF IInv, Typed, WireTyped
<1>5. \A i \in DOMAIN queue : OfMessage(queue[i])
  <2>1. \A i \in DOMAIN queue : queue[i] \in Said
      BY <1>1 DEF Typed
  <2> QED
      BY <1>3, <2>1 DEF IInv, WireTyped
<1>6. ASSUME NEW f \in Fetch
      PROVE  /\ fetch[f].left \subseteq Kind
             /\ DOMAIN fetch[f].got \subseteq Object \ UNION fetch[f].left
             /\ \A x \in DOMAIN fetch[f].got : fetch[f].got[x].ver \in 0 .. ver[x]
  <2>1. Fetched(fetch[f], ver, db) /\ Held(fetch[f])
      BY DEF IInv, PageTyped
  <2> QED
      BY <1>0, <2>1 DEF Fetched, Held
<1>7. call = NoCall \/ (call.at \in {"asked", "served", "answered"} /\ call.of \in Object
                        /\ call.ver \in 0 .. ver[call.of])
  <2>1. call.ver \in Nat
      BY <1>1 DEF Typed, Asks
  <2>2. Called(call) /\ Answered
      BY DEF PageTyped, IInv
  <2> QED
      BY <1>1, <2>1, <2>2 DEF Called, Answered, Typed
<1>8. \A x \in Object : list[x] # Absent => list[x] \in Status[x] \cup {"blank"}
    BY DEF PageTyped, Shown
<1>9. \A x \in Object : known[x] \in 0 .. ver[x] \cup {Astray}
    BY <1>1 DEF Typed, Counted
<1>10. DOMAIN db = Object /\ \A x \in Object : db[x] \in Status[x]
    BY <1>1 DEF Typed, RowsTyped
<1> QED
    BY <1>2, <1>4, <1>5, <1>6, <1>7, <1>8, <1>9, <1>10 DEF TypeOK, WireTyped

\* The state keeps its types: every message names objects of its kind, nothing
\* a list shows is a status its object cannot have, and no version is of the
\* future, in the channel, in a fetch or in an answer.
THEOREM TypeCorrect == Spec => []TypeOK
<1>1. IInv /\ RowsTyped /\ WireTyped /\ PageTyped /\ [Next]_vars => (RowsTyped /\ WireTyped /\ PageTyped)'
    BY RowsKeep, WireKeeps, PageKeeps
<1>2. IInv /\ RowsTyped /\ WireTyped /\ PageTyped => TypeOK
    BY TypesFollow
<1> QED
    BY <1>1, <1>2, TypedInit, Invariant, PTL DEF Spec
================================================================================
