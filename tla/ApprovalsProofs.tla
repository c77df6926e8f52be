----------------------------- MODULE ApprovalsProofs -----------------------------
(***************************************************************************)
(* What holds of Approvals for any requests, sessions, connections,        *)
(* browsers and API calls: TypeOK, ToldIsDecided, TokensCurrent and the    *)
(* action property DecidedOnce.  The inductive invariant has two parts     *)
(* that need only the types of each other: what the rows say while calls   *)
(* and readers are between two statements, and what each browser's channel *)
(* ends with while the token lock is held.                                 *)
(***************************************************************************)
EXTENDS Approvals, TLAPS

----------------------------------------------------------------------------
\* The inductive invariant

\* A row is there only for a request that arrived, and not before its insert,
\* which is made once: no two readers are about to insert one request.
RowsArrived ==
    /\ \A r \in Request : db[r] # "none" => r \in seen
    /\ \A c \in Conn : at[c] = "found" =>
         subject[c] \in Request /\ subject[c] \in seen /\ db[subject[c]] = "none"
    /\ \A c, d \in Conn : at[c] = "found" /\ at[d] = "found" /\ subject[c] = subject[d] => c = d

\* A call under way has a request with a row; past its update, that row is
\* decided.
CallsDecide ==
    \A p \in Resolver : call[p].at # "idle" =>
        /\ call[p].r \in Request
        /\ call[p].d \in Decision
        /\ db[call[p].r] # "none"
        /\ call[p].at # "found" => db[call[p].r] \in Decision

DecisionInv ==
    /\ RowsArrived
    /\ CallsDecide
    /\ ToldIsDecided

\* The last count in the channel of b for s is the current one, or one was
\* dropped, or was broadcast late, or there is none.
Current(b, s) == tokens[s] = Nothing \/ bar[b][s] \in {tokens[s], "lost"} \cup overtaken

\* What a browser has still to be sent is what the map holds, as nobody
\* writes the map meanwhile; what it was sent is current.
PushesCurrent ==
    \A b \in Browser, s \in Session : tab[b] = "pushing" =>
        \/ left[b][s] = Nothing /\ (Current(b, s) \/ Telling(s))
        \/ left[b][s] # Nothing /\ left[b][s] = tokens[s]

OpenCurrent ==
    \A b \in Browser, s \in Session : tab[b] = "open" => Current(b, s) \/ Telling(s)

TokenInv == PushesCurrent /\ OpenCurrent

IInv == TypeOK /\ DecisionInv /\ TokenInv

----------------------------------------------------------------------------
\* The initial states satisfy the inductive invariant.
LEMMA InvInit == Init => IInv
<1> SUFFICES ASSUME Init PROVE IInv
    OBVIOUS
<1>1. TypeOK
    BY DEF Init, TypeOK, NoTokens, NoCall, CallPhase, Decision
<1>2. DecisionInv
    BY DEF Init, DecisionInv, RowsArrived, CallsDecide, ToldIsDecided, NoCall
<1>3. TokenInv
    BY DEF Init, TokenInv, PushesCurrent, OpenCurrent
<1> QED
    BY <1>1, <1>2, <1>3 DEF IInv

----------------------------------------------------------------------------
\* Every step of a reader keeps the types.
LEMMA ReaderType == ASSUME TypeOK, NEW c \in Conn, Reader(c) PROVE TypeOK'
<1> USE SessionOfAssumption
    DEF TypeOK, db_, tabs, calls, Go, Step, Decision, CallPhase
<1>1. ASSUME NEW r \in Request, FindSession(c, r) PROVE TypeOK'
    BY <1>1 DEF FindSession
<1>2. ASSUME NEW r \in Request, Insert(c, r) PROVE TypeOK'
    BY <1>2 DEF Insert
<1>3. ASSUME NEW r \in Request, Track(c, r) PROVE TypeOK'
    BY <1>3 DEF Track
<1>4. ASSUME NEW r \in Request, SkipTokens(c, r) PROVE TypeOK'
    BY <1>4 DEF SkipTokens
<1>5. ASSUME NEW r \in Request, TellTokens(c, r) PROVE TypeOK'
    <2>1. bar' \in [Browser -> [Session -> Request \cup {Nothing, "lost"}]]
        BY <1>5 DEF TellTokens
    <2> QED
        BY <1>5, <2>1 DEF TellTokens
<1>6. ASSUME NEW r \in Request, AddPending(c, r) PROVE TypeOK'
    BY <1>6 DEF AddPending
<1>7. ASSUME NEW s \in Session, ForgetTokens(c, s) PROVE TypeOK'
    BY <1>7 DEF ForgetTokens
<1> QED
    BY <1>1, <1>2, <1>3, <1>4, <1>5, <1>6, <1>7 DEF Reader

\* Sending one entry keeps the types.
LEMMA PushType ==
    ASSUME TypeOK, NEW b \in Browser, NEW s \in Session, PushTokens(b, s)
    PROVE  TypeOK'
<1> DEFINE Sent == [left[b] EXCEPT ![s] = Nothing]
<1>1. left[b][s] \in Request /\ left[b] \in [Session -> Request \cup {Nothing}]
    BY DEF TypeOK, PushTokens
<1>2. PICK v \in {left[b][s], "lost"} : bar' = [bar EXCEPT ![b][s] = v]
    BY Zenon DEF PushTokens
<1>3. v \in Request \cup {Nothing, "lost"}
    BY <1>1, <1>2
<1>4. [bar[b] EXCEPT ![s] = v] \in [Session -> Request \cup {Nothing, "lost"}]
    BY <1>3 DEF TypeOK
<1>5. bar' \in [Browser -> [Session -> Request \cup {Nothing, "lost"}]]
    BY <1>2, <1>4 DEF TypeOK
<1>6. Sent \in [Session -> Request \cup {Nothing}]
    BY <1>1
<1>7. left' = [left EXCEPT ![b] = Sent]
    BY DEF PushTokens
<1>8. left' \in [Browser -> [Session -> Request \cup {Nothing}]]
    BY <1>6, <1>7 DEF TypeOK
<1> QED
    BY <1>5, <1>8 DEF TypeOK, PushTokens, db_, reader, calls

\* Every step of a browser's handler keeps the types.
LEMMA TabType == ASSUME TypeOK, NEW b \in Browser, Tab(b) PROVE TypeOK'
<1> USE DEF TypeOK, db_, reader, calls, NoTokens
<1>1. CASE RegisterBrowser(b)
    BY <1>1 DEF RegisterBrowser
<1>2. CASE StartPush(b)
    BY <1>2 DEF StartPush
<1>3. ASSUME NEW s \in Session, PushTokens(b, s) PROVE TypeOK'
    BY <1>3, PushType
<1>4. CASE EndPush(b)
    BY <1>4 DEF EndPush
<1>5. CASE UnregisterBrowser(b)
    BY <1>5 DEF UnregisterBrowser
<1>6. ASSUME NEW r \in Request, BrowserAnswers(b, r) PROVE TypeOK'
    BY <1>6 DEF BrowserAnswers, Answer, tabs
<1> QED
    BY <1>1, <1>2, <1>3, <1>4, <1>5, <1>6 DEF Tab

\* The next phase of a call keeps the types of the calls.
LEMMA PhaseType ==
    ASSUME TypeOK, NEW p \in Resolver, NEW x, NEW y \in CallPhase, Phase(p, x, y)
    PROVE  call' \in [Resolver -> [at : CallPhase, r : Request \cup {Nothing},
                                  d : Decision \cup {Nothing}]]
    BY DEF TypeOK, Phase

\* Every step of an API call keeps the types.
LEMMA ResolveType ==
    ASSUME TypeOK, CallsDecide, NEW p \in Resolver, Resolve(p)
    PROVE  TypeOK'
<1> USE DEF db_, reader, tabs
<1>1. ASSUME NEW r \in Request, NEW d \in Decision, FindApproval(p, r, d) PROVE TypeOK'
    BY <1>1 DEF TypeOK, FindApproval, CallPhase
<1>2. CASE ResolveApproval(p)
    <2>1. call[p].r \in Request /\ call[p].d \in Decision
        BY <1>2 DEF ResolveApproval, CallsDecide, Phase
    <2>2. db' \in [Request -> {"none", "pending"} \cup Decision]
        BY <1>2, <2>1 DEF ResolveApproval, TypeOK
    <2> QED
        BY <1>2, <2>2, PhaseType, "stored" \in CallPhase DEF ResolveApproval, TypeOK, CallPhase
<1>3. CASE ResolveFails(p)
    BY <1>3 DEF ResolveFails, TypeOK, NoCall, CallPhase
<1>4. CASE FindHost(p)
    <2>1. PICK y \in CallPhase : Phase(p, "stored", y)
        BY <1>4 DEF FindHost, CallPhase
    <2> QED
        BY <1>4, <2>1, PhaseType DEF FindHost, TypeOK
<1>5. CASE SendDecision(p)
    <2>1. Proto(call[p].d) \in {"allow", "deny"}
        BY DEF Proto
    <2>2. toHost' \in [Request -> SUBSET {"allow", "deny"}]
        BY <1>5, <2>1 DEF SendDecision, TypeOK
    <2>3. Phase(p, "routed", "sent") /\ "sent" \in CallPhase
        BY <1>5 DEF SendDecision, CallPhase
    <2> QED
        BY <1>5, <2>2, <2>3, PhaseType DEF SendDecision, TypeOK
<1>6. CASE AnswerWaiter(p)
    <2>1. Phase(p, "sent", "answered") /\ "answered" \in CallPhase
        BY <1>6 DEF AnswerWaiter, CallPhase
    <2> QED
        BY <1>6, <2>1, PhaseType DEF AnswerWaiter, Answer, TypeOK
<1>7. CASE PushDecision(p)
    <2>1. call[p].d \in Decision
        BY <1>7 DEF PushDecision, CallsDecide
    <2>2. pushed' \in [Request -> SUBSET Decision]
        BY <1>7, <2>1 DEF PushDecision, TypeOK
    <2> QED
        BY <1>7, <2>2 DEF PushDecision, TypeOK, NoCall, CallPhase
<1> QED
    BY <1>1, <1>2, <1>3, <1>4, <1>5, <1>6, <1>7 DEF Resolve

\* Every step keeps the types.
LEMMA TypeStep == ASSUME IInv, [Next]_vars PROVE TypeOK'
<1> USE DEF IInv, DecisionInv
<1>1. ASSUME NEW c \in Conn, Reader(c) PROVE TypeOK'
    BY <1>1, ReaderType
<1>2. ASSUME NEW b \in Browser, Tab(b) PROVE TypeOK'
    BY <1>2, TabType
<1>3. ASSUME NEW p \in Resolver, Resolve(p) PROVE TypeOK'
    BY <1>3, ResolveType
<1>4. ASSUME NEW s \in Session, DeleteSession(s) PROVE TypeOK'
    BY <1>4 DEF TypeOK, DeleteSession, reader, tabs, calls
<1>5. CASE RestartRelay
    BY <1>5 DEF TypeOK, RestartRelay, NoTokens, NoCall, CallPhase
<1>6. CASE UNCHANGED vars
    BY <1>6 DEF TypeOK, vars
<1> QED
    BY <1>1, <1>2, <1>3, <1>4, <1>5, <1>6 DEF Next

----------------------------------------------------------------------------
\* Every step of a reader keeps the part about decisions.
LEMMA ReaderDecision ==
    ASSUME TypeOK, DecisionInv, NEW c \in Conn, Reader(c) PROVE DecisionInv'
<1> USE DEF TypeOK, DecisionInv, RowsArrived, CallsDecide, ToldIsDecided, Decision,
            db_, tabs, calls, Go, Step
<1>1. ASSUME NEW r \in Request, FindSession(c, r) PROVE DecisionInv'
    <2>1. /\ r \notin seen /\ seen' = seen \cup {r} /\ db[r] = "none"
          /\ subject' = [subject EXCEPT ![c] = r]
          /\ at' = [at EXCEPT ![c] = "found"] \/ at' = [at EXCEPT ![c] = "persisted"]
          /\ UNCHANGED <<db, call, toHost, pushed>>
        BY <1>1 DEF FindSession
    <2>2. ASSUME NEW d \in Conn, at'[d] = "found"
          PROVE  \/ d = c /\ subject'[d] = r
                 \/ d # c /\ at[d] = "found" /\ subject'[d] = subject[d] /\ subject[d] \in seen
        BY <2>1, <2>2
    <2>3. RowsArrived'
        BY <2>1, <2>2
    <2>4. CallsDecide' /\ ToldIsDecided'
        BY <2>1
    <2> QED
        BY <2>3, <2>4
<1>2. ASSUME NEW r \in Request, Insert(c, r) PROVE DecisionInv'
    <2>1. CASE db' = [db EXCEPT ![r] = "pending"]
        <3>1. db[r] = "none"
            BY <1>2 DEF Insert
        <3>2. \A x \in Request : db[x] \in Decision => db'[x] = db[x]
            BY <2>1, <3>1
        <3>3. \A x \in Request : db[x] # "none" => db'[x] # "none"
            BY <2>1
        <3> QED
            BY <1>2, <2>1, <3>1, <3>2, <3>3 DEF Insert
    <2>2. CASE UNCHANGED db
        BY <1>2, <2>2 DEF Insert
    <2> QED
        BY <1>2, <2>1, <2>2 DEF Insert
<1>3. ASSUME NEW r \in Request, Track(c, r) PROVE DecisionInv'
    BY <1>3 DEF Track
<1>4. ASSUME NEW r \in Request, SkipTokens(c, r) PROVE DecisionInv'
    BY <1>4 DEF SkipTokens
<1>5. ASSUME NEW r \in Request, TellTokens(c, r) PROVE DecisionInv'
    BY <1>5 DEF TellTokens
<1>6. ASSUME NEW r \in Request, AddPending(c, r) PROVE DecisionInv'
    BY <1>6 DEF AddPending
<1>7. ASSUME NEW s \in Session, ForgetTokens(c, s) PROVE DecisionInv'
    BY <1>7 DEF ForgetTokens
<1> QED
    BY <1>1, <1>2, <1>3, <1>4, <1>5, <1>6, <1>7 DEF Reader

\* What an API call does to the row of a request: nothing, or the step from
\* pending to a decision.
Settles(r) == db'[r] = db[r] \/ (db[r] = "pending" /\ db'[r] \in Decision)

\* The update of a call settles each request, whichever it is for.
LEMMA ResolveSettles ==
    ASSUME TypeOK, NEW p \in Resolver, ResolveApproval(p),
           call[p].r \in Request, call[p].d \in Decision
    PROVE  \A r \in Request : Settles(r)
<1>1. db' = IF db[call[p].r] = "pending" THEN [db EXCEPT ![call[p].r] = call[p].d] ELSE db
    BY Zenon DEF ResolveApproval
<1>2. CASE db[call[p].r] = "pending"
    BY <1>1, <1>2 DEF TypeOK, Settles
<1>3. CASE db[call[p].r] # "pending"
    BY <1>1, <1>3 DEF Settles
<1> QED
    BY <1>2, <1>3

\* Every step of an API call keeps the part about decisions.
LEMMA ResolveDecision ==
    ASSUME TypeOK, DecisionInv, NEW p \in Resolver, Resolve(p)
    PROVE  DecisionInv'
<1> USE DEF TypeOK, DecisionInv, RowsArrived, CallsDecide, ToldIsDecided, Decision,
            db_, reader, tabs, Phase, NoCall
<1>1. ASSUME NEW r \in Request, NEW d \in Decision, FindApproval(p, r, d) PROVE DecisionInv'
    BY <1>1 DEF FindApproval
<1>2. CASE ResolveApproval(p)
    <2>1. call[p].r \in Request /\ call[p].d \in Decision /\ db[call[p].r] # "none"
        BY <1>2 DEF ResolveApproval
    <2>2. \A r \in Request : Settles(r)
        BY <1>2, <2>1, ResolveSettles
    <2>3. db'[call[p].r] \in Decision
        BY <1>2, <2>1 DEF ResolveApproval
    <2>4. RowsArrived'
        BY <1>2, <2>2 DEF ResolveApproval, Settles
    <2>5. CallsDecide'
        BY <1>2, <2>1, <2>2, <2>3 DEF ResolveApproval, Settles
    <2>6. ToldIsDecided'
        BY <1>2, <2>2 DEF ResolveApproval, Settles
    <2> QED
        BY <2>4, <2>5, <2>6
<1>3. CASE ResolveFails(p)
    BY <1>3 DEF ResolveFails
<1>4. CASE FindHost(p)
    <2>1. CASE Phase(p, "stored", "routed")
        BY <1>4, <2>1 DEF FindHost
    <2>2. CASE Phase(p, "stored", "answered")
        BY <1>4, <2>2 DEF FindHost
    <2> QED
        BY <1>4, <2>1, <2>2 DEF FindHost
<1>5. CASE SendDecision(p)
    <2>1. db[call[p].r] \in Decision
        BY <1>5 DEF SendDecision
    <2>2. \A r \in Request : r # call[p].r => toHost'[r] = toHost[r]
        BY <1>5 DEF SendDecision
    <2>3. ToldIsDecided'
        BY <1>5, <2>1, <2>2 DEF SendDecision
    <2>4. CallsDecide'
        BY <1>5 DEF SendDecision
    <2> QED
        BY <1>5, <2>3, <2>4 DEF SendDecision
<1>6. CASE AnswerWaiter(p)
    BY <1>6 DEF AnswerWaiter
<1>7. CASE PushDecision(p)
    <2>1. db[call[p].r] \in Decision
        BY <1>7 DEF PushDecision
    <2>2. \A r \in Request : r # call[p].r => pushed'[r] = pushed[r]
        BY <1>7 DEF PushDecision
    <2>3. ToldIsDecided'
        BY <1>7, <2>1, <2>2 DEF PushDecision
    <2> QED
        BY <1>7, <2>3 DEF PushDecision
<1> QED
    BY <1>1, <1>2, <1>3, <1>4, <1>5, <1>6, <1>7 DEF Resolve

\* Every step keeps the part about decisions.
LEMMA DecisionStep == ASSUME TypeOK, DecisionInv, [Next]_vars PROVE DecisionInv'
<1>1. ASSUME NEW c \in Conn, Reader(c) PROVE DecisionInv'
    BY <1>1, ReaderDecision
<1>2. ASSUME NEW b \in Browser, Tab(b) PROVE DecisionInv'
    <2>1. UNCHANGED <<db, subject, at, seen, call, toHost, pushed>>
        BY <1>2 DEF Tab, RegisterBrowser, StartPush, EndPush, UnregisterBrowser, PushTokens,
                    BrowserAnswers, db_, reader, tabs, calls
    <2> QED
        BY <2>1 DEF DecisionInv, RowsArrived, CallsDecide, ToldIsDecided
<1>3. ASSUME NEW p \in Resolver, Resolve(p) PROVE DecisionInv'
    BY <1>3, ResolveDecision
<1>4. ASSUME NEW s \in Session, DeleteSession(s) PROVE DecisionInv'
    BY <1>4 DEF DeleteSession, DecisionInv, RowsArrived, CallsDecide, ToldIsDecided,
                reader, tabs, calls
<1>5. CASE RestartRelay
    BY <1>5 DEF RestartRelay, DecisionInv, RowsArrived, CallsDecide, ToldIsDecided, NoCall
<1>6. CASE UNCHANGED vars
    BY <1>6 DEF vars, DecisionInv, RowsArrived, CallsDecide, ToldIsDecided
<1> QED
    BY <1>1, <1>2, <1>3, <1>4, <1>5, <1>6 DEF Next

----------------------------------------------------------------------------
\* Whatever leaves the tokens, the browsers and the broadcasts under way as
\* they are keeps the part about tokens.
LEMMA TokenFrame ==
    ASSUME TokenInv, UNCHANGED <<tokens, tab, left, bar, overtaken>>,
           \A c \in Conn : at[c] = "tracked" => at'[c] = "tracked" /\ subject'[c] = subject[c]
    PROVE  TokenInv'
<1>1. ASSUME NEW s, Telling(s) PROVE Telling(s)'
    BY <1>1 DEF Telling
<1> QED
    BY <1>1 DEF TokenInv, PushesCurrent, OpenCurrent, Current

\* Every step of a reader keeps the part about tokens.
LEMMA ReaderToken ==
    ASSUME TypeOK, TokenInv, NEW c \in Conn, Reader(c) PROVE TokenInv'
<1> USE DEF db_, tabs, calls, Go, Step
<1>1. ASSUME NEW r \in Request,
             FindSession(c, r) \/ Insert(c, r) \/ SkipTokens(c, r) \/ AddPending(c, r)
      PROVE  TokenInv'
    <2>1. /\ at[c] # "tracked" /\ UNCHANGED <<tokens, tab, left, bar, overtaken>>
          /\ \A d \in Conn : d # c => at'[d] = at[d] /\ subject'[d] = subject[d]
        BY <1>1 DEF FindSession, Insert, SkipTokens, AddPending, TypeOK
    <2> QED
        BY <2>1, TokenFrame
<1>2. ASSUME NEW r \in Request, Track(c, r) PROVE TokenInv'
    <2>1. /\ tokens' = [tokens EXCEPT ![SessionOf[r]] = r] /\ at[c] = "persisted"
          /\ UNCHANGED <<tab, bar, overtaken>>
          /\ subject' = [subject EXCEPT ![c] = r] /\ at' = [at EXCEPT ![c] = "tracked"]
        BY <1>2 DEF Track
    <2>2. \A b \in Browser : tab'[b] # "pushing"
        BY <1>2 DEF Track, Pushing
    <2>3. Telling(SessionOf[r])'
        BY <2>1, SessionOfAssumption DEF Telling, TypeOK
    <2>4. ASSUME NEW s \in Session, s # SessionOf[r], Telling(s)
          PROVE  Telling(s)'
        BY <2>1, <2>4 DEF Telling, TypeOK
    <2>5. OpenCurrent'
        BY <2>1, <2>3, <2>4 DEF OpenCurrent, Current, TokenInv, TypeOK
    <2> QED
        BY <2>2, <2>5 DEF TokenInv, PushesCurrent
<1>3. ASSUME NEW r \in Request, TellTokens(c, r) PROVE TokenInv'
    <2>1. /\ UNCHANGED <<tokens, tab, left>> /\ subject[c] = r /\ overtaken \subseteq overtaken'
          /\ at' = [at EXCEPT ![c] = "told"] /\ subject' = [subject EXCEPT ![c] = r]
        BY <1>3 DEF TellTokens
    <2>2. tokens[SessionOf[r]] = r \/ r \in overtaken'
        BY <1>3 DEF TellTokens
    <2>3. ASSUME NEW b \in Browser, NEW s \in Session, tab[b] # "gone", s # SessionOf[r]
          PROVE  bar'[b][s] = bar[b][s]
        BY <1>3, <2>3 DEF TellTokens, Registered, TypeOK
    <2>4. ASSUME NEW b \in Browser, tab[b] # "gone"
          PROVE  bar'[b][SessionOf[r]] \in {r, "lost"}
        BY <1>3, <2>4, SessionOfAssumption DEF TellTokens, Registered, TypeOK
    <2>5. ASSUME NEW s \in Session, s # SessionOf[r], Telling(s)
          PROVE  Telling(s)'
        BY <2>1, <2>5 DEF Telling, TypeOK
    <2>6. ASSUME NEW b \in Browser, NEW s \in Session, tab[b] # "gone",
                 Current(b, s) \/ Telling(s)
          PROVE  Current(b, s)' \/ Telling(s)'
        <3>1. CASE s = SessionOf[r]
            BY <2>1, <2>2, <2>4, <2>6, <3>1 DEF Current
        <3>2. CASE s # SessionOf[r]
            BY <2>1, <2>3, <2>5, <2>6, <3>2 DEF Current
        <3> QED
            BY <3>1, <3>2
    <2>7. PushesCurrent'
        BY <2>1, <2>6 DEF PushesCurrent, TokenInv
    <2>8. OpenCurrent'
        BY <2>1, <2>6 DEF OpenCurrent, TokenInv
    <2> QED
        BY <2>7, <2>8 DEF TokenInv
<1>4. ASSUME NEW s \in Session, ForgetTokens(c, s) PROVE TokenInv'
    <2>1. /\ tokens' = [tokens EXCEPT ![s] = Nothing]
          /\ UNCHANGED <<tab, bar, overtaken, subject, at>>
        BY <1>4 DEF ForgetTokens
    <2>2. \A b \in Browser : tab'[b] # "pushing"
        BY <1>4 DEF ForgetTokens, Pushing
    <2>3. ASSUME NEW x \in Session, x # s, Telling(x) PROVE Telling(x)'
        BY <2>1, <2>3 DEF Telling, TypeOK
    <2>4. OpenCurrent'
        BY <2>1, <2>3 DEF OpenCurrent, Current, TokenInv, TypeOK
    <2> QED
        BY <2>2, <2>4 DEF TokenInv, PushesCurrent
<1> QED
    BY <1>1, <1>2, <1>3, <1>4 DEF Reader

\* Every step of a browser's handler keeps the part about tokens.
LEMMA TabToken == ASSUME TypeOK, TokenInv, NEW b \in Browser, Tab(b) PROVE TokenInv'
<1> USE DEF TypeOK, TokenInv, PushesCurrent, OpenCurrent, Current, Telling,
            db_, reader, calls
<1>1. CASE RegisterBrowser(b)
    BY <1>1 DEF RegisterBrowser
<1>2. CASE StartPush(b)
    BY <1>2 DEF StartPush
<1>3. ASSUME NEW s \in Session, PushTokens(b, s) PROVE TokenInv'
    <2>1. PICK v \in {left[b][s], "lost"} : bar' = [bar EXCEPT ![b][s] = v]
        BY <1>3, Zenon DEF PushTokens
    <2>2. left' = [left EXCEPT ![b][s] = Nothing] /\ tab[b] = "pushing"
          /\ left[b][s] = tokens[s] /\ UNCHANGED <<tokens, tab, at, subject, overtaken>>
        BY <1>3 DEF PushTokens
    <2>3. left'[b][s] = Nothing /\ bar'[b][s] \in {tokens[s], "lost"}
        BY <2>1, <2>2
    <2>4. ASSUME NEW c \in Browser, NEW x \in Session, c # b \/ x # s
          PROVE  left'[c][x] = left[c][x] /\ bar'[c][x] = bar[c][x]
        BY <2>1, <2>2, <2>4
    <2> QED
        BY <2>2, <2>3, <2>4
<1>4. CASE EndPush(b)
    <2>1. \A s \in Session : left[b][s] = Nothing
        BY <1>4 DEF EndPush, NoTokens
    <2> QED
        BY <1>4, <2>1 DEF EndPush
<1>5. CASE UnregisterBrowser(b)
    BY <1>5 DEF UnregisterBrowser
<1>6. ASSUME NEW r \in Request, BrowserAnswers(b, r) PROVE TokenInv'
    BY <1>6 DEF BrowserAnswers, tabs
<1> QED
    BY <1>1, <1>2, <1>3, <1>4, <1>5, <1>6 DEF Tab

\* Every step keeps the part about tokens.
LEMMA TokenStep == ASSUME TypeOK, TokenInv, [Next]_vars PROVE TokenInv'
<1>1. ASSUME NEW c \in Conn, Reader(c) PROVE TokenInv'
    BY <1>1, ReaderToken
<1>2. ASSUME NEW b \in Browser, Tab(b) PROVE TokenInv'
    BY <1>2, TabToken
<1>3. CASE UNCHANGED <<subject, at, tokens, tab, left, bar, overtaken>>
    BY <1>3, TokenFrame
<1>4. ASSUME NEW p \in Resolver, Resolve(p) PROVE TokenInv'
    BY <1>3, <1>4 DEF Resolve, FindApproval, ResolveApproval, ResolveFails, FindHost,
                      SendDecision, AnswerWaiter, PushDecision, reader, tabs
<1>5. ASSUME NEW s \in Session, DeleteSession(s) PROVE TokenInv'
    BY <1>3, <1>5 DEF DeleteSession, reader, tabs
<1>6. CASE RestartRelay
    BY <1>6 DEF RestartRelay, TokenInv, PushesCurrent, OpenCurrent
<1>7. CASE UNCHANGED vars
    BY <1>3, <1>7 DEF vars
<1> QED
    BY <1>1, <1>2, <1>4, <1>5, <1>6, <1>7 DEF Next

----------------------------------------------------------------------------
\* The theorems

\* In every reachable state the types, the rows, the calls under way, the
\* token map and the browsers' channels fit together.
THEOREM Invariant == Spec => []IInv
<1>1. IInv /\ [Next]_vars => IInv'
    BY TypeStep, DecisionStep, TokenStep DEF IInv, DecisionInv
<1> QED
    BY InvInit, <1>1, PTL DEF Spec

\* The state keeps its types.
THEOREM TypeCorrect == Spec => []TypeOK
    BY Invariant, PTL DEF IInv

\* Neither the host nor a browser is told of a decision that is not stored.
THEOREM ToldAreDecided == Spec => []ToldIsDecided
    BY Invariant, PTL DEF IInv, DecisionInv

\* A browser that is connected has the current count of each session, is
\* about to be sent it, lost one, or was last sent one by a reader that
\* another connection's had overtaken.
THEOREM TokensAreCurrent == Spec => []TokensCurrent
<1>1. IInv => TokensCurrent
    BY DEF IInv, TokenInv, OpenCurrent, Current, TokensCurrent, TypeOK
<1> QED
    BY Invariant, <1>1, PTL

\* A step of an API call changes the row of no request that is decided.
LEMMA ResolveKeepsDecided ==
    ASSUME TypeOK, CallsDecide, NEW p \in Resolver, Resolve(p)
    PROVE  \A r \in Request : db[r] \in Decision => db'[r] = db[r]
<1>1. CASE ResolveApproval(p)
    <2>1. call[p].r \in Request /\ call[p].d \in Decision
        BY <1>1 DEF ResolveApproval, CallsDecide, Phase
    <2> QED
        BY <1>1, <2>1, ResolveSettles DEF Settles, Decision
<1>2. CASE ~ResolveApproval(p)
    BY <1>2 DEF Resolve, FindApproval, ResolveFails, FindHost, SendDecision, AnswerWaiter,
                PushDecision, db_
<1> QED
    BY <1>1, <1>2

\* A request is decided once: no call, no late insert and no restart
\* changes the decision in its row.
THEOREM DecidedForGood == Spec => DecidedOnce
<1>1. ASSUME IInv, [Next]_vars
      PROVE  [\A r \in Request : db[r] \in Decision => db'[r] = db[r]]_vars
    <2> USE <1>1 DEF IInv, DecisionInv
    <2>1. ASSUME NEW c \in Conn, NEW r \in Request, Insert(c, r)
          PROVE  \A x \in Request : db[x] \in Decision => db'[x] = db[x]
        BY <2>1 DEF Insert, Step, RowsArrived, Decision, TypeOK
    <2>2. ASSUME NEW p \in Resolver, Resolve(p)
          PROVE  \A x \in Request : db[x] \in Decision => db'[x] = db[x]
        BY <2>2, ResolveKeepsDecided
    <2>3. CASE UNCHANGED db
        BY <2>3
    <2>4. ASSUME NEW c \in Conn, Reader(c)
          PROVE  \A x \in Request : db[x] \in Decision => db'[x] = db[x]
        BY <2>1, <2>3, <2>4 DEF Reader, FindSession, Track, SkipTokens, TellTokens, AddPending,
                                ForgetTokens, db_
    <2>5. ASSUME NEW b \in Browser, Tab(b) PROVE UNCHANGED db
        BY <2>5 DEF Tab, RegisterBrowser, StartPush, EndPush, UnregisterBrowser, PushTokens,
                    BrowserAnswers, db_
    <2>6. CASE RestartRelay \/ \E s \in Session : DeleteSession(s)
        BY <2>6, <2>3 DEF RestartRelay, DeleteSession
    <2> QED
        BY <2>2, <2>3, <2>4, <2>5, <2>6 DEF Next
<1> QED
    BY Invariant, <1>1, PTL DEF Spec, DecidedOnce

----------------------------------------------------------------------------
\* The refinement

\* A step that changes neither the rows nor what anybody was told is a
\* stutter of OneDecision.
LEMMA Silent ==
    ASSUME UNCHANGED <<db, toHost, pushed>>
    PROVE  UNCHANGED Abstract!vars
BY DEF Abstract!vars, Told

\* The update of a row, alone among the steps of a call that change it, is
\* a decision.
LEMMA ResolveDecides ==
    ASSUME TypeOK, CallsDecide, NEW p \in Resolver, ResolveApproval(p)
    PROVE  [Abstract!Next]_(Abstract!vars)
<1> DEFINE r == call[p].r
           d == call[p].d
<1>1. r \in Request /\ d \in Decision /\ UNCHANGED <<toHost, pushed>>
    BY DEF ResolveApproval, CallsDecide, Phase
<1>2. UNCHANGED Told
    BY <1>1 DEF Told
<1>3. CASE db[r] = "pending"
    <2>1. Abstract!Decide(r, d)
        BY <1>2, <1>3 DEF ResolveApproval, Abstract!Decide
    <2> QED
        BY <1>1, <2>1 DEF Abstract!Next
<1>4. CASE db[r] # "pending"
    BY <1>1, <1>4, Silent DEF ResolveApproval
<1> QED
    BY <1>3, <1>4

\* Telling the host or the browsers tells of the request the call works on.
LEMMA TellsOne ==
    ASSUME TypeOK, CallsDecide, NEW p \in Resolver, SendDecision(p) \/ PushDecision(p)
    PROVE  [Abstract!Next]_(Abstract!vars)
<1> DEFINE r == call[p].r
<1>1. r \in Request /\ db[r] \in Decision /\ UNCHANGED db
    BY DEF SendDecision, PushDecision, CallsDecide, Phase, db_
<1>2. Told' = Told \/ Told' = Told \cup {r}
    <2>1. CASE PushDecision(p)
        <3>1. /\ pushed' = [pushed EXCEPT ![r] = pushed[r] \cup {call[p].d}]
              /\ UNCHANGED toHost
            BY <2>1 DEF PushDecision
        <3>2. \A x \in Request : pushed'[x] # {} <=> pushed[x] # {} \/ x = r
            BY <1>1, <3>1 DEF TypeOK
        <3> HIDE DEF r
        <3> QED
            BY <1>1, <3>1, <3>2 DEF Told
    <2>2. CASE SendDecision(p)
        <3>1. /\ \/ toHost' = [toHost EXCEPT ![r] = toHost[r] \cup {Proto(call[p].d)}]
                 \/ UNCHANGED toHost
              /\ UNCHANGED pushed
            BY <2>2 DEF SendDecision
        <3>2. CASE UNCHANGED toHost
            BY <3>1, <3>2 DEF Told
        <3>3. ASSUME toHost' = [toHost EXCEPT ![r] = toHost[r] \cup {Proto(call[p].d)}]
              PROVE  \A x \in Request : toHost'[x] # {} <=> toHost[x] # {} \/ x = r
            BY <1>1, <3>3 DEF TypeOK
        <3> HIDE DEF r
        <3> QED
            BY <1>1, <3>1, <3>2, <3>3 DEF Told
    <2> QED
        BY <2>1, <2>2
<1>3. Abstract!Tell(r) \/ UNCHANGED Abstract!vars
    BY <1>1, <1>2 DEF Abstract!Tell, Abstract!vars
<1> QED
    BY <1>1, <1>3 DEF Abstract!Next

\* Every step of the handlers is one of OneDecision, or none.
LEMMA StepRefines ==
    ASSUME TypeOK, DecisionInv, [Next]_vars
    PROVE  [Abstract!Next]_(Abstract!vars)
<1> USE DEF DecisionInv
<1>1. ASSUME NEW c \in Conn, NEW r \in Request, Insert(c, r)
      PROVE  [Abstract!Next]_(Abstract!vars)
    <2>1. UNCHANGED Told /\ db[r] = "none"
        BY <1>1 DEF Insert, Step, Told, RowsArrived, calls
    <2>2. Abstract!Ask(r) \/ UNCHANGED Abstract!vars
        BY <1>1, <2>1 DEF Insert, Abstract!Ask, Abstract!vars
    <2> QED
        BY <2>2 DEF Abstract!Next
<1>2. ASSUME NEW c \in Conn, Reader(c) PROVE [Abstract!Next]_(Abstract!vars)
    <2>1. ASSUME NEW r \in Request,
                 FindSession(c, r) \/ Track(c, r) \/ SkipTokens(c, r) \/ TellTokens(c, r)
                   \/ AddPending(c, r)
          PROVE  UNCHANGED <<db, toHost, pushed>>
        BY <2>1 DEF FindSession, Track, SkipTokens, TellTokens, AddPending, db_, calls
    <2>2. ASSUME NEW s \in Session, ForgetTokens(c, s)
          PROVE  UNCHANGED <<db, toHost, pushed>>
        BY <2>2 DEF ForgetTokens, db_, calls
    <2> QED
        BY <1>1, <1>2, <2>1, <2>2, Silent DEF Reader
<1>3. ASSUME NEW p \in Resolver, Resolve(p) PROVE [Abstract!Next]_(Abstract!vars)
    <2>1. CASE ResolveApproval(p)
        BY <2>1, ResolveDecides
    <2>2. CASE SendDecision(p) \/ PushDecision(p)
        BY <2>2, TellsOne
    <2>3. ASSUME (\E r \in Request, d \in Decision : FindApproval(p, r, d))
                   \/ ResolveFails(p) \/ FindHost(p) \/ AnswerWaiter(p)
          PROVE  UNCHANGED <<db, toHost, pushed>>
        BY <2>3 DEF FindApproval, ResolveFails, FindHost, AnswerWaiter, db_
    <2> QED
        BY <1>3, <2>1, <2>2, <2>3, Silent DEF Resolve
<1>4. ASSUME NEW b \in Browser, Tab(b) PROVE UNCHANGED <<db, toHost, pushed>>
    BY <1>4 DEF Tab, RegisterBrowser, StartPush, EndPush, UnregisterBrowser, PushTokens,
                BrowserAnswers, db_, calls
<1>5. CASE RestartRelay \/ (\E s \in Session : DeleteSession(s)) \/ UNCHANGED vars
    <2>1. UNCHANGED <<db, toHost, pushed>>
        BY <1>5 DEF RestartRelay, DeleteSession, calls, vars
    <2> QED
        BY <2>1, Silent
<1> QED
    BY <1>2, <1>3, <1>4, <1>5, Silent DEF Next

\* The relay's handlers implement OneDecision.
THEOREM Refinement == Spec => ImplementsOneDecision
<1>1. Init => Abstract!Init
    BY DEF Init, Abstract!Init, Told
<1>2. IInv /\ [Next]_vars => [Abstract!Next]_(Abstract!vars)
    BY StepRefines DEF IInv
<1> QED
    BY <1>1, <1>2, Invariant, PTL DEF Spec, ImplementsOneDecision, Abstract!Spec

================================================================================
