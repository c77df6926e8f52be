------------------------------- MODULE KeysProofs -------------------------------
(***************************************************************************)
(* What holds of Keys for any number of browsers, pages, calls and         *)
(* sessions, any set of faults and whatever the library's parser returns:  *)
(* TypeOK, StdinIsTyped, KeyIsHeld and CachedWasStored.                    *)
(***************************************************************************)
EXTENDS Keys, TLAPS

----------------------------------------------------------------------------
\* The inductive invariant

\* A pair that was generated and whose PUT is still to come is nowhere yet,
\* and no two calls have one pair in hand.
MadeIsNew ==
    /\ {userKey} \cup late \subseteq used \cup {NoKey}
    /\ \A c \in Call : InHand(c) => call[c].key \in used
    /\ \A c \in Call : call[c].at = "made" => call[c].key \notin {userKey} \cup late
    /\ \A c, d \in Call : InHand(c) /\ InHand(d) /\ call[c].key = call[d].key => c = d

\* What a call derives from is the pair of its browser, or was.
ReadyWasStored ==
    \A c \in Call : call[c].at = "ready" =>
        idb[Home(c)] # NoKey /\ call[c].key \in {idb[Home(c)]} \cup dropped

\* An ephemeral key is on its way, stored or lost only if the agent has a
\* session key as long as the session runs,
Announced ==
    \A s \in Session :
        eph[s] # "none" =>
            life[s] \in {"running", "ended"} /\ (life[s] = "running" => agentKey[s] # NoKey)

\* and a page has a key, or is about to, only if it was stored.
CachedIsAnnounced ==
    /\ \A p \in Page, s \in Session : cache[p][s] # NoKey => eph[s] = "stored"
    /\ \A c \in Call : call[c].for # NoSession => eph[call[c].for] = "stored"

IInv ==
    /\ TypeOK
    /\ MadeIsNew
    /\ KeyIsHeld
    /\ ReadyWasStored
    /\ CachedWasStored
    /\ Announced
    /\ CachedIsAnnounced
    /\ StdinIsTyped

----------------------------------------------------------------------------
\* The initial states

LEMMA InitIInv == Init => IInv
  BY NoneAssumption, FunAssumption DEF Init, IInv, TypeOK, MadeIsNew, KeyIsHeld, ReadyWasStored,
     CachedWasStored, Announced, CachedIsAnnounced, StdinIsTyped, Idle, InHand, Home

----------------------------------------------------------------------------
\* The sessions: the keys of the browsers stay as they are.

LEMMA LifeIInv == IInv /\ Life => IInv'
  <1>1. SUFFICES ASSUME IInv, NEW s \in Session,
                        Create(s) \/ Start(s) \/ Announce(s) \/ LoseReport(s) \/ Exit(s)
                            \/ \E p \in Page : Type(p, s)
                 PROVE  IInv'
    BY DEF Life
  <1> USE NoneAssumption, FunAssumption
  <1>2. UNCHANGED <<userKey, late, browsers>>
    BY <1>1 DEF Create, Start, Announce, LoseReport, Exit, Type
  <1>3. (MadeIsNew /\ KeyIsHeld /\ ReadyWasStored /\ CachedWasStored)'
    BY <1>1, <1>2 DEF IInv, MadeIsNew, KeyIsHeld, ReadyWasStored, CachedWasStored, browsers, InHand, Home
  <1>4. CASE Create(s)
    <2>1. TypeOK' BY <1>1, <1>4 DEF IInv, TypeOK, Create, browsers
    <2>2. (Announced /\ CachedIsAnnounced /\ StdinIsTyped)'
      BY <1>1, <1>4 DEF IInv, TypeOK, Create, browsers, Announced, CachedIsAnnounced, StdinIsTyped
    <2> QED BY <2>1, <2>2, <1>3 DEF IInv
  <1>5. CASE Start(s)
    <2>1. PICK type \in Parsed :
              /\ agentKey' = [agentKey EXCEPT ![s] = SessionKey(sent[s], type)]
              /\ eph' = [eph EXCEPT ![s] = IF SessionKey(sent[s], type) = NoKey THEN "none" ELSE "sent"]
      BY <1>5, Zenon DEF Start
    <2>2. SessionKey(sent[s], type) \in Key \cup {NoKey}
      BY <1>1 DEF IInv, TypeOK, SessionKey
    <2>3. /\ life[s] = "created" /\ life' = [life EXCEPT ![s] = "running"]
          /\ UNCHANGED <<userKey, late, browsers, sent, tty>>
      BY <1>5 DEF Start
    <2>4. TypeOK' BY <1>1, <2>1, <2>2, <2>3 DEF IInv, TypeOK, browsers
    <2>5. eph[s] = "none"
      BY <1>1, <2>3 DEF IInv, Announced
    <2>6. (Announced /\ CachedIsAnnounced /\ StdinIsTyped)'
      BY <1>1, <2>1, <2>2, <2>3, <2>5 DEF IInv, TypeOK, browsers, Announced, CachedIsAnnounced, StdinIsTyped
    <2> QED BY <2>4, <2>6, <1>3 DEF IInv
  <1>6. CASE Announce(s) \/ LoseReport(s)
    <2>1. TypeOK' BY <1>1, <1>6 DEF IInv, TypeOK, Announce, LoseReport, browsers
    <2>2. (Announced /\ CachedIsAnnounced /\ StdinIsTyped)'
      BY <1>1, <1>6 DEF IInv, TypeOK, Announce, LoseReport, browsers, Announced, CachedIsAnnounced, StdinIsTyped
    <2> QED BY <2>1, <2>2, <1>3 DEF IInv
  <1>7. CASE Exit(s)
    <2>1. TypeOK' BY <1>1, <1>7 DEF IInv, TypeOK, Exit, browsers
    <2>2. (Announced /\ CachedIsAnnounced /\ StdinIsTyped)'
      BY <1>1, <1>7 DEF IInv, TypeOK, Exit, browsers, Announced, CachedIsAnnounced, StdinIsTyped
    <2> QED BY <2>1, <2>2, <1>3 DEF IInv
  <1>8. ASSUME NEW p \in Page, Type(p, s) PROVE IInv'
    \* What is written is what was typed: a page has a key only if the agent has.
    <2>1. Written(cache[p][s], agentKey[s]) \subseteq {"typed"}
      BY <1>1, <1>8 DEF IInv, Announced, CachedIsAnnounced, Type, Written
    <2>2. /\ tty' = [tty EXCEPT ![s] = @ \cup Written(cache[p][s], agentKey[s])]
          /\ UNCHANGED <<userKey, late, browsers, life, sent, agentKey, eph>>
      BY <1>8 DEF Type
    <2>3. TypeOK' BY <1>1, <2>1, <2>2 DEF IInv, TypeOK, browsers
    <2>4. (Announced /\ CachedIsAnnounced)'
      BY <1>1, <2>2 DEF IInv, browsers, Announced, CachedIsAnnounced
    <2>5. StdinIsTyped'
      BY <1>1, <2>1, <2>2 DEF IInv, TypeOK, StdinIsTyped
    <2> QED BY <2>3, <2>4, <2>5, <1>3 DEF IInv
  <1> QED BY <1>1, <1>4, <1>5, <1>6, <1>7, <1>8

----------------------------------------------------------------------------
\* The pages

\* What the sessions have stays as it is, and no call is for a session whose
\* key was not stored.
LEMMA SetupSessions ==
  ASSUME IInv, UNCHANGED sessions,
         \A c \in Call : call'[c].for # NoSession => eph[call'[c].for] = "stored",
         \A p \in Page, s \in Session : cache'[p][s] # NoKey => eph[s] = "stored"
  PROVE  (Announced /\ CachedIsAnnounced /\ StdinIsTyped)'
  BY DEF IInv, sessions, Announced, CachedIsAnnounced, StdinIsTyped

\* A call goes on in some other way than by changing keys.
LEMMA FoundIInv ==
  ASSUME IInv, NEW c \in Call, NEW s \in Session \cup {NoSession}, Found(c, s)
  PROVE  IInv'
  <1> USE NoneAssumption, FunAssumption
  <1>1. /\ call[c].at = "idle" /\ Wanted(c, s) /\ idb[Home(c)] # NoKey
        /\ call' = [call EXCEPT ![c] = Ready(idb[Home(c)], s)]
        /\ UNCHANGED <<userKey, late, idb, cache, used, dropped, sessions>>
    BY DEF Found
  <1>2. Home(c) \in Browser /\ idb[Home(c)] \in Key
    BY <1>1 DEF IInv, TypeOK, Home
  <1>3. /\ Ready(idb[Home(c)], s).at \in {"idle", "ready"}
        /\ Ready(idb[Home(c)], s).for = s
        /\ Ready(idb[Home(c)], s) \in [at : {"idle", "made", "put", "ready"},
                          key : Key \cup {NoKey}, for : Session \cup {NoSession}]
        /\ Ready(idb[Home(c)], s).at = "ready" => Ready(idb[Home(c)], s).key = idb[Home(c)]
    BY <1>2 DEF Ready, Idle
  <1>4. TypeOK'
    BY <1>1, <1>3 DEF IInv, TypeOK, sessions
  <1>5. \A d \in Call : call'[d] = IF d = c THEN Ready(idb[Home(c)], s) ELSE call[d]
    BY <1>1 DEF IInv, TypeOK
  <1>6. MadeIsNew'
    BY <1>1, <1>3, <1>5 DEF IInv, MadeIsNew, InHand
  <1>7. KeyIsHeld'
    BY <1>1, <1>3, <1>5 DEF IInv, KeyIsHeld, InHand
  <1>8. (ReadyWasStored /\ CachedWasStored)'
    BY <1>1, <1>3, <1>5 DEF IInv, ReadyWasStored, CachedWasStored, Home
  <1>9. (Announced /\ CachedIsAnnounced /\ StdinIsTyped)'
    BY <1>1, <1>3, <1>5, SetupSessions DEF IInv, CachedIsAnnounced, Wanted
  <1> QED BY <1>4, <1>6, <1>7, <1>8, <1>9 DEF IInv

LEMMA GenerateIInv ==
  ASSUME IInv, NEW c \in Call, NEW s \in Session \cup {NoSession}, NEW k \in Key, Generate(c, s, k)
  PROVE  IInv'
  <1> USE NoneAssumption, FunAssumption
  <1>1. /\ call[c].at = "idle" /\ Wanted(c, s) /\ k \notin used
        /\ used' = used \cup {k}
        /\ call' = [call EXCEPT ![c] = [at |-> "made", key |-> k, for |-> s]]
        /\ UNCHANGED <<userKey, late, idb, cache, dropped, sessions>>
    BY DEF Generate
  <1>2. TypeOK'
    BY <1>1 DEF IInv, TypeOK, sessions
  <1>3. \A d \in Call : call'[d] = IF d = c THEN [at |-> "made", key |-> k, for |-> s] ELSE call[d]
    BY <1>1 DEF IInv, TypeOK
  <1>4. MadeIsNew'
    BY <1>1, <1>3 DEF IInv, MadeIsNew, InHand
  <1>5. KeyIsHeld'
    BY <1>1, <1>3 DEF IInv, KeyIsHeld, InHand
  <1>6. (ReadyWasStored /\ CachedWasStored)'
    BY <1>1, <1>3 DEF IInv, ReadyWasStored, CachedWasStored, Home
  <1>7. (Announced /\ CachedIsAnnounced /\ StdinIsTyped)'
    BY <1>1, <1>3, SetupSessions DEF IInv, CachedIsAnnounced, Wanted
  <1> QED BY <1>2, <1>4, <1>5, <1>6, <1>7 DEF IInv

LEMMA PutIInv ==
  ASSUME IInv, NEW c \in Call, Put(c) \/ PutUnheard(c) \/ PutFails(c)
  PROVE  IInv'
  <1> USE NoneAssumption, FunAssumption
  <1>1. /\ call[c].at = "made"
        /\ UNCHANGED <<idb, cache, used, dropped, sessions>>
    BY DEF Put, PutUnheard, PutFails
  <1>2. \/ /\ call' = [call EXCEPT ![c].at = "put"]
           /\ userKey' \in {userKey, call[c].key}
           /\ late' \in {late, late \cup {call[c].key}}
        \/ call' = [call EXCEPT ![c] = Idle] /\ UNCHANGED <<userKey, late>>
    BY DEF Put, PutUnheard, PutFails
  <1>3. call[c].key \in used /\ call[c].key \in Key
    BY <1>1, NoneAssumption DEF IInv, TypeOK, MadeIsNew, InHand
  <1>4. TypeOK'
    <2>1. userKey' \in Key \cup {NoKey} /\ late' \in SUBSET Key
      BY <1>2, <1>3 DEF IInv, TypeOK
    <2>2. Idle \in [at : {"idle", "made", "put", "ready"},
                   key : Key \cup {NoKey}, for : Session \cup {NoSession}]
      BY DEF Idle
    <2>3. call' \in [Call -> [at : {"idle", "made", "put", "ready"},
                             key : Key \cup {NoKey}, for : Session \cup {NoSession}]]
      <3>1. CASE call' = [call EXCEPT ![c].at = "put"]
        <4> DEFINE r == [call[c] EXCEPT !.at = "put"]
        <4>1. r \in [at : {"idle", "made", "put", "ready"},
                     key : Key \cup {NoKey}, for : Session \cup {NoSession}]
          <5>1. call[c] \in [at : {"idle", "made", "put", "ready"},
                             key : Key \cup {NoKey}, for : Session \cup {NoSession}]
            BY DEF IInv, TypeOK
          <5> QED BY <5>1
        <4>2. call' = [call EXCEPT ![c] = r]
          BY <3>1, Zenon
        <4> HIDE DEF r
        <4> QED BY <4>1, <4>2 DEF IInv, TypeOK
      <3>2. CASE call' = [call EXCEPT ![c] = Idle]
        BY <3>2, <2>2 DEF IInv, TypeOK
      <3> QED BY <1>2, <3>1, <3>2
    <2> QED BY <1>1, <2>1, <2>3 DEF IInv, TypeOK, sessions
  <1>5. \A d \in Call : /\ d # c => call'[d] = call[d]
                        /\ call'[d].for \in {call[d].for, NoSession}
                        /\ call'[c].at = "put" \/ call'[c].at = "idle"
                        /\ call'[c].at = "put" => call'[c].key = call[c].key
    BY <1>2 DEF IInv, TypeOK, Idle
  <1>6. MadeIsNew'
    BY <1>1, <1>2, <1>3, <1>5 DEF IInv, MadeIsNew, InHand
  <1>7. KeyIsHeld'
    <2>1. CASE call' = [call EXCEPT ![c].at = "put"]
      <3>1. call'[c].at = "put" /\ call'[c].key = call[c].key
        BY <2>1 DEF IInv, TypeOK
      <3>2. ({userKey'} \cup late') \ {NoKey} \subseteq (({userKey} \cup late) \ {NoKey}) \cup {call[c].key}
        BY <1>2
      <3> QED BY <1>1, <1>5, <3>1, <3>2 DEF IInv, KeyIsHeld, InHand
    <2>2. CASE call' = [call EXCEPT ![c] = Idle] /\ UNCHANGED <<userKey, late>>
      <3>1. \A k \in ({userKey} \cup late) \ {NoKey} : k # call[c].key
        BY <1>1 DEF IInv, MadeIsNew
      <3> QED BY <1>1, <1>5, <2>2, <3>1 DEF IInv, KeyIsHeld, InHand
    <2> QED BY <1>2, <2>1, <2>2
  <1>8. (ReadyWasStored /\ CachedWasStored)'
    BY <1>1, <1>5 DEF IInv, ReadyWasStored, CachedWasStored, Home
  <1>9. (Announced /\ CachedIsAnnounced /\ StdinIsTyped)'
    BY <1>1, <1>5, SetupSessions DEF IInv, CachedIsAnnounced
  <1> QED BY <1>4, <1>6, <1>7, <1>8, <1>9 DEF IInv

LEMMA LatePutIInv ==
  ASSUME IInv, NEW k \in late, LatePut(k)
  PROVE  IInv'
  <1> USE NoneAssumption, FunAssumption
  <1>1. TypeOK'
    BY DEF IInv, TypeOK, LatePut, browsers, sessions
  <1>2. (MadeIsNew /\ KeyIsHeld)'
    BY DEF IInv, LatePut, browsers, MadeIsNew, KeyIsHeld, InHand
  <1>3. (ReadyWasStored /\ CachedWasStored)'
    BY DEF IInv, LatePut, browsers, ReadyWasStored, CachedWasStored, Home
  <1>4. (Announced /\ CachedIsAnnounced /\ StdinIsTyped)'
    BY DEF IInv, LatePut, browsers, sessions, Announced, CachedIsAnnounced, StdinIsTyped
  <1> QED BY <1>1, <1>2, <1>3, <1>4 DEF IInv

LEMMA StoreIInv ==
  ASSUME IInv, NEW c \in Call, Store(c)
  PROVE  IInv'
  <1> USE NoneAssumption, FunAssumption
  <1> DEFINE k == call[c].key
             r == Ready(call[c].key, call[c].for)
  <1>1. /\ call[c].at = "put"
        /\ idb' = [idb EXCEPT ![Home(c)] = k]
        /\ dropped' = dropped \cup ({idb[Home(c)]} \ {NoKey})
        /\ call' = [call EXCEPT ![c] = r]
        /\ UNCHANGED <<userKey, late, cache, used, sessions>>
    BY DEF Store
  <1>2. k \in used /\ k \in Key /\ Home(c) \in Browser
    BY <1>1 DEF IInv, TypeOK, MadeIsNew, InHand, Home
  <1>3. /\ r.at \in {"idle", "ready"}
        /\ r.for = call[c].for
        /\ r \in [at : {"idle", "made", "put", "ready"},
                  key : Key \cup {NoKey}, for : Session \cup {NoSession}]
        /\ r.at = "ready" => r.key = k
    BY <1>2 DEF IInv, TypeOK, Ready, Idle
  <1>4. /\ \A d \in Call : call'[d] = IF d = c THEN r ELSE call[d]
        /\ \A b \in Browser : idb'[b] = IF b = Home(c) THEN k ELSE idb[b]
    BY <1>1 DEF IInv, TypeOK
  <1> HIDE DEF r
  <1>5. TypeOK'
    BY <1>1, <1>2, <1>3 DEF IInv, TypeOK, sessions
  <1>6. MadeIsNew'
    BY <1>1, <1>3, <1>4 DEF IInv, MadeIsNew, InHand
  <1>7. KeyIsHeld'
    <2> SUFFICES ASSUME NEW j \in ({userKey} \cup late) \ {NoKey}
                 PROVE  \/ \E b \in Browser : idb'[b] = j
                        \/ \E d \in Call : InHand(d)' /\ call'[d].key = j
                        \/ j \in dropped'
      BY <1>1 DEF KeyIsHeld
    <2>1. CASE \E b \in Browser : idb[b] = j
      BY <2>1, <1>1, <1>4
    <2>2. CASE \E d \in Call : InHand(d) /\ call[d].key = j
      BY <2>2, <1>2, <1>4 DEF InHand
    <2>3. CASE j \in dropped
      BY <2>3, <1>1
    <2> QED BY <2>1, <2>2, <2>3 DEF IInv, KeyIsHeld
  <1>8. ReadyWasStored'
    <2> SUFFICES ASSUME NEW d \in Call, call'[d].at = "ready"
                 PROVE  idb'[Home(d)] # NoKey /\ call'[d].key \in {idb'[Home(d)]} \cup dropped'
      BY DEF ReadyWasStored, Home
    <2>1. Home(d) \in Browser
      BY DEF Home
    <2>2. CASE d = c
      BY <2>1, <2>2, <1>2, <1>3, <1>4
    <2>3. CASE d # c
      BY <2>1, <2>3, <1>1, <1>2, <1>4 DEF IInv, ReadyWasStored
    <2> QED BY <2>2, <2>3
  <1>9. CachedWasStored'
    <2> SUFFICES ASSUME NEW p \in Page, NEW s \in Session, cache[p][s] # NoKey
                 PROVE  /\ idb'[BrowserOf[p]] # NoKey
                        /\ cache[p][s] = idb'[BrowserOf[p]] \/ cache[p][s] \in dropped'
      BY <1>1 DEF CachedWasStored
    <2>1. BrowserOf[p] \in Browser
      OBVIOUS
    <2> QED BY <2>1, <1>1, <1>2, <1>4 DEF IInv, CachedWasStored
  <1>10. (Announced /\ CachedIsAnnounced /\ StdinIsTyped)'
    BY <1>1, <1>3, <1>4, SetupSessions DEF IInv, CachedIsAnnounced
  <1> QED BY <1>5, <1>6, <1>7, <1>8, <1>9, <1>10 DEF IInv

LEMMA StoreFailsIInv ==
  ASSUME IInv, NEW c \in Call, StoreFails(c)
  PROVE  IInv'
  <1> USE NoneAssumption, FunAssumption
  <1>1. /\ call[c].at = "put"
        /\ dropped' = dropped \cup {call[c].key}
        /\ call' = [call EXCEPT ![c] = Idle]
        /\ UNCHANGED <<userKey, late, idb, cache, used, sessions>>
    BY DEF StoreFails
  <1>2. call[c].key \in Key
    BY <1>1 DEF IInv, TypeOK, MadeIsNew, InHand
  <1>3. \A d \in Call : call'[d] = IF d = c THEN Idle ELSE call[d]
    BY <1>1 DEF IInv, TypeOK
  <1>4. TypeOK'
    BY <1>1, <1>2 DEF IInv, TypeOK, sessions, Idle
  <1>5. MadeIsNew'
    BY <1>1, <1>3 DEF IInv, MadeIsNew, InHand, Idle
  <1>6. KeyIsHeld'
    BY <1>1, <1>3 DEF IInv, KeyIsHeld, InHand
  <1>7. (ReadyWasStored /\ CachedWasStored)'
    BY <1>1, <1>3 DEF IInv, ReadyWasStored, CachedWasStored, Home, Idle
  <1>8. (Announced /\ CachedIsAnnounced /\ StdinIsTyped)'
    BY <1>1, <1>3, SetupSessions DEF IInv, CachedIsAnnounced, Idle
  <1> QED BY <1>4, <1>5, <1>6, <1>7, <1>8 DEF IInv

LEMMA DeriveIInv ==
  ASSUME IInv, NEW c \in Call, Derive(c)
  PROVE  IInv'
  <1> USE NoneAssumption, FunAssumption
  <1>1. /\ call[c].at = "ready"
        /\ cache' = [cache EXCEPT ![PageOf[c]][call[c].for] = call[c].key]
        /\ call' = [call EXCEPT ![c] = Idle]
        /\ UNCHANGED <<userKey, late, idb, used, dropped, sessions>>
    BY DEF Derive
  <1>2. PageOf[c] \in Page /\ call[c].key \in Key \cup {NoKey}
    BY DEF IInv, TypeOK
  <1>3. \A d \in Call : call'[d] = IF d = c THEN Idle ELSE call[d]
    BY <1>1 DEF IInv, TypeOK
  <1>4. \A p \in Page, s \in Session :
            cache'[p][s] = IF p = PageOf[c] /\ s = call[c].for THEN call[c].key ELSE cache[p][s]
    BY <1>1, <1>2 DEF IInv, TypeOK
  <1>5. cache' \in [Page -> [Session -> Key \cup {NoKey}]]
    <2> DEFINE row == [cache[PageOf[c]] EXCEPT ![call[c].for] = call[c].key]
    <2>1. row \in [Session -> Key \cup {NoKey}]
      BY <1>2 DEF IInv, TypeOK
    <2>2. cache' = [cache EXCEPT ![PageOf[c]] = row]
      BY <1>1, Zenon
    <2> HIDE DEF row
    <2> QED BY <2>1, <2>2 DEF IInv, TypeOK
  <1>6. TypeOK'
    BY <1>1, <1>5 DEF IInv, TypeOK, sessions, Idle
  <1>7. (MadeIsNew /\ KeyIsHeld)'
    BY <1>1, <1>3 DEF IInv, MadeIsNew, KeyIsHeld, InHand, Idle
  <1>8. ReadyWasStored'
    BY <1>1, <1>3 DEF IInv, ReadyWasStored, Home, Idle
  <1>9. CachedWasStored'
    BY <1>1, <1>4 DEF IInv, CachedWasStored, ReadyWasStored, Home
  <1>10. (Announced /\ CachedIsAnnounced /\ StdinIsTyped)'
    BY <1>1, <1>3, <1>4, SetupSessions DEF IInv, CachedIsAnnounced, Idle
  <1> QED BY <1>6, <1>7, <1>8, <1>9, <1>10 DEF IInv

LEMMA CloseIInv ==
  ASSUME IInv, NEW p \in Page, Close(p)
  PROVE  IInv'
  <1> USE NoneAssumption, FunAssumption
  <1> DEFINE lost == {call[c].key : c \in {d \in CallsOf(p) : InHand(d)}}
             mid  == {call[c].key : c \in {d \in CallsOf(p) : call[d].at = "made"}}
  <1>1. /\ dropped' = dropped \cup lost
        /\ call' = [c \in Call |-> IF PageOf[c] = p THEN Idle ELSE call[c]]
        /\ cache' = [cache EXCEPT ![p] = [s \in Session |-> NoKey]]
        /\ UNCHANGED <<userKey, idb, used, sessions>>
    BY DEF Close
  <1>2. PICK half \in SUBSET mid : late' = late \cup half
    BY DEF Close
  <1>3. mid \subseteq lost
    BY DEF InHand
  <1>4. \A j : j \in lost <=> \E c \in Call : PageOf[c] = p /\ InHand(c) /\ call[c].key = j
    BY DEF CallsOf
  <1> HIDE DEF lost, mid
  <1>5. lost \subseteq used /\ lost \subseteq Key
    BY <1>4 DEF IInv, TypeOK, MadeIsNew, InHand
  <1>6. /\ \A c \in Call : call'[c] = IF PageOf[c] = p THEN Idle ELSE call[c]
        /\ \A q \in Page : cache'[q] = IF q = p THEN [s \in Session |-> NoKey] ELSE cache[q]
    BY <1>1 DEF IInv, TypeOK
  <1>7. TypeOK'
    BY <1>1, <1>2, <1>3, <1>5 DEF IInv, TypeOK, sessions, Idle
  <1>8. MadeIsNew'
    \* A pair in hand on another page is not one of those lost.
    <2>1. \A c \in Call : InHand(c)' => InHand(c) /\ call'[c] = call[c] /\ call[c].key \notin lost
      BY <1>4, <1>6 DEF IInv, MadeIsNew, InHand, Idle
    <2> QED BY <1>1, <1>2, <1>3, <1>5, <2>1 DEF IInv, MadeIsNew, InHand
  <1>9. KeyIsHeld'
    <2> SUFFICES ASSUME NEW j \in ({userKey'} \cup late') \ {NoKey}
                 PROVE  \/ \E b \in Browser : idb'[b] = j
                        \/ \E d \in Call : InHand(d)' /\ call'[d].key = j
                        \/ j \in dropped'
      BY DEF KeyIsHeld
    <2>1. CASE j \in lost
      BY <2>1, <1>1
    <2>2. CASE j \notin lost
      <3>1. j \in ({userKey} \cup late) \ {NoKey}
        BY <2>2, <1>1, <1>2, <1>3
      <3>2. \A d \in Call : InHand(d) /\ call[d].key = j => InHand(d)' /\ call'[d].key = j
        BY <2>2, <1>4, <1>6 DEF InHand
      <3> QED BY <3>1, <3>2, <1>1 DEF IInv, KeyIsHeld
    <2> QED BY <2>1, <2>2
  <1>10. ReadyWasStored'
    BY <1>1, <1>6 DEF IInv, ReadyWasStored, Home, Idle
  <1>11. CachedWasStored'
    BY <1>1, <1>6 DEF IInv, CachedWasStored
  <1>12. (Announced /\ CachedIsAnnounced /\ StdinIsTyped)'
    <2>1. \A c \in Call : call'[c].for # NoSession => eph[call'[c].for] = "stored"
      BY <1>6 DEF IInv, CachedIsAnnounced, Idle
    <2>2. \A q \in Page, s \in Session : cache'[q][s] # NoKey => eph[s] = "stored"
      BY <1>6 DEF IInv, CachedIsAnnounced
    <2> QED BY <1>1, <2>1, <2>2, SetupSessions
  <1> QED BY <1>7, <1>8, <1>9, <1>10, <1>11, <1>12 DEF IInv

----------------------------------------------------------------------------
\* The theorems

LEMMA NextIInv == IInv /\ [Next]_vars => IInv'
  <1> SUFFICES ASSUME IInv, [Next]_vars PROVE IInv'
    OBVIOUS
  <1>1. CASE Setup
    BY <1>1, FoundIInv, GenerateIInv, PutIInv, LatePutIInv, StoreIInv, StoreFailsIInv,
       DeriveIInv, CloseIInv DEF Setup
  <1>2. CASE Life
    BY <1>2, LifeIInv
  <1>3. CASE UNCHANGED vars
    BY <1>3 DEF vars, IInv, TypeOK, MadeIsNew, KeyIsHeld, ReadyWasStored, CachedWasStored,
       Announced, CachedIsAnnounced, StdinIsTyped, InHand, Home
  <1> QED BY <1>1, <1>2, <1>3 DEF Next

\* The inductive invariant: where each pair is between its generation and its
\* loss, and what the agent knows when a page has a session key.
THEOREM Invariant == Spec => []IInv
  BY InitIInv, NextIInv, PTL DEF Spec

\* The state keeps its types.
THEOREM TypeCorrect == Spec => []TypeOK
  <1>1. IInv => TypeOK BY DEF IInv
  <1> QED BY <1>1, Invariant, PTL

\* No session is written ciphertext, whatever the parser returns and whatever
\* reports are lost.
THEOREM StdinsAreTyped == Spec => []StdinIsTyped
  <1>1. IInv => StdinIsTyped BY DEF IInv
  <1> QED BY <1>1, Invariant, PTL

\* The user's key is held by a browser or a call, or was replaced, refused by
\* IndexedDB, or lost with its page.
THEOREM KeysAreHeld == Spec => []KeyIsHeld
  <1>1. IInv => KeyIsHeld BY DEF IInv
  <1> QED BY <1>1, Invariant, PTL

\* No page works with a pair its browser has not stored.
THEOREM CachedWereStored == Spec => []CachedWasStored
  <1>1. IInv => CachedWasStored BY DEF IInv
  <1> QED BY <1>1, Invariant, PTL
================================================================================
