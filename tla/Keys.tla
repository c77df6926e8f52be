---------------------------------- MODULE Keys ----------------------------------
(***************************************************************************)
(* The end-to-end keys of one user: the pair each browser generates and    *)
(* keeps in IndexedDB, the public key in the user's row, the key the agent *)
(* derives for a session from that row and its ephemeral pair, and the key *)
(* a page derives when the ephemeral key has come back to it.              *)
(*                                                                         *)
(* A pair, its public key and what is derived from it are one value of     *)
(* Key: both ends of a session derive the same key just when they start    *)
(* from the same pair, and what one key sealed no other opens.  A page     *)
(* never has the password at hand (showApp navigates before it starts      *)
(* initE2E), so that no private key is ever wrapped and stored.            *)
(***************************************************************************)
EXTENDS Naturals

CONSTANTS
    Browser,   \* browser profiles, each with its IndexedDB
    Page,      \* pages showing the dashboard
    Call,      \* calls of ensureUserKeypair, by initE2E and getSessionKey
    BrowserOf, \* the profile of each page
    PageOf,    \* the page of each call
    Session,
    NoSession, \* the call is not for a session
    Key,
    NoKey,
    Parsed,    \* the types x509.ParsePKIXPublicKey may return for a P-256 key
    Faults     \* what may fail: requests ("net"), statements ("db"), writes
               \* to IndexedDB ("idb"), reports of the agent ("lost"), pages
               \* ("close")

ASSUME FunAssumption == BrowserOf \in [Page -> Browser] /\ PageOf \in [Call -> Page]
ASSUME NoneAssumption == NoKey \notin Key /\ NoSession \notin Session
ASSUME ParsedAssumption == Parsed \subseteq {"ecdh", "ecdsa"}

VARIABLES
    userKey,  \* users.e2e_public_key
    late,     \* PUTs the page has given up and the relay has still to execute
    idb,      \* the pair in the IndexedDB of each browser
    call,     \* where each call is, its pair and the session it is for
    cache,    \* SESSION_KEY_CACHE of each page
    used,     \* pairs that were generated
    dropped,  \* history: pairs of closed pages, and pairs that IndexedDB
              \* replaced or refused
    life,     \* where each session is
    sent,     \* the public key in the session_create of each session
    agentKey, \* sessionKey in the agent's pool
    eph,      \* whether the agent's ephemeral key is on its way or in the row
    tty       \* what each session's PTY was written by the user's typing

vars == <<userKey, late, idb, call, cache, used, dropped, life, sent, agentKey, eph, tty>>

browsers == <<idb, call, cache, used, dropped>>
sessions == <<life, sent, agentKey, eph, tty>>

Idle == [at |-> "idle", key |-> NoKey, for |-> NoSession]

Init ==
    /\ userKey = NoKey
    /\ late = {}
    /\ idb = [b \in Browser |-> NoKey]
    /\ call = [c \in Call |-> Idle]
    /\ cache = [p \in Page |-> [s \in Session |-> NoKey]]
    /\ used = {}
    /\ dropped = {}
    /\ life = [s \in Session |-> "none"]
    /\ sent = [s \in Session |-> NoKey]
    /\ agentKey = [s \in Session |-> NoKey]
    /\ eph = [s \in Session |-> "none"]
    /\ tty = [s \in Session |-> {}]

----------------------------------------------------------------------------
\* The pages

Home(c) == BrowserOf[PageOf[c]]

\* A call begins: initE2E, or getSessionKey for a session whose ephemeral key
\* the page knows and whose session key it has not cached.
Wanted(c, s) ==
    \/ s = NoSession
    \/ s \in Session /\ eph[s] = "stored" /\ cache[PageOf[c]][s] = NoKey

\* With a pair in hand a call for a session derives its key; another one ends.
Ready(k, s) == IF s = NoSession THEN Idle ELSE [at |-> "ready", key |-> k, for |-> s]

\* The pair is in IndexedDB,
Found(c, s) ==
    /\ call[c].at = "idle"
    /\ Wanted(c, s)
    /\ idb[Home(c)] # NoKey
    /\ call' = [call EXCEPT ![c] = Ready(idb[Home(c)], s)]
    /\ UNCHANGED <<userKey, late, idb, cache, used, dropped, sessions>>

\* or it is not, and one is generated.
Generate(c, s, k) ==
    /\ call[c].at = "idle"
    /\ Wanted(c, s)
    /\ idb[Home(c)] = NoKey
    /\ k \in Key \ used
    /\ used' = used \cup {k}
    /\ call' = [call EXCEPT ![c] = [at |-> "made", key |-> k, for |-> s]]
    /\ UNCHANGED <<userKey, late, idb, cache, dropped, sessions>>

\* handleSetE2EPublicKey replaces whatever the row has.
Put(c) ==
    /\ call[c].at = "made"
    /\ userKey' = call[c].key
    /\ call' = [call EXCEPT ![c].at = "put"]
    /\ UNCHANGED <<late, idb, cache, used, dropped, sessions>>

\* Mutation: without an answer the pair is not stored.
PutUnheardStops(c) ==
    /\ "net" \in Faults
    /\ call[c].at = "made"
    /\ late' \in {late, late \cup {call[c].key}}
    /\ call' = [call EXCEPT ![c] = Idle]
    /\ UNCHANGED <<userKey, idb, cache, used, dropped, sessions>>

\* No answer: api returns null, as it does for an answer without a body, and
\* the call goes on.  The request may still reach the relay.
PutUnheard(c) ==
    /\ "net" \in Faults
    /\ call[c].at = "made"
    /\ late' \in {late, late \cup {call[c].key}}
    /\ call' = [call EXCEPT ![c].at = "put"]
    /\ UNCHANGED <<userKey, idb, cache, used, dropped, sessions>>

LatePut(k) ==
    /\ k \in late
    /\ late' = late \ {k}
    /\ userKey' = k
    /\ UNCHANGED <<browsers, sessions>>

\* Mutation: the call is marked as failed.
PutFailsMarked(c) ==
    /\ "db" \in Faults
    /\ call[c].at = "made"
    /\ call' = [call EXCEPT ![c].at = "failed"]
    /\ UNCHANGED <<userKey, late, idb, cache, used, dropped, sessions>>

\* The update fails, api throws, and the call ends without a pair.
PutFails(c) ==
    /\ "db" \in Faults
    /\ call[c].at = "made"
    /\ call' = [call EXCEPT ![c] = Idle]
    /\ UNCHANGED <<userKey, late, idb, cache, used, dropped, sessions>>

\* Mutation: the pair of another call is kept, and this call goes on with its
\* own.
StoreOnce(c) ==
    /\ call[c].at = "put"
    /\ idb' = [idb EXCEPT ![Home(c)] = IF @ = NoKey THEN call[c].key ELSE @]
    /\ dropped' = dropped \cup ({idb[Home(c)]} \ {NoKey, idb'[Home(c)]})
    /\ call' = [call EXCEPT ![c] = Ready(call[c].key, call[c].for)]
    /\ UNCHANGED <<userKey, late, cache, used, sessions>>

\* idbPut, over the pair of another call that found none either.
Store(c) ==
    /\ call[c].at = "put"
    /\ idb' = [idb EXCEPT ![Home(c)] = call[c].key]
    /\ dropped' = dropped \cup ({idb[Home(c)]} \ {NoKey})
    /\ call' = [call EXCEPT ![c] = Ready(call[c].key, call[c].for)]
    /\ UNCHANGED <<userKey, late, cache, used, sessions>>

\* idbPut rejects: the call ends without a pair, and the one whose public key
\* it has put is lost.
StoreFails(c) ==
    /\ "idb" \in Faults
    /\ call[c].at = "put"
    /\ dropped' = dropped \cup {call[c].key}
    /\ call' = [call EXCEPT ![c] = Idle]
    /\ UNCHANGED <<userKey, late, idb, cache, used, sessions>>

\* getSessionKey.
Derive(c) ==
    /\ call[c].at = "ready"
    /\ cache' = [cache EXCEPT ![PageOf[c]][call[c].for] = call[c].key]
    /\ call' = [call EXCEPT ![c] = Idle]
    /\ UNCHANGED <<userKey, late, idb, used, dropped, sessions>>

CallsOf(p) == {c \in Call : PageOf[c] = p}
InHand(c) == call[c].at \in {"made", "put"}

\* A page is closed or reloaded, whatever its calls were doing.
Close(p) ==
    /\ "close" \in Faults
    /\ LET lost == {call[c].key : c \in {d \in CallsOf(p) : InHand(d)}}
           mid  == {call[c].key : c \in {d \in CallsOf(p) : call[d].at = "made"}}
       IN  /\ dropped' = dropped \cup lost
           /\ \E half \in SUBSET mid : late' = late \cup half
    /\ call' = [c \in Call |-> IF PageOf[c] = p THEN Idle ELSE call[c]]
    /\ cache' = [cache EXCEPT ![p] = [s \in Session |-> NoKey]]
    /\ UNCHANGED <<userKey, idb, used, sessions>>

----------------------------------------------------------------------------
\* The sessions

\* handleCreateSession: the user's row was read by requireAuth, before
\* anything else, and what it held is sent.
Create(s) ==
    /\ life[s] = "none"
    /\ life' = [life EXCEPT ![s] = "created"]
    /\ sent' = [sent EXCEPT ![s] = userKey]
    /\ UNCHANGED <<userKey, late, browsers, agentKey, eph, tty>>

\* DeriveSessionKey gives a key when the parsed one is an *ecdh.PublicKey.
SessionKey(k, type) == IF type = "ecdh" THEN k ELSE NoKey

\* Mutation: the ephemeral key is announced before the derivation.
StartAnnounces(s) ==
    /\ life[s] = "created"
    /\ life' = [life EXCEPT ![s] = "running"]
    /\ \E type \in Parsed :
           /\ agentKey' = [agentKey EXCEPT ![s] = SessionKey(sent[s], type)]
           /\ eph' = [eph EXCEPT ![s] = IF sent[s] = NoKey THEN "none" ELSE "sent"]
    /\ UNCHANGED <<userKey, late, browsers, sent, tty>>

\* sessionPool.start: without a key, or when the derivation fails, the
\* session runs unencrypted and no ephemeral key is announced.
Start(s) ==
    /\ life[s] = "created"
    /\ life' = [life EXCEPT ![s] = "running"]
    /\ \E type \in Parsed :
           LET k == SessionKey(sent[s], type)
           IN  /\ agentKey' = [agentKey EXCEPT ![s] = k]
               /\ eph' = [eph EXCEPT ![s] = IF k = NoKey THEN "none" ELSE "sent"]
    /\ UNCHANGED <<userKey, late, browsers, sent, tty>>

\* session_started: the row gets the ephemeral key and the browsers are told,
Announce(s) ==
    /\ eph[s] = "sent"
    /\ eph' = [eph EXCEPT ![s] = "stored"]
    /\ UNCHANGED <<userKey, late, browsers, life, sent, agentKey, tty>>

\* or the report is lost, and nothing sends the key again.
LoseReport(s) ==
    /\ "lost" \in Faults
    /\ eph[s] = "sent"
    /\ eph' = [eph EXCEPT ![s] = "lost"]
    /\ UNCHANGED <<userKey, late, browsers, life, sent, agentKey, tty>>

\* What the PTY gets of input sealed with k (or not, if there is no key) when
\* the agent has a: an agent with a key writes nothing it cannot open.
Written(k, a) ==
    IF a = NoKey THEN {IF k = NoKey THEN "typed" ELSE "ciphertext"}
    ELSE IF a = k THEN {"typed"} ELSE {}

\* The user types on a page attached to the session.  Neither key changes
\* between the page and the PTY.
Type(p, s) ==
    /\ life[s] = "running"
    /\ tty' = [tty EXCEPT ![s] = @ \cup Written(cache[p][s], agentKey[s])]
    /\ UNCHANGED <<userKey, late, browsers, life, sent, agentKey, eph>>

\* The process ends: the session leaves the pool and its key is zeroed.
Exit(s) ==
    /\ life[s] = "running"
    /\ life' = [life EXCEPT ![s] = "ended"]
    /\ agentKey' = [agentKey EXCEPT ![s] = NoKey]
    /\ UNCHANGED <<userKey, late, browsers, sent, eph, tty>>

Setup ==
    \/ \E c \in Call :
           \/ \E s \in Session \cup {NoSession} :
                  Found(c, s) \/ \E k \in Key : Generate(c, s, k)
           \/ Put(c) \/ PutUnheard(c) \/ PutFails(c) \/ Store(c) \/ StoreFails(c)
           \/ Derive(c)
    \/ \E k \in late : LatePut(k)
    \/ \E p \in Page : Close(p)

Life ==
    \E s \in Session :
        \/ Create(s) \/ Start(s) \/ Announce(s) \/ LoseReport(s) \/ Exit(s)
        \/ \E p \in Page : Type(p, s)

Next == Setup \/ Life

Spec == Init /\ [][Next]_vars

----------------------------------------------------------------------------
\* Properties

TypeOK ==
    /\ userKey \in Key \cup {NoKey}
    /\ late \in SUBSET Key
    /\ idb \in [Browser -> Key \cup {NoKey}]
    /\ call \in [Call -> [at : {"idle", "made", "put", "ready"},
                          key : Key \cup {NoKey}, for : Session \cup {NoSession}]]
    /\ cache \in [Page -> [Session -> Key \cup {NoKey}]]
    /\ used \in SUBSET Key
    /\ dropped \in SUBSET Key
    /\ life \in [Session -> {"none", "created", "running", "ended"}]
    /\ sent \in [Session -> Key \cup {NoKey}]
    /\ agentKey \in [Session -> Key \cup {NoKey}]
    /\ eph \in [Session -> {"none", "sent", "stored", "lost"}]
    /\ tty \in [Session -> SUBSET {"typed", "ciphertext"}]

\* writeStdin "drop the frame rather than write garbage to the PTY": no session
\* is ever written ciphertext, although page and agent come to their keys
\* separately and the agent's derivation may fail.
StdinIsTyped == \A s \in Session : "ciphertext" \notin tty[s]

\* The public key sessions are encrypted for has its private half in a browser,
\* or in a call about to store it, unless a second call of the same browser
\* replaced it, its page was closed, or IndexedDB refused it: a PUT that is not
\* answered, and is executed late or never, loses no key, and neither does an
\* update that fails.
KeyIsHeld ==
    \A k \in ({userKey} \cup late) \ {NoKey} :
        \/ \E b \in Browser : idb[b] = k
        \/ \E c \in Call : InHand(c) /\ call[c].key = k
        \/ k \in dropped

\* No page works with a pair that its browser has not stored: a page of the
\* browser whose pair the agent used opens the session, even when the call that
\* derived the key raced with another one, unless that one replaced the pair.
CachedWasStored ==
    \A p \in Page, s \in Session :
        cache[p][s] # NoKey =>
            idb[BrowserOf[p]] # NoKey /\ (cache[p][s] = idb[BrowserOf[p]] \/ cache[p][s] \in dropped)

\* session.go:65 "If msg.UserE2EPubKey is set, an ephemeral keypair is generated
\* and a shared AES-256-GCM session key is derived; all PTY output and stdin is
\* then encrypted."
EncryptedIfKey ==
    \A s \in Session : life[s] = "running" /\ sent[s] # NoKey => agentKey[s] = sent[s]
================================================================================
