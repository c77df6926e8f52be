-------------------------------- MODULE Enrolment --------------------------------
(***************************************************************************)
(* How a machine becomes a host and ceases to be one: the device flow and  *)
(* the invite flow of `agentcockpit install`, the API calls behind them,   *)
(* the configuration file and the daemon that the system service runs from *)
(* it, and the removal of a host from the dashboard.                       *)
(*                                                                         *)
(* A host stands for its own token.  An API call is cut at its database    *)
(* statements.  A device code or an invite is used by one machine, and     *)
(* each host record is made once.                                          *)
(***************************************************************************)
EXTENDS Naturals, FiniteSets

CONSTANTS
    Machine, \* machines where the CLI and the daemon run
    Code,    \* device codes
    Invite,  \* invite tokens
    Host,    \* host records, and the tokens that go with them
    Call,    \* goroutines that serve API calls
    None,    \* no host, code, invite or call
    Faults   \* "restart", "lost", "cancel": the faults that may happen

ASSUME NoneAssumption == None \notin Machine \cup Code \cup Invite \cup Host \cup Call
ASSUME DisjointAssumption == Code \cap Invite = {}
ASSUME FaultsAssumption == Faults \subseteq {"restart", "lost", "cancel"}

VARIABLES
    device,  \* device_authorizations: "none", "pending" or "authorized"
    stored,  \* its host_token column
    invites, \* Server.hostInvites
    expired, \* codes and invites whose 15 minutes are over
    made,    \* invites ever generated
    host,    \* hosts: "none", "live" or "deleted"
    origin,  \* history: the code or invite each host was created for
    doomed,  \* history: hosts whose deletion was begun
    cut,     \* history: codes one of whose polls lost its connection
    call,    \* the API calls under way
    cli,     \* the install command on each machine
    config,  \* the token in agent.json
    service, \* machines where the service is installed
    daemon,  \* the token the running daemon has read
    up,      \* machines whose daemon is connected
    told     \* machines with a host_removed under way

vars == <<device, stored, invites, expired, made, host, origin, doomed, cut,
          call, cli, config, service, daemon, up, told>>

codes   == <<device, stored, invites, expired, made>>
hosts   == <<host, origin, doomed, cut>>
machine == <<config, service, daemon, up, told>>

NoCall == [at |-> "idle", what |-> None, m |-> None, h |-> None]
NoCli  == [at |-> "idle", what |-> None, p |-> None]

Init ==
    /\ device = [d \in Code |-> "none"]
    /\ stored = [d \in Code |-> None]
    /\ invites = {}
    /\ expired = {}
    /\ made = {}
    /\ host = [h \in Host |-> "none"]
    /\ origin = [h \in Host |-> None]
    /\ doomed = {}
    /\ cut = {}
    /\ call = [p \in Call |-> NoCall]
    /\ cli = [m \in Machine |-> NoCli]
    /\ config = [m \in Machine |-> None]
    /\ service = {}
    /\ daemon = [m \in Machine |-> None]
    /\ up = {}
    /\ told = {}

SetCall(p, at, what, m, h) ==
    call' = [call EXCEPT ![p] = [at |-> at, what |-> what, m |-> m, h |-> h]]

Done(p) == call' = [call EXCEPT ![p] = NoCall]

SetCli(m, at, what, p) ==
    cli' = [cli EXCEPT ![m] = [at |-> at, what |-> what, p |-> p]]

\* CreateHost, for a code or an invite.
NewHost(h, x) ==
    /\ host[h] = "none"
    /\ host' = [host EXCEPT ![h] = "live"]
    /\ origin' = [origin EXCEPT ![h] = x]
    /\ UNCHANGED <<doomed, cut>>

\* Bound: a call that will create a host begins only while a record is left
\* for it; the relay has no such limit.
HostsLeft ==
    Cardinality({p \in Call : call[p].at \in {"authorize", "claimed"}})
        < Cardinality({h \in Host : host[h] = "none"})

\* The client of p still waits for its answer.
Waiting(p, m) == cli[m].at = "waiting" /\ cli[m].p = p

\* The answer h reaches the machine that waits for it, which writes
\* agent.json; nobody else gets it.
Respond(p, m, h) ==
    IF Waiting(p, m)
      THEN SetCli(m, "installing", cli[m].what, None) /\ config' = [config EXCEPT ![m] = h]
      ELSE UNCHANGED <<cli, config>>

\* The CLI is answered that there is no token yet, and asks again.
PollAgain(p, m) ==
    IF Waiting(p, m) THEN SetCli(m, "polling", cli[m].what, None) ELSE UNCHANGED cli

----------------------------------------------------------------------------
\* The device flow

\* Mutation: a code that waits for its authorization is given out again.
RequestPending(m, d) ==
    /\ cli[m].at = "idle"
    /\ config[m] = None
    /\ device[d] # "authorized"
    /\ device' = [device EXCEPT ![d] = "pending"]
    /\ SetCli(m, "polling", d, None)
    /\ UNCHANGED <<stored, invites, expired, made, hosts, call, machine>>

\* handleDeviceRequest: only a machine without agent.json asks.
RequestDevice(m, d) ==
    /\ cli[m].at = "idle"
    /\ config[m] = None
    /\ device[d] = "none"
    /\ device' = [device EXCEPT ![d] = "pending"]
    /\ SetCli(m, "polling", d, None)
    /\ UNCHANGED <<stored, invites, expired, made, hosts, call, machine>>

\* Mutation: the code is authorized with a token before its host exists.
AuthorizeFirst(p, d) ==
    /\ call[p].at = "idle" /\ HostsLeft
    /\ device[d] = "pending"
    /\ d \notin expired
    /\ \E h \in Host :
         /\ host[h] = "none"
         /\ device' = [device EXCEPT ![d] = "authorized"]
         /\ stored' = [stored EXCEPT ![d] = h]
    /\ SetCall(p, "authorize", d, None, None)
    /\ UNCHANGED <<invites, expired, made, hosts, cli, machine>>

\* handleDeviceAuthorize: the code is looked up,
FindCode(p, d) ==
    /\ call[p].at = "idle" /\ HostsLeft
    /\ device[d] = "pending"
    /\ d \notin expired
    /\ SetCall(p, "authorize", d, None, None)
    /\ UNCHANGED <<codes, hosts, cli, machine>>

\* a host is created for it,
CreateForCode(p, h) ==
    /\ call[p].at = "authorize"
    /\ NewHost(h, call[p].what)
    /\ SetCall(p, "created", call[p].what, None, h)
    /\ UNCHANGED <<codes, cli, machine>>

\* Mutation: the update has no condition on authorized_at.
AuthorizeAlways(p) ==
    /\ call[p].at = "created"
    /\ device' = [device EXCEPT ![call[p].what] = "authorized"]
    /\ stored' = [stored EXCEPT ![call[p].what] = call[p].h]
    /\ Done(p)
    /\ UNCHANGED <<invites, expired, made, hosts, cli, machine>>

\* and AuthorizeDevice stores its token, unless the code was authorized
\* meanwhile: then nothing is stored and nobody is told.
AuthorizeDevice(p) ==
    LET d == call[p].what IN
    /\ call[p].at = "created"
    /\ device' = [device EXCEPT ![d] = "authorized"]
    /\ stored' = IF device[d] = "pending" THEN [stored EXCEPT ![d] = call[p].h] ELSE stored
    /\ Done(p)
    /\ UNCHANGED <<invites, expired, made, hosts, cli, machine>>

\* pollDeviceToken, and the first query of handleDevicePoll.  A code that is
\* pending is answered at once; the CLI asks again.
Poll(p, m) ==
    /\ call[p].at = "idle"
    /\ cli[m].at = "polling"
    /\ cli[m].what \notin expired
    /\ device[cli[m].what] = "authorized"
    /\ SetCall(p, "poll", cli[m].what, m, None)
    /\ SetCli(m, "waiting", cli[m].what, p)
    /\ UNCHANGED <<codes, hosts, machine>>

\* ClaimDeviceToken: the token is read; without one the answer is 410 and
\* the CLI asks again.
ReadToken(p) ==
    /\ call[p].at = "poll"
    /\ IF stored[call[p].what] = None
         THEN /\ Done(p)
              /\ PollAgain(p, call[p].m)
         ELSE /\ SetCall(p, "claim", call[p].what, call[p].m, stored[call[p].what])
              /\ UNCHANGED cli
    /\ UNCHANGED <<codes, hosts, machine>>

\* Mutation: the call does not answer once it has cleared the token.
ClearSilently(p) ==
    /\ call[p].at = "claim"
    /\ stored' = [stored EXCEPT ![call[p].what] = None]
    /\ PollAgain(p, call[p].m)
    /\ Done(p)
    /\ UNCHANGED <<device, invites, expired, made, hosts, machine>>

\* The column is cleared and the token is in the answer.
ClearToken(p) ==
    /\ call[p].at = "claim"
    /\ stored' = [stored EXCEPT ![call[p].what] = None]
    /\ Respond(p, call[p].m, call[p].h)
    /\ Done(p)
    /\ UNCHANGED <<device, invites, expired, made, hosts, service, daemon, up, told>>

\* The command's own deadline is that of the code.
GiveUp(m) ==
    /\ cli[m].at = "polling"
    /\ cli[m].what \in expired
    /\ SetCli(m, "idle", None, None)
    /\ UNCHANGED <<codes, hosts, call, machine>>

----------------------------------------------------------------------------
\* The invite flow

HostInvite(i) ==
    /\ i \notin made
    /\ made' = made \cup {i}
    /\ invites' = invites \cup {i}
    /\ UNCHANGED <<device, stored, expired, hosts, call, cli, machine>>

\* Mutation: the invite is read and not deleted.
ClaimKeeps(p, m, i) ==
    /\ call[p].at = "idle" /\ HostsLeft
    /\ cli[m].at = "idle"
    /\ i \in invites \ expired
    /\ SetCall(p, "claimed", i, m, None)
    /\ SetCli(m, "waiting", i, p)
    /\ UNCHANGED <<codes, hosts, machine>>

\* handleHostClaim: LoadAndDelete; an expired invite is answered 410.
ClaimInvite(p, m, i) ==
    /\ call[p].at = "idle" /\ HostsLeft
    /\ cli[m].at = "idle"
    /\ i \in invites
    /\ invites' = invites \ {i}
    /\ IF i \in expired
         THEN UNCHANGED <<call, cli>>
         ELSE SetCall(p, "claimed", i, m, None) /\ SetCli(m, "waiting", i, p)
    /\ UNCHANGED <<device, stored, expired, made, hosts, machine>>

CreateForInvite(p, h) ==
    /\ call[p].at = "claimed"
    /\ NewHost(h, call[p].what)
    /\ Respond(p, call[p].m, h)
    /\ Done(p)
    /\ UNCHANGED <<codes, service, daemon, up, told>>

----------------------------------------------------------------------------
\* The service and the daemon

\* installService, and the service manager: whatever daemon runs is replaced
\* by one that reads the configuration that is there; without agent.json it
\* ends at once.
Serve(m) ==
    /\ service' = service \cup {m}
    /\ daemon' = [daemon EXCEPT ![m] = config[m]]
    /\ up' = up \ {m}
    /\ told' = told \ {m}

InstallService(m) ==
    /\ cli[m].at = "installing"
    /\ SetCli(m, "idle", None, None)
    /\ Serve(m)
    /\ UNCHANGED <<codes, hosts, call, config>>

\* A second `install` without an invite skips the authorization.
Reinstall(m) ==
    /\ cli[m].at = "idle"
    /\ config[m] # None
    /\ Serve(m)
    /\ UNCHANGED <<codes, hosts, call, cli, config>>

\* `uninstall` leaves agent.json where it is.
Uninstall(m) ==
    /\ m \in service
    /\ service' = service \ {m}
    /\ daemon' = [daemon EXCEPT ![m] = None]
    /\ up' = up \ {m}
    /\ told' = told \ {m}
    /\ UNCHANGED <<codes, hosts, call, cli, config>>

\* The service manager starts a daemon that ended, even between the writing
\* of a new agent.json and the end of the command that wrote it.
StartDaemon(m) ==
    /\ m \in service
    /\ daemon[m] = None
    /\ config[m] # None
    /\ daemon' = [daemon EXCEPT ![m] = config[m]]
    /\ UNCHANGED <<codes, hosts, call, cli, config, service, up, told>>

\* Mutation: any token that has a row is accepted.
ConnectAny(m) ==
    /\ m \notin up
    /\ daemon[m] # None
    /\ host[daemon[m]] # "none"
    /\ up' = up \cup {m}
    /\ UNCHANGED <<codes, hosts, call, cli, config, service, daemon, told>>

\* handleHostWS accepts the token of a host that is not deleted.
Connect(m) ==
    /\ m \notin up
    /\ daemon[m] # None
    /\ host[daemon[m]] = "live"
    /\ up' = up \cup {m}
    /\ UNCHANGED <<codes, hosts, call, cli, config, service, daemon, told>>

\* The connection drops, with what was under way on it.
Disconnect(m) ==
    /\ m \in up
    /\ up' = up \ {m}
    /\ told' = told \ {m}
    /\ UNCHANGED <<codes, hosts, call, cli, config, service, daemon>>

\* host_removed: the daemon removes agent.json, whatever token it holds, and
\* stops.
HostRemoved(m) ==
    /\ m \in told
    /\ config' = [config EXCEPT ![m] = None]
    /\ daemon' = [daemon EXCEPT ![m] = None]
    /\ up' = up \ {m}
    /\ told' = told \ {m}
    /\ UNCHANGED <<codes, hosts, call, cli, service>>

----------------------------------------------------------------------------
\* handleDeleteHost

\* Mutation: every connected daemon is told.
DeleteTellsAll(p, h) ==
    /\ call[p].at = "idle"
    /\ host[h] = "live"
    /\ told' = told \cup up
    /\ doomed' = doomed \cup {h}
    /\ SetCall(p, "removing", None, None, h)
    /\ UNCHANGED <<codes, host, origin, cut, cli, config, service, daemon, up>>

\* The daemon is told if it is connected,
DeleteHost(p, h) ==
    /\ call[p].at = "idle"
    /\ host[h] = "live"
    /\ told' = told \cup {m \in up : daemon[m] = h}
    /\ doomed' = doomed \cup {h}
    /\ SetCall(p, "removing", None, None, h)
    /\ UNCHANGED <<codes, host, origin, cut, cli, config, service, daemon, up>>

\* Mutation: the row is marked as removed.
FinishDeleteAsRemoved(p) ==
    /\ call[p].at = "removing"
    /\ host' = [host EXCEPT ![call[p].h] = "removed"]
    /\ Done(p)
    /\ UNCHANGED <<codes, origin, doomed, cut, cli, machine>>

\* and then the row is deleted, with those of its sessions.
FinishDelete(p) ==
    /\ call[p].at = "removing"
    /\ host' = [host EXCEPT ![call[p].h] = "deleted"]
    /\ Done(p)
    /\ UNCHANGED <<codes, origin, doomed, cut, cli, machine>>

----------------------------------------------------------------------------
\* Time and faults

\* Fifteen minutes have passed.
Expire(x) ==
    /\ \/ x \in Code /\ device[x] # "none"
       \/ x \in invites
    /\ x \notin expired
    /\ expired' = expired \cup {x}
    /\ UNCHANGED <<device, stored, invites, made, hosts, call, cli, machine>>

\* The CLI's HTTP request breaks: a poll is repeated, a claim is an error.
LoseRequest(m) ==
    /\ "lost" \in Faults
    /\ cli[m].at = "waiting"
    /\ IF cli[m].what \in Code
         THEN SetCli(m, "polling", cli[m].what, None) /\ cut' = cut \cup {cli[m].what}
         ELSE SetCli(m, "idle", None, None) /\ UNCHANGED cut
    /\ UNCHANGED <<codes, host, origin, doomed, call, machine>>

\* The client of a call is gone and its context is cancelled, or the
\* database fails: the next statement returns an error.
CallFails(p) ==
    /\ "cancel" \in Faults
    /\ call[p].at # "idle"
    /\ Done(p)
    /\ cli' = [m \in Machine |->
                 IF ~Waiting(p, m) THEN cli[m]
                 ELSE IF cli[m].what \in Code
                   THEN [at |-> "polling", what |-> cli[m].what, p |-> None]
                   ELSE NoCli]
    /\ UNCHANGED <<codes, hosts, machine>>

\* The relay stops and starts again: the invites were in memory only.
RestartRelay ==
    /\ "restart" \in Faults
    /\ invites' = {}
    /\ call' = [p \in Call |-> NoCall]
    /\ cli' = [m \in Machine |->
                 IF cli[m].at # "waiting" THEN cli[m]
                 ELSE IF cli[m].what \in Code
                   THEN [at |-> "polling", what |-> cli[m].what, p |-> None]
                   ELSE NoCli]
    /\ up' = {}
    /\ told' = {}
    /\ UNCHANGED <<device, stored, expired, made, hosts, config, service, daemon>>

Api(p) ==
    \/ \E d \in Code : FindCode(p, d)
    \/ \E h \in Host : CreateForCode(p, h) \/ CreateForInvite(p, h) \/ DeleteHost(p, h)
    \/ \E m \in Machine : Poll(p, m) \/ \E i \in Invite : ClaimInvite(p, m, i)
    \/ AuthorizeDevice(p) \/ ReadToken(p) \/ ClearToken(p) \/ FinishDelete(p)

Local(m) ==
    \/ \E d \in Code : RequestDevice(m, d)
    \/ GiveUp(m) \/ InstallService(m) \/ Reinstall(m) \/ Uninstall(m)
    \/ StartDaemon(m)
    \/ Connect(m) \/ Disconnect(m) \/ HostRemoved(m)

Next ==
    \/ \E p \in Call : Api(p) \/ CallFails(p)
    \/ \E m \in Machine : Local(m) \/ LoseRequest(m)
    \/ \E i \in Invite : HostInvite(i)
    \/ \E x \in Code \cup Invite : Expire(x)
    \/ RestartRelay

Spec == Init /\ [][Next]_vars

\* Calls that are under way go on, and the CLI polls.  The calls of a poll are
\* two short queries: faults that come again and again do not hit every one of
\* them.  Requests, daemons, time and faults are free.
Fairness ==
    /\ \A p \in Call :
         /\ WF_vars(\/ \E h \in Host : CreateForCode(p, h) \/ CreateForInvite(p, h)
                    \/ AuthorizeDevice(p) \/ FinishDelete(p))
         /\ SF_vars(ReadToken(p)) /\ SF_vars(ClearToken(p))
    /\ \A m \in Machine : SF_vars(\E p \in Call : Poll(p, m))

FairSpec == Spec /\ Fairness

----------------------------------------------------------------------------
\* Properties

CallAt == {"idle", "authorize", "created", "poll", "claim", "claimed", "removing"}
CliAt  == {"idle", "polling", "waiting", "installing"}

TypeOK ==
    /\ device \in [Code -> {"none", "pending", "authorized"}]
    /\ stored \in [Code -> Host \cup {None}]
    /\ invites \in SUBSET Invite
    /\ expired \in SUBSET (Code \cup Invite)
    /\ made \in SUBSET Invite
    /\ host \in [Host -> {"none", "live", "deleted"}]
    /\ origin \in [Host -> Code \cup Invite \cup {None}]
    /\ doomed \in SUBSET Host
    /\ cut \in SUBSET Code
    /\ call \in [Call -> [at : CallAt, what : Code \cup Invite \cup {None},
                          m : Machine \cup {None}, h : Host \cup {None}]]
    /\ cli \in [Machine -> [at : CliAt, what : Code \cup Invite \cup {None},
                            p : Call \cup {None}]]
    /\ config \in [Machine -> Host \cup {None}]
    /\ service \in SUBSET Machine
    /\ daemon \in [Machine -> Host \cup {None}]
    /\ up \in SUBSET Machine
    /\ told \in SUBSET Machine

\* No machine is given a token the relay does not know: whatever step of the
\* flow fails, a token that was stored, written or read has a host row.
TokensAreKnown ==
    /\ \A d \in Code : stored[d] # None => host[stored[d]] # "none"
    /\ \A m \in Machine : /\ config[m] # None => host[config[m]] # "none"
                          /\ daemon[m] # None => host[daemon[m]] # "none"

\* An invite makes at most one host, however many machines claim it at once
\* and whatever fails.
InviteMakesOne ==
    \A i \in Invite : Cardinality({h \in Host : origin[h] = i}) <= 1

\* A device code that was authorized keeps its token until it is claimed,
\* and then has none again: a second authorization never replaces it.
AuthorizedOnce ==
    [][\A d \in Code : device[d] = "authorized" => stored'[d] \in {stored[d], None}]_vars

\* Only the daemon of a host a user deletes is told to remove itself: a
\* host_removed never reaches the daemon of another host, whatever the
\* machine is installed as while the message is under way.
ToldIsDoomed == \A m \in told : daemon[m] \in doomed

\* No two machines have one token, in their files or in their daemons, although
\* two polls may read it, answers are lost and calls go on for clients that
\* are gone: two daemons with one token would be one host for the relay.
OneMachinePerToken ==
    \A m \in Machine : \A n \in Machine \ {m} :
        {config[m], daemon[m]} \cap {config[n], daemon[n]} \subseteq {None}

Abstract == INSTANCE Membership WITH
    Ticket <- Code \cup Invite,
    Once   <- Invite,
    member <- [h \in Host |-> IF h \in doomed /\ host[h] = "live" THEN "leaving" ELSE host[h]],
    via    <- origin,
    kept   <- config,
    run    <- daemon,
    linked <- up

\* The API calls, commands and daemons, whichever of their steps fail, implement
\* Membership: who is a host, who has its token, who connects and who leaves.
ImplementsMembership == Abstract!Spec

\* A command that polls for an authorized code gets its token however often
\* calls fail and the relay restarts, unless the code expires first or the
\* answer to a poll is lost.
PollIsAnswered ==
    \A m \in Machine, d \in Code :
        (cli[m].at \in {"polling", "waiting"} /\ cli[m].what = d /\ device[d] = "authorized")
            ~> (cli[m].at = "installing" \/ d \in expired \cup cut)
============================================================================
