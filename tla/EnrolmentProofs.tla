----------------------------- MODULE EnrolmentProofs -----------------------------
(***************************************************************************)
(* What holds of Enrolment for any machines, codes, invites, hosts, calls  *)
(* and faults: TypeOK, TokensAreKnown, InviteMakesOne, ToldIsDoomed,       *)
(* OneMachinePerToken, the action property AuthorizedOnce, and that it     *)
(* implements Membership.  The inductive invariant IInv says what a call   *)
(* that is cut between two statements has in hand, and where an invite is: *)
(* in memory, with one call, or behind one host.  UseInv, which rests on   *)
(* it, follows a code or an invite from the machine that it is given to:   *)
(* its command, the calls that serve it, and the tokens of its hosts.      *)
(***************************************************************************)
EXTENDS Enrolment, FiniteSetTheorems, TLAPS

----------------------------------------------------------------------------
\* The inductive invariant

\* What a call under way refers to: its code or invite, its client, and a
\* host that has a row.
CallsRefer ==
    \A p \in Call :
        /\ call[p].at \in {"authorize", "created", "poll", "claim"} => call[p].what \in Code
        /\ call[p].at = "claimed" => call[p].what \in Invite
        /\ call[p].at \in {"poll", "claim", "claimed"} => call[p].m \in Machine
        /\ call[p].at \in {"created", "claim", "removing"} =>
              call[p].h \in Host /\ host[call[p].h] # "none"

\* A command polls for a code, and waits for a call that serves it.
ServesClient == {"poll", "claim", "claimed"}

CommandsRefer ==
    \A m \in Machine :
        /\ cli[m].at = "polling" => cli[m].what \in Code
        /\ cli[m].at = "waiting" =>
              /\ cli[m].p \in Call
              /\ call[cli[m].p].at \in ServesClient
              /\ call[cli[m].p].m = m
              /\ call[cli[m].p].what = cli[m].what

\* The calls that have taken the invite i, and the hosts made for it.
Takers(i) == {p \in Call : call[p].at = "claimed" /\ call[p].what = i}
HostsOf(i) == {h \in Host : origin[h] = i}

\* An invite is in memory, or with one call, or behind one host, and nowhere
\* before it was made.
InvitesOnce ==
    \A i \in Invite :
        /\ i \notin made => i \notin invites /\ Takers(i) = {} /\ HostsOf(i) = {}
        /\ i \in invites => Takers(i) = {} /\ HostsOf(i) = {}
        /\ Takers(i) # {} => HostsOf(i) = {}
        /\ \A p, q \in Takers(i) : p = q
        /\ \A g, h \in HostsOf(i) : g = h

IInv ==
    /\ TypeOK
    /\ CallsRefer
    /\ CommandsRefer
    /\ TokensAreKnown
    /\ InvitesOnce
    /\ ToldIsDoomed

----------------------------------------------------------------------------
\* The initial states satisfy the inductive invariant.
LEMMA InvInit == Init => IInv
<1> SUFFICES ASSUME Init PROVE IInv
    OBVIOUS
<1>1. TypeOK
    BY DEF Init, TypeOK, NoCall, NoCli, CallAt, CliAt
<1>2. CallsRefer /\ CommandsRefer /\ TokensAreKnown /\ ToldIsDoomed
    BY DEF Init, CallsRefer, CommandsRefer, TokensAreKnown, ToldIsDoomed, NoCall, NoCli
<1>3. InvitesOnce
    BY NoneAssumption DEF Init, InvitesOnce, Takers, HostsOf, NoCall
<1> QED
    BY <1>1, <1>2, <1>3 DEF IInv

----------------------------------------------------------------------------
\* What the shared operators do to the types

CallStates == [at : CallAt, what : Code \cup Invite \cup {None},
               m : Machine \cup {None}, h : Host \cup {None}]
CliStates  == [at : CliAt, what : Code \cup Invite \cup {None}, p : Call \cup {None}]

\* A call that goes on, or ends, is in a state of a call.
LEMMA SetCallType ==
    ASSUME TypeOK, NEW p \in Call, NEW at \in CallAt, NEW what \in Code \cup Invite \cup {None},
           NEW m \in Machine \cup {None}, NEW h \in Host \cup {None},
           SetCall(p, at, what, m, h)
    PROVE  call' \in [Call -> CallStates]
    BY DEF TypeOK, SetCall, CallStates

\* A call that ended is in a state of a call.
LEMMA DoneType == ASSUME TypeOK, NEW p \in Call, Done(p) PROVE call' \in [Call -> CallStates]
    BY DEF TypeOK, Done, NoCall, CallStates, CallAt

\* A command that goes on is in a state of a command.
LEMMA SetCliType ==
    ASSUME TypeOK, NEW m \in Machine, NEW at \in CliAt, NEW what \in Code \cup Invite \cup {None},
           NEW p \in Call \cup {None}, SetCli(m, at, what, p)
    PROVE  cli' \in [Machine -> CliStates]
    BY DEF TypeOK, SetCli, CliStates

\* An answer leaves the command in such a state, and a host's token, if
\* anything, in its file.
LEMMA RespondType ==
    ASSUME TypeOK, NEW p \in Call, NEW m \in Machine, NEW h \in Host, Respond(p, m, h)
    PROVE  /\ cli' \in [Machine -> CliStates]
           /\ config' \in [Machine -> Host \cup {None}]
           /\ \A n \in Machine : config'[n] \in {config[n], h}
<1>1. CASE Waiting(p, m)
    <2>1. SetCli(m, "installing", cli[m].what, None) /\ config' = [config EXCEPT ![m] = h]
        BY <1>1 DEF Respond
    <2>2. cli[m].what \in Code \cup Invite \cup {None} /\ "installing" \in CliAt
        BY DEF TypeOK, CliAt
    <2> QED
        BY <2>1, <2>2, SetCliType DEF TypeOK
<1>2. CASE ~Waiting(p, m)
    BY <1>2 DEF Respond, TypeOK, CliStates
<1> QED
    BY <1>1, <1>2

\* A poll that comes back empty leaves the command polling.
LEMMA PollAgainType ==
    ASSUME TypeOK, NEW p \in Call, NEW m \in Machine, PollAgain(p, m)
    PROVE  cli' \in [Machine -> CliStates]
<1>1. cli[m].what \in Code \cup Invite \cup {None} /\ "polling" \in CliAt
    BY DEF TypeOK, CliAt
<1> QED
    BY <1>1, SetCliType DEF PollAgain, TypeOK, CliStates

\* A new host keeps the types of the hosts, and every row that is there.
LEMMA NewHostType ==
    ASSUME TypeOK, NEW h \in Host, NEW x \in Code \cup Invite, NewHost(h, x)
    PROVE  /\ host' \in [Host -> {"none", "live", "deleted"}]
           /\ origin' \in [Host -> Code \cup Invite \cup {None}]
           /\ \A g \in Host : host[g] # "none" => host'[g] # "none"
           /\ host'[h] # "none"
    BY DEF TypeOK, NewHost

----------------------------------------------------------------------------
\* Every step of an API call keeps the types.
LEMMA ApiType == ASSUME TypeOK, CallsRefer, NEW p \in Call, Api(p) PROVE TypeOK'
<1> USE DEF codes, hosts, machine
<1>1. ASSUME NEW d \in Code, FindCode(p, d) PROVE TypeOK'
    <2>1. call' \in [Call -> CallStates]
        BY <1>1, SetCallType DEF FindCode, CallAt
    <2> QED
        BY <1>1, <2>1 DEF FindCode, TypeOK, CallStates
<1>2. ASSUME NEW h \in Host, CreateForCode(p, h) PROVE TypeOK'
    <2>1. call[p].what \in Code
        BY <1>2 DEF CreateForCode, CallsRefer
    <2>2. call' \in [Call -> CallStates]
        BY <1>2, <2>1, SetCallType DEF CreateForCode, CallAt
    <2>3. host' \in [Host -> {"none", "live", "deleted"}]
          /\ origin' \in [Host -> Code \cup Invite \cup {None}]
        BY <1>2, <2>1, NewHostType DEF CreateForCode
    <2> QED
        BY <1>2, <2>2, <2>3 DEF CreateForCode, NewHost, TypeOK, CallStates
<1>3. ASSUME NEW h \in Host, CreateForInvite(p, h) PROVE TypeOK'
    <2>1. call[p].what \in Invite /\ call[p].m \in Machine
        BY <1>3 DEF CreateForInvite, CallsRefer
    <2>2. call' \in [Call -> CallStates]
        BY <1>3, DoneType DEF CreateForInvite
    <2>3. host' \in [Host -> {"none", "live", "deleted"}]
          /\ origin' \in [Host -> Code \cup Invite \cup {None}]
        BY <1>3, <2>1, NewHostType DEF CreateForInvite
    <2>4. cli' \in [Machine -> CliStates] /\ config' \in [Machine -> Host \cup {None}]
        BY <1>3, <2>1, RespondType DEF CreateForInvite
    <2> QED
        BY <1>3, <2>2, <2>3, <2>4 DEF CreateForInvite, NewHost, TypeOK, CallStates, CliStates
<1>4. ASSUME NEW h \in Host, DeleteHost(p, h) PROVE TypeOK'
    <2>1. call' \in [Call -> CallStates]
        BY <1>4, SetCallType DEF DeleteHost, CallAt
    <2> QED
        BY <1>4, <2>1 DEF DeleteHost, TypeOK, CallStates
<1>5. ASSUME NEW m \in Machine, Poll(p, m) PROVE TypeOK'
    <2>1. cli[m].what \in Code \cup Invite \cup {None}
        BY DEF TypeOK
    <2>2. call' \in [Call -> CallStates]
        BY <1>5, <2>1, SetCallType DEF Poll, CallAt
    <2>3. cli' \in [Machine -> CliStates]
        BY <1>5, <2>1, SetCliType DEF Poll, CliAt
    <2> QED
        BY <1>5, <2>2, <2>3 DEF Poll, TypeOK, CallStates, CliStates
<1>6. ASSUME NEW m \in Machine, NEW i \in Invite, ClaimInvite(p, m, i) PROVE TypeOK'
    <2>1. call' \in [Call -> CallStates]
        BY <1>6, SetCallType DEF ClaimInvite, CallAt, TypeOK, CallStates
    <2>2. cli' \in [Machine -> CliStates]
        BY <1>6, SetCliType DEF ClaimInvite, CliAt, TypeOK, CliStates
    <2> QED
        BY <1>6, <2>1, <2>2 DEF ClaimInvite, TypeOK, CallStates, CliStates
<1>7. CASE AuthorizeDevice(p)
    <2>1. call[p].what \in Code /\ call[p].h \in Host
        BY <1>7 DEF AuthorizeDevice, CallsRefer
    <2>2. call' \in [Call -> CallStates]
        BY <1>7, DoneType DEF AuthorizeDevice
    <2>3. stored' \in [Code -> Host \cup {None}]
        BY <1>7, <2>1 DEF AuthorizeDevice, TypeOK
    <2>4. device' \in [Code -> {"none", "pending", "authorized"}]
        BY <1>7, <2>1 DEF AuthorizeDevice, TypeOK
    <2> QED
        BY <1>7, <2>2, <2>3, <2>4 DEF AuthorizeDevice, TypeOK, CallStates
<1>8. CASE ReadToken(p)
    <2>1. call[p].what \in Code /\ call[p].m \in Machine
        BY <1>8 DEF ReadToken, CallsRefer
    <2>2. stored[call[p].what] \in Host \cup {None}
        BY <2>1 DEF TypeOK
    <2>3. call' \in [Call -> CallStates]
        BY <1>8, <2>1, <2>2, SetCallType, DoneType DEF ReadToken, CallAt
    <2>4. cli' \in [Machine -> CliStates]
        BY <1>8, <2>1, PollAgainType DEF ReadToken, TypeOK, CliStates
    <2> QED
        BY <1>8, <2>3, <2>4 DEF ReadToken, TypeOK, CallStates, CliStates
<1>9. CASE ClearToken(p)
    <2>1. call[p].what \in Code /\ call[p].m \in Machine /\ call[p].h \in Host
        BY <1>9 DEF ClearToken, CallsRefer
    <2>2. call' \in [Call -> CallStates]
        BY <1>9, DoneType DEF ClearToken
    <2>3. cli' \in [Machine -> CliStates] /\ config' \in [Machine -> Host \cup {None}]
        BY <1>9, <2>1, RespondType DEF ClearToken
    <2>4. stored' \in [Code -> Host \cup {None}]
        BY <1>9, <2>1 DEF ClearToken, TypeOK
    <2> QED
        BY <1>9, <2>2, <2>3, <2>4 DEF ClearToken, TypeOK, CallStates, CliStates
<1>10. CASE FinishDelete(p)
    <2>1. call' \in [Call -> CallStates]
        BY <1>10, DoneType DEF FinishDelete
    <2> QED
        BY <1>10, <2>1 DEF FinishDelete, TypeOK, CallStates
<1> QED
    BY <1>1, <1>2, <1>3, <1>4, <1>5, <1>6, <1>7, <1>8, <1>9, <1>10 DEF Api

\* Every step on a machine keeps the types.
LEMMA LocalType == ASSUME TypeOK, NEW m \in Machine, Local(m) PROVE TypeOK'
<1> USE DEF codes, hosts
<1>1. ASSUME NEW d \in Code, RequestDevice(m, d) PROVE TypeOK'
    <2>1. cli' \in [Machine -> CliStates]
        BY <1>1, SetCliType DEF RequestDevice, CliAt
    <2> QED
        BY <1>1, <2>1 DEF RequestDevice, TypeOK, CliStates, machine
<1>2. CASE GiveUp(m)
    <2>1. cli' \in [Machine -> CliStates]
        BY <1>2, SetCliType DEF GiveUp, CliAt
    <2> QED
        BY <1>2, <2>1 DEF GiveUp, TypeOK, CliStates, machine
<1>3. CASE InstallService(m)
    <2>1. cli' \in [Machine -> CliStates]
        BY <1>3, SetCliType DEF InstallService, CliAt
    <2> QED
        BY <1>3, <2>1 DEF InstallService, Serve, TypeOK, CliStates
<1>4. CASE Reinstall(m)
    BY <1>4 DEF Reinstall, Serve, TypeOK
<1>5. CASE Uninstall(m)
    BY <1>5 DEF Uninstall, TypeOK
<1>6. CASE StartDaemon(m)
    BY <1>6 DEF StartDaemon, TypeOK
<1>7. CASE Connect(m)
    BY <1>7 DEF Connect, TypeOK
<1>8. CASE Disconnect(m)
    BY <1>8 DEF Disconnect, TypeOK
<1>9. CASE HostRemoved(m)
    BY <1>9 DEF HostRemoved, TypeOK
<1> QED
    BY <1>1, <1>2, <1>3, <1>4, <1>5, <1>6, <1>7, <1>8, <1>9 DEF Local

\* Every step keeps the types.
LEMMA TypeStep == ASSUME TypeOK, CallsRefer, [Next]_vars PROVE TypeOK'
<1>1. ASSUME NEW p \in Call, Api(p) PROVE TypeOK'
    BY <1>1, ApiType
<1>2. ASSUME NEW p \in Call, CallFails(p) PROVE TypeOK'
    <2>1. call' \in [Call -> CallStates]
        BY <1>2, DoneType DEF CallFails
    <2>2. cli' \in [Machine -> CliStates]
        BY <1>2 DEF CallFails, TypeOK, CliStates, CliAt, NoCli
    <2> QED
        BY <1>2, <2>1, <2>2 DEF CallFails, TypeOK, CallStates, CliStates, codes, hosts, machine
<1>3. ASSUME NEW m \in Machine, Local(m) PROVE TypeOK'
    BY <1>3, LocalType
<1>4. ASSUME NEW m \in Machine, LoseRequest(m) PROVE TypeOK'
    <2>1. cli' \in [Machine -> CliStates]
        BY <1>4, SetCliType DEF LoseRequest, CliAt
    <2> QED
        BY <1>4, <2>1 DEF LoseRequest, TypeOK, CliStates, codes, machine
<1>5. ASSUME NEW i \in Invite, HostInvite(i) PROVE TypeOK'
    BY <1>5 DEF HostInvite, TypeOK, hosts, machine
<1>6. ASSUME NEW x \in Code \cup Invite, Expire(x) PROVE TypeOK'
    BY <1>6 DEF Expire, TypeOK, hosts, machine
<1>7. CASE RestartRelay
    <2>1. call' \in [Call -> CallStates]
        BY <1>7 DEF RestartRelay, NoCall, CallStates, CallAt
    <2>2. cli' \in [Machine -> CliStates]
        BY <1>7 DEF RestartRelay, TypeOK, CliStates, CliAt, NoCli
    <2> QED
        BY <1>7, <2>1, <2>2 DEF RestartRelay, TypeOK, CallStates, CliStates, hosts
<1>8. CASE UNCHANGED vars
    BY <1>8 DEF vars, TypeOK
<1> QED
    BY <1>1, <1>2, <1>3, <1>4, <1>5, <1>6, <1>7, <1>8 DEF Next

----------------------------------------------------------------------------
\* No step takes a host's row away.
LEMMA RowsStay ==
    ASSUME TypeOK, [Next]_vars
    PROVE  \A h \in Host : host[h] # "none" => host'[h] # "none"
<1>1. ASSUME NEW p \in Call, NEW h \in Host, CreateForCode(p, h) \/ CreateForInvite(p, h)
      PROVE  \A g \in Host : host[g] # "none" => host'[g] # "none"
    BY <1>1 DEF CreateForCode, CreateForInvite, NewHost, TypeOK
<1>2. ASSUME NEW p \in Call, FinishDelete(p)
      PROVE  \A g \in Host : host[g] # "none" => host'[g] # "none"
    BY <1>2 DEF FinishDelete, TypeOK
<1>3. CASE UNCHANGED host
    BY <1>3
<1>4. ASSUME NEW p \in Call, Api(p), ~FinishDelete(p),
             \A h \in Host : ~CreateForCode(p, h) /\ ~CreateForInvite(p, h)
      PROVE  UNCHANGED host
    BY <1>4 DEF Api, FindCode, DeleteHost, Poll, ClaimInvite, AuthorizeDevice, ReadToken,
                ClearToken, hosts
<1>5. ASSUME NEW m \in Machine, Local(m) PROVE UNCHANGED host
    BY <1>5 DEF Local, RequestDevice, GiveUp, InstallService, Reinstall, Uninstall, StartDaemon,
                Connect, Disconnect, HostRemoved, hosts
<1>6. ASSUME NEW p \in Call, CallFails(p) PROVE UNCHANGED host
    BY <1>6 DEF CallFails, hosts
<1>7. ASSUME NEW m \in Machine, LoseRequest(m) PROVE UNCHANGED host
    BY <1>7 DEF LoseRequest
<1>8. ASSUME NEW i \in Invite, HostInvite(i) PROVE UNCHANGED host
    BY <1>8 DEF HostInvite, hosts
<1>9. ASSUME NEW x \in Code \cup Invite, Expire(x) PROVE UNCHANGED host
    BY <1>9 DEF Expire, hosts
<1>10. CASE RestartRelay
    BY <1>10 DEF RestartRelay, hosts
<1> QED
    BY <1>1, <1>2, <1>3, <1>4, <1>5, <1>6, <1>7, <1>8, <1>9, <1>10 DEF Next, vars

\* A call that ends, or goes on to a state that refers to what it should,
\* leaves every call so.
LEMMA ReferFrame ==
    ASSUME TypeOK, CallsRefer, [Next]_vars, NEW p \in Call, NEW c,
           call' = [call EXCEPT ![p] = c],
           c.at \in {"authorize", "created", "poll", "claim"} => c.what \in Code,
           c.at = "claimed" => c.what \in Invite,
           c.at \in {"poll", "claim", "claimed"} => c.m \in Machine,
           c.at \in {"created", "claim", "removing"} => c.h \in Host /\ host'[c.h] # "none"
    PROVE  CallsRefer'
    BY RowsStay DEF CallsRefer, TypeOK

\* Every step of a call keeps what the calls refer to.
LEMMA ApiRefers ==
    ASSUME TypeOK, CallsRefer, CommandsRefer, TokensAreKnown, [Next]_vars, NEW p \in Call, Api(p)
    PROVE  CallsRefer'
<1>1. CASE Done(p)
    BY <1>1, ReferFrame DEF Done, NoCall
<1>2. ASSUME NEW d \in Code, FindCode(p, d) PROVE CallsRefer'
    BY <1>2, ReferFrame DEF FindCode, SetCall
<1>3. ASSUME NEW h \in Host, CreateForCode(p, h) PROVE CallsRefer'
    <2>1. call[p].what \in Code /\ host'[h] # "none"
        BY <1>3 DEF CreateForCode, CallsRefer, NewHost, TypeOK
    <2> QED
        BY <1>3, <2>1, ReferFrame DEF CreateForCode, SetCall
<1>4. ASSUME NEW h \in Host, DeleteHost(p, h) PROVE CallsRefer'
    <2>1. host'[h] # "none"
        BY <1>4 DEF DeleteHost
    <2> QED
        BY <1>4, <2>1, ReferFrame DEF DeleteHost, SetCall
<1>5. ASSUME NEW m \in Machine, Poll(p, m) PROVE CallsRefer'
    <2>1. cli[m].what \in Code
        BY <1>5 DEF Poll, CommandsRefer
    <2> QED
        BY <1>5, <2>1, ReferFrame DEF Poll, SetCall
<1>6. ASSUME NEW m \in Machine, NEW i \in Invite, ClaimInvite(p, m, i) PROVE CallsRefer'
    <2>1. CASE i \in expired
        BY <1>6, <2>1, RowsStay DEF ClaimInvite, CallsRefer
    <2>2. CASE i \notin expired
        BY <1>6, <2>2, ReferFrame DEF ClaimInvite, SetCall
    <2> QED
        BY <2>1, <2>2
<1>7. CASE ReadToken(p)
    <2>1. CASE stored[call[p].what] = None
        BY <1>1, <1>7, <2>1 DEF ReadToken
    <2>2. CASE stored[call[p].what] # None
        <3>1. call[p].what \in Code /\ call[p].m \in Machine
            BY <1>7 DEF ReadToken, CallsRefer
        <3>2. stored[call[p].what] \in Host /\ host[stored[call[p].what]] # "none"
            BY <2>2, <3>1 DEF TypeOK, TokensAreKnown
        <3> QED
            BY <1>7, <2>2, <3>1, <3>2, ReferFrame, RowsStay DEF ReadToken, SetCall
    <2> QED
        BY <2>1, <2>2
<1> QED
    BY <1>1, <1>2, <1>3, <1>4, <1>5, <1>6, <1>7
    DEF Api, CreateForInvite, AuthorizeDevice, ClearToken, FinishDelete

\* Every step keeps what the calls refer to.
LEMMA RefersStep ==
    ASSUME TypeOK, CallsRefer, CommandsRefer, TokensAreKnown, [Next]_vars
    PROVE  CallsRefer'
<1>1. ASSUME NEW p \in Call, Api(p) PROVE CallsRefer'
    BY <1>1, ApiRefers
<1>2. ASSUME NEW p \in Call, CallFails(p) PROVE CallsRefer'
    BY <1>2, ReferFrame DEF CallFails, Done, NoCall
<1>3. CASE UNCHANGED call
    BY <1>3, RowsStay DEF CallsRefer
<1>4. ASSUME NEW m \in Machine, Local(m) \/ LoseRequest(m) PROVE CallsRefer'
    BY <1>3, <1>4 DEF Local, RequestDevice, GiveUp, InstallService, Reinstall, Uninstall,
                      StartDaemon, Connect, Disconnect, HostRemoved, LoseRequest
<1>5. ASSUME NEW x \in Code \cup Invite, Expire(x) \/ HostInvite(x) PROVE CallsRefer'
    BY <1>3, <1>5 DEF Expire, HostInvite
<1>6. CASE RestartRelay
    BY <1>6 DEF RestartRelay, CallsRefer, NoCall
<1> QED
    BY <1>1, <1>2, <1>3, <1>4, <1>5, <1>6 DEF Next, vars

----------------------------------------------------------------------------
\* A step of a call nobody waits for leaves the commands with their calls.
LEMMA UnservedFrame ==
    ASSUME TypeOK, CommandsRefer, NEW p \in Call, NEW c, call[p].at \notin ServesClient,
           call' = [call EXCEPT ![p] = c], UNCHANGED cli
    PROVE  CommandsRefer'
    BY DEF TypeOK, CommandsRefer

\* A call that has answered its client, and ends, leaves the other commands
\* with theirs.
LEMMA AnsweredFrame ==
    ASSUME TypeOK, CommandsRefer, NEW p \in Call, Done(p),
           \A m \in Machine : m # call[p].m => cli'[m] = cli[m],
           \A m \in Machine : m = call[p].m =>
               \/ cli'[m] = cli[m] /\ ~Waiting(p, m)
               \/ cli'[m].at \notin {"polling", "waiting"}
               \/ cli'[m].at = "polling" /\ cli'[m].what \in Code
    PROVE  CommandsRefer'
    BY DEF TypeOK, CommandsRefer, Done, Waiting

\* An answer changes the command that waits for it only, and sends it on to
\* the installation.
LEMMA RespondAnswers ==
    ASSUME TypeOK, CommandsRefer, NEW p \in Call, NEW h, Done(p), call[p].m \in Machine,
           Respond(p, call[p].m, h)
    PROVE  CommandsRefer'
<1>1. CASE Waiting(p, call[p].m)
    <2>1. SetCli(call[p].m, "installing", cli[call[p].m].what, None)
        BY <1>1 DEF Respond
    <2> QED
        BY <2>1, AnsweredFrame DEF SetCli, TypeOK
<1>2. CASE ~Waiting(p, call[p].m)
    BY <1>2, AnsweredFrame DEF Respond
<1> QED
    BY <1>1, <1>2

\* Every step of a call keeps what the commands wait for.
LEMMA ApiCommands ==
    ASSUME TypeOK, CallsRefer, CommandsRefer, NEW p \in Call, Api(p)
    PROVE  CommandsRefer'
<1>1. ASSUME NEW d \in Code, FindCode(p, d) PROVE CommandsRefer'
    BY <1>1, UnservedFrame DEF FindCode, SetCall, ServesClient
<1>2. ASSUME NEW h \in Host, CreateForCode(p, h) PROVE CommandsRefer'
    BY <1>2, UnservedFrame DEF CreateForCode, SetCall, ServesClient
<1>3. ASSUME NEW h \in Host, CreateForInvite(p, h) PROVE CommandsRefer'
    BY <1>3, RespondAnswers DEF CreateForInvite, CallsRefer
<1>4. ASSUME NEW h \in Host, DeleteHost(p, h) PROVE CommandsRefer'
    BY <1>4, UnservedFrame DEF DeleteHost, SetCall, ServesClient
<1>5. ASSUME NEW m \in Machine, Poll(p, m) PROVE CommandsRefer'
    BY <1>5 DEF Poll, SetCall, SetCli, CommandsRefer, ServesClient, TypeOK
<1>6. ASSUME NEW m \in Machine, NEW i \in Invite, ClaimInvite(p, m, i) PROVE CommandsRefer'
    <2>1. CASE i \in expired
        BY <1>6, <2>1 DEF ClaimInvite, CommandsRefer
    <2>2. CASE i \notin expired
        <3>1. /\ call[p].at = "idle"
              /\ SetCall(p, "claimed", i, m, None)
              /\ SetCli(m, "waiting", i, p)
            BY <1>6, <2>2 DEF ClaimInvite
        <3> QED
            BY <3>1 DEF SetCall, SetCli, CommandsRefer, ServesClient, TypeOK
    <2> QED
        BY <2>1, <2>2
<1>7. CASE AuthorizeDevice(p)
    BY <1>7, UnservedFrame DEF AuthorizeDevice, Done, ServesClient
<1>8. CASE ReadToken(p)
    <2>1. call[p].m \in Machine /\ call[p].what \in Code
        BY <1>8 DEF ReadToken, CallsRefer
    <2>2. CASE stored[call[p].what] = None
        <3>1. CASE Waiting(p, call[p].m)
            <4>1. SetCli(call[p].m, "polling", cli[call[p].m].what, None) /\ Done(p)
                BY <1>8, <2>2, <3>1 DEF ReadToken, PollAgain
            <4>2. cli[call[p].m].what \in Code
                BY <2>1, <3>1 DEF Waiting, CommandsRefer
            <4> QED
                BY <2>1, <4>1, <4>2, AnsweredFrame DEF SetCli, TypeOK
        <3>2. CASE ~Waiting(p, call[p].m)
            BY <1>8, <2>2, <3>2, AnsweredFrame DEF ReadToken, PollAgain
        <3> QED
            BY <3>1, <3>2
    <2>3. CASE stored[call[p].what] # None
        BY <1>8, <2>3 DEF ReadToken, SetCall, CommandsRefer, ServesClient, TypeOK
    <2> QED
        BY <2>2, <2>3
<1>9. CASE ClearToken(p)
    BY <1>9, RespondAnswers DEF ClearToken, CallsRefer
<1>10. CASE FinishDelete(p)
    BY <1>10, UnservedFrame DEF FinishDelete, Done, ServesClient
<1> QED
    BY <1>1, <1>2, <1>3, <1>4, <1>5, <1>6, <1>7, <1>8, <1>9, <1>10 DEF Api

\* Every step keeps what the commands wait for.
LEMMA CommandsStep ==
    ASSUME TypeOK, CallsRefer, CommandsRefer, [Next]_vars
    PROVE  CommandsRefer'
<1>1. ASSUME NEW p \in Call, Api(p) PROVE CommandsRefer'
    BY <1>1, ApiCommands
<1>2. ASSUME NEW p \in Call, CallFails(p) PROVE CommandsRefer'
    BY <1>2 DEF CallFails, Done, Waiting, CommandsRefer, TypeOK, NoCli
<1>3. ASSUME UNCHANGED call, NEW m \in Machine,
             \A n \in Machine : n # m => cli'[n] = cli[n],
             \/ cli'[m] = cli[m]
             \/ cli'[m].at \notin {"polling", "waiting"}
             \/ cli'[m].at = "polling" /\ cli'[m].what \in Code
      PROVE  CommandsRefer'
    BY <1>3 DEF CommandsRefer
<1>4. ASSUME NEW m \in Machine, Local(m) PROVE CommandsRefer'
    <2>1. CASE UNCHANGED <<call, cli>>
        BY <1>3, <2>1
    <2>2. ASSUME NEW d \in Code, RequestDevice(m, d) PROVE CommandsRefer'
        BY <1>3, <2>2 DEF RequestDevice, SetCli, TypeOK
    <2>3. CASE GiveUp(m)
        BY <1>3, <2>3 DEF GiveUp, SetCli, TypeOK
    <2>4. CASE InstallService(m)
        BY <1>3, <2>4 DEF InstallService, SetCli, TypeOK
    <2> QED
        BY <1>4, <2>1, <2>2, <2>3, <2>4
        DEF Local, Reinstall, Uninstall, StartDaemon, Connect, Disconnect, HostRemoved
<1>5. ASSUME NEW m \in Machine, LoseRequest(m) PROVE CommandsRefer'
    BY <1>3, <1>5 DEF LoseRequest, SetCli, TypeOK
<1>6. ASSUME NEW x \in Code \cup Invite, Expire(x) \/ HostInvite(x) PROVE CommandsRefer'
    BY <1>6 DEF Expire, HostInvite, CommandsRefer
<1>7. CASE RestartRelay
    BY <1>7 DEF RestartRelay, CommandsRefer, TypeOK, NoCli
<1>8. CASE UNCHANGED vars
    BY <1>8 DEF vars, CommandsRefer
<1> QED
    BY <1>1, <1>2, <1>4, <1>5, <1>6, <1>7, <1>8 DEF Next

----------------------------------------------------------------------------
\* What keeps each token that is stored, written or read known: what is new
\* of them has a row, or was on the machine before.
LEMMA KnownFrame ==
    ASSUME TypeOK, TokensAreKnown, [Next]_vars,
           \A d \in Code : stored'[d] \in {stored[d], None} \/ host'[stored'[d]] # "none",
           \A m \in Machine : config'[m] \in {config[m], None} \/ host'[config'[m]] # "none",
           \A m \in Machine : daemon'[m] \in {daemon[m], config[m], None}
    PROVE  TokensAreKnown'
    BY RowsStay DEF TokensAreKnown, TypeOK

\* Every step of a call keeps the tokens known.
LEMMA ApiKnown ==
    ASSUME TypeOK, CallsRefer, TokensAreKnown, [Next]_vars, NEW p \in Call, Api(p)
    PROVE  TokensAreKnown'
<1>1. CASE UNCHANGED <<stored, config, daemon>>
    BY <1>1, KnownFrame
<1>2. ASSUME NEW h \in Host, CreateForInvite(p, h) PROVE TokensAreKnown'
    <2>1. host'[h] # "none" /\ UNCHANGED <<stored, daemon>>
        BY <1>2 DEF CreateForInvite, NewHost, TypeOK, codes
    <2>2. \A m \in Machine : config'[m] \in {config[m], h}
        BY <1>2, RespondType DEF CreateForInvite, CallsRefer
    <2> QED
        BY <2>1, <2>2, KnownFrame
<1>3. CASE AuthorizeDevice(p)
    <2>1. call[p].what \in Code /\ call[p].h \in Host /\ host[call[p].h] # "none"
        BY <1>3 DEF AuthorizeDevice, CallsRefer
    <2>2. \A d \in Code : stored'[d] \in {stored[d], call[p].h}
        BY <1>3, <2>1 DEF AuthorizeDevice, TypeOK
    <2>3. UNCHANGED <<config, daemon>> /\ host'[call[p].h] # "none"
        BY <1>3, <2>1, RowsStay DEF AuthorizeDevice, machine
    <2> QED
        BY <2>2, <2>3, KnownFrame
<1>4. CASE ClearToken(p)
    <2>1. call[p].m \in Machine /\ call[p].h \in Host /\ host[call[p].h] # "none"
        BY <1>4 DEF ClearToken, CallsRefer
    <2>2. \A m \in Machine : config'[m] \in {config[m], call[p].h}
        BY <1>4, <2>1, RespondType DEF ClearToken
    <2>3. \A d \in Code : stored'[d] \in {stored[d], None}
        BY <1>4 DEF ClearToken, TypeOK
    <2>4. UNCHANGED daemon /\ host'[call[p].h] # "none"
        BY <1>4, <2>1, RowsStay DEF ClearToken
    <2> QED
        BY <2>2, <2>3, <2>4, KnownFrame
<1> QED
    BY <1>1, <1>2, <1>3, <1>4
    DEF Api, FindCode, CreateForCode, DeleteHost, Poll, ClaimInvite, ReadToken, FinishDelete,
        codes, machine

\* Every step keeps the tokens known.
LEMMA KnownStep ==
    ASSUME TypeOK, CallsRefer, TokensAreKnown, [Next]_vars
    PROVE  TokensAreKnown'
<1>1. ASSUME NEW p \in Call, Api(p) PROVE TokensAreKnown'
    BY <1>1, ApiKnown
<1>2. CASE UNCHANGED <<stored, config, daemon>>
    BY <1>2, KnownFrame
<1>3. ASSUME NEW m \in Machine, Local(m) PROVE TokensAreKnown'
    <2>1. UNCHANGED stored /\ \A n \in Machine : config'[n] \in {config[n], None}
        BY <1>3 DEF Local, RequestDevice, GiveUp, InstallService, Reinstall, Uninstall,
                    StartDaemon, Connect, Disconnect, HostRemoved, codes, machine, TypeOK
    <2>2. \A n \in Machine : daemon'[n] \in {daemon[n], config[n], None}
        BY <1>3 DEF Local, RequestDevice, GiveUp, InstallService, Reinstall, Uninstall, Serve,
                    StartDaemon, Connect, Disconnect, HostRemoved, machine, TypeOK
    <2> QED
        BY <2>1, <2>2, KnownFrame
<1>4. ASSUME NEW p \in Call, CallFails(p) PROVE TokensAreKnown'
    BY <1>2, <1>4 DEF CallFails, codes, machine
<1>5. ASSUME NEW m \in Machine, LoseRequest(m) PROVE TokensAreKnown'
    BY <1>2, <1>5 DEF LoseRequest, codes, machine
<1>6. ASSUME NEW x \in Code \cup Invite, Expire(x) \/ HostInvite(x) PROVE TokensAreKnown'
    BY <1>2, <1>6 DEF Expire, HostInvite, machine
<1>7. CASE RestartRelay
    BY <1>2, <1>7 DEF RestartRelay
<1> QED
    BY <1>1, <1>2, <1>3, <1>4, <1>5, <1>6, <1>7 DEF Next, vars

----------------------------------------------------------------------------
\* Every step keeps who is told among the daemons of doomed hosts.
LEMMA DoomedStep ==
    ASSUME TypeOK, ToldIsDoomed, [Next]_vars
    PROVE  ToldIsDoomed'
<1>1. CASE UNCHANGED <<told, daemon, doomed>>
    BY <1>1 DEF ToldIsDoomed
<1>2. ASSUME NEW p \in Call, NEW h \in Host, DeleteHost(p, h) PROVE ToldIsDoomed'
    BY <1>2 DEF DeleteHost, ToldIsDoomed
<1>3. ASSUME NEW p \in Call, Api(p), \A h \in Host : ~DeleteHost(p, h)
      PROVE  UNCHANGED <<told, daemon, doomed>>
    BY <1>3 DEF Api, FindCode, CreateForCode, CreateForInvite, Poll, ClaimInvite,
                AuthorizeDevice, ReadToken, ClearToken, FinishDelete, NewHost, hosts, machine
<1>4. ASSUME NEW m \in Machine, Local(m) PROVE ToldIsDoomed'
    <2>1. CASE InstallService(m) \/ Reinstall(m) \/ Uninstall(m) \/ HostRemoved(m)
        BY <2>1 DEF InstallService, Reinstall, Uninstall, HostRemoved, Serve, ToldIsDoomed,
                    TypeOK, hosts
    <2>2. CASE StartDaemon(m)
        BY <2>2, NoneAssumption DEF StartDaemon, ToldIsDoomed, TypeOK, hosts
    <2>3. CASE Disconnect(m)
        BY <2>3 DEF Disconnect, ToldIsDoomed, hosts
    <2> QED
        BY <1>1, <1>4, <2>1, <2>2, <2>3
        DEF Local, RequestDevice, GiveUp, Connect, hosts, machine
<1>5. ASSUME NEW p \in Call, CallFails(p) PROVE ToldIsDoomed'
    BY <1>1, <1>5 DEF CallFails, hosts, machine
<1>6. ASSUME NEW m \in Machine, LoseRequest(m) PROVE ToldIsDoomed'
    BY <1>1, <1>6 DEF LoseRequest, machine
<1>7. ASSUME NEW x \in Code \cup Invite, Expire(x) \/ HostInvite(x) PROVE ToldIsDoomed'
    BY <1>1, <1>7 DEF Expire, HostInvite, hosts, machine
<1>8. CASE RestartRelay
    BY <1>8 DEF RestartRelay, ToldIsDoomed
<1> QED
    BY <1>1, <1>2, <1>3, <1>4, <1>5, <1>6, <1>7, <1>8 DEF Next, vars

----------------------------------------------------------------------------
\* What no step does to an invite: give it to another call or host than the
\* one that took it.  Calls and hosts that gain nothing keep the invites.
LEMMA InvitesFrame ==
    ASSUME TypeOK, InvitesOnce, UNCHANGED made, invites' \subseteq invites,
           \A p \in Call : call'[p].at = "claimed" => call'[p] = call[p],
           \A h \in Host : origin'[h] \in Invite => origin'[h] = origin[h]
    PROVE  InvitesOnce'
    BY DEF InvitesOnce, Takers, HostsOf

\* Every step of a call keeps the invites.
LEMMA ApiInvites ==
    ASSUME TypeOK, CallsRefer, InvitesOnce, NEW p \in Call, Api(p)
    PROVE  InvitesOnce'
<1>1. ASSUME UNCHANGED <<made, invites, origin>>, NEW c, c.at # "claimed",
             call' = [call EXCEPT ![p] = c]
      PROVE  InvitesOnce'
    BY <1>1, InvitesFrame DEF TypeOK
<1>2. ASSUME NEW d \in Code, FindCode(p, d) PROVE InvitesOnce'
    BY <1>1, <1>2 DEF FindCode, SetCall, codes, hosts
<1>3. ASSUME NEW h \in Host, CreateForCode(p, h) PROVE InvitesOnce'
    <2>1. call[p].what \in Code /\ origin' = [origin EXCEPT ![h] = call[p].what]
        BY <1>3 DEF CreateForCode, CallsRefer, NewHost
    <2>2. \A g \in Host : origin'[g] \in Invite => origin'[g] = origin[g]
        BY <2>1, DisjointAssumption DEF TypeOK
    <2>3. \A q \in Call : call'[q].at = "claimed" => call'[q] = call[q]
        BY <1>3 DEF CreateForCode, SetCall, TypeOK
    <2> QED
        BY <1>3, <2>2, <2>3, InvitesFrame DEF CreateForCode, codes
<1>4. ASSUME NEW h \in Host, CreateForInvite(p, h) PROVE InvitesOnce'
    <2>1. PICK i \in Invite : i = call[p].what /\ p \in Takers(i)
        BY <1>4 DEF CreateForInvite, CallsRefer, Takers
    <2>2. origin' = [origin EXCEPT ![h] = i] /\ call' = [call EXCEPT ![p] = NoCall]
          /\ UNCHANGED <<made, invites>>
        BY <1>4, <2>1 DEF CreateForInvite, NewHost, Done, codes
    <2>3. i \in made /\ i \notin invites /\ HostsOf(i) = {} /\ \A q \in Takers(i) : q = p
        BY <2>1 DEF InvitesOnce
    <2>4. \A j \in Invite : Takers(j)' \subseteq Takers(j)
        BY <2>2 DEF Takers, NoCall, TypeOK
    <2>5. Takers(i)' = {}
        BY <2>2, <2>3 DEF Takers, NoCall, TypeOK
    <2>6. HostsOf(i)' \subseteq {h}
        BY <2>2, <2>3 DEF HostsOf, TypeOK
    <2>7. \A j \in Invite : j # i => HostsOf(j)' \subseteq HostsOf(j)
        BY <2>2 DEF HostsOf, TypeOK
    <2> QED
        BY <2>2, <2>3, <2>4, <2>5, <2>6, <2>7 DEF InvitesOnce
<1>5. ASSUME NEW h \in Host, DeleteHost(p, h) PROVE InvitesOnce'
    BY <1>1, <1>5 DEF DeleteHost, SetCall, codes
<1>6. ASSUME NEW m \in Machine, Poll(p, m) PROVE InvitesOnce'
    BY <1>1, <1>6 DEF Poll, SetCall, codes, hosts
<1>7. ASSUME NEW m \in Machine, NEW i \in Invite, ClaimInvite(p, m, i) PROVE InvitesOnce'
    <2>1. CASE i \in expired
        BY <1>7, <2>1, InvitesFrame DEF ClaimInvite, hosts
    <2>2. CASE i \notin expired
        <3>1. /\ i \in invites /\ invites' = invites \ {i}
              /\ SetCall(p, "claimed", i, m, None)
              /\ UNCHANGED <<made, origin>>
            BY <1>7, <2>2 DEF ClaimInvite, hosts
        <3>2. i \in made /\ Takers(i) = {} /\ HostsOf(i) = {}
            BY <3>1 DEF InvitesOnce
        <3>3. Takers(i)' \subseteq {p}
            BY <3>1, <3>2 DEF Takers, SetCall, TypeOK
        <3>4. \A j \in Invite : j # i => Takers(j)' \subseteq Takers(j)
            BY <3>1 DEF Takers, SetCall, TypeOK
        <3>5. \A j \in Invite : HostsOf(j)' = HostsOf(j)
            BY <3>1 DEF HostsOf
        <3> QED
            BY <3>1, <3>2, <3>3, <3>4, <3>5 DEF InvitesOnce
    <2> QED
        BY <2>1, <2>2
<1>8. CASE AuthorizeDevice(p)
    BY <1>1, <1>8 DEF AuthorizeDevice, Done, NoCall, hosts
<1>9. CASE ReadToken(p)
    BY <1>1, <1>9 DEF ReadToken, Done, NoCall, SetCall, codes, hosts
<1>10. CASE ClearToken(p)
    BY <1>1, <1>10 DEF ClearToken, Done, NoCall, hosts
<1>11. CASE FinishDelete(p)
    BY <1>1, <1>11 DEF FinishDelete, Done, NoCall, codes
<1> QED
    BY <1>2, <1>3, <1>4, <1>5, <1>6, <1>7, <1>8, <1>9, <1>10, <1>11 DEF Api

\* Every step keeps the invites.
LEMMA InvitesStep ==
    ASSUME TypeOK, CallsRefer, InvitesOnce, [Next]_vars
    PROVE  InvitesOnce'
<1>1. ASSUME NEW p \in Call, Api(p) PROVE InvitesOnce'
    BY <1>1, ApiInvites
<1>2. CASE UNCHANGED <<made, invites, call, origin>>
    BY <1>2 DEF InvitesOnce, Takers, HostsOf
<1>3. ASSUME NEW p \in Call, CallFails(p) PROVE InvitesOnce'
    BY <1>3, InvitesFrame DEF CallFails, Done, NoCall, TypeOK, codes, hosts
<1>4. ASSUME NEW m \in Machine, Local(m) PROVE InvitesOnce'
    BY <1>2, <1>4 DEF Local, RequestDevice, GiveUp, InstallService, Reinstall, Uninstall,
                      StartDaemon, Connect, Disconnect, HostRemoved, codes, hosts
<1>5. ASSUME NEW m \in Machine, LoseRequest(m) PROVE InvitesOnce'
    BY <1>2, <1>5 DEF LoseRequest, codes
<1>6. ASSUME NEW i \in Invite, HostInvite(i) PROVE InvitesOnce'
    BY <1>6 DEF HostInvite, InvitesOnce, Takers, HostsOf, hosts
<1>7. ASSUME NEW x \in Code \cup Invite, Expire(x) PROVE InvitesOnce'
    BY <1>2, <1>7 DEF Expire, hosts
<1>8. CASE RestartRelay
    BY <1>8, InvitesFrame DEF RestartRelay, NoCall, hosts
<1> QED
    BY <1>1, <1>2, <1>3, <1>4, <1>5, <1>6, <1>7, <1>8 DEF Next, vars

----------------------------------------------------------------------------
\* The theorems

\* In every reachable state the calls under way, the commands that wait for
\* them, the tokens, the invites and the messages to daemons fit together.
THEOREM Invariant == Spec => []IInv
<1>1. IInv /\ [Next]_vars => IInv'
    BY TypeStep, RefersStep, CommandsStep, KnownStep, InvitesStep, DoomedStep DEF IInv
<1> QED
    BY InvInit, <1>1, PTL DEF Spec

\* The state keeps its types.
THEOREM TypeCorrect == Spec => []TypeOK
    BY Invariant, PTL DEF IInv

\* Every token that is stored, written or read belongs to a host.
THEOREM TokensKnown == Spec => []TokensAreKnown
    BY Invariant, PTL DEF IInv

\* Only the daemon of a host that is being deleted is told to go.
THEOREM ToldAreDoomed == Spec => []ToldIsDoomed
    BY Invariant, PTL DEF IInv

\* An invite makes at most one host.
THEOREM InvitesMakeOne == Spec => []InviteMakesOne
<1>1. ASSUME IInv, NEW i \in Invite PROVE Cardinality(HostsOf(i)) <= 1
    <2>1. CASE HostsOf(i) = {}
        BY <2>1, FS_EmptySet
    <2>2. CASE HostsOf(i) # {}
        <3>1. PICK h \in HostsOf(i) : TRUE
            BY <2>2
        <3>2. HostsOf(i) = {h}
            BY <1>1, <3>1 DEF IInv, InvitesOnce
        <3> QED
            BY <3>2, FS_Singleton
    <2> QED
        BY <2>1, <2>2
<1>2. IInv => InviteMakesOne
    BY <1>1 DEF InviteMakesOne, HostsOf
<1> QED
    BY Invariant, <1>2, PTL

\* A code that was authorized keeps its token until it is claimed.
THEOREM AuthorizedKeeps == Spec => AuthorizedOnce
<1>1. ASSUME IInv, [Next]_vars
      PROVE  [\A d \in Code : device[d] = "authorized" => stored'[d] \in {stored[d], None}]_vars
    <2> USE <1>1 DEF IInv
    <2>1. ASSUME NEW p \in Call, AuthorizeDevice(p), NEW d \in Code, device[d] = "authorized"
          PROVE  stored'[d] = stored[d]
        <3>1. CASE device[call[p].what] = "pending"
            <4>1. d # call[p].what
                BY <2>1, <3>1
            <4>2. stored' = [stored EXCEPT ![call[p].what] = call[p].h]
                BY <2>1, <3>1 DEF AuthorizeDevice
            <4> QED
                BY <4>1, <4>2 DEF TypeOK
        <3>2. CASE device[call[p].what] # "pending"
            BY <2>1, <3>2 DEF AuthorizeDevice
        <3> QED
            BY <3>1, <3>2
    <2>2. ASSUME NEW p \in Call, ClearToken(p), NEW d \in Code
          PROVE  stored'[d] \in {stored[d], None}
        <3>1. stored' = [stored EXCEPT ![call[p].what] = None]
            BY <2>2 DEF ClearToken
        <3> QED
            BY <3>1 DEF TypeOK
    <2>3. ASSUME NEW p \in Call, Api(p), ~AuthorizeDevice(p), ~ClearToken(p)
          PROVE  UNCHANGED stored
        BY <2>3 DEF Api, FindCode, CreateForCode, CreateForInvite, DeleteHost, Poll,
                    ClaimInvite, ReadToken, FinishDelete, codes
    <2>7. ASSUME NEW p \in Call, CallFails(p) PROVE UNCHANGED stored
        BY <2>7 DEF CallFails, codes
    <2>4. ASSUME NEW m \in Machine, Local(m) \/ LoseRequest(m) PROVE UNCHANGED stored
        BY <2>4 DEF Local, RequestDevice, GiveUp, InstallService, Reinstall, Uninstall,
                    StartDaemon, Connect, Disconnect, HostRemoved, LoseRequest, codes
    <2>5. ASSUME NEW x \in Code \cup Invite, Expire(x) \/ HostInvite(x) PROVE UNCHANGED stored
        BY <2>5 DEF Expire, HostInvite
    <2>6. RestartRelay => UNCHANGED stored
        BY DEF RestartRelay
    <2> QED
        BY <2>1, <2>2, <2>3, <2>4, <2>5, <2>6, <2>7 DEF Next
<1> QED
    BY Invariant, <1>1, PTL DEF Spec, AuthorizedOnce

----------------------------------------------------------------------------
\* One machine has a token
\*
\* A code or an invite has one machine to do with it, from the moment it is
\* given out, and a token is of a host that was made for it.

\* A host was made for what its token is stored for, or was claimed or read for.
OriginsRight ==
    /\ \A h \in Host : host[h] = "none" <=> origin[h] = None
    /\ \A d \in Code : stored[d] # None => origin[stored[d]] = d
    /\ \A p \in Call : call[p].at \in {"created", "claim"} => origin[call[p].h] = call[p].what

\* Machine m has to do with the code or invite x: its command asked for it, a
\* call serves it, or it has a token of a host made for it.
Uses(m, x) ==
    \/ cli[m].what = x
    \/ \E p \in Call : call[p].what = x /\ call[p].m = m
    \/ config[m] # None /\ origin[config[m]] = x
    \/ daemon[m] # None /\ origin[daemon[m]] = x

\* One machine at most has to do with a code or an invite, and none before it
\* is given out.
OneUser ==
    /\ \A x \in Code \cup Invite : \A m, n \in Machine : Uses(m, x) /\ Uses(n, x) => m = n
    /\ \A d \in Code, m \in Machine : device[d] = "none" => ~Uses(m, d)
    /\ \A i \in Invite, m \in Machine : i \in invites \/ i \notin made => ~Uses(m, i)

\* Who is connected runs a daemon, who is told to go is connected, and a host
\* whose removal was begun has a row.
LinksRight ==
    /\ \A m \in up : daemon[m] # None
    /\ told \subseteq up
    /\ \A h \in doomed : host[h] # "none"
    /\ \A p \in Call : call[p].at = "removing" => call[p].h \in doomed

UseInv == OriginsRight /\ OneUser /\ LinksRight

\* At first nothing is given out and nobody is connected.
LEMMA UseInit == Init => UseInv
<1> SUFFICES ASSUME Init PROVE UseInv
    OBVIOUS
<1>1. \A m \in Machine, x \in Code \cup Invite : ~Uses(m, x)
    BY NoneAssumption DEF Init, Uses, NoCall, NoCli
<1>2. OneUser
    BY <1>1 DEF OneUser
<1>3. OriginsRight
    BY DEF Init, OriginsRight, NoCall
<1>4. LinksRight
    BY DEF Init, LinksRight, NoCall
<1> QED
    BY <1>2, <1>3, <1>4 DEF UseInv

\* A host with a row keeps what it was made for, and gets that with its row.
LEMMA OriginsStay ==
    ASSUME TypeOK, CallsRefer, OriginsRight, [Next]_vars
    PROVE  /\ \A h \in Host : host[h] # "none" => origin'[h] = origin[h]
           /\ \A h \in Host : host'[h] = "none" <=> origin'[h] = None
<1>1. CASE UNCHANGED <<host, origin>>
    BY <1>1 DEF OriginsRight
<1>2. ASSUME NEW p \in Call, NEW h \in Host, CreateForCode(p, h) \/ CreateForInvite(p, h)
      PROVE  /\ \A g \in Host : host[g] # "none" => origin'[g] = origin[g]
             /\ \A g \in Host : host'[g] = "none" <=> origin'[g] = None
    <2>1. call[p].what \in Code \cup Invite /\ NewHost(h, call[p].what)
        BY <1>2 DEF CreateForCode, CreateForInvite, CallsRefer
    <2> QED
        BY <2>1, NoneAssumption DEF NewHost, OriginsRight, TypeOK
<1>3. ASSUME NEW p \in Call, FinishDelete(p)
      PROVE  /\ UNCHANGED origin
             /\ \A h \in Host : host'[h] = "none" <=> host[h] = "none"
    BY <1>3 DEF FinishDelete, CallsRefer, TypeOK
<1>4. ASSUME NEW p \in Call, Api(p), ~FinishDelete(p),
             \A h \in Host : ~CreateForCode(p, h) /\ ~CreateForInvite(p, h)
      PROVE  UNCHANGED <<host, origin>>
    BY <1>4 DEF Api, FindCode, DeleteHost, Poll, ClaimInvite, AuthorizeDevice, ReadToken,
                ClearToken, hosts
<1>5. ASSUME NEW m \in Machine, Local(m) \/ LoseRequest(m) PROVE UNCHANGED <<host, origin>>
    BY <1>5 DEF Local, RequestDevice, GiveUp, InstallService, Reinstall, Uninstall, StartDaemon,
                Connect, Disconnect, HostRemoved, LoseRequest, hosts
<1>6. ASSUME NEW p \in Call, CallFails(p) PROVE UNCHANGED <<host, origin>>
    BY <1>6 DEF CallFails, hosts
<1>7. ASSUME NEW x \in Code \cup Invite, HostInvite(x) \/ Expire(x) PROVE UNCHANGED <<host, origin>>
    BY <1>7 DEF HostInvite, Expire, hosts
<1>8. RestartRelay => UNCHANGED <<host, origin>>
    BY DEF RestartRelay, hosts
<1> QED
    BY <1>1, <1>2, <1>3, <1>4, <1>5, <1>6, <1>7, <1>8 DEF OriginsRight, Next, vars

\* What is stored, claimed or read anew is of a host made for its code.
LEMMA OriginsFrame ==
    ASSUME TypeOK, CallsRefer, TokensAreKnown, OriginsRight, [Next]_vars,
           \A d \in Code : stored'[d] \in {stored[d], None} \/ origin'[stored'[d]] = d,
           \A p \in Call : \/ call'[p] = call[p]
                           \/ call'[p].at \in {"created", "claim"} => origin'[call'[p].h] = call'[p].what
    PROVE  OriginsRight'
<1>1. /\ \A h \in Host : host[h] # "none" => origin'[h] = origin[h]
      /\ \A h \in Host : host'[h] = "none" <=> origin'[h] = None
    BY OriginsStay
<1>2. ASSUME NEW d \in Code, stored'[d] # None PROVE origin'[stored'[d]] = d
    BY <1>1, <1>2 DEF OriginsRight, TokensAreKnown, TypeOK
<1>3. ASSUME NEW p \in Call, call'[p].at \in {"created", "claim"}
      PROVE  origin'[call'[p].h] = call'[p].what
    BY <1>1, <1>3 DEF OriginsRight, CallsRefer
<1> QED
    BY <1>1, <1>2, <1>3 DEF OriginsRight

\* Every step of a call keeps what hosts were made for.
LEMMA ApiOrigins ==
    ASSUME TypeOK, CallsRefer, TokensAreKnown, OriginsRight, [Next]_vars, NEW p \in Call, Api(p)
    PROVE  OriginsRight'
<1>1. ASSUME NEW c, call' = [call EXCEPT ![p] = c],
             c.at \in {"created", "claim"} => origin'[c.h] = c.what
      PROVE  \A q \in Call : \/ call'[q] = call[q]
                             \/ call'[q].at \in {"created", "claim"} => origin'[call'[q].h] = call'[q].what
    BY <1>1 DEF TypeOK
<1>2. CASE UNCHANGED stored /\ Done(p)
    BY <1>1, <1>2, OriginsFrame DEF Done, NoCall
<1>3. ASSUME UNCHANGED stored, NEW at \in {"authorize", "poll", "claimed", "removing"}, NEW what, NEW m, NEW h,
             SetCall(p, at, what, m, h)
      PROVE  OriginsRight'
    BY <1>1, <1>3, OriginsFrame DEF SetCall
<1>4. ASSUME NEW h \in Host, CreateForCode(p, h) PROVE OriginsRight'
    <2>1. origin'[h] = call[p].what /\ UNCHANGED stored
        BY <1>4 DEF CreateForCode, NewHost, TypeOK, codes
    <2> QED
        BY <1>1, <1>4, <2>1, OriginsFrame DEF CreateForCode, SetCall
<1>5. CASE AuthorizeDevice(p)
    <2>1. call[p].what \in Code /\ origin[call[p].h] = call[p].what /\ UNCHANGED origin /\ Done(p)
        BY <1>5 DEF AuthorizeDevice, CallsRefer, OriginsRight, hosts
    <2>2. \A d \in Code : stored'[d] = stored[d] \/ (d = call[p].what /\ stored'[d] = call[p].h)
        BY <1>5, <2>1 DEF AuthorizeDevice, TypeOK
    <2> QED
        BY <1>1, <2>1, <2>2, OriginsFrame DEF Done, NoCall
<1>6. CASE ReadToken(p)
    <2>1. UNCHANGED <<stored, origin>>
        BY <1>6 DEF ReadToken, codes, hosts
    <2>2. CASE stored[call[p].what] = None
        BY <1>2, <1>6, <2>1, <2>2 DEF ReadToken
    <2>3. CASE stored[call[p].what] # None
        <3>1. origin[stored[call[p].what]] = call[p].what
            BY <1>6, <2>3 DEF ReadToken, CallsRefer, OriginsRight
        <3> QED
            BY <1>1, <1>6, <2>1, <2>3, <3>1, OriginsFrame DEF ReadToken, SetCall
    <2> QED
        BY <2>2, <2>3
<1>7. CASE ClearToken(p)
    <2>1. \A d \in Code : stored'[d] \in {stored[d], None}
        BY <1>7 DEF ClearToken, TypeOK
    <2> QED
        BY <1>1, <1>7, <2>1, OriginsFrame DEF ClearToken, Done, NoCall
<1>8. ASSUME NEW m \in Machine, NEW i \in Invite, ClaimInvite(p, m, i) PROVE OriginsRight'
    <2>1. CASE UNCHANGED <<call, stored>>
        BY <2>1, OriginsFrame
    <2> QED
        BY <1>3, <1>8, <2>1 DEF ClaimInvite
<1> QED
    BY <1>2, <1>3, <1>4, <1>5, <1>6, <1>7, <1>8
    DEF Api, FindCode, CreateForInvite, DeleteHost, Poll, FinishDelete, codes

\* Every step keeps what hosts and tokens were made for.
LEMMA OriginsStep ==
    ASSUME TypeOK, CallsRefer, TokensAreKnown, OriginsRight, [Next]_vars
    PROVE  OriginsRight'
<1>1. CASE UNCHANGED <<stored, call>>
    BY <1>1, OriginsFrame
<1>2. ASSUME NEW p \in Call, Api(p) PROVE OriginsRight'
    BY <1>2, ApiOrigins
<1>3. ASSUME NEW p \in Call, CallFails(p) PROVE OriginsRight'
    BY <1>3, OriginsFrame DEF CallFails, Done, NoCall, codes, TypeOK
<1>4. ASSUME NEW m \in Machine, Local(m) \/ LoseRequest(m) PROVE OriginsRight'
    BY <1>1, <1>4 DEF Local, RequestDevice, GiveUp, InstallService, Reinstall, Uninstall,
                      StartDaemon, Connect, Disconnect, HostRemoved, LoseRequest, codes
<1>5. ASSUME NEW x \in Code \cup Invite, HostInvite(x) \/ Expire(x) PROVE OriginsRight'
    BY <1>1, <1>5 DEF HostInvite, Expire
<1>6. CASE RestartRelay
    BY <1>6, OriginsFrame DEF RestartRelay, NoCall
<1> QED
    BY <1>1, <1>2, <1>3, <1>4, <1>5, <1>6 DEF Next, vars

----------------------------------------------------------------------------
\* What a machine has to do with a code or an invite

\* A command, a call, a file and a daemon that have nothing new have to do with
\* nothing new.
LEMMA UsesLess ==
    ASSUME TypeOK, CallsRefer, TokensAreKnown, OriginsRight, [Next]_vars,
           NEW m \in Machine, NEW x \in Code \cup Invite, Uses(m, x)',
           cli'[m].what \in {cli[m].what, None},
           \A p \in Call : call'[p].m = m => call'[p] = call[p] \/ Uses(m, call'[p].what),
           config'[m] \in {config[m], None} \/ Uses(m, origin'[config'[m]]),
           daemon'[m] \in {daemon[m], config[m], None}
    PROVE  Uses(m, x)
<1>1. x # None
    BY NoneAssumption
<1>2. \A h \in Host : host[h] # "none" => origin'[h] = origin[h]
    BY OriginsStay
<1>3. CASE cli'[m].what = x
    BY <1>1, <1>3 DEF Uses
<1>4. CASE \E p \in Call : call'[p].what = x /\ call'[p].m = m
    BY <1>4 DEF Uses
<1>5. CASE config'[m] # None /\ origin'[config'[m]] = x
    BY <1>2, <1>5 DEF Uses, TokensAreKnown, TypeOK
<1>6. CASE daemon'[m] # None /\ origin'[daemon'[m]] = x
    BY <1>2, <1>6 DEF Uses, TokensAreKnown, TypeOK
<1> QED
    BY <1>3, <1>4, <1>5, <1>6 DEF Uses

\* A step that gives nothing out keeps one machine to each code and invite.
LEMMA UsersStay ==
    ASSUME TypeOK, CallsRefer, TokensAreKnown, OriginsRight, OneUser, [Next]_vars,
           \A m \in Machine : cli'[m].what \in {cli[m].what, None},
           \A m \in Machine, p \in Call : call'[p].m = m => call'[p] = call[p] \/ Uses(m, call'[p].what),
           \A m \in Machine : config'[m] \in {config[m], None} \/ Uses(m, origin'[config'[m]]),
           \A m \in Machine : daemon'[m] \in {daemon[m], config[m], None},
           \A d \in Code : device'[d] = "none" => device[d] = "none",
           \A i \in Invite : i \in invites' \/ i \notin made' => i \in invites \/ i \notin made
    PROVE  OneUser'
<1>1. \A m \in Machine, x \in Code \cup Invite : Uses(m, x)' => Uses(m, x)
  <2> SUFFICES ASSUME NEW m \in Machine, NEW x \in Code \cup Invite, Uses(m, x)'
               PROVE  Uses(m, x)
      OBVIOUS
  <2> QED
      BY UsesLess
<1>2. ASSUME NEW x \in Code \cup Invite, NEW m \in Machine, NEW n \in Machine, Uses(m, x)', Uses(n, x)'
      PROVE  m = n
    BY <1>1, <1>2 DEF OneUser
<1>3. ASSUME NEW d \in Code, NEW m \in Machine, device'[d] = "none" PROVE ~Uses(m, d)'
    BY <1>1, <1>3 DEF OneUser
<1>4. ASSUME NEW i \in Invite, NEW m \in Machine, i \in invites' \/ i \notin made' PROVE ~Uses(m, i)'
    BY <1>1, <1>4 DEF OneUser
<1> QED
    BY <1>2, <1>3, <1>4 DEF OneUser

\* What is given out to machine m goes to nobody else.
LEMMA UserGiven ==
    ASSUME TypeOK, CallsRefer, TokensAreKnown, OriginsRight, OneUser, [Next]_vars,
           NEW m \in Machine, NEW x \in Code \cup Invite, \A n \in Machine : ~Uses(n, x),
           UNCHANGED <<origin, config, daemon>>,
           \A n \in Machine : cli'[n].what \in {cli[n].what, None} \/ (n = m /\ cli'[n].what = x),
           \A p \in Call : call'[p] = call[p] \/ (call'[p].what = x /\ call'[p].m = m),
           x \in Code => device'[x] # "none",
           x \in Invite => x \notin invites' /\ x \in made',
           \A d \in Code : device'[d] = "none" => device[d] = "none",
           \A i \in Invite : i \in invites' \/ i \notin made' => i \in invites \/ i \notin made
    PROVE  OneUser'
<1>1. ASSUME NEW n \in Machine, NEW y \in Code \cup Invite, Uses(n, y)'
      PROVE  Uses(n, y) \/ (n = m /\ y = x)
    BY <1>1, NoneAssumption DEF Uses
<1>2. ASSUME NEW y \in Code \cup Invite, NEW n \in Machine, NEW l \in Machine, Uses(n, y)', Uses(l, y)'
      PROVE  n = l
    BY <1>1, <1>2 DEF OneUser
<1>3. ASSUME NEW d \in Code, NEW n \in Machine, device'[d] = "none" PROVE ~Uses(n, d)'
    BY <1>1, <1>3 DEF OneUser
<1>4. ASSUME NEW i \in Invite, NEW n \in Machine, i \in invites' \/ i \notin made' PROVE ~Uses(n, i)'
    BY <1>1, <1>4 DEF OneUser
<1> QED
    BY <1>2, <1>3, <1>4 DEF OneUser

\* Every step of a call keeps one machine to each code and invite.
LEMMA ApiUsers ==
    ASSUME TypeOK, CallsRefer, CommandsRefer, TokensAreKnown, InvitesOnce, OriginsRight, OneUser,
           [Next]_vars, NEW p \in Call, Api(p)
    PROVE  OneUser'
<1>1. UNCHANGED <<daemon, made>> /\ invites' \subseteq invites
    BY DEF Api, FindCode, CreateForCode, CreateForInvite, DeleteHost, Poll, ClaimInvite,
           AuthorizeDevice, ReadToken, ClearToken, FinishDelete, codes, machine
<1>2. \A d \in Code : device'[d] = "none" => device[d] = "none"
    BY DEF Api, FindCode, CreateForCode, CreateForInvite, DeleteHost, Poll, ClaimInvite,
           AuthorizeDevice, ReadToken, ClearToken, FinishDelete, codes, TypeOK
<1>3. ASSUME NEW c, call' = [call EXCEPT ![p] = c], c.m = None \/ Uses(c.m, c.what),
             \A m \in Machine : cli'[m].what \in {cli[m].what, None},
             \A m \in Machine : config'[m] \in {config[m], None} \/ Uses(m, origin'[config'[m]])
      PROVE  OneUser'
    <2>1. ASSUME NEW m \in Machine, NEW q \in Call, call'[q].m = m
          PROVE  call'[q] = call[q] \/ Uses(m, call'[q].what)
        BY <1>3, <2>1, NoneAssumption DEF TypeOK
    <2> QED
        BY <1>1, <1>2, <1>3, <2>1, UsersStay
<1>4. ASSUME NEW m \in Machine, call[p].m = m PROVE Uses(m, call[p].what)
    BY <1>4 DEF Uses
<1>5. CASE Done(p) /\ UNCHANGED <<cli, config>>
    BY <1>3, <1>5 DEF Done, NoCall
<1>6. ASSUME UNCHANGED <<cli, config>>, NEW at, NEW what, NEW h, SetCall(p, at, what, None, h)
      PROVE  OneUser'
    BY <1>3, <1>6 DEF SetCall
<1>7. ASSUME NEW h, Respond(p, call[p].m, h), Done(p), call[p].m \in Machine, origin'[h] = call[p].what
      PROVE  OneUser'
    <2>1. \A m \in Machine : cli'[m].what \in {cli[m].what, None}
        BY <1>7 DEF Respond, SetCli, TypeOK
    <2>2. \A m \in Machine : config'[m] = config[m] \/ (m = call[p].m /\ config'[m] = h)
        BY <1>7 DEF Respond, TypeOK
    <2> QED
        BY <1>3, <1>4, <1>7, <2>1, <2>2 DEF Done, NoCall
<1>8. ASSUME NEW m \in Machine, Poll(p, m) PROVE OneUser'
    <2>1. /\ call' = [call EXCEPT ![p] = [at |-> "poll", what |-> cli[m].what, m |-> m, h |-> None]]
          /\ UNCHANGED config
        BY <1>8 DEF Poll, SetCall, machine
    <2>2. \A n \in Machine : cli'[n].what = cli[n].what
        BY <1>8 DEF Poll, SetCli, TypeOK
    <2>3. Uses(m, cli[m].what)
        BY DEF Uses
    <2> QED
        BY <1>3, <2>1, <2>2, <2>3
<1>9. CASE ReadToken(p)
    <2>1. call[p].m \in Machine /\ UNCHANGED config
        BY <1>9 DEF ReadToken, CallsRefer, machine
    <2>2. CASE stored[call[p].what] = None
        <3>1. \A m \in Machine : cli'[m].what = cli[m].what
            BY <1>9, <2>2 DEF ReadToken, PollAgain, SetCli, TypeOK
        <3> QED
            BY <1>3, <1>9, <2>1, <2>2, <3>1 DEF ReadToken, Done, NoCall
    <2>3. CASE stored[call[p].what] # None
        <3>1. /\ call' = [call EXCEPT ![p] = [at |-> "claim", what |-> call[p].what,
                                              m |-> call[p].m, h |-> stored[call[p].what]]]
              /\ UNCHANGED cli
            BY <1>9, <2>3 DEF ReadToken, SetCall
        <3> QED
            BY <1>3, <1>4, <2>1, <3>1
    <2> QED
        BY <2>2, <2>3
<1>10. CASE ClearToken(p)
    BY <1>7, <1>10 DEF ClearToken, CallsRefer, OriginsRight, hosts
<1>11. ASSUME NEW h \in Host, CreateForInvite(p, h) PROVE OneUser'
    <2>1. call[p].m \in Machine /\ origin'[h] = call[p].what
        BY <1>11 DEF CreateForInvite, NewHost, CallsRefer, TypeOK
    <2> QED
        BY <1>7, <1>11, <2>1 DEF CreateForInvite
<1>12. ASSUME NEW m \in Machine, NEW i \in Invite, ClaimInvite(p, m, i) PROVE OneUser'
    <2>1. CASE i \in expired
        <3>1. UNCHANGED <<call, cli, config>>
            BY <1>12, <2>1 DEF ClaimInvite, machine
        <3> QED
            BY <1>1, <1>2, <3>1, UsersStay
    <2>2. CASE i \notin expired
        <3>1. /\ \A n \in Machine : ~Uses(n, i)
              /\ UNCHANGED <<origin, config, daemon>>
              /\ i \notin invites' /\ i \in made'
            BY <1>12 DEF ClaimInvite, OneUser, InvitesOnce, hosts, machine
        <3>2. \A n \in Machine : cli'[n].what = cli[n].what \/ (n = m /\ cli'[n].what = i)
            BY <1>12, <2>2 DEF ClaimInvite, SetCli, TypeOK
        <3>3. \A q \in Call : call'[q] = call[q] \/ (call'[q].what = i /\ call'[q].m = m)
            BY <1>12, <2>2 DEF ClaimInvite, SetCall, TypeOK
        <3> QED
            BY <1>1, <1>2, <3>1, <3>2, <3>3, UserGiven, DisjointAssumption
    <2> QED
        BY <2>1, <2>2
<1> QED
    BY <1>5, <1>6, <1>8, <1>9, <1>10, <1>11, <1>12
    DEF Api, FindCode, CreateForCode, DeleteHost, AuthorizeDevice, FinishDelete, machine

\* Every step of a machine keeps one machine to each code and invite.
LEMMA LocalUsers ==
    ASSUME TypeOK, CallsRefer, TokensAreKnown, OriginsRight, OneUser,
           [Next]_vars, NEW m \in Machine, Local(m)
    PROVE  OneUser'
<1>1. UNCHANGED <<invites, made, call>>
    BY DEF Local, RequestDevice, GiveUp, InstallService, Reinstall, Uninstall, StartDaemon,
           Connect, Disconnect, HostRemoved, codes
<1>2. ASSUME NEW d \in Code, RequestDevice(m, d) PROVE OneUser'
    <2>1. /\ \A n \in Machine : ~Uses(n, d)
          /\ UNCHANGED <<origin, config, daemon>>
        BY <1>2 DEF RequestDevice, OneUser, hosts, machine
    <2>2. \A n \in Machine : cli'[n].what = cli[n].what \/ (n = m /\ cli'[n].what = d)
        BY <1>2 DEF RequestDevice, SetCli, TypeOK
    <2>3. device'[d] # "none" /\ \A e \in Code : device'[e] = "none" => device[e] = "none"
        BY <1>2 DEF RequestDevice, TypeOK
    <2> QED
        BY <1>1, <2>1, <2>2, <2>3, UserGiven, DisjointAssumption
<1>3. CASE \A d \in Code : ~RequestDevice(m, d)
    <2>1. UNCHANGED device
        BY <1>3 DEF Local, GiveUp, InstallService, Reinstall, Uninstall, StartDaemon,
                    Connect, Disconnect, HostRemoved, codes
    <2>2. \A n \in Machine : cli'[n].what \in {cli[n].what, None}
        BY <1>3 DEF Local, GiveUp, InstallService, Reinstall, Uninstall, StartDaemon,
                    Connect, Disconnect, HostRemoved, SetCli, TypeOK
    <2>3. \A n \in Machine : config'[n] \in {config[n], None}
        BY <1>3 DEF Local, GiveUp, InstallService, Reinstall, Uninstall, StartDaemon,
                    Connect, Disconnect, HostRemoved, machine, TypeOK
    <2>4. \A n \in Machine : daemon'[n] \in {daemon[n], config[n], None}
        BY <1>3 DEF Local, GiveUp, InstallService, Reinstall, Uninstall, StartDaemon, Serve,
                    Connect, Disconnect, HostRemoved, machine, TypeOK
    <2> QED
        BY <1>1, <2>1, <2>2, <2>3, <2>4, UsersStay
<1> QED
    BY <1>2, <1>3

\* Every step keeps one machine to each code and invite.
LEMMA UsersStep ==
    ASSUME TypeOK, CallsRefer, CommandsRefer, TokensAreKnown, InvitesOnce, OriginsRight, OneUser,
           [Next]_vars
    PROVE  OneUser'
<1>1. CASE UNCHANGED <<cli, call, config, daemon, device, invites, made>>
    BY <1>1, UsersStay
<1>2. ASSUME NEW p \in Call, Api(p) PROVE OneUser'
    BY <1>2, ApiUsers
<1>3. ASSUME NEW m \in Machine, Local(m) PROVE OneUser'
    BY <1>3, LocalUsers
<1>4. ASSUME NEW p \in Call, CallFails(p) PROVE OneUser'
    <2>1. \A m \in Machine : cli'[m].what \in {cli[m].what, None}
        BY <1>4 DEF CallFails, NoCli
    <2>2. ASSUME NEW m \in Machine, NEW q \in Call, call'[q].m = m PROVE call'[q] = call[q]
        BY <1>4, <2>2, NoneAssumption DEF CallFails, Done, NoCall, TypeOK
    <2> QED
        BY <1>4, <2>1, <2>2, UsersStay DEF CallFails, codes, machine
<1>5. ASSUME NEW m \in Machine, LoseRequest(m) PROVE OneUser'
    <2>1. \A n \in Machine : cli'[n].what \in {cli[n].what, None}
        BY <1>5 DEF LoseRequest, SetCli, TypeOK
    <2> QED
        BY <1>5, <2>1, UsersStay DEF LoseRequest, codes, machine
<1>6. ASSUME NEW i \in Invite, HostInvite(i) PROVE OneUser'
    <2>1. \A j \in Invite : j \in invites' \/ j \notin made' => j \in invites \/ j \notin made
        BY <1>6 DEF HostInvite
    <2> QED
        BY <1>6, <2>1, UsersStay DEF HostInvite, machine
<1>7. ASSUME NEW x \in Code \cup Invite, Expire(x) PROVE OneUser'
    BY <1>1, <1>7 DEF Expire, machine
<1>8. CASE RestartRelay
    <2>1. \A m \in Machine : cli'[m].what \in {cli[m].what, None}
        BY <1>8 DEF RestartRelay, NoCli
    <2>2. ASSUME NEW m \in Machine, NEW q \in Call PROVE call'[q].m # m
        BY <1>8, NoneAssumption DEF RestartRelay, NoCall
    <2> QED
        BY <1>8, <2>1, <2>2, UsersStay DEF RestartRelay
<1> QED
    BY <1>1, <1>2, <1>3, <1>4, <1>5, <1>6, <1>7, <1>8 DEF Next, vars

----------------------------------------------------------------------------
\* Daemons, connections and removals

\* Every step keeps connected daemons running and removals to hosts with a row.
LEMMA LinksStep ==
    ASSUME TypeOK, CallsRefer, LinksRight, [Next]_vars
    PROVE  LinksRight'
<1>1. \A h \in Host : host[h] # "none" => host'[h] # "none"
    BY RowsStay
<1>2. CASE UNCHANGED <<daemon, up, told, doomed, call>>
    BY <1>1, <1>2 DEF LinksRight, TypeOK
<1>3. ASSUME NEW c, NEW p \in Call, call' = [call EXCEPT ![p] = c], c.at # "removing",
             UNCHANGED <<daemon, up, told, doomed>>
      PROVE  LinksRight'
    BY <1>1, <1>3 DEF LinksRight, TypeOK
<1>4. ASSUME NEW p \in Call, NEW h \in Host, DeleteHost(p, h) PROVE LinksRight'
    <2>1. told' \subseteq up /\ doomed' = doomed \cup {h} /\ UNCHANGED <<host, daemon, up>>
        BY <1>4 DEF DeleteHost, LinksRight
    <2>2. \A q \in Call : call'[q].at = "removing" => call'[q].h \in doomed'
        BY <1>4, <2>1 DEF DeleteHost, SetCall, LinksRight, TypeOK
    <2>3. host[h] # "none"
        BY <1>4 DEF DeleteHost
    <2> QED
        BY <2>1, <2>2, <2>3 DEF LinksRight
<1>5. ASSUME NEW p \in Call, Api(p), \A h \in Host : ~DeleteHost(p, h) PROVE LinksRight'
    <2>1. UNCHANGED <<daemon, up, told, doomed>>
        BY <1>5 DEF Api, FindCode, CreateForCode, CreateForInvite, Poll, ClaimInvite, NewHost,
                    AuthorizeDevice, ReadToken, ClearToken, FinishDelete, hosts, machine
    <2>2. \A q \in Call : call'[q] = call[q] \/ call'[q].at # "removing"
        BY <1>5 DEF Api, FindCode, CreateForCode, CreateForInvite, Poll, ClaimInvite,
                    AuthorizeDevice, ReadToken, ClearToken, FinishDelete, SetCall, Done, NoCall, TypeOK
    <2> QED
        BY <1>1, <2>1, <2>2 DEF LinksRight, TypeOK
<1>6. ASSUME NEW m \in Machine, Local(m) PROVE LinksRight'
    <2>1. UNCHANGED <<call, host, doomed>>
        BY <1>6 DEF Local, RequestDevice, GiveUp, InstallService, Reinstall, Uninstall, StartDaemon,
                    Connect, Disconnect, HostRemoved, hosts
    <2>2. CASE InstallService(m) \/ Reinstall(m) \/ Uninstall(m) \/ HostRemoved(m)
        BY <2>1, <2>2 DEF InstallService, Reinstall, Uninstall, HostRemoved, Serve, LinksRight, TypeOK
    <2>3. CASE StartDaemon(m)
        BY <2>1, <2>3 DEF StartDaemon, LinksRight, TypeOK
    <2>4. CASE Connect(m) \/ Disconnect(m)
        BY <2>1, <2>4 DEF Connect, Disconnect, LinksRight, TypeOK
    <2> QED
        BY <1>2, <1>6, <2>1, <2>2, <2>3, <2>4 DEF Local, RequestDevice, GiveUp, machine
<1>7. ASSUME NEW p \in Call, CallFails(p) PROVE LinksRight'
    <2>1. call' = [call EXCEPT ![p] = NoCall] /\ UNCHANGED <<daemon, up, told, doomed>>
        BY <1>7 DEF CallFails, Done, hosts, machine
    <2>2. NoCall.at # "removing"
        BY DEF NoCall
    <2> QED
        BY <1>3, <2>1, <2>2
<1>8. ASSUME NEW m \in Machine, LoseRequest(m) PROVE LinksRight'
    BY <1>2, <1>8 DEF LoseRequest, machine
<1>9. ASSUME NEW x \in Code \cup Invite, HostInvite(x) \/ Expire(x) PROVE LinksRight'
    BY <1>2, <1>9 DEF HostInvite, Expire, hosts, machine
<1>10. CASE RestartRelay
    BY <1>1, <1>10 DEF RestartRelay, LinksRight, NoCall, hosts, TypeOK
<1> QED
    BY <1>2, <1>4, <1>5, <1>6, <1>7, <1>8, <1>9, <1>10 DEF Next, vars

\* In every reachable state tokens are of hosts made for their code or invite,
\* one machine has to do with each of those, and only connected daemons of
\* hosts under removal are told to go.
THEOREM UseInvariant == Spec => []UseInv
<1>1. IInv /\ UseInv /\ [Next]_vars => UseInv'
    BY OriginsStep, UsersStep, LinksStep DEF IInv, UseInv
<1> QED
    BY UseInit, <1>1, Invariant, PTL DEF Spec

\* A machine that has the token h, in its file or in its daemon, has to do with
\* what h was made for.
LEMMA HolderUses ==
    ASSUME TypeOK, TokensAreKnown, OriginsRight, NEW m \in Machine, NEW h \in {config[m], daemon[m]} \ {None}
    PROVE  h \in Host /\ host[h] # "none" /\ origin[h] \in Code \cup Invite /\ Uses(m, origin[h])
    BY DEF TypeOK, TokensAreKnown, OriginsRight, Uses

\* No two machines have one token.
THEOREM OneTokenOneMachine == Spec => []OneMachinePerToken
<1>1. ASSUME IInv, UseInv PROVE OneMachinePerToken
    <2>1. ASSUME NEW m \in Machine, NEW n \in Machine \ {m},
                 NEW h \in {config[m], daemon[m]} \cap {config[n], daemon[n]}, h # None
          PROVE  FALSE
        <3>1. origin[h] \in Code \cup Invite /\ Uses(m, origin[h]) /\ Uses(n, origin[h])
            BY <1>1, <2>1, HolderUses DEF IInv, UseInv
        <3> QED
            BY <1>1, <3>1 DEF UseInv, OneUser
    <2> QED
        BY <2>1 DEF OneMachinePerToken
<1> QED
    BY <1>1, Invariant, UseInvariant, PTL

----------------------------------------------------------------------------
\* Enrolment implements Membership
\*
\* To Membership a host is leaving from the moment its removal was begun until
\* its row is deleted.

Members == [h \in Host |-> IF h \in doomed /\ host[h] = "live" THEN "leaving" ELSE host[h]]

\* The initial states are initial states of Membership.
LEMMA AbstractInit == Init => Abstract!Init
    BY DEF Init, Abstract!Init

\* A step that leaves what Membership speaks of alone is none of its steps.
LEMMA AbstractStutter ==
    ASSUME UNCHANGED Members, UNCHANGED <<origin, config, daemon, up>>
    PROVE  UNCHANGED Abstract!vars
    BY DEF Abstract!vars, Members

\* Who is a host depends on the rows and on the deletions begun.
LEMMA MembersStay == UNCHANGED <<host, doomed>> => UNCHANGED Members
    BY DEF Members

\* The machine a code or an invite has to do with is the only one that has
\* tokens of it.
LEMMA UserIsAlone ==
    ASSUME TypeOK, TokensAreKnown, OriginsRight, OneUser,
           NEW m \in Machine, NEW x \in Code \cup Invite, Uses(m, x)
    PROVE  Abstract!HasAlone(m, x)
<1>1. ASSUME NEW n \in Machine \ {m}, NEW g \in {config[n], daemon[n]} \ {None} PROVE origin[g] # x
    BY <1>1, HolderUses DEF OneUser
<1> QED
    BY <1>1 DEF Abstract!HasAlone, Abstract!Has

\* A new host is admitted.
LEMMA HostAdmitted ==
    ASSUME TypeOK, CallsRefer, InvitesOnce, LinksRight, NEW p \in Call, NEW h \in Host,
           call[p].at \in {"authorize", "claimed"}, NewHost(h, call[p].what),
           UNCHANGED <<daemon, up>>,
           \/ UNCHANGED config
           \/ \E m \in Machine : Abstract!HasAlone(m, call[p].what) /\ config' = [config EXCEPT ![m] = h]
    PROVE  Abstract!Next
<1>1. PICK x \in Code \cup Invite : x = call[p].what /\ (x \in Invite => \A g \in Host : origin[g] # x)
    <2>1. CASE call[p].at = "authorize"
        BY <2>1, DisjointAssumption DEF CallsRefer
    <2>2. CASE call[p].at = "claimed"
        <3>1. call[p].what \in Invite /\ p \in Takers(call[p].what)
            BY <2>2 DEF CallsRefer, Takers
        <3>2. HostsOf(call[p].what) = {}
            BY <3>1 DEF InvitesOnce
        <3> QED
            BY <3>1, <3>2 DEF HostsOf
    <2> QED
        BY <2>1, <2>2
<1>2. Members[h] = "none" /\ Members' = [Members EXCEPT ![h] = "live"]
    BY DEF Members, NewHost, LinksRight, TypeOK
<1>3. Abstract!Admit(h, x)
    BY <1>1, <1>2 DEF Abstract!Admit, Abstract!Give, Members, NewHost
<1> QED
    BY <1>3 DEF Abstract!Next

\* An answer that reaches its machine, or nobody.
LEMMA Answered ==
    ASSUME TypeOK, TokensAreKnown, OriginsRight, OneUser, NEW p \in Call, NEW h,
           call[p].m \in Machine, call[p].what \in Code \cup Invite, Respond(p, call[p].m, h)
    PROVE  \/ UNCHANGED config
           \/ \E m \in Machine : Abstract!HasAlone(m, call[p].what) /\ config' = [config EXCEPT ![m] = h]
<1>1. Uses(call[p].m, call[p].what)
    BY DEF Uses
<1>2. Abstract!HasAlone(call[p].m, call[p].what)
    BY <1>1, UserIsAlone
<1> QED
    BY <1>2 DEF Respond

\* Every step of a call.
LEMMA ApiImplements ==
    ASSUME IInv, UseInv, [Next]_vars, NEW p \in Call, Api(p)
    PROVE  [Abstract!Next]_(Abstract!vars)
<1> USE DEF IInv, UseInv
<1>1. ASSUME NEW h \in Host, CreateForCode(p, h) PROVE Abstract!Next
    BY <1>1, HostAdmitted DEF CreateForCode, machine
<1>2. ASSUME NEW h \in Host, CreateForInvite(p, h) PROVE Abstract!Next
    <2>1. call[p].m \in Machine /\ call[p].what \in Code \cup Invite
        BY <1>2 DEF CreateForInvite, CallsRefer
    <2> QED
        BY <1>2, <2>1, Answered, HostAdmitted DEF CreateForInvite
<1>3. CASE ClearToken(p)
    <2>1. /\ call[p].m \in Machine /\ call[p].what \in Code \cup Invite
          /\ call[p].h \in Host /\ host[call[p].h] # "none"
          /\ origin[call[p].h] = call[p].what
        BY <1>3 DEF ClearToken, CallsRefer, OriginsRight
    <2>2. UNCHANGED <<host, doomed, origin, daemon, up>>
        BY <1>3 DEF ClearToken, hosts
    <2>3. CASE UNCHANGED config
        BY <2>2, <2>3, MembersStay, AbstractStutter
    <2>4. ASSUME NEW m \in Machine, Abstract!HasAlone(m, call[p].what),
                 config' = [config EXCEPT ![m] = call[p].h]
          PROVE  Abstract!Next
        <3>1. Members[call[p].h] # "none" /\ UNCHANGED Members
            BY <2>1, <2>2 DEF Members
        <3>2. Abstract!Deliver(m, call[p].h)
            BY <2>1, <2>2, <2>4, <3>1 DEF Abstract!Deliver, Abstract!Give, Members
        <3> QED
            BY <2>1, <3>2 DEF Abstract!Next
    <2> QED
        BY <1>3, <2>1, <2>3, <2>4, Answered DEF ClearToken
<1>4. ASSUME NEW h \in Host, DeleteHost(p, h) PROVE [Abstract!Next]_(Abstract!vars)
    <2>1. UNCHANGED <<host, origin, config, daemon, up>> /\ doomed' = doomed \cup {h} /\ host[h] = "live"
        BY <1>4 DEF DeleteHost
    <2>2. CASE h \in doomed
        BY <2>1, <2>2, MembersStay, AbstractStutter
    <2>3. CASE h \notin doomed
        <3>1. Members[h] = "live" /\ Members' = [Members EXCEPT ![h] = "leaving"]
            BY <2>1, <2>3 DEF Members
        <3>2. Abstract!Remove(h)
            BY <2>1, <3>1 DEF Abstract!Remove, Members
        <3> QED
            BY <3>2 DEF Abstract!Next
    <2> QED
        BY <2>2, <2>3
<1>5. CASE FinishDelete(p)
    <2>1. PICK h \in Host : h = call[p].h /\ host[h] \in {"live", "deleted"} /\ h \in doomed
        BY <1>5 DEF FinishDelete, CallsRefer, LinksRight, TypeOK
    <2>2. UNCHANGED <<origin, doomed, config, daemon, up>> /\ host' = [host EXCEPT ![h] = "deleted"]
        BY <1>5, <2>1 DEF FinishDelete, machine
    <2>3. CASE host[h] = "deleted"
        <3>1. UNCHANGED host
            BY <2>2, <2>3 DEF TypeOK
        <3> QED
            BY <2>2, <3>1, MembersStay, AbstractStutter
    <2>4. CASE host[h] = "live"
        <3>1. Members[h] = "leaving" /\ Members' = [Members EXCEPT ![h] = "deleted"]
            BY <2>1, <2>2, <2>4 DEF Members, TypeOK
        <3>2. Abstract!Delete(h)
            BY <2>2, <3>1 DEF Abstract!Delete, Members
        <3> QED
            BY <3>2 DEF Abstract!Next
    <2> QED
        BY <2>1, <2>3, <2>4
<1>6. ASSUME NEW d \in Code, FindCode(p, d) PROVE UNCHANGED Abstract!vars
    BY <1>6, MembersStay, AbstractStutter DEF FindCode, hosts, machine
<1>7. ASSUME NEW m \in Machine, Poll(p, m) \/ \E i \in Invite : ClaimInvite(p, m, i)
      PROVE  UNCHANGED Abstract!vars
    BY <1>7, MembersStay, AbstractStutter DEF Poll, ClaimInvite, hosts, machine
<1>8. CASE AuthorizeDevice(p) \/ ReadToken(p)
    BY <1>8, MembersStay, AbstractStutter DEF AuthorizeDevice, ReadToken, hosts, machine
<1> QED
    BY <1>1, <1>2, <1>3, <1>4, <1>5, <1>6, <1>7, <1>8 DEF Api

\* Every step of a machine.
LEMMA LocalImplements ==
    ASSUME IInv, UseInv, [Next]_vars, NEW m \in Machine, Local(m)
    PROVE  [Abstract!Next]_(Abstract!vars)
<1> USE DEF IInv, UseInv
<1>1. UNCHANGED <<host, doomed, origin>>
    BY DEF Local, RequestDevice, GiveUp, InstallService, Reinstall, Uninstall, StartDaemon,
           Connect, Disconnect, HostRemoved, hosts
<1>2. UNCHANGED Members
    BY <1>1, MembersStay
<1>3. CASE InstallService(m) \/ Reinstall(m) \/ StartDaemon(m)
    <2>1. daemon' = [daemon EXCEPT ![m] = config[m]] /\ up' = up \ {m} /\ UNCHANGED config
        BY <1>3 DEF InstallService, Reinstall, StartDaemon, Serve, LinksRight
    <2>2. Abstract!Start(m)
        BY <1>1, <1>2, <2>1 DEF Abstract!Start, Members
    <2> QED
        BY <2>2 DEF Abstract!Next
<1>4. CASE Uninstall(m)
    <2>1. Abstract!Stop(m)
        BY <1>1, <1>2, <1>4 DEF Abstract!Stop, Members, Uninstall
    <2> QED
        BY <2>1 DEF Abstract!Next
<1>5. CASE Connect(m)
    <2>1. daemon[m] # None /\ Members[daemon[m]] \in {"live", "leaving"}
        BY <1>5 DEF Connect, Members, TypeOK
    <2>2. Abstract!Link(m)
        BY <1>1, <1>2, <1>5, <2>1 DEF Abstract!Link, Members, Connect
    <2> QED
        BY <2>2 DEF Abstract!Next
<1>6. CASE Disconnect(m)
    <2>1. Abstract!Unlink({m})
        BY <1>1, <1>2, <1>6 DEF Abstract!Unlink, Members, Disconnect
    <2> QED
        BY <2>1 DEF Abstract!Next
<1>7. CASE HostRemoved(m)
    <2>1. m \in up /\ daemon[m] # None /\ daemon[m] \in doomed /\ daemon[m] \in Host
        BY <1>7 DEF HostRemoved, LinksRight, ToldIsDoomed, TypeOK
    <2>2. Members[daemon[m]] \in {"leaving", "deleted"}
        BY <2>1 DEF Members, LinksRight, TypeOK
    <2>3. Abstract!Leave(m)
        BY <1>1, <1>2, <1>7, <2>1, <2>2 DEF Abstract!Leave, Members, HostRemoved
    <2> QED
        BY <2>3 DEF Abstract!Next
<1>8. CASE GiveUp(m) \/ \E d \in Code : RequestDevice(m, d)
    BY <1>1, <1>2, <1>8, AbstractStutter DEF GiveUp, RequestDevice, machine
<1> QED
    BY <1>3, <1>4, <1>5, <1>6, <1>7, <1>8 DEF Local

\* The calls, the commands and the daemons implement Membership: every step is
\* one of its steps or changes nothing it speaks of.
THEOREM Refinement == Spec => ImplementsMembership
<1>1. ASSUME IInv, UseInv, [Next]_vars PROVE [Abstract!Next]_(Abstract!vars)
    <2>1. CASE UNCHANGED vars
        BY <2>1, MembersStay, AbstractStutter DEF vars
    <2>2. ASSUME NEW p \in Call, CallFails(p) PROVE UNCHANGED Abstract!vars
        BY <2>2, MembersStay, AbstractStutter DEF CallFails, hosts, machine
    <2>3. ASSUME NEW m \in Machine, LoseRequest(m) PROVE UNCHANGED Abstract!vars
        BY <2>3, MembersStay, AbstractStutter DEF LoseRequest, machine
    <2>4. ASSUME NEW x \in Code \cup Invite, HostInvite(x) \/ Expire(x) PROVE UNCHANGED Abstract!vars
        BY <2>4, MembersStay, AbstractStutter DEF HostInvite, Expire, hosts, machine
    <2>5. CASE RestartRelay
        <3>1. UNCHANGED Members /\ up' = up \ Machine
            BY <1>1, <2>5, MembersStay DEF RestartRelay, hosts, IInv, TypeOK
        <3>2. Abstract!Unlink(Machine)
            BY <2>5, <3>1 DEF Abstract!Unlink, Members, RestartRelay, hosts
        <3> QED
            BY <3>2 DEF Abstract!Next
    <2> QED
        BY <1>1, <2>1, <2>2, <2>3, <2>4, <2>5, ApiImplements, LocalImplements DEF Next
<1>2. Spec => Abstract!Spec
    BY <1>1, AbstractInit, Invariant, UseInvariant, PTL DEF Spec, Abstract!Spec
<1> QED
    BY <1>2 DEF ImplementsMembership

================================================================================
