----------------------------- MODULE SSH2Client -----------------------------
(***************************************************************************)
(* One SSH2Client object of the ssh2 module, shared by several threads.    *)
(*                                                                         *)
(* Every public method takes the object's lock `m' for its whole duration, *)
(* waits for the network included.  connect() is the exception: it gives   *)
(* the lock up while it runs Qore code (host-key store, client identity    *)
(* provider), and connect_in_progress is what keeps other threads off the  *)
(* half-built session then.  The async I/O controller is a further actor   *)
(* that never takes the lock: it holds, releases and closes the descriptor *)
(* of the connection while the session is using it.                        *)
(*                                                                         *)
(* A step of a thread is a stretch of code between two points at which     *)
(* another actor's step can matter: a wait for the network, the release of *)
(* the lock, the freeing of the session.  A loop on LIBSSH2_ERROR_EAGAIN   *)
(* is one step that succeeds, fails, or ends in waitSocketUnlocked()       *)
(* failing, which closes the connection.                                   *)
(*                                                                         *)
(* Connections are numbered by the connectINET() call that made them; the  *)
(* number names the descriptor and the libssh2 session made on it.         *)
(***************************************************************************)
EXTENDS Naturals, FiniteSets

CONSTANTS
  Thread,     \* the threads that use the object
  NoThread,   \* the owner of the lock when it is free
  Channel,    \* SSH2Channel objects
  Listener,   \* SSH2Listener objects
  MaxConn,    \* bound: successful connectINET() calls in a behaviour
  MaxCand     \* bound: candidates the client identity provider returns

ASSUME ClientAssumption ==
  /\ NoThread \notin Thread
  /\ MaxConn \in Nat
  /\ MaxCand \in Nat

VARIABLES
  (* control *)
  owner,                \* the thread that holds the lock m
  pc,                   \* where each thread is; see Stage
  ret,                  \* what follows the disconnectUnlocked() a thread is in
  connect_in_progress,
  (* descriptor *)
  conns,                \* connections made so far
  socket,               \* the connection the QoreSocket is open on, or 0
  session_fd_hold,      \* the connection whose descriptor the client holds, or 0
  ctl_hold,             \* connections whose descriptor the I/O controller holds
  (* libssh2 session *)
  ssh_session,          \* the session, or 0
  session_fd,           \* the descriptor libssh2 was given for it, or 0
  blocking,             \* the session is in blocking mode
  sshauthenticatedwith, \* an authentication method is recorded
  verified,             \* history: the session whose host key was accepted, or 0
  (* objects made on the session *)
  channel,              \* the session a channel's libssh2 channel belongs to, or 0
  channel_set,
  listener,             \* the same for listeners
  listener_set,
  (* settings *)
  verify_host_key,
  host_key_policy,
  host_key_store,           \* a host-key store is set
  client_identity_provider, \* a client identity provider is set
  (* the stack of a thread in connect() *)
  mine,                 \* history: the session the thread has set up, or 0
  agent,                \* the session its Ssh2AgentHelper was made from, or 0
  plan,                 \* the kinds of authentication attempt left
  candidates            \* provider candidates left

controlVars == <<owner, pc, ret, connect_in_progress>>
fdVars      == <<conns, socket, session_fd_hold, ctl_hold>>
sessionVars == <<ssh_session, session_fd, blocking, sshauthenticatedwith, verified>>
objectVars  == <<channel, channel_set, listener, listener_set>>
settingVars == <<verify_host_key, host_key_policy, host_key_store, client_identity_provider>>
stackVars   == <<mine, agent, plan, candidates>>
vars == <<controlVars, fdVars, sessionVars, objectVars, settingVars, stackVars>>

Conn      == 1..MaxConn
ConnOrNil == 0..MaxConn

Policy == {"REJECT", "TOFU"}

Attempt == {"AGENT", "PROVIDER", "CALL"}

(***************************************************************************)
(* The stages of a thread.  In the callback stages it runs Qore code       *)
(* without the lock; in all others but "idle" it holds the lock.           *)
(***************************************************************************)
Callback == {"verifyHostKey", "acceptHostKeyIfAbsent",
             "getClientIdentityCandidates", "getPrivateKeyMaterial"}

\* the stages of connect() after prepareSessionUnlocked() has made the session
OnSession == {"handshake", "hostkey", "authlist", "auth", "agent", "finish"} \cup Callback

\* the stages of disconnectUnlocked()
Closing == {"closeObjects", "freeSession", "closeTransport"}

Stage == {"idle", "preconditions", "connectINET", "hold", "prepare",
          "channelOpen", "forwardListen", "channelOp"} \cup OnSession \cup Closing

ControlType ==
  /\ owner \in Thread \cup {NoThread}
  /\ pc \in [Thread -> Stage]
  /\ ret \in [Thread -> {"op", "fail", "connectINET"}]
  /\ connect_in_progress \in BOOLEAN

FdType ==
  /\ conns \in ConnOrNil
  /\ socket \in ConnOrNil
  /\ session_fd_hold \in ConnOrNil
  /\ ctl_hold \in SUBSET Conn

SessionType ==
  /\ ssh_session \in ConnOrNil
  /\ session_fd \in ConnOrNil
  /\ blocking \in BOOLEAN
  /\ sshauthenticatedwith \in BOOLEAN
  /\ verified \in ConnOrNil

ObjectType ==
  /\ channel \in [Channel -> ConnOrNil]
  /\ channel_set \in SUBSET Channel
  /\ listener \in [Listener -> ConnOrNil]
  /\ listener_set \in SUBSET Listener

SettingType ==
  /\ verify_host_key \in BOOLEAN
  /\ host_key_policy \in Policy
  /\ host_key_store \in BOOLEAN
  /\ client_identity_provider \in BOOLEAN

StackType ==
  /\ mine \in [Thread -> ConnOrNil]
  /\ agent \in [Thread -> ConnOrNil]
  /\ plan \in [Thread -> SUBSET Attempt]
  /\ candidates \in [Thread -> 0..MaxCand]

\* The variables keep the values the code gives them: a stage, a flag, a
\* connection made so far or none, registered objects, a plan of attempts.
TypeOK ==
  ControlType /\ FdType /\ SessionType /\ ObjectType /\ SettingType /\ StackType

Init ==
  /\ owner = NoThread
  /\ pc = [t \in Thread |-> "idle"]
  /\ ret = [t \in Thread |-> "op"]
  /\ connect_in_progress = FALSE
  /\ conns = 0
  /\ socket = 0
  /\ session_fd_hold = 0
  /\ ctl_hold = {}
  /\ ssh_session = 0
  /\ session_fd = 0
  /\ blocking = TRUE
  /\ sshauthenticatedwith = FALSE
  /\ verified = 0
  /\ channel = [c \in Channel |-> 0]
  /\ channel_set = {}
  /\ listener = [l \in Listener |-> 0]
  /\ listener_set = {}
  /\ verify_host_key = TRUE
  /\ host_key_policy = "TOFU"
  /\ host_key_store = FALSE
  /\ client_identity_provider = FALSE
  /\ mine = [t \in Thread |-> 0]
  /\ agent = [t \in Thread |-> 0]
  /\ plan = [t \in Thread |-> {}]
  /\ candidates = [t \in Thread |-> 0]

-----------------------------------------------------------------------------
(* Control flow of a thread. *)

\* AutoLocker / the end of an AutoUnlocker block
Lock(t) == owner = NoThread /\ owner' = t

\* t goes on at stage s, with the lock
Goto(t, s) ==
  /\ owner = t
  /\ pc' = [pc EXCEPT ![t] = s]
  /\ UNCHANGED <<owner, ret, connect_in_progress>>

\* t gives the lock up and runs Qore code
Unlocked(t, s) ==
  /\ owner = t
  /\ owner' = NoThread
  /\ pc' = [pc EXCEPT ![t] = s]
  /\ UNCHANGED <<ret, connect_in_progress>>

\* t takes the lock back after its Qore code and goes on at stage s
Relocked(t, s) ==
  /\ Lock(t)
  /\ pc' = [pc EXCEPT ![t] = s]
  /\ UNCHANGED <<ret, connect_in_progress>>

\* t enters disconnectUnlocked() and does r afterwards
Close(t, r) ==
  /\ pc' = [pc EXCEPT ![t] = "closeObjects"]
  /\ ret' = [ret EXCEPT ![t] = r]
  /\ UNCHANGED connect_in_progress

\* the locals of connect() go out of scope
Unwind(t) ==
  /\ mine' = [mine EXCEPT ![t] = 0]
  /\ agent' = [agent EXCEPT ![t] = 0]
  /\ plan' = [plan EXCEPT ![t] = {}]
  /\ candidates' = [candidates EXCEPT ![t] = 0]

\* fault: the flag is not reset on return
ConnectReturnStuck(t) ==
  /\ owner' = NoThread
  /\ pc' = [pc EXCEPT ![t] = "idle"]
  /\ UNCHANGED <<ret, connect_in_progress>>
  /\ Unwind(t)

\* connect() returns: ~ConnectInProgressHelper(), ~AutoLocker()
ConnectReturn(t) ==
  /\ owner' = NoThread
  /\ connect_in_progress' = FALSE
  /\ pc' = [pc EXCEPT ![t] = "idle"]
  /\ UNCHANGED ret
  /\ Unwind(t)

\* another method returns
OpReturn(t) ==
  /\ owner' = NoThread
  /\ pc' = [pc EXCEPT ![t] = "idle"]
  /\ UNCHANGED <<ret, connect_in_progress>>

\* fault: a connection that is still being set up counts as connected
ConnectedTooEarly == ssh_session # 0 /\ socket # 0

sshConnectedUnlocked ==
  ssh_session # 0 /\ ~connect_in_progress /\ socket # 0

sshSessionActiveUnlocked == connect_in_progress \/ ssh_session # 0

-----------------------------------------------------------------------------
(* connect(): sshConnect() and the stages of sshConnectUnlocked(). *)

\* the connect attempt fails and closes the connection
ConnectFails(t) == owner = t /\ UNCHANGED owner /\ Close(t, "fail")

\* sshConnect(): refused while another connect() is in progress
Connect(t) ==
  /\ pc[t] = "idle"
  /\ Lock(t)
  /\ ~connect_in_progress
  /\ connect_in_progress' = TRUE
  /\ pc' = [pc EXCEPT ![t] = "preconditions"]
  /\ UNCHANGED <<ret, fdVars, sessionVars, objectVars, settingVars, stackVars>>

\* fault: connect() does not close an established session
PreconditionsKeepSession(t) ==
  /\ pc[t] = "preconditions"
  /\ UNCHANGED <<fdVars, sessionVars, objectVars, settingVars>>
  /\ ConnectReturn(t) \/ (Goto(t, "connectINET") /\ UNCHANGED stackVars)

\* checkConnectPreconditionsUnlocked(): cancelled, no user name, or an
\* established session is closed first
CheckPreconditions(t) ==
  /\ pc[t] = "preconditions"
  /\ UNCHANGED <<fdVars, sessionVars, objectVars, settingVars>>
  /\ \/ ConnectReturn(t)
     \/ /\ ssh_session # 0
        /\ owner = t
        /\ Close(t, "connectINET")
        /\ UNCHANGED <<owner, stackVars>>
     \/ /\ ssh_session = 0
        /\ Goto(t, "connectINET")
        /\ UNCHANGED stackVars

ConnectINET(t) ==
  /\ pc[t] = "connectINET"
  /\ UNCHANGED <<session_fd_hold, ctl_hold, sessionVars, objectVars, settingVars>>
  /\ \/ /\ ConnectReturn(t)
        /\ UNCHANGED <<conns, socket>>
     \/ /\ conns < MaxConn
        /\ conns' = conns + 1
        /\ socket' = conns + 1
        /\ Goto(t, "hold")
        /\ UNCHANGED stackVars

\* fault: the descriptor is used without being held
DescriptorNotHeld(t) ==
  /\ pc[t] = "hold"
  /\ Goto(t, "prepare")
  /\ UNCHANGED <<fdVars, sessionVars, objectVars, settingVars, stackVars>>

\* holdSessionDescriptorUnlocked(): fails if the controller closed the socket
HoldSessionDescriptor(t) ==
  /\ pc[t] = "hold"
  /\ \/ /\ socket = 0
        /\ ConnectFails(t)
        /\ UNCHANGED session_fd_hold
     \/ /\ socket # 0
        /\ session_fd_hold' = socket
        /\ Goto(t, "prepare")
  /\ UNCHANGED <<conns, socket, ctl_hold, sessionVars, objectVars, settingVars, stackVars>>

\* prepareSessionUnlocked(): libssh2_session_init() fails, or makes a session
\* that is put in non-blocking mode
PrepareSession(t) ==
  /\ pc[t] = "prepare"
  /\ \/ /\ ConnectFails(t)
        /\ UNCHANGED <<ssh_session, blocking, mine>>
     \/ /\ ssh_session' = conns
        /\ blocking' = FALSE
        /\ mine' = [mine EXCEPT ![t] = conns]
        /\ Goto(t, "handshake")
  /\ UNCHANGED <<session_fd, sshauthenticatedwith, verified, fdVars, objectVars,
                 settingVars, agent, plan, candidates>>

\* startupUnlocked() and its wait loop: libssh2 keeps the descriptor number
\* the first call gives it; the call fails on a closed socket
Handshake(t) ==
  /\ pc[t] = "handshake"
  /\ \/ ConnectFails(t) /\ UNCHANGED session_fd
     \/ /\ session_fd = 0 /\ socket # 0
        /\ session_fd' = socket
        /\ Goto(t, "handshake")
     \/ /\ session_fd # 0
        /\ UNCHANGED session_fd
        /\ Goto(t, "hostkey")
  /\ UNCHANGED <<ssh_session, blocking, sshauthenticatedwith, verified, fdVars,
                 objectVars, settingVars, stackVars>>

\* verifyHostKeyUnlocked() without a host-key store: verification is off, or
\* the known_hosts decision accepts or refuses the key
VerifyHostKey(t) ==
  /\ pc[t] = "hostkey"
  /\ \/ /\ verify_host_key /\ host_key_store
        /\ Unlocked(t, "verifyHostKey")
        /\ UNCHANGED verified
     \/ /\ ~(verify_host_key /\ host_key_store)
        /\ verified' = ssh_session
        /\ Goto(t, "authlist")
     \/ /\ verify_host_key
        /\ ConnectFails(t)
        /\ UNCHANGED verified
  /\ UNCHANGED <<ssh_session, session_fd, blocking, sshauthenticatedwith, fdVars,
                 objectVars, settingVars, stackVars>>

\* verifyHostKeyWithStore() after verifyHostKey() has returned: the key is
\* accepted, refused, or unknown and offered under a TOFU policy
HostKeyDecision(t) ==
  /\ pc[t] = "verifyHostKey"
  /\ \/ /\ verified' = ssh_session
        /\ Relocked(t, "authlist")
     \/ /\ host_key_policy = "TOFU"
        /\ owner = NoThread  \* retaken and released at once
        /\ pc' = [pc EXCEPT ![t] = "acceptHostKeyIfAbsent"]
        /\ UNCHANGED <<owner, ret, connect_in_progress, verified>>
     \/ /\ Lock(t)
        /\ Close(t, "fail")
        /\ UNCHANGED verified
  /\ UNCHANGED <<ssh_session, session_fd, blocking, sshauthenticatedwith, fdVars,
                 objectVars, settingVars, stackVars>>

\* verifyHostKeyWithStore() after acceptHostKeyIfAbsent() has returned
HostKeyAccepted(t) ==
  /\ pc[t] = "acceptHostKeyIfAbsent"
  /\ \/ /\ verified' = ssh_session
        /\ Relocked(t, "authlist")
     \/ /\ Lock(t)
        /\ Close(t, "fail")
        /\ UNCHANGED verified
  /\ UNCHANGED <<ssh_session, session_fd, blocking, sshauthenticatedwith, fdVars,
                 objectVars, settingVars, stackVars>>

\* buildAuthPlanUnlocked(): the provider is in the plan whenever it is
\* configured, the other kinds as the settings and the server's list say; the
\* order of the plan is left open here
AuthPlans == {p \in SUBSET Attempt : "PROVIDER" \in p <=> client_identity_provider}

\* libssh2_userauth_list(), then the plan is built
UserauthList(t) ==
  /\ pc[t] = "authlist"
  /\ \/ ConnectFails(t) /\ UNCHANGED plan
     \/ /\ \E p \in AuthPlans : plan' = [plan EXCEPT ![t] = p]
        /\ Goto(t, "auth")
  /\ UNCHANGED <<sessionVars, fdVars, objectVars, settingVars, mine, agent, candidates>>

-----------------------------------------------------------------------------
(* Authentication: the loop over the plan and runAuthAttemptUnlocked(). *)

\* runAuthAttemptUnlocked() for an attempt that is one libssh2 call: logged
\* in, not logged in, or access denied / wait failed and the connection closed
AuthCall(t) ==
  /\ \/ /\ sshauthenticatedwith' = TRUE
        /\ Goto(t, "finish")
     \/ /\ Goto(t, "auth")
        /\ UNCHANGED sshauthenticatedwith
     \/ /\ ConnectFails(t)
        /\ UNCHANGED sshauthenticatedwith
  /\ UNCHANGED agent

\* tryAgentAuth(): the agent connection is made from the session, or there is none
AgentInit(t) ==
  /\ UNCHANGED sshauthenticatedwith
  /\ \/ /\ agent' = [agent EXCEPT ![t] = ssh_session]
        /\ Goto(t, "agent")
     \/ /\ Goto(t, "auth")
        /\ UNCHANGED agent

\* the next attempt of the plan; a provider attempt unlocks to get the
\* candidates, or ends at once if the server offers no public key method
NextAttempt(t, k) ==
  /\ pc[t] = "auth"
  /\ candidates[t] = 0
  /\ k \in plan[t]
  /\ plan' = [plan EXCEPT ![t] = @ \ {k}]
  /\ \/ k = "CALL" /\ AuthCall(t)
     \/ k = "AGENT" /\ AgentInit(t)
     \/ /\ k = "PROVIDER"
        /\ Unlocked(t, "getClientIdentityCandidates") \/ Goto(t, "auth")
        /\ UNCHANGED <<sshauthenticatedwith, agent>>
  /\ UNCHANGED <<ssh_session, session_fd, blocking, verified, fdVars, objectVars,
                 settingVars, mine, candidates>>

\* the plan is exhausted and nothing logged in
AuthError(t) ==
  /\ pc[t] = "auth"
  /\ candidates[t] = 0
  /\ plan[t] = {}
  /\ ConnectFails(t)
  /\ UNCHANGED <<sessionVars, fdVars, objectVars, settingVars, stackVars>>

\* an agent identity: logged in, the identities are used up, the operation is
\* cancelled (the agent is reset before the connection is closed), or the wait
\* for the socket fails, which closes the connection with the agent still there
AgentIdentity(t) ==
  /\ pc[t] = "agent"
  /\ \/ /\ sshauthenticatedwith' = TRUE
        /\ agent' = [agent EXCEPT ![t] = 0]
        /\ Goto(t, "finish")
     \/ /\ agent' = [agent EXCEPT ![t] = 0]
        /\ Goto(t, "auth")
        /\ UNCHANGED sshauthenticatedwith
     \/ /\ agent' = [agent EXCEPT ![t] = 0]
        /\ ConnectFails(t)
        /\ UNCHANGED sshauthenticatedwith
     \/ /\ ConnectFails(t)
        /\ UNCHANGED <<sshauthenticatedwith, agent>>
  /\ UNCHANGED <<ssh_session, session_fd, blocking, verified, fdVars, objectVars,
                 settingVars, mine, plan, candidates>>

\* getProviderCandidatesUnlocked() has called the provider: on an error
\* tryProviderAuth(), and connect() with it, returns as it is
ProviderCandidates(t) ==
  /\ pc[t] = "getClientIdentityCandidates"
  /\ owner = NoThread
  /\ UNCHANGED <<sessionVars, fdVars, objectVars, settingVars>>
  /\ \/ ConnectReturn(t)
     \/ /\ \E n \in 0..MaxCand : candidates' = [candidates EXCEPT ![t] = n]
        /\ Relocked(t, "auth")
        /\ UNCHANGED <<mine, agent, plan>>

\* resolveProviderCandidateUnlocked() and the attempt it yields, if any: an
\* agent, a key file, key material to ask for without the lock, nothing, or
\* an error; the cancel check of tryProviderAuth() closes the connection
NextCandidate(t) ==
  /\ pc[t] = "auth"
  /\ candidates[t] > 0
  /\ UNCHANGED <<ssh_session, session_fd, blocking, verified, fdVars, objectVars, settingVars>>
  /\ \/ /\ owner = t
        /\ ConnectReturn(t)
        /\ UNCHANGED sshauthenticatedwith
     \/ /\ candidates' = [candidates EXCEPT ![t] = @ - 1]
        /\ UNCHANGED <<mine, plan>>
        /\ \/ AuthCall(t)
           \/ AgentInit(t)
           \/ /\ Unlocked(t, "getPrivateKeyMaterial")
              /\ UNCHANGED <<sshauthenticatedwith, agent>>

\* the provider has returned key material: an error, or an attempt with it
\* (an optional candidate without usable material is passed over)
ProviderMaterial(t) ==
  /\ pc[t] = "getPrivateKeyMaterial"
  /\ owner = NoThread
  /\ UNCHANGED <<ssh_session, session_fd, blocking, verified, fdVars, objectVars, settingVars>>
  /\ \/ /\ ConnectReturn(t)
        /\ UNCHANGED sshauthenticatedwith
     \/ /\ Relocked(t, "auth")
        /\ UNCHANGED <<stackVars, sshauthenticatedwith>>
     \/ /\ Relocked(t, "finish")
        /\ sshauthenticatedwith' = TRUE
        /\ UNCHANGED stackVars
     \/ /\ Lock(t)
        /\ Close(t, "fail")
        /\ UNCHANGED <<stackVars, sshauthenticatedwith>>

\* setBlockingUnlocked(true), finishConnectUnlocked() and the return of connect()
FinishConnect(t) ==
  /\ pc[t] = "finish"
  /\ blocking' = TRUE
  /\ ConnectReturn(t)
  /\ UNCHANGED <<ssh_session, session_fd, sshauthenticatedwith, verified, fdVars,
                 objectVars, settingVars>>

-----------------------------------------------------------------------------
(* disconnect(), and disconnectUnlocked() wherever it is called from. *)

\* fault: disconnect() does not look at connect_in_progress
DisconnectAnyTime(t) ==
  /\ pc[t] = "idle"
  /\ Lock(t)
  /\ Close(t, "op")
  /\ UNCHANGED <<fdVars, sessionVars, objectVars, settingVars, stackVars>>

Disconnect(t) ==
  /\ pc[t] = "idle"
  /\ Lock(t)
  /\ ~connect_in_progress
  /\ Close(t, "op")
  /\ UNCHANGED <<fdVars, sessionVars, objectVars, settingVars, stackVars>>

\* fault: the channels are forgotten but not closed
ChannelsForgotten(t) ==
  /\ pc[t] = "closeObjects"
  /\ listener' = [l \in Listener |-> IF l \in listener_set THEN 0 ELSE listener[l]]
  /\ listener_set' = {}
  /\ channel_set' = {}
  /\ Goto(t, IF ssh_session = 0 THEN "closeTransport" ELSE "freeSession")
  /\ UNCHANGED <<channel, fdVars, sessionVars, settingVars, stackVars>>

\* listeners are cancelled and channels closed, and both sets emptied
CloseObjects(t) ==
  /\ pc[t] = "closeObjects"
  /\ listener' = [l \in Listener |-> IF l \in listener_set THEN 0 ELSE listener[l]]
  /\ listener_set' = {}
  /\ channel' = [c \in Channel |-> IF c \in channel_set THEN 0 ELSE channel[c]]
  /\ channel_set' = {}
  /\ Goto(t, IF ssh_session = 0 THEN "closeTransport" ELSE "freeSession")
  /\ UNCHANGED <<fdVars, sessionVars, settingVars, stackVars>>

\* libssh2_session_disconnect() and libssh2_session_free()
FreeSession(t) ==
  /\ pc[t] = "freeSession"
  /\ ssh_session' = 0
  /\ session_fd' = 0
  /\ verified' = 0
  /\ blocking' = TRUE
  /\ Goto(t, "closeTransport")
  /\ UNCHANGED <<sshauthenticatedwith, fdVars, objectVars, settingVars, stackVars>>

\* closeTransportUnlocked(), and on to what called disconnectUnlocked()
CloseTransport(t) ==
  /\ pc[t] = "closeTransport"
  /\ sshauthenticatedwith' = FALSE
  /\ socket' = 0
  /\ session_fd_hold' = 0
  /\ \/ ret[t] = "fail" /\ ConnectReturn(t)
     \/ ret[t] = "op" /\ OpReturn(t) /\ UNCHANGED stackVars
     \/ ret[t] = "connectINET" /\ Goto(t, "connectINET") /\ UNCHANGED stackVars
  /\ UNCHANGED <<conns, ctl_hold, ssh_session, session_fd, blocking, verified,
                 objectVars, settingVars>>

-----------------------------------------------------------------------------
(* Channels and listeners. *)

\* an operation on the session starts: BlockingHelper makes it non-blocking
StartOp(t, s) ==
  /\ pc[t] = "idle"
  /\ Lock(t)
  /\ blocking' = FALSE
  /\ pc' = [pc EXCEPT ![t] = s]
  /\ UNCHANGED <<ret, connect_in_progress, ssh_session, session_fd, verified,
                 sshauthenticatedwith, fdVars, objectVars, settingVars, stackVars>>

\* it ends: ~BlockingHelper()
EndOp(t) ==
  /\ OpReturn(t)
  /\ blocking' = TRUE
  /\ UNCHANGED <<ssh_session, session_fd, verified, sshauthenticatedwith, fdVars,
                 settingVars, stackVars>>

\* waitSocketUnlocked() fails in it: timeout, socket error or cancellation
OpWaitFails(t) ==
  /\ pc[t] \in {"channelOpen", "forwardListen", "channelOp"}
  /\ owner = t
  /\ Close(t, "op")
  /\ UNCHANGED <<owner, fdVars, sessionVars, objectVars, settingVars, stackVars>>

\* openSessionChannel(), openDirectTcpipChannel(),
\* openDirectStreamLocalChannel(), scpGetChannel(), scpPutChannel()
OpenChannel(t) == sshConnectedUnlocked /\ StartOp(t, "channelOpen")

\* SSH2Listener::accept()
Accept(t, l) == listener[l] # 0 /\ sshConnectedUnlocked /\ StartOp(t, "channelOpen")

\* registerChannelUnlockedRaw()
RegisterChannel(t, c) ==
  /\ pc[t] = "channelOpen"
  /\ channel[c] = 0
  /\ channel' = [channel EXCEPT ![c] = ssh_session]
  /\ channel_set' = channel_set \cup {c}
  /\ UNCHANGED <<listener, listener_set>>
  /\ EndOp(t)

ForwardListen(t) == sshConnectedUnlocked /\ StartOp(t, "forwardListen")

\* the listener object is made and registered
RegisterListener(t, l) ==
  /\ pc[t] = "forwardListen"
  /\ listener[l] = 0
  /\ listener' = [listener EXCEPT ![l] = ssh_session]
  /\ listener_set' = listener_set \cup {l}
  /\ UNCHANGED <<channel, channel_set>>
  /\ EndOp(t)

\* any SSH2Channel method that talks to the server; only check_open() guards it
ChannelOp(t, c) == channel[c] # 0 /\ StartOp(t, "channelOp")

\* the operation succeeds without a new object, or libssh2 reports an error
OpEnds(t) ==
  /\ pc[t] \in {"channelOpen", "forwardListen", "channelOp"}
  /\ UNCHANGED objectVars
  /\ EndOp(t)

\* SSH2Channel::destructor()
DestroyChannel(t, c) ==
  /\ pc[t] = "idle"
  /\ owner = NoThread
  /\ channel[c] # 0
  /\ channel' = [channel EXCEPT ![c] = 0]
  /\ channel_set' = channel_set \ {c}
  /\ UNCHANGED <<listener, listener_set, controlVars, fdVars, sessionVars, settingVars, stackVars>>

\* SSH2Listener::cancel() and destructor(): cancelUnlocked()
CancelListener(t, l) ==
  /\ pc[t] = "idle"
  /\ owner = NoThread
  /\ listener[l] # 0
  /\ listener' = [listener EXCEPT ![l] = 0]
  /\ listener_set' = listener_set \ {l}
  /\ UNCHANGED <<channel, channel_set, controlVars, fdVars, sessionVars, settingVars, stackVars>>

-----------------------------------------------------------------------------
(* Settings. *)

\* a setter that is refused when connected or connecting
SettingAllowed(t) == pc[t] = "idle" /\ owner = NoThread /\ ~sshSessionActiveUnlocked

setVerifyHostKey(t) ==
  /\ SettingAllowed(t)
  /\ verify_host_key' = ~verify_host_key
  /\ UNCHANGED <<host_key_policy, host_key_store, client_identity_provider>>
  /\ UNCHANGED <<controlVars, fdVars, sessionVars, objectVars, stackVars>>

setHostKeyStore(t) ==
  /\ SettingAllowed(t)
  /\ host_key_store' = ~host_key_store
  /\ UNCHANGED <<verify_host_key, host_key_policy, client_identity_provider>>
  /\ UNCHANGED <<controlVars, fdVars, sessionVars, objectVars, stackVars>>

setClientIdentityProvider(t) ==
  /\ SettingAllowed(t)
  /\ client_identity_provider' = ~client_identity_provider
  /\ UNCHANGED <<verify_host_key, host_key_policy, host_key_store>>
  /\ UNCHANGED <<controlVars, fdVars, sessionVars, objectVars, stackVars>>

\* fault: the policy can be changed while connecting
PolicyAnyTime(t) ==
  /\ pc[t] = "idle" /\ owner = NoThread
  /\ \E p \in Policy : host_key_policy' = p
  /\ UNCHANGED <<verify_host_key, host_key_store, client_identity_provider>>
  /\ UNCHANGED <<controlVars, fdVars, sessionVars, objectVars, stackVars>>

\* allowed on an established connection, refused while connecting
setHostKeyPolicy(t) ==
  /\ pc[t] = "idle" /\ owner = NoThread
  /\ ~connect_in_progress
  /\ \E p \in Policy : host_key_policy' = p
  /\ UNCHANGED <<verify_host_key, host_key_store, client_identity_provider>>
  /\ UNCHANGED <<controlVars, fdVars, sessionVars, objectVars, stackVars>>

-----------------------------------------------------------------------------
(* The async I/O controller; it never takes the lock. *)

closeIo ==
  /\ socket # 0
  /\ socket' = 0
  /\ UNCHANGED <<conns, session_fd_hold, ctl_hold>>
  /\ UNCHANGED <<controlVars, sessionVars, objectVars, settingVars, stackVars>>

holdPollableDescriptor ==
  /\ socket # 0
  /\ ctl_hold' = ctl_hold \cup {socket}
  /\ UNCHANGED <<conns, socket, session_fd_hold>>
  /\ UNCHANGED <<controlVars, sessionVars, objectVars, settingVars, stackVars>>

\* external: the controller deregisters a descriptor
ReleasePollableDescriptor(f) ==
  /\ f \in ctl_hold
  /\ ctl_hold' = ctl_hold \ {f}
  /\ UNCHANGED <<conns, socket, session_fd_hold>>
  /\ UNCHANGED <<controlVars, sessionVars, objectVars, settingVars, stackVars>>

-----------------------------------------------------------------------------
\* a step of a thread that holds the lock
LockedStep(t) ==
  \/ CheckPreconditions(t) \/ ConnectINET(t) \/ HoldSessionDescriptor(t)
  \/ PrepareSession(t) \/ Handshake(t) \/ VerifyHostKey(t) \/ UserauthList(t)
  \/ \E k \in Attempt : NextAttempt(t, k)
  \/ AuthError(t) \/ AgentIdentity(t) \/ NextCandidate(t) \/ FinishConnect(t)
  \/ CloseObjects(t) \/ FreeSession(t) \/ CloseTransport(t)
  \/ OpWaitFails(t) \/ OpEnds(t)
  \/ \E c \in Channel : RegisterChannel(t, c)
  \/ \E l \in Listener : RegisterListener(t, l)

\* Qore code called by connect() returns and the lock is taken back
CallbackReturn(t) ==
  HostKeyDecision(t) \/ HostKeyAccepted(t) \/ ProviderCandidates(t) \/ ProviderMaterial(t)

\* a thread calls a method
Call(t) ==
  \/ Connect(t) \/ Disconnect(t) \/ OpenChannel(t) \/ ForwardListen(t)
  \/ \E c \in Channel : ChannelOp(t, c) \/ DestroyChannel(t, c)
  \/ \E l \in Listener : Accept(t, l) \/ CancelListener(t, l)
  \/ setVerifyHostKey(t) \/ setHostKeyStore(t) \/ setClientIdentityProvider(t)
  \/ setHostKeyPolicy(t)

Controller ==
  closeIo \/ holdPollableDescriptor \/ \E f \in Conn : ReleasePollableDescriptor(f)

Next == Controller \/ \E t \in Thread : Call(t) \/ CallbackReturn(t) \/ LockedStep(t)

Spec == Init /\ [][Next]_vars

\* A thread inside a method goes on: libssh2 calls return, and waits for the
\* network end, by data, by the method's timeout or by a closed socket.  Qore
\* code called by connect() returns, and its thread is not kept from the lock
\* for ever by the others.
Fairness ==
  \A t \in Thread : WF_vars(LockedStep(t)) /\ SF_vars(CallbackReturn(t))

FairSpec == Spec /\ Fairness

-----------------------------------------------------------------------------
(* Properties. *)

\* libssh2 reads and writes the descriptor number it was given at the
\* handshake until the session is freed.  Whatever closeIo() and the
\* controller do meanwhile, that descriptor is not closed before, so the
\* number cannot have come to name another file (session_fd_hold).
DescriptorHeld ==
  session_fd # 0 => session_fd \in {socket, session_fd_hold} \cup ctl_hold

\* A channel has its libssh2 channel exactly as long as it is registered, and
\* then it belongs to the current session; so no channel method and no
\* destructor uses a channel of a freed session, disconnectUnlocked() never
\* closes a channel twice, and the assertion in channelDeletedUnlocked() holds.
ChannelsOnSession ==
  \A c \in Channel :
    /\ c \in channel_set <=> channel[c] # 0
    /\ channel[c] # 0 => channel[c] = ssh_session

\* The same for listeners: a listener that is not cancelled is registered and
\* belongs to the current session.
ListenersOnSession ==
  \A l \in Listener :
    /\ l \in listener_set <=> listener[l] # 0
    /\ listener[l] # 0 => listener[l] = ssh_session

\* Whichever of the dozen ways disconnectUnlocked() is reached by, it leaves no
\* object of the freed session behind.
ObjectsOnSession == ChannelsOnSession /\ ListenersOnSession

\* A thread in connect() finds the session it made when it takes the lock back
\* after a host-key store or identity provider call, in the non-blocking mode
\* its next calls rely on: nobody freed it, replaced it or ran an operation on
\* it while the lock was free.
ConnectKeepsSession ==
  \A t \in Thread : pc[t] \in OnSession =>
    /\ mine[t] # 0
    /\ ssh_session = mine[t]
    /\ ~blocking

\* The assertions of the connect path: !ssh_session in prepareSessionUnlocked()
\* and !sshauthenticatedwith before the authentication plan is built; and a
\* new descriptor is never held on top of an old one.
ConnectAssertions ==
  \A t \in Thread :
    /\ pc[t] \in {"connectINET", "hold", "prepare"} => ssh_session = 0
    /\ pc[t] \in {"connectINET", "hold"} => session_fd_hold = 0
    /\ pc[t] \in {"handshake", "hostkey", "authlist"} \cup Callback => ~sshauthenticatedwith

\* The host key of the session was accepted by verifyHostKeyUnlocked() before
\* authentication is recorded on it, before connected() reports it, and before
\* any channel or listener exists on it.
HostKeyAcceptedFirst ==
  \/ sshauthenticatedwith /\ ssh_session # 0
  \/ sshConnectedUnlocked /\ owner = NoThread
  \/ channel_set # {} \/ listener_set # {}
  => verified # 0 /\ verified = ssh_session

\* connect() uses one set of settings from its start to its end: no setter
\* changes the verification, policy, store or provider settings in between,
\* also not while Qore code runs without the lock.
SettingsFixedInConnect ==
  [][(\E t \in Thread : pc[t] \in OnSession \cup {"prepare"}) => UNCHANGED settingVars]_vars

\* connect() does not stay in progress: every path through it, with or without
\* an exception, resets the flag, so the object does not refuse connect() and
\* disconnect() for ever.
ConnectEnds == connect_in_progress ~> ~connect_in_progress

\* tryAgentAuth(): "the agent must be released before the session it was
\* created from is freed".
AgentReleasedFirst == \A t \in Thread : agent[t] # 0 => agent[t] = ssh_session
=============================================================================
