------------------------- MODULE SSH2ClientProofs -------------------------
(***************************************************************************)
(* The safety invariants of SSH2Client for every set of threads, channels  *)
(* and listeners and every bound, from one inductive invariant.            *)
(***************************************************************************)
EXTENDS SSH2Client, TLAPS

\* the stages of connect() before there is a session
BeforeSession == {"preconditions", "connectINET", "hold", "prepare"}

\* t is inside connect()
InConnect(t) ==
  \/ pc[t] \in BeforeSession \cup OnSession
  \/ pc[t] \in Closing /\ ret[t] # "op"

\* t is inside another method that uses the session
InOp(t) ==
  \/ pc[t] \in {"channelOpen", "forwardListen", "channelOp"}
  \/ pc[t] \in Closing /\ ret[t] = "op"

\* the lock is held by the thread, if any, whose stage needs it
LockInv ==
  \A t \in Thread : owner = t <=> pc[t] \notin Callback \cup {"idle"}

\* connect_in_progress says whether a thread, and then only one, is in
\* connect(); no other method uses the session meanwhile
FlagInv ==
  /\ connect_in_progress <=> \E t \in Thread : InConnect(t)
  /\ \A t, u \in Thread : InConnect(t) /\ InConnect(u) => t = u
  /\ \A t \in Thread : InOp(t) => ~connect_in_progress

\* there is no session before prepareSessionUnlocked() and after
\* libssh2_session_free(); without one, a held descriptor or a recorded
\* authentication is the lock holder's, on its way to or from a session
NoSessionInv ==
  /\ \A t \in Thread : pc[t] \in {"connectINET", "hold", "prepare", "closeTransport"}
       => ssh_session = 0
  /\ \A t \in Thread : pc[t] = "freeSession" => ssh_session # 0
  /\ ssh_session = 0 /\ session_fd_hold # 0 => owner \in Thread /\ pc[owner] \in Closing \cup {"prepare"}
  /\ ssh_session = 0 /\ sshauthenticatedwith => owner \in Thread /\ pc[owner] = "closeTransport"
  /\ \A t \in Thread : pc[t] \in {"hold", "prepare"} => conns # 0

\* the descriptor libssh2 was given is the one held, and the socket is open on
\* no other while a session is being built on it
FdInv ==
  /\ session_fd # 0 => ssh_session # 0 /\ session_fd_hold = session_fd
  /\ \A t \in Thread : pc[t] \in OnSession \cup {"prepare"} => socket \in {0, session_fd_hold}

\* the state of connect() on its own session
SessionInv ==
  /\ \A t \in Thread : pc[t] \in OnSession =>
       /\ mine[t] # 0
       /\ ssh_session = mine[t]
       /\ ~blocking
       /\ pc[t] # "finish" => ~sshauthenticatedwith
  /\ \A t \in Thread : pc[t] \in {"authlist", "auth", "agent", "finish",
                                  "getClientIdentityCandidates", "getPrivateKeyMaterial"}
       => verified = ssh_session
  /\ ssh_session # 0 /\ verified # ssh_session =>
       \E t \in Thread :
         \/ pc[t] \in {"handshake", "hostkey", "verifyHostKey", "acceptHostKeyIfAbsent"}
         \/ pc[t] \in {"closeObjects", "freeSession"} /\ ret[t] = "fail" /\ ~sshauthenticatedwith

\* channels and listeners
ObjectInv ==
  /\ ChannelsOnSession
  /\ ListenersOnSession
  /\ \A t \in Thread : pc[t] \in OnSession \cup {"connectINET", "hold", "prepare", "freeSession", "closeTransport"}
       => channel_set = {} /\ listener_set = {}
  /\ \A t \in Thread : pc[t] \in Closing /\ ret[t] = "fail"
       => channel_set = {} /\ listener_set = {}
  /\ \A t \in Thread : pc[t] \in {"channelOpen", "forwardListen", "channelOp"} => ssh_session # 0

IInv ==
  TypeOK /\ LockInv /\ FlagInv /\ NoSessionInv /\ FdInv /\ SessionInv /\ ObjectInv
-----------------------------------------------------------------------------
(* The inductive step, one lemma for each action. *)

USE ClientAssumption
USE DEF Callback, OnSession, Closing, Stage, Conn, ConnOrNil, Policy, Attempt
USE DEF controlVars, fdVars, sessionVars, objectVars, settingVars, stackVars, IInv, TypeOK

\* sshConnect() raises the flag only when no thread is in connect(), so the flag
\* keeps standing for exactly one thread.
LEMMA ConnectStep ==
  ASSUME IInv, NEW t \in Thread, Connect(t)
  PROVE  IInv'
<1>1. TypeOK'
  BY DEF Connect, Lock, ControlType, FdType, SessionType, ObjectType, SettingType,
       StackType
<1>2. LockInv'
  BY DEF Connect, Lock, ControlType, LockInv
<1>3. FlagInv'
  BY DEF Connect, Lock, ControlType, LockInv, FlagInv, InConnect, InOp, BeforeSession
<1>4. NoSessionInv' /\ FdInv' /\ SessionInv' /\ ObjectInv'
  BY DEF Connect, Lock, ControlType, FdType, SessionType, NoSessionInv, FdInv,
       StackType, SessionInv, ObjectType, ObjectInv, ChannelsOnSession,
       ListenersOnSession
<1> QED BY <1>1, <1>2, <1>3, <1>4

\* checkConnectPreconditionsUnlocked() goes on without a session, or closes the
\* old one first.
LEMMA CheckPreconditionsStep ==
  ASSUME IInv, NEW t \in Thread, CheckPreconditions(t)
  PROVE  IInv'
<1>1. TypeOK'
  <2>1. ControlType'
    BY DEF CheckPreconditions, Goto, Close, Unwind, ConnectReturn, ControlType
  <2>2. FdType' /\ SessionType' /\ ObjectType' /\ SettingType'
    BY DEF CheckPreconditions, Goto, Close, Unwind, ConnectReturn, FdType,
         SessionType, ObjectType, SettingType
  <2>3. StackType'
    BY DEF CheckPreconditions, Goto, Close, Unwind, ConnectReturn, StackType
  <2> QED BY <2>1, <2>2, <2>3
<1>2. LockInv'
  BY DEF CheckPreconditions, Goto, Close, Unwind, ConnectReturn, ControlType, LockInv
<1>3. FlagInv'
  BY DEF CheckPreconditions, Goto, Close, Unwind, ConnectReturn, ControlType, FlagInv,
       InConnect, InOp, BeforeSession
<1>4. NoSessionInv'
  BY DEF CheckPreconditions, Goto, Close, Unwind, ConnectReturn, ControlType, FdType,
       SessionType, LockInv, NoSessionInv
<1>5. FdInv' /\ SessionInv' /\ ObjectInv'
  BY DEF CheckPreconditions, Goto, Close, Unwind, ConnectReturn, ControlType, FdType,
       SessionType, FdInv, StackType, SessionInv, ObjectType, ObjectInv,
       ChannelsOnSession, ListenersOnSession
<1> QED BY <1>1, <1>2, <1>3, <1>4, <1>5

\* connectINET() opens a socket when no session exists and no descriptor is held.
LEMMA ConnectINETStep ==
  ASSUME IInv, NEW t \in Thread, ConnectINET(t)
  PROVE  IInv'
<1>1. TypeOK'
  <2>1. ControlType'
    BY DEF ConnectINET, Goto, Unwind, ConnectReturn, ControlType
  <2>2. FdType' /\ SessionType' /\ ObjectType' /\ SettingType'
    BY DEF ConnectINET, Goto, Unwind, ConnectReturn, FdType, SessionType, ObjectType,
         SettingType
  <2>3. StackType'
    BY DEF ConnectINET, Goto, Unwind, ConnectReturn, StackType
  <2> QED BY <2>1, <2>2, <2>3
<1>2. LockInv'
  BY DEF ConnectINET, Goto, Unwind, ConnectReturn, ControlType, LockInv
<1>3. FlagInv'
  BY DEF ConnectINET, Goto, Unwind, ConnectReturn, ControlType, FlagInv, InConnect,
       InOp, BeforeSession
<1>4. NoSessionInv'
  BY DEF ConnectINET, Goto, Unwind, ConnectReturn, ControlType, FdType, SessionType,
       LockInv, NoSessionInv
<1>5. FdInv'
  BY DEF ConnectINET, Goto, Unwind, ConnectReturn, ControlType, FdType, SessionType,
       LockInv, FlagInv, FdInv, InConnect, InOp, BeforeSession
<1>6. SessionInv' /\ ObjectInv'
  BY DEF ConnectINET, Goto, Unwind, ConnectReturn, ControlType, FdType, SessionType,
       StackType, SessionInv, ObjectType, ObjectInv, ChannelsOnSession,
       ListenersOnSession
<1> QED BY <1>1, <1>2, <1>3, <1>4, <1>5, <1>6

\* holdSessionDescriptorUnlocked() holds the descriptor the socket is open on.
LEMMA HoldSessionDescriptorStep ==
  ASSUME IInv, NEW t \in Thread, HoldSessionDescriptor(t)
  PROVE  IInv'
<1>1. TypeOK'
  BY DEF HoldSessionDescriptor, Goto, Close, ConnectFails, ControlType, FdType,
       SessionType, ObjectType, SettingType, StackType
<1>2. LockInv'
  BY DEF HoldSessionDescriptor, Goto, Close, ConnectFails, ControlType, LockInv
<1>3. FlagInv'
  BY DEF HoldSessionDescriptor, Goto, Close, ConnectFails, ControlType, FlagInv,
       InConnect, InOp, BeforeSession
<1>4. FdInv'
  BY DEF HoldSessionDescriptor, Goto, Close, ConnectFails, ControlType, FdType,
       SessionType, LockInv, FlagInv, NoSessionInv, FdInv, InConnect, InOp,
       BeforeSession
<1>5. NoSessionInv' /\ SessionInv' /\ ObjectInv'
  BY DEF HoldSessionDescriptor, Goto, Close, ConnectFails, ControlType, FdType,
       SessionType, NoSessionInv, StackType, SessionInv, ObjectType, ObjectInv,
       ChannelsOnSession, ListenersOnSession
<1> QED BY <1>1, <1>2, <1>3, <1>4, <1>5

\* prepareSessionUnlocked() makes the session that the connecting thread, and no
\* other, then owns.
LEMMA PrepareSessionStep ==
  ASSUME IInv, NEW t \in Thread, PrepareSession(t)
  PROVE  IInv'
<1>1. TypeOK'
  <2>1. ControlType'
    BY DEF PrepareSession, Goto, Close, ConnectFails, ControlType
  <2>2. FdType' /\ SessionType' /\ ObjectType' /\ SettingType'
    BY DEF PrepareSession, Goto, Close, ConnectFails, FdType, SessionType, ObjectType,
         SettingType
  <2>3. StackType'
    BY DEF PrepareSession, Goto, Close, ConnectFails, StackType, FdType
  <2> QED BY <2>1, <2>2, <2>3
<1>2. LockInv'
  BY DEF PrepareSession, Goto, Close, ConnectFails, ControlType, LockInv
<1>3. FlagInv'
  BY DEF PrepareSession, Goto, Close, ConnectFails, ControlType, FlagInv, InConnect,
       InOp, BeforeSession
<1>4. NoSessionInv'
  BY DEF PrepareSession, Goto, Close, ConnectFails, ControlType, FdType, SessionType,
       LockInv, NoSessionInv
<1>5. FdInv'
  BY DEF PrepareSession, Goto, Close, ConnectFails, ControlType, FdType, SessionType,
       LockInv, FlagInv, NoSessionInv, FdInv, InConnect, InOp, BeforeSession
<1>6. SessionInv'
  BY DEF PrepareSession, Goto, Close, ConnectFails, ControlType, FdType, SessionType,
       StackType, LockInv, FlagInv, NoSessionInv, SessionInv, InConnect, InOp,
       BeforeSession
<1>7. ObjectInv'
  BY DEF PrepareSession, Goto, Close, ConnectFails, ControlType, FdType, SessionType,
       ObjectType, LockInv, ObjectInv, ChannelsOnSession, ListenersOnSession
<1> QED BY <1>1, <1>2, <1>3, <1>4, <1>5, <1>6, <1>7

\* startupUnlocked() hands libssh2 the held descriptor and no other.
LEMMA HandshakeStep ==
  ASSUME IInv, NEW t \in Thread, Handshake(t)
  PROVE  IInv'
<1>1. TypeOK'
  BY DEF Handshake, Goto, Close, ConnectFails, ControlType, FdType, SessionType,
       ObjectType, SettingType, StackType
<1>2. LockInv'
  BY DEF Handshake, Goto, Close, ConnectFails, ControlType, LockInv
<1>3. FlagInv'
  BY DEF Handshake, Goto, Close, ConnectFails, ControlType, FlagInv, InConnect, InOp,
       BeforeSession
<1>4. FdInv'
  BY DEF Handshake, Goto, Close, ConnectFails, ControlType, FdType, SessionType,
       LockInv, FlagInv, NoSessionInv, FdInv, InConnect, InOp, BeforeSession
<1>5. NoSessionInv' /\ SessionInv' /\ ObjectInv'
  BY DEF Handshake, Goto, Close, ConnectFails, ControlType, FdType, SessionType,
       NoSessionInv, StackType, SessionInv, ObjectType, ObjectInv, ChannelsOnSession,
       ListenersOnSession
<1> QED BY <1>1, <1>2, <1>3, <1>4, <1>5

\* verifyHostKeyUnlocked() goes on to authentication only with an accepted key.
LEMMA VerifyHostKeyStep ==
  ASSUME IInv, NEW t \in Thread, VerifyHostKey(t)
  PROVE  IInv'
<1>1. TypeOK'
  BY DEF VerifyHostKey, Goto, Unlocked, Close, ConnectFails, ControlType, FdType,
       SessionType, ObjectType, SettingType, StackType
<1>2. LockInv'
  BY DEF VerifyHostKey, Goto, Unlocked, Close, ConnectFails, ControlType, LockInv
<1>3. FlagInv'
  BY DEF VerifyHostKey, Goto, Unlocked, Close, ConnectFails, ControlType, FlagInv,
       InConnect, InOp, BeforeSession
<1>4. NoSessionInv' /\ FdInv' /\ SessionInv' /\ ObjectInv'
  BY DEF VerifyHostKey, Goto, Unlocked, Close, ConnectFails, ControlType, FdType,
       SessionType, NoSessionInv, FdInv, StackType, SessionInv, ObjectType, ObjectInv,
       ChannelsOnSession, ListenersOnSession
<1> QED BY <1>1, <1>2, <1>3, <1>4

\* The return of the store's verifyHostKey(): the session is still the one that
\* was there before the lock was given up.
LEMMA HostKeyDecisionStep ==
  ASSUME IInv, NEW t \in Thread, HostKeyDecision(t)
  PROVE  IInv'
<1>1. TypeOK'
  BY DEF HostKeyDecision, Lock, Relocked, Close, ControlType, FdType, SessionType,
       ObjectType, SettingType, StackType
<1>2. LockInv'
  BY DEF HostKeyDecision, Lock, Relocked, Close, ControlType, LockInv
<1>3. FlagInv'
  BY DEF HostKeyDecision, Lock, Relocked, Close, ControlType, FlagInv, InConnect,
       InOp, BeforeSession
<1>4. NoSessionInv' /\ FdInv' /\ SessionInv' /\ ObjectInv'
  BY DEF HostKeyDecision, Lock, Relocked, Close, ControlType, FdType, SessionType,
       NoSessionInv, FdInv, StackType, SessionInv, ObjectType, ObjectInv,
       ChannelsOnSession, ListenersOnSession
<1> QED BY <1>1, <1>2, <1>3, <1>4

\* The return of the store's acceptHostKeyIfAbsent(), likewise.
LEMMA HostKeyAcceptedStep ==
  ASSUME IInv, NEW t \in Thread, HostKeyAccepted(t)
  PROVE  IInv'
<1>1. TypeOK'
  BY DEF HostKeyAccepted, Lock, Relocked, Close, ControlType, FdType, SessionType,
       ObjectType, SettingType, StackType
<1>2. LockInv'
  BY DEF HostKeyAccepted, Lock, Relocked, Close, ControlType, LockInv
<1>3. FlagInv'
  BY DEF HostKeyAccepted, Lock, Relocked, Close, ControlType, FlagInv, InConnect,
       InOp, BeforeSession
<1>4. NoSessionInv' /\ FdInv' /\ SessionInv' /\ ObjectInv'
  BY DEF HostKeyAccepted, Lock, Relocked, Close, ControlType, FdType, SessionType,
       NoSessionInv, FdInv, StackType, SessionInv, ObjectType, ObjectInv,
       ChannelsOnSession, ListenersOnSession
<1> QED BY <1>1, <1>2, <1>3, <1>4

\* libssh2_userauth_list() and buildAuthPlanUnlocked() leave the session alone.
LEMMA UserauthListStep ==
  ASSUME IInv, NEW t \in Thread, UserauthList(t)
  PROVE  IInv'
<1>1. TypeOK'
  <2>1. ControlType'
    BY DEF UserauthList, Goto, Close, ConnectFails, AuthPlans, ControlType
  <2>2. FdType' /\ SessionType' /\ ObjectType' /\ SettingType'
    BY DEF UserauthList, Goto, Close, ConnectFails, AuthPlans, FdType, SessionType,
         ObjectType, SettingType
  <2>3. StackType'
    <3> HIDE DEF Attempt
    <3>1. plan \in [Thread -> SUBSET Attempt]
      BY DEF IInv, TypeOK, StackType
    <3>2. \A p \in AuthPlans : [plan EXCEPT ![t] = p] \in [Thread -> SUBSET Attempt]
      BY <3>1 DEF AuthPlans
    <3>3. plan' \in [Thread -> SUBSET Attempt]
      BY <3>1, <3>2 DEF UserauthList
    <3> QED BY <3>3 DEF UserauthList, IInv, TypeOK, StackType
  <2> QED BY <2>1, <2>2, <2>3
<1>2. LockInv'
  BY DEF UserauthList, Goto, Close, ConnectFails, AuthPlans, ControlType, LockInv
<1>3. FlagInv'
  BY DEF UserauthList, Goto, Close, ConnectFails, AuthPlans, ControlType, FlagInv,
       InConnect, InOp, BeforeSession
<1>4. NoSessionInv' /\ FdInv' /\ SessionInv' /\ ObjectInv'
  BY DEF UserauthList, Goto, Close, ConnectFails, AuthPlans, ControlType, FdType,
       SessionType, NoSessionInv, FdInv, StackType, SessionInv, ObjectType, ObjectInv,
       ChannelsOnSession, ListenersOnSession
<1> QED BY <1>1, <1>2, <1>3, <1>4

\* runAuthAttemptUnlocked() records an authentication only on the verified session.
LEMMA NextAttemptStep ==
  ASSUME IInv, NEW t \in Thread, NEW k \in Attempt, NextAttempt(t, k)
  PROVE  IInv'
<1>1. TypeOK'
  <2>1. ControlType'
    BY DEF NextAttempt, Goto, Unlocked, Close, ConnectFails, AuthCall, AgentInit,
         ControlType
  <2>2. FdType' /\ SessionType' /\ ObjectType' /\ SettingType'
    BY DEF NextAttempt, Goto, Unlocked, Close, ConnectFails, AuthCall, AgentInit,
         FdType, SessionType, ObjectType, SettingType
  <2>3. StackType'
    BY DEF NextAttempt, Goto, Unlocked, Close, ConnectFails, AuthCall, AgentInit,
         StackType, SessionType
  <2> QED BY <2>1, <2>2, <2>3
<1>2. LockInv'
  BY DEF NextAttempt, Goto, Unlocked, Close, ConnectFails, AuthCall, AgentInit,
       ControlType, LockInv
<1>3. FlagInv'
  BY DEF NextAttempt, Goto, Unlocked, Close, ConnectFails, AuthCall, AgentInit,
       ControlType, FlagInv, InConnect, InOp, BeforeSession
<1>4. NoSessionInv'
  BY DEF NextAttempt, Goto, Unlocked, Close, ConnectFails, AuthCall, AgentInit,
       ControlType, FdType, SessionType, LockInv, FlagInv, SessionInv, NoSessionInv,
       InConnect, InOp, BeforeSession
<1>5. SessionInv'
  BY DEF NextAttempt, Goto, Unlocked, Close, ConnectFails, AuthCall, AgentInit,
       ControlType, FdType, SessionType, StackType, LockInv, FlagInv, SessionInv,
       InConnect, InOp, BeforeSession
<1>6. FdInv' /\ ObjectInv'
  BY DEF NextAttempt, Goto, Unlocked, Close, ConnectFails, AuthCall, AgentInit,
       ControlType, FdType, SessionType, FdInv, ObjectType, ObjectInv,
       ChannelsOnSession, ListenersOnSession
<1> QED BY <1>1, <1>2, <1>3, <1>4, <1>5, <1>6

\* authErrorUnlocked() closes the connection with no authentication recorded.
LEMMA AuthErrorStep ==
  ASSUME IInv, NEW t \in Thread, AuthError(t)
  PROVE  IInv'
<1>1. TypeOK'
  BY DEF AuthError, Close, ConnectFails, ControlType, FdType, SessionType, ObjectType,
       SettingType, StackType
<1>2. LockInv'
  BY DEF AuthError, Close, ConnectFails, ControlType, LockInv
<1>3. FlagInv'
  BY DEF AuthError, Close, ConnectFails, ControlType, FlagInv, InConnect, InOp,
       BeforeSession
<1>4. NoSessionInv' /\ FdInv' /\ SessionInv' /\ ObjectInv'
  BY DEF AuthError, Close, ConnectFails, ControlType, FdType, SessionType,
       NoSessionInv, FdInv, StackType, SessionInv, ObjectType, ObjectInv,
       ChannelsOnSession, ListenersOnSession
<1> QED BY <1>1, <1>2, <1>3, <1>4

\* The identities of tryAgentAuth(): authentication is recorded on the verified
\* session only.
LEMMA AgentIdentityStep ==
  ASSUME IInv, NEW t \in Thread, AgentIdentity(t)
  PROVE  IInv'
<1>1. TypeOK'
  <2>1. ControlType'
    BY DEF AgentIdentity, Goto, Close, ConnectFails, ControlType
  <2>2. FdType' /\ SessionType' /\ ObjectType' /\ SettingType'
    BY DEF AgentIdentity, Goto, Close, ConnectFails, FdType, SessionType, ObjectType,
         SettingType
  <2>3. StackType'
    BY DEF AgentIdentity, Goto, Close, ConnectFails, StackType
  <2> QED BY <2>1, <2>2, <2>3
<1>2. LockInv'
  BY DEF AgentIdentity, Goto, Close, ConnectFails, ControlType, LockInv
<1>3. FlagInv'
  BY DEF AgentIdentity, Goto, Close, ConnectFails, ControlType, FlagInv, InConnect,
       InOp, BeforeSession
<1>4. NoSessionInv'
  BY DEF AgentIdentity, Goto, Close, ConnectFails, ControlType, FdType, SessionType,
       LockInv, FlagInv, SessionInv, NoSessionInv, InConnect, InOp, BeforeSession
<1>5. SessionInv'
  BY DEF AgentIdentity, Goto, Close, ConnectFails, ControlType, FdType, SessionType,
       StackType, LockInv, FlagInv, SessionInv, InConnect, InOp, BeforeSession
<1>6. FdInv' /\ ObjectInv'
  BY DEF AgentIdentity, Goto, Close, ConnectFails, ControlType, FdType, SessionType,
       FdInv, ObjectType, ObjectInv, ChannelsOnSession, ListenersOnSession
<1> QED BY <1>1, <1>2, <1>3, <1>4, <1>5, <1>6

\* The return of the provider's getClientIdentityCandidates(): on an error the
\* flag is reset although the session stays.
LEMMA ProviderCandidatesStep ==
  ASSUME IInv, NEW t \in Thread, ProviderCandidates(t)
  PROVE  IInv'
<1>1. TypeOK'
  <2>1. ControlType'
    BY DEF ProviderCandidates, Lock, Relocked, Unwind, ConnectReturn, ControlType
  <2>2. FdType' /\ SessionType' /\ ObjectType' /\ SettingType'
    BY DEF ProviderCandidates, Lock, Relocked, Unwind, ConnectReturn, FdType,
         SessionType, ObjectType, SettingType
  <2>3. StackType'
    BY DEF ProviderCandidates, Lock, Relocked, Unwind, ConnectReturn, StackType
  <2> QED BY <2>1, <2>2, <2>3
<1>2. LockInv'
  BY DEF ProviderCandidates, Lock, Relocked, Unwind, ConnectReturn, ControlType,
       LockInv
<1>3. FlagInv'
  BY DEF ProviderCandidates, Lock, Relocked, Unwind, ConnectReturn, ControlType,
       FlagInv, InConnect, InOp, BeforeSession
<1>4. NoSessionInv' /\ FdInv' /\ SessionInv' /\ ObjectInv'
  BY DEF ProviderCandidates, Lock, Relocked, Unwind, ConnectReturn, ControlType,
       FdType, SessionType, NoSessionInv, FdInv, StackType, SessionInv, ObjectType,
       ObjectInv, ChannelsOnSession, ListenersOnSession
<1> QED BY <1>1, <1>2, <1>3, <1>4

\* resolveProviderCandidateUnlocked() and its attempt.
LEMMA NextCandidateStep ==
  ASSUME IInv, NEW t \in Thread, NextCandidate(t)
  PROVE  IInv'
<1>1. TypeOK'
  <2>1. ControlType'
    BY DEF NextCandidate, Goto, Unlocked, Close, Unwind, ConnectReturn, ConnectFails,
         AuthCall, AgentInit, ControlType
  <2>2. FdType' /\ SessionType' /\ ObjectType' /\ SettingType'
    BY DEF NextCandidate, Goto, Unlocked, Close, Unwind, ConnectReturn, ConnectFails,
         AuthCall, AgentInit, FdType, SessionType, ObjectType, SettingType
  <2>3. StackType'
    BY DEF NextCandidate, Goto, Unlocked, Close, Unwind, ConnectReturn, ConnectFails,
         AuthCall, AgentInit, StackType, SessionType
  <2> QED BY <2>1, <2>2, <2>3
<1>2. LockInv'
  BY DEF NextCandidate, Goto, Unlocked, Close, Unwind, ConnectReturn, ConnectFails,
       AuthCall, AgentInit, ControlType, LockInv
<1>3. FlagInv'
  BY DEF NextCandidate, Goto, Unlocked, Close, Unwind, ConnectReturn, ConnectFails,
       AuthCall, AgentInit, ControlType, FlagInv, InConnect, InOp, BeforeSession
<1>4. NoSessionInv'
  BY DEF NextCandidate, Goto, Unlocked, Close, Unwind, ConnectReturn, ConnectFails,
       AuthCall, AgentInit, ControlType, FdType, SessionType, LockInv, FlagInv,
       SessionInv, NoSessionInv, InConnect, InOp, BeforeSession
<1>5. SessionInv'
  BY DEF NextCandidate, Goto, Unlocked, Close, Unwind, ConnectReturn, ConnectFails,
       AuthCall, AgentInit, ControlType, FdType, SessionType, StackType, LockInv,
       FlagInv, SessionInv, InConnect, InOp, BeforeSession
<1>6. FdInv' /\ ObjectInv'
  BY DEF NextCandidate, Goto, Unlocked, Close, Unwind, ConnectReturn, ConnectFails,
       AuthCall, AgentInit, ControlType, FdType, SessionType, FdInv, ObjectType,
       ObjectInv, ChannelsOnSession, ListenersOnSession
<1> QED BY <1>1, <1>2, <1>3, <1>4, <1>5, <1>6

\* The return of the provider's getPrivateKeyMaterial().
LEMMA ProviderMaterialStep ==
  ASSUME IInv, NEW t \in Thread, ProviderMaterial(t)
  PROVE  IInv'
<1>1. TypeOK'
  <2>1. ControlType'
    BY DEF ProviderMaterial, Lock, Relocked, Close, Unwind, ConnectReturn, ControlType
  <2>2. FdType' /\ SessionType' /\ ObjectType' /\ SettingType'
    BY DEF ProviderMaterial, Lock, Relocked, Close, Unwind, ConnectReturn, FdType,
         SessionType, ObjectType, SettingType
  <2>3. StackType'
    BY DEF ProviderMaterial, Lock, Relocked, Close, Unwind, ConnectReturn, StackType
  <2> QED BY <2>1, <2>2, <2>3
<1>2. LockInv'
  BY DEF ProviderMaterial, Lock, Relocked, Close, Unwind, ConnectReturn, ControlType,
       LockInv
<1>3. FlagInv'
  BY DEF ProviderMaterial, Lock, Relocked, Close, Unwind, ConnectReturn, ControlType,
       FlagInv, InConnect, InOp, BeforeSession
<1>4. NoSessionInv'
  BY DEF ProviderMaterial, Lock, Relocked, Close, Unwind, ConnectReturn, ControlType,
       FdType, SessionType, LockInv, FlagInv, SessionInv, NoSessionInv, InConnect,
       InOp, BeforeSession
<1>5. SessionInv'
  BY DEF ProviderMaterial, Lock, Relocked, Close, Unwind, ConnectReturn, ControlType,
       FdType, SessionType, StackType, LockInv, FlagInv, SessionInv, InConnect, InOp,
       BeforeSession
<1>6. FdInv' /\ ObjectInv'
  BY DEF ProviderMaterial, Lock, Relocked, Close, Unwind, ConnectReturn, ControlType,
       FdType, SessionType, FdInv, ObjectType, ObjectInv, ChannelsOnSession,
       ListenersOnSession
<1> QED BY <1>1, <1>2, <1>3, <1>4, <1>5, <1>6

\* finishConnectUnlocked() leaves a verified session in blocking mode.
LEMMA FinishConnectStep ==
  ASSUME IInv, NEW t \in Thread, FinishConnect(t)
  PROVE  IInv'
<1>1. TypeOK'
  <2>1. ControlType'
    BY DEF FinishConnect, Unwind, ConnectReturn, ControlType
  <2>2. FdType' /\ SessionType' /\ ObjectType' /\ SettingType'
    BY DEF FinishConnect, Unwind, ConnectReturn, FdType, SessionType, ObjectType,
         SettingType
  <2>3. StackType'
    BY DEF FinishConnect, Unwind, ConnectReturn, StackType
  <2> QED BY <2>1, <2>2, <2>3
<1>2. LockInv'
  BY DEF FinishConnect, Unwind, ConnectReturn, ControlType, LockInv
<1>3. FlagInv'
  BY DEF FinishConnect, Unwind, ConnectReturn, ControlType, FlagInv, InConnect, InOp,
       BeforeSession
<1>4. NoSessionInv'
  BY DEF FinishConnect, Unwind, ConnectReturn, ControlType, FdType, SessionType,
       LockInv, NoSessionInv
<1>5. SessionInv'
  BY DEF FinishConnect, Unwind, ConnectReturn, ControlType, FdType, SessionType,
       StackType, LockInv, FlagInv, SessionInv, InConnect, InOp, BeforeSession
<1>6. FdInv' /\ ObjectInv'
  BY DEF FinishConnect, Unwind, ConnectReturn, ControlType, FdType, SessionType,
       FdInv, ObjectType, ObjectInv, ChannelsOnSession, ListenersOnSession
<1> QED BY <1>1, <1>2, <1>3, <1>4, <1>5, <1>6

\* disconnect() starts only when no thread is in connect().
LEMMA DisconnectStep ==
  ASSUME IInv, NEW t \in Thread, Disconnect(t)
  PROVE  IInv'
<1>1. TypeOK'
  BY DEF Disconnect, Lock, Close, ControlType, FdType, SessionType, ObjectType,
       SettingType, StackType
<1>2. LockInv'
  BY DEF Disconnect, Lock, Close, ControlType, LockInv
<1>3. FlagInv'
  BY DEF Disconnect, Lock, Close, ControlType, FlagInv, InConnect, InOp, BeforeSession
<1>4. NoSessionInv' /\ FdInv' /\ SessionInv' /\ ObjectInv'
  BY DEF Disconnect, Lock, Close, ControlType, FdType, SessionType, NoSessionInv,
       FdInv, StackType, SessionInv, ObjectType, ObjectInv, ChannelsOnSession,
       ListenersOnSession
<1> QED BY <1>1, <1>2, <1>3, <1>4

\* disconnectUnlocked() empties both object sets before it frees the session.
LEMMA CloseObjectsStep ==
  ASSUME IInv, NEW t \in Thread, CloseObjects(t)
  PROVE  IInv'
<1>1. TypeOK'
  BY DEF CloseObjects, Goto, ControlType, FdType, SessionType, ObjectType,
       SettingType, StackType
<1>2. LockInv'
  BY DEF CloseObjects, Goto, ControlType, LockInv
<1>3. FlagInv'
  BY DEF CloseObjects, Goto, ControlType, FlagInv, InConnect, InOp, BeforeSession
<1>4. NoSessionInv' /\ FdInv' /\ SessionInv' /\ ObjectInv'
  BY DEF CloseObjects, Goto, ControlType, FdType, SessionType, NoSessionInv, FdInv,
       StackType, SessionInv, ObjectType, ObjectInv, ChannelsOnSession,
       ListenersOnSession
<1> QED BY <1>1, <1>2, <1>3, <1>4

\* libssh2_session_free() is called with no object left on the session.
LEMMA FreeSessionStep ==
  ASSUME IInv, NEW t \in Thread, FreeSession(t)
  PROVE  IInv'
<1>1. TypeOK'
  BY DEF FreeSession, Goto, ControlType, FdType, SessionType, ObjectType, SettingType,
       StackType
<1>2. LockInv'
  BY DEF FreeSession, Goto, ControlType, LockInv
<1>3. FlagInv'
  BY DEF FreeSession, Goto, ControlType, FlagInv, InConnect, InOp, BeforeSession
<1>4. NoSessionInv'
  BY DEF FreeSession, Goto, ControlType, FdType, SessionType, LockInv, NoSessionInv
<1>5. FdInv'
  BY DEF FreeSession, Goto, ControlType, FdType, SessionType, FdInv
<1>6. SessionInv'
  BY DEF FreeSession, Goto, ControlType, FdType, SessionType, StackType, LockInv,
       FlagInv, SessionInv, InConnect, InOp, BeforeSession
<1>7. ObjectInv'
  BY DEF FreeSession, Goto, ControlType, FdType, SessionType, ObjectType, LockInv,
       ObjectInv, ChannelsOnSession, ListenersOnSession
<1> QED BY <1>1, <1>2, <1>3, <1>4, <1>5, <1>6, <1>7

\* closeTransportUnlocked() releases the descriptor after the session is gone.
LEMMA CloseTransportStep ==
  ASSUME IInv, NEW t \in Thread, CloseTransport(t)
  PROVE  IInv'
<1>1. TypeOK'
  <2>1. ControlType'
    BY DEF CloseTransport, Goto, Unwind, ConnectReturn, OpReturn, ControlType
  <2>2. FdType'
    BY DEF CloseTransport, Goto, Unwind, ConnectReturn, OpReturn, FdType
  <2>3. SessionType'
    BY DEF CloseTransport, Goto, Unwind, ConnectReturn, OpReturn, SessionType
  <2>4. ObjectType' /\ SettingType'
    BY DEF CloseTransport, Goto, Unwind, ConnectReturn, OpReturn, ObjectType,
         SettingType
  <2>5. StackType'
    BY DEF CloseTransport, Goto, Unwind, ConnectReturn, OpReturn, StackType
  <2> QED BY <2>1, <2>2, <2>3, <2>4, <2>5
<1>2. LockInv'
  BY DEF CloseTransport, Goto, Unwind, ConnectReturn, OpReturn, ControlType, LockInv
<1>3. FlagInv'
  BY DEF CloseTransport, Goto, Unwind, ConnectReturn, OpReturn, ControlType, FlagInv,
       InConnect, InOp, BeforeSession
<1>4. FdInv'
  BY DEF CloseTransport, Goto, Unwind, ConnectReturn, OpReturn, ControlType, FdType,
       SessionType, LockInv, FlagInv, NoSessionInv, FdInv, InConnect, InOp,
       BeforeSession
<1>5. NoSessionInv' /\ SessionInv' /\ ObjectInv'
  BY DEF CloseTransport, Goto, Unwind, ConnectReturn, OpReturn, ControlType, FdType,
       SessionType, NoSessionInv, StackType, SessionInv, ObjectType, ObjectInv,
       ChannelsOnSession, ListenersOnSession
<1> QED BY <1>1, <1>2, <1>3, <1>4, <1>5

\* registerChannelUnlockedRaw() adds a channel of the current session.
LEMMA RegisterChannelStep ==
  ASSUME IInv, NEW t \in Thread, NEW c \in Channel, RegisterChannel(t, c)
  PROVE  IInv'
<1>1. TypeOK'
  BY DEF RegisterChannel, OpReturn, EndOp, ControlType, FdType, SessionType,
       ObjectType, SettingType, StackType
<1>2. LockInv'
  BY DEF RegisterChannel, OpReturn, EndOp, ControlType, LockInv
<1>3. FlagInv'
  BY DEF RegisterChannel, OpReturn, EndOp, ControlType, FlagInv, InConnect, InOp,
       BeforeSession
<1>4. NoSessionInv'
  BY DEF RegisterChannel, OpReturn, EndOp, ControlType, FdType, SessionType, LockInv,
       NoSessionInv
<1>5. FdInv'
  BY DEF RegisterChannel, OpReturn, EndOp, ControlType, FdType, SessionType, FdInv
<1>6. SessionInv'
  BY DEF RegisterChannel, OpReturn, EndOp, ControlType, FdType, SessionType,
       StackType, LockInv, FlagInv, SessionInv, InConnect, InOp, BeforeSession
<1>7. ObjectInv'
  BY DEF RegisterChannel, OpReturn, EndOp, ControlType, FdType, SessionType,
       ObjectType, LockInv, FlagInv, ObjectInv, ChannelsOnSession, ListenersOnSession,
       InConnect, InOp, BeforeSession
<1> QED BY <1>1, <1>2, <1>3, <1>4, <1>5, <1>6, <1>7

\* forwardListen() registers a listener of the current session.
LEMMA RegisterListenerStep ==
  ASSUME IInv, NEW t \in Thread, NEW l \in Listener, RegisterListener(t, l)
  PROVE  IInv'
<1>1. TypeOK'
  BY DEF RegisterListener, OpReturn, EndOp, ControlType, FdType, SessionType,
       ObjectType, SettingType, StackType
<1>2. LockInv'
  BY DEF RegisterListener, OpReturn, EndOp, ControlType, LockInv
<1>3. FlagInv'
  BY DEF RegisterListener, OpReturn, EndOp, ControlType, FlagInv, InConnect, InOp,
       BeforeSession
<1>4. NoSessionInv'
  BY DEF RegisterListener, OpReturn, EndOp, ControlType, FdType, SessionType, LockInv,
       NoSessionInv
<1>5. FdInv'
  BY DEF RegisterListener, OpReturn, EndOp, ControlType, FdType, SessionType, FdInv
<1>6. SessionInv'
  BY DEF RegisterListener, OpReturn, EndOp, ControlType, FdType, SessionType,
       StackType, LockInv, FlagInv, SessionInv, InConnect, InOp, BeforeSession
<1>7. ObjectInv'
  BY DEF RegisterListener, OpReturn, EndOp, ControlType, FdType, SessionType,
       ObjectType, LockInv, FlagInv, ObjectInv, ChannelsOnSession, ListenersOnSession,
       InConnect, InOp, BeforeSession
<1> QED BY <1>1, <1>2, <1>3, <1>4, <1>5, <1>6, <1>7

\* An operation ends without changing the objects.
LEMMA OpEndsStep ==
  ASSUME IInv, NEW t \in Thread, OpEnds(t)
  PROVE  IInv'
<1>1. TypeOK'
  BY DEF OpEnds, OpReturn, EndOp, ControlType, FdType, SessionType, ObjectType,
       SettingType, StackType
<1>2. LockInv'
  BY DEF OpEnds, OpReturn, EndOp, ControlType, LockInv
<1>3. FlagInv'
  BY DEF OpEnds, OpReturn, EndOp, ControlType, FlagInv, InConnect, InOp, BeforeSession
<1>4. NoSessionInv'
  BY DEF OpEnds, OpReturn, EndOp, ControlType, FdType, SessionType, LockInv,
       NoSessionInv
<1>5. SessionInv'
  BY DEF OpEnds, OpReturn, EndOp, ControlType, FdType, SessionType, StackType,
       LockInv, FlagInv, SessionInv, InConnect, InOp, BeforeSession
<1>6. FdInv' /\ ObjectInv'
  BY DEF OpEnds, OpReturn, EndOp, ControlType, FdType, SessionType, FdInv, ObjectType,
       ObjectInv, ChannelsOnSession, ListenersOnSession
<1> QED BY <1>1, <1>2, <1>3, <1>4, <1>5, <1>6

\* waitSocketUnlocked() fails in an operation and disconnectUnlocked() starts.
LEMMA OpWaitFailsStep ==
  ASSUME IInv, NEW t \in Thread, OpWaitFails(t)
  PROVE  IInv'
<1>1. TypeOK'
  BY DEF OpWaitFails, Close, ControlType, FdType, SessionType, ObjectType,
       SettingType, StackType
<1>2. LockInv'
  BY DEF OpWaitFails, Close, ControlType, LockInv
<1>3. FlagInv'
  BY DEF OpWaitFails, Close, ControlType, FlagInv, InConnect, InOp, BeforeSession
<1>4. NoSessionInv' /\ FdInv' /\ SessionInv' /\ ObjectInv'
  BY DEF OpWaitFails, Close, ControlType, FdType, SessionType, NoSessionInv, FdInv,
       StackType, SessionInv, ObjectType, ObjectInv, ChannelsOnSession,
       ListenersOnSession
<1> QED BY <1>1, <1>2, <1>3, <1>4

\* The destructor of a channel takes it out of the set and frees it together.
LEMMA DestroyChannelStep ==
  ASSUME IInv, NEW t \in Thread, NEW c \in Channel, DestroyChannel(t, c)
  PROVE  IInv'
<1>1. TypeOK'
  BY DEF DestroyChannel, ControlType, FdType, SessionType, ObjectType, SettingType,
       StackType
<1>2. LockInv'
  BY DEF DestroyChannel, ControlType, LockInv
<1>3. FlagInv'
  BY DEF DestroyChannel, ControlType, FlagInv, InConnect, InOp, BeforeSession
<1>4. NoSessionInv' /\ FdInv' /\ SessionInv' /\ ObjectInv'
  BY DEF DestroyChannel, ControlType, FdType, SessionType, NoSessionInv, FdInv,
       StackType, SessionInv, ObjectType, ObjectInv, ChannelsOnSession,
       ListenersOnSession
<1> QED BY <1>1, <1>2, <1>3, <1>4

\* cancelUnlocked() takes a listener out of the set and frees it together.
LEMMA CancelListenerStep ==
  ASSUME IInv, NEW t \in Thread, NEW l \in Listener, CancelListener(t, l)
  PROVE  IInv'
<1>1. TypeOK'
  BY DEF CancelListener, ControlType, FdType, SessionType, ObjectType, SettingType,
       StackType
<1>2. LockInv'
  BY DEF CancelListener, ControlType, LockInv
<1>3. FlagInv'
  BY DEF CancelListener, ControlType, FlagInv, InConnect, InOp, BeforeSession
<1>4. NoSessionInv' /\ FdInv' /\ SessionInv' /\ ObjectInv'
  BY DEF CancelListener, ControlType, FdType, SessionType, NoSessionInv, FdInv,
       StackType, SessionInv, ObjectType, ObjectInv, ChannelsOnSession,
       ListenersOnSession
<1> QED BY <1>1, <1>2, <1>3, <1>4

\* closeIo() closes the socket under the session; the hold stays.
LEMMA closeIoStep ==
  ASSUME IInv, closeIo
  PROVE  IInv'
<1>1. TypeOK'
  BY DEF closeIo, ControlType, FdType, SessionType, ObjectType, SettingType, StackType
<1>2. LockInv'
  BY DEF closeIo, ControlType, LockInv
<1>3. FlagInv'
  BY DEF closeIo, ControlType, FlagInv, InConnect, InOp, BeforeSession
<1>4. NoSessionInv' /\ FdInv' /\ SessionInv' /\ ObjectInv'
  BY DEF closeIo, ControlType, FdType, SessionType, NoSessionInv, FdInv, StackType,
       SessionInv, ObjectType, ObjectInv, ChannelsOnSession, ListenersOnSession
<1> QED BY <1>1, <1>2, <1>3, <1>4

\* The controller takes a hold of its own.
LEMMA holdPollableDescriptorStep ==
  ASSUME IInv, holdPollableDescriptor
  PROVE  IInv'
<1>1. TypeOK'
  BY DEF holdPollableDescriptor, ControlType, FdType, SessionType, ObjectType,
       SettingType, StackType
<1>2. LockInv'
  BY DEF holdPollableDescriptor, ControlType, LockInv
<1>3. FlagInv'
  BY DEF holdPollableDescriptor, ControlType, FlagInv, InConnect, InOp, BeforeSession
<1>4. NoSessionInv' /\ FdInv' /\ SessionInv' /\ ObjectInv'
  BY DEF holdPollableDescriptor, ControlType, FdType, SessionType, NoSessionInv,
       FdInv, StackType, SessionInv, ObjectType, ObjectInv, ChannelsOnSession,
       ListenersOnSession
<1> QED BY <1>1, <1>2, <1>3, <1>4

\* The controller gives its hold up; the client's hold does not depend on it.
LEMMA ReleasePollableDescriptorStep ==
  ASSUME IInv, NEW f \in Conn, ReleasePollableDescriptor(f)
  PROVE  IInv'
<1>1. TypeOK'
  BY DEF ReleasePollableDescriptor, ControlType, FdType, SessionType, ObjectType,
       SettingType, StackType
<1>2. LockInv'
  BY DEF ReleasePollableDescriptor, ControlType, LockInv
<1>3. FlagInv'
  BY DEF ReleasePollableDescriptor, ControlType, FlagInv, InConnect, InOp,
       BeforeSession
<1>4. NoSessionInv' /\ FdInv' /\ SessionInv' /\ ObjectInv'
  BY DEF ReleasePollableDescriptor, ControlType, FdType, SessionType, NoSessionInv,
       FdInv, StackType, SessionInv, ObjectType, ObjectInv, ChannelsOnSession,
       ListenersOnSession
<1> QED BY <1>1, <1>2, <1>3, <1>4

\* A method of a channel or listener starts, on a session that no connect() is
\* building.
LEMMA StartOpStep ==
  ASSUME IInv, NEW t \in Thread, NEW s \in {"channelOpen", "forwardListen", "channelOp"},
         ssh_session # 0, ~connect_in_progress, StartOp(t, s)
  PROVE  IInv'
<1>1. TypeOK'
  BY DEF StartOp, Lock, ControlType, FdType, SessionType, ObjectType, SettingType, StackType
<1>2. LockInv'
  BY DEF StartOp, Lock, ControlType, LockInv
<1>3. FlagInv'
  BY DEF StartOp, Lock, ControlType, LockInv, FlagInv, InConnect, InOp, BeforeSession
<1>4. NoSessionInv' /\ FdInv'
  BY DEF StartOp, Lock, ControlType, FdType, SessionType, LockInv, NoSessionInv, FdInv
<1>5. SessionInv'
  BY DEF StartOp, Lock, ControlType, SessionType, LockInv, FlagInv, InConnect, BeforeSession,
         SessionInv
<1>6. ObjectInv'
  BY DEF StartOp, Lock, ControlType, SessionType, ObjectType, ObjectInv, ChannelsOnSession,
         ListenersOnSession
<1> QED BY <1>1, <1>2, <1>3, <1>4, <1>5, <1>6

\* A channel method is guarded by check_open() alone; an open channel implies
\* that a session exists and that no connect() is in progress on it.
LEMMA OpenChannelIdle ==
  ASSUME IInv, owner = NoThread, NEW c \in Channel, channel[c] # 0
  PROVE  ssh_session # 0 /\ ~connect_in_progress
<1>1. ssh_session # 0 /\ channel_set # {}
  BY DEF ObjectInv, ChannelsOnSession
<1>2. ASSUME NEW t \in Thread, InConnect(t)
      PROVE  FALSE
  <2>1. pc[t] \in Callback
    BY <1>2 DEF LockInv, InConnect, BeforeSession, ControlType
  <2> QED BY <1>1, <2>1 DEF ObjectInv
<1> QED BY <1>1, <1>2 DEF FlagInv

\* A setter changes nothing the invariant speaks of but its own variable.
LEMMA SettingStep ==
  ASSUME IInv, SettingType',
         UNCHANGED <<controlVars, fdVars, sessionVars, objectVars, stackVars>>
  PROVE  IInv'
<1>1. TypeOK'
  BY DEF ControlType, FdType, SessionType, ObjectType, StackType
<1>2. LockInv' /\ FlagInv'
  BY DEF LockInv, FlagInv, InConnect, InOp, BeforeSession
<1>3. NoSessionInv' /\ FdInv' /\ SessionInv'
  BY DEF NoSessionInv, FdInv, SessionInv
<1>4. ObjectInv'
  BY DEF ObjectInv, ChannelsOnSession, ListenersOnSession
<1> QED BY <1>1, <1>2, <1>3, <1>4

-----------------------------------------------------------------------------
(* The invariant holds initially and every step keeps it. *)

\* A freshly constructed client satisfies the inductive invariant.
LEMMA InitIInv == Init => IInv
<1> SUFFICES ASSUME Init PROVE IInv
  OBVIOUS
<1>1. TypeOK
  <2>1. ControlType
    BY DEF Init, ControlType
  <2>2. FdType
    BY DEF Init, FdType
  <2>3. SessionType
    <3>1. 0 \in ConnOrNil
      OBVIOUS
    <3>2. TRUE \in BOOLEAN /\ FALSE \in BOOLEAN
      OBVIOUS
    <3> QED BY <3>1, <3>2, Zenon DEF Init, SessionType
  <2>4. ObjectType
    BY DEF Init, ObjectType
  <2>5. SettingType
    BY DEF Init, SettingType
  <2>6. StackType
    BY DEF Init, StackType
  <2> QED BY <2>1, <2>2, <2>3, <2>4, <2>5, <2>6
<1>2. LockInv /\ FlagInv
  BY DEF Init, LockInv, FlagInv, InConnect, InOp, BeforeSession
<1>3. NoSessionInv /\ FdInv /\ SessionInv
  BY DEF Init, NoSessionInv, FdInv, SessionInv
<1>4. ObjectInv
  BY DEF Init, ObjectInv, ChannelsOnSession, ListenersOnSession
<1> QED BY <1>1, <1>2, <1>3, <1>4

\* Every method call, every stage of a method, every return of Qore code and
\* every step of the I/O controller keeps the inductive invariant.
LEMMA NextIInv == IInv /\ [Next]_vars => IInv'
<1> SUFFICES ASSUME IInv, [Next]_vars PROVE IInv'
  OBVIOUS
<1> HIDE DEF IInv
<1>1. CASE Controller
  BY <1>1, closeIoStep, holdPollableDescriptorStep, ReleasePollableDescriptorStep DEF Controller
<1>2. ASSUME NEW t \in Thread, Call(t)
      PROVE  IInv'
  <2>1. CASE Connect(t) \/ Disconnect(t)
    BY <2>1, ConnectStep, DisconnectStep
  <2>2. CASE OpenChannel(t) \/ ForwardListen(t) \/ \E l \in Listener : Accept(t, l)
    BY <2>2, StartOpStep DEF OpenChannel, ForwardListen, Accept, sshConnectedUnlocked
  <2>3. ASSUME NEW c \in Channel, ChannelOp(t, c)
        PROVE  IInv'
    <3>1. ssh_session # 0 /\ ~connect_in_progress
      BY <2>3, OpenChannelIdle DEF ChannelOp, StartOp, Lock
    <3> QED BY <2>3, <3>1, StartOpStep DEF ChannelOp
  <2>4. CASE \E c \in Channel : DestroyChannel(t, c)
    BY <2>4, DestroyChannelStep
  <2>5. CASE \E l \in Listener : CancelListener(t, l)
    BY <2>5, CancelListenerStep
  <2>6. CASE setVerifyHostKey(t) \/ setHostKeyStore(t) \/ setClientIdentityProvider(t)
             \/ setHostKeyPolicy(t)
    <3>1. SettingType'
      BY <2>6 DEF IInv, SettingType, setVerifyHostKey, setHostKeyStore,
                  setClientIdentityProvider, setHostKeyPolicy
    <3>2. UNCHANGED <<controlVars, fdVars, sessionVars, objectVars, stackVars>>
      BY <2>6 DEF setVerifyHostKey, setHostKeyStore, setClientIdentityProvider,
                  setHostKeyPolicy
    <3> QED BY <3>1, <3>2, SettingStep
  <2> QED BY <1>2, <2>1, <2>2, <2>3, <2>4, <2>5, <2>6 DEF Call
<1>3. ASSUME NEW t \in Thread, CallbackReturn(t)
      PROVE  IInv'
  BY <1>3, HostKeyDecisionStep, HostKeyAcceptedStep, ProviderCandidatesStep,
     ProviderMaterialStep DEF CallbackReturn
<1>4. ASSUME NEW t \in Thread, LockedStep(t)
      PROVE  IInv'
  <2>1. CASE \/ CheckPreconditions(t) \/ ConnectINET(t) \/ HoldSessionDescriptor(t)
             \/ PrepareSession(t) \/ Handshake(t) \/ VerifyHostKey(t) \/ UserauthList(t)
    BY <2>1, CheckPreconditionsStep, ConnectINETStep, HoldSessionDescriptorStep,
       PrepareSessionStep, HandshakeStep, VerifyHostKeyStep, UserauthListStep
  <2>2. CASE (\E k \in Attempt : NextAttempt(t, k)) \/ AuthError(t) \/ AgentIdentity(t)
             \/ NextCandidate(t) \/ FinishConnect(t)
    BY <2>2, NextAttemptStep, AuthErrorStep, AgentIdentityStep, NextCandidateStep,
       FinishConnectStep
  <2>3. CASE CloseObjects(t) \/ FreeSession(t) \/ CloseTransport(t)
    BY <2>3, CloseObjectsStep, FreeSessionStep, CloseTransportStep
  <2>4. CASE OpWaitFails(t) \/ OpEnds(t) \/ (\E c \in Channel : RegisterChannel(t, c))
             \/ (\E l \in Listener : RegisterListener(t, l))
    BY <2>4, OpWaitFailsStep, OpEndsStep, RegisterChannelStep, RegisterListenerStep
  <2> QED BY <1>4, <2>1, <2>2, <2>3, <2>4 DEF LockedStep
<1>5. CASE UNCHANGED vars
  <2>1. SettingType' /\ UNCHANGED <<controlVars, fdVars, sessionVars, objectVars, stackVars>>
    BY <1>5 DEF vars, IInv, SettingType
  <2> QED BY <2>1, SettingStep
<1> QED BY <1>1, <1>2, <1>3, <1>4, <1>5 DEF Next

\* The inductive invariant holds in every reachable state of a client.
THEOREM Invariance == Spec => []IInv
BY InitIInv, NextIInv, PTL DEF Spec

-----------------------------------------------------------------------------
(* What it gives. *)

\* Type correctness: a client's state stays within the values the code gives it.
THEOREM TypeCorrect == Spec => []TypeOK
<1>1. IInv => TypeOK
  OBVIOUS
<1> QED BY Invariance, <1>1, PTL

\* The descriptor libssh2 uses is never closed before the session is freed,
\* whatever closeIo() and the I/O controller do (session_fd_hold).
THEOREM DescriptorSafe == Spec => []DescriptorHeld
<1>1. IInv => DescriptorHeld
  BY DEF FdInv, DescriptorHeld
<1> QED BY Invariance, <1>1, PTL

\* Channels and listeners are registered as long as they have a libssh2 object,
\* which belongs to the current session: nothing is used after, or freed twice
\* by, disconnectUnlocked().
THEOREM ObjectsSafe == Spec => []ObjectsOnSession
<1>1. IInv => ObjectsOnSession
  BY DEF ObjectInv, ObjectsOnSession
<1> QED BY Invariance, <1>1, PTL

\* connect() finds its own session again whenever it retakes the lock after a
\* host-key store or identity provider call.
THEOREM ConnectSafe == Spec => []ConnectKeepsSession
<1>1. IInv => ConnectKeepsSession
  BY DEF SessionInv, ConnectKeepsSession
<1> QED BY Invariance, <1>1, PTL

\* The assertions on the connect path cannot fail.
THEOREM AssertionsHold == Spec => []ConnectAssertions
<1>1. IInv => ConnectAssertions
  BY DEF ConnectAssertions, LockInv, NoSessionInv, SessionInv
<1> QED BY Invariance, <1>1, PTL

\* Authentication, a connected session and its channels and listeners all come
\* after verifyHostKeyUnlocked() has accepted the host key of that session.
THEOREM HostKeySafe == Spec => []HostKeyAcceptedFirst
<1>1. IInv => HostKeyAcceptedFirst
  <2> SUFFICES ASSUME IInv, ssh_session # 0, verified # ssh_session
               PROVE  /\ ~sshauthenticatedwith
                      /\ channel_set = {} /\ listener_set = {}
                      /\ ~(sshConnectedUnlocked /\ owner = NoThread)
    <3>1. ASSUME IInv, channel_set # {} \/ listener_set # {}
          PROVE  ssh_session # 0
      BY <3>1 DEF ObjectInv, ChannelsOnSession, ListenersOnSession, ObjectType
    <3> QED BY <3>1 DEF HostKeyAcceptedFirst, sshConnectedUnlocked
  <2>1. PICK t \in Thread :
          \/ pc[t] \in {"handshake", "hostkey", "verifyHostKey", "acceptHostKeyIfAbsent"}
          \/ pc[t] \in {"closeObjects", "freeSession"} /\ ret[t] = "fail" /\ ~sshauthenticatedwith
    BY DEF SessionInv
  <2>2. ~sshauthenticatedwith
    BY <2>1 DEF SessionInv
  <2>3. channel_set = {} /\ listener_set = {}
    BY <2>1 DEF ObjectInv
  <2>4. connect_in_progress
    BY <2>1 DEF FlagInv, InConnect
  <2> QED BY <2>2, <2>3, <2>4 DEF sshConnectedUnlocked
<1> QED BY Invariance, <1>1, PTL

\* No setter changes a setting that connect() reads between the opening of the
\* connection and its return, the callbacks' unlocked stretches included.
THEOREM SettingsSafe == Spec => SettingsFixedInConnect
<1>1. ASSUME IInv, [Next]_vars, NEW t \in Thread, pc[t] \in OnSession \cup {"prepare"}
      PROVE  UNCHANGED settingVars
  <2>1. connect_in_progress
    BY <1>1 DEF FlagInv, InConnect, BeforeSession
  <2>2. ASSUME NEW u \in Thread, Call(u)
        PROVE  UNCHANGED settingVars
    BY <2>1, <2>2 DEF Call, Connect, Disconnect, OpenChannel, ForwardListen, ChannelOp,
       DestroyChannel, Accept, CancelListener, StartOp, setVerifyHostKey, setHostKeyStore,
       setClientIdentityProvider, setHostKeyPolicy, SettingAllowed, sshSessionActiveUnlocked
  <2>3. ASSUME NEW u \in Thread, CallbackReturn(u)
        PROVE  UNCHANGED settingVars
    BY <2>3 DEF CallbackReturn, HostKeyDecision, HostKeyAccepted, ProviderCandidates,
       ProviderMaterial
  <2>4. ASSUME NEW u \in Thread, LockedStep(u)
        PROVE  UNCHANGED settingVars
    BY <2>4 DEF LockedStep, CheckPreconditions, ConnectINET, HoldSessionDescriptor,
       PrepareSession, Handshake, VerifyHostKey, UserauthList, NextAttempt, AuthError,
       AgentIdentity, NextCandidate, FinishConnect, CloseObjects, FreeSession,
       CloseTransport, OpWaitFails, OpEnds, RegisterChannel, RegisterListener, EndOp
  <2>5. Controller => UNCHANGED settingVars
    BY DEF Controller, closeIo, holdPollableDescriptor, ReleasePollableDescriptor
  <2> QED BY <1>1, <2>2, <2>3, <2>4, <2>5 DEF Next, vars
<1>2. IInv /\ [Next]_vars =>
        [(\E t \in Thread : pc[t] \in OnSession \cup {"prepare"}) => UNCHANGED settingVars]_vars
  BY <1>1
<1> QED BY Invariance, <1>2, PTL DEF Spec, SettingsFixedInConnect
=============================================================================
