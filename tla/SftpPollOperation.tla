------------------------- MODULE SftpPollOperation -------------------------
(***************************************************************************)
(* The non-blocking retrieval of a file, SFTPClient::startPollGetFile(),   *)
(* and the SFTPClient it works on.                                         *)
(*                                                                         *)
(* The operation is driven by continuePoll(): it runs stage handlers under *)
(* the client's lock until one of them has to wait, and then returns to    *)
(* the caller, who polls the descriptor.  Between two calls only the flag  *)
(* poll_op_in_progress keeps other users off the session.  One handler     *)
(* call is one step.  closeIntern() is a step of its own, since a handler  *)
(* that reports an error can have closed the connection before it.         *)
(*                                                                         *)
(* Sessions are numbered by the connection they are made on.  A blocking   *)
(* method of the client is one step, seen by what it leaves behind.        *)
(***************************************************************************)
EXTENDS Integers, Sequences

CONSTANTS
  MaxSession,   \* bound: connections made in a behaviour
  MaxSize,      \* bound: size of the remote file
  MaxCand       \* bound: candidates of the client identity provider

ASSUME PollAssumption == MaxSession \in Nat /\ MaxSize \in Nat /\ MaxCand \in Nat

VARIABLES
  (* the client *)
  poll_op_in_progress,
  conns,                  \* connections made so far
  ssh_session,            \* the session, or 0
  sftp_session,           \* the session the SFTP session was made on, or 0
  socket,                 \* the connection the socket is open on, or 0
  session_fd_hold,        \* the connection whose descriptor is held, or 0
  blocking,               \* the session is in blocking mode
  verified,               \* history: the session whose host key was accepted, or 0
  sshauthenticatedwith,   \* an authentication method is recorded
  sftppath,               \* the remote working directory is known
  (* the operation *)
  state,                  \* a SftpPollState, or "NONE" without an operation object
  driver,                 \* where the driving thread is; see Stage
  disconnect,             \* the argument of the closeIntern() it is in
  reused_session,
  reconnect_attempted,
  restore_session_blocking,
  auth_queue,
  agent,                  \* the session the Ssh2AgentHelper was made from, or 0
  provider_candidates,    \* candidates left, -1 when there is no list
  sftp_handle,            \* the session the remote file handle was opened on, or 0
  file_size,
  bytes_read

transportVars == <<ssh_session, sftp_session, socket, session_fd_hold, blocking,
                   verified, sshauthenticatedwith>>
clientVars == <<poll_op_in_progress, conns, sftppath, transportVars>>
authVars   == <<auth_queue, agent, provider_candidates>>
fileVars   == <<sftp_handle, file_size, bytes_read>>
onceVars   == <<reused_session, reconnect_attempted, restore_session_blocking>>
vars == <<clientVars, state, driver, disconnect, onceVars, authVars, fileVars>>

Session == 0..MaxSession

Attempt == {"AGENT", "PROVIDER", "CALL"}

\* plans as buildAuthPlanUnlocked() orders them, a run of library calls taken
\* as one: a configured provider comes before or after the explicit keys, the
\* agent, the default keys and the password follow it
Plan == {p \o q : p \in {<<>>, <<"PROVIDER">>, <<"CALL", "PROVIDER">>, <<"PROVIDER", "CALL">>},
                  q \in {<<>>, <<"AGENT">>, <<"CALL">>, <<"AGENT", "CALL">>}}

\* what can be left of a plan
Queue == {SubSeq(p, i, Len(p)) : p \in Plan, i \in 1..5}

\* a provider candidate puts one attempt in front of the provider marker
Front == {<<a>> \o q : a \in {"AGENT", "CALL"}, q \in {p \in Queue : p # <<>> /\ Head(p) = "PROVIDER"}}

\* stages that use the SFTP session, in which a handle may be open
Transfer == {"REALPATH", "STAT", "OPEN", "READ", "CLOSE"}

\* stages that work on a session
OnSession == {"HANDSHAKE", "AUTHLIST", "AUTH", "SFTP_INIT"} \cup Transfer

Active == {"START", "CONNECTING"} \cup OnSession

\* the driving thread is in a handler without the lock, running Qore code
Callback == {"verifyHostKey", "getClientIdentityCandidates", "getPrivateKeyMaterial"}

\* "out" of continuePoll(), "in" it, or in closeIntern(), called by a handler
\* or abort() ("closing") or by the destructor ("destroying")
Stage == {"out", "in", "closing", "destroying"} \cup Callback

\* the lock is free
Unlocked == driver = "out" \/ driver \in Callback

\* The variables keep the values the code gives them.
TypeOK ==
  /\ poll_op_in_progress \in BOOLEAN
  /\ conns \in Session
  /\ ssh_session \in Session
  /\ sftp_session \in Session
  /\ socket \in Session
  /\ session_fd_hold \in Session
  /\ blocking \in BOOLEAN
  /\ verified \in Session
  /\ sshauthenticatedwith \in BOOLEAN
  /\ sftppath \in BOOLEAN
  /\ state \in Active \cup {"NONE", "DONE", "CLOSED"}
  /\ driver \in Stage
  /\ disconnect \in BOOLEAN
  /\ reused_session \in BOOLEAN
  /\ reconnect_attempted \in BOOLEAN
  /\ restore_session_blocking \in BOOLEAN
  /\ auth_queue \in Queue \cup Front
  /\ agent \in Session
  /\ provider_candidates \in -1..MaxCand
  /\ sftp_handle \in Session
  /\ file_size \in 0..MaxSize
  /\ bytes_read \in 0..file_size

Init ==
  /\ poll_op_in_progress = FALSE
  /\ conns = 0
  /\ ssh_session = 0
  /\ sftp_session = 0
  /\ socket = 0
  /\ session_fd_hold = 0
  /\ blocking = TRUE
  /\ verified = 0
  /\ sshauthenticatedwith = FALSE
  /\ sftppath = FALSE
  /\ state = "NONE"
  /\ driver = "out"
  /\ disconnect = FALSE
  /\ reused_session = FALSE
  /\ reconnect_attempted = FALSE
  /\ restore_session_blocking = FALSE
  /\ auth_queue = <<>>
  /\ agent = 0
  /\ provider_candidates = -1
  /\ sftp_handle = 0
  /\ file_size = 0
  /\ bytes_read = 0

-----------------------------------------------------------------------------
(* What the handlers are made of. *)

\* disconnectUnlocked(): the SFTP session, the session and the transport go
Disconnected ==
  /\ ssh_session' = 0
  /\ sftp_session' = 0
  /\ socket' = 0
  /\ session_fd_hold' = 0
  /\ blocking' = TRUE
  /\ verified' = 0
  /\ sshauthenticatedwith' = FALSE

\* the handler has advanced the state and the loop goes on
Advance(s) == state' = s /\ UNCHANGED <<driver, disconnect>>

\* the handler calls closeIntern(d)
Close(d) == driver' = "closing" /\ disconnect' = d /\ UNCHANGED state

\* the handler must wait: getSessionPollInfo() hands the descriptor out, and
\* ends the operation if the controller has closed the socket
Wait ==
  /\ \/ socket # 0 /\ driver' = "out" /\ UNCHANGED <<state, disconnect>>
     \/ socket = 0 /\ Close(TRUE)
  /\ UNCHANGED transportVars

\* sessionError(): reports the error and closes the connection if there is
\* something to read on it, taken for the end of the connection; then
\* closeIntern(d)
SessionError(d) ==
  /\ Close(d)
  /\ UNCHANGED transportVars \/ (socket # 0 /\ Disconnected)

\* retryAfterConnectionLoss(): once, and only on a session adopted from before
RetryAfterConnectionLoss ==
  /\ reused_session
  /\ ~reconnect_attempted
  /\ reconnect_attempted' = TRUE
  /\ Disconnected
  /\ restore_session_blocking' = FALSE
  /\ file_size' = 0
  /\ bytes_read' = 0
  /\ Advance("START")
  /\ UNCHANGED <<reused_session, sftp_handle>>

\* fault: the session keeps its blocking mode
SessionStaysBlocking == restore_session_blocking' = TRUE /\ UNCHANGED blocking

\* fault: nothing remembers that the mode must be restored
ModeNotRemembered == blocking' = FALSE /\ UNCHANGED restore_session_blocking

\* the session reports EAGAIN from now on, until restoreBlockingIntern()
SetNonBlocking == blocking' = FALSE /\ restore_session_blocking' = TRUE

\* holdSessionDescriptorUnlocked() and prepareSessionUnlocked()
NewSession(c) ==
  /\ ssh_session' = c
  /\ socket' = c
  /\ session_fd_hold' = c

-----------------------------------------------------------------------------
(* The operation object. *)

\* startPollGetFile(): reservePollOperation() and the constructor
startPollGetFile ==
  /\ state = "NONE"
  /\ ~poll_op_in_progress
  /\ poll_op_in_progress' = TRUE
  /\ state' = "START"
  /\ reused_session' = FALSE
  /\ reconnect_attempted' = FALSE
  /\ restore_session_blocking' = FALSE
  /\ file_size' = 0
  /\ bytes_read' = 0
  /\ UNCHANGED <<conns, sftppath, transportVars, driver, disconnect, authVars, sftp_handle>>

\* continuePoll(): the lock is taken; a cancelled operation is closed
ContinuePoll ==
  /\ driver = "out"
  /\ state \in Active
  /\ \/ driver' = "in" /\ UNCHANGED <<state, disconnect>>
     \/ Close(TRUE)
  /\ UNCHANGED <<clientVars, onceVars, authVars, fileVars>>

abort ==
  /\ driver = "out"
  /\ state \in Active
  /\ Close(TRUE)
  /\ UNCHANGED <<clientVars, onceVars, authVars, fileVars>>

\* deref(): the last reference goes; after the end there is nothing left to do
Destroy ==
  /\ driver = "out"
  /\ \/ /\ state \in Active
        /\ driver' = "destroying"
        /\ disconnect' = FALSE
        /\ UNCHANGED state
     \/ /\ state \in {"DONE", "CLOSED"}
        /\ state' = "NONE"
        /\ UNCHANGED <<driver, disconnect>>
  /\ UNCHANGED <<clientVars, onceVars, authVars, fileVars>>

\* fault: the candidate list is not released
CandidatesKept == agent' = 0 /\ sftp_handle' = 0 /\ UNCHANGED provider_candidates

ReleaseResources == agent' = 0 /\ provider_candidates' = -1 /\ sftp_handle' = 0

\* fault: an operation that fails is left in its stage
StageKept == state' = IF driver = "destroying" THEN "NONE" ELSE state

\* the operation object is gone, done, or closed
FinalState ==
  state' = IF driver = "destroying" THEN "NONE"
           ELSE IF state = "DONE" THEN "DONE" ELSE "CLOSED"

\* fault: the client stays reserved when the object is destroyed
ReservedForEver == poll_op_in_progress' = (driver = "destroying")

GiveBack == poll_op_in_progress' = FALSE

\* closeIntern(): the agent, the candidates and the handle are released, the
\* connection is closed if asked for or if the handle cannot be closed, the
\* blocking mode is restored, and the reservation given up
CloseIntern ==
  /\ driver \in {"closing", "destroying"}
  /\ ReleaseResources
  /\ \/ /\ disconnect \/ sftp_handle # 0
        /\ Disconnected
     \/ /\ ~disconnect
        /\ blocking' = (blocking \/ restore_session_blocking)
        /\ UNCHANGED <<ssh_session, sftp_session, socket, session_fd_hold, verified,
                       sshauthenticatedwith>>
  /\ restore_session_blocking' = FALSE
  /\ FinalState
  /\ GiveBack
  /\ driver' = "out"
  /\ auth_queue' = <<>>
  /\ UNCHANGED <<conns, sftppath, disconnect, reused_session, reconnect_attempted,
                 file_size, bytes_read>>

-----------------------------------------------------------------------------
(* The stage handlers of continuePollIntern(). *)

In(s) == driver = "in" /\ state = s

\* an established session is adopted, unless its descriptor is gone; otherwise
\* a connection is started
Start ==
  /\ In("START")
  /\ \/ /\ ssh_session # 0
        /\ reused_session' = TRUE
        /\ state' = IF sftp_session # 0 THEN "STAT" ELSE "SFTP_INIT"
        /\ \/ /\ socket # 0
              /\ SetNonBlocking
              /\ UNCHANGED <<driver, disconnect>>
           \/ /\ socket = 0
              /\ driver' = "closing"
              /\ disconnect' = FALSE
              /\ UNCHANGED <<blocking, restore_session_blocking>>
     \/ /\ ssh_session = 0
        /\ Advance("CONNECTING") \/ \E d \in BOOLEAN : Close(d)
        /\ UNCHANGED <<reused_session, blocking, restore_session_blocking>>
  /\ UNCHANGED <<poll_op_in_progress, conns, sftppath, ssh_session, sftp_session, socket,
                 session_fd_hold, verified, sshauthenticatedwith, reconnect_attempted,
                 authVars, fileVars>>

\* the connection waits, fails, or is there: then the descriptor is held and a
\* non-blocking session made, or one of the two fails
HandleConnecting ==
  /\ In("CONNECTING")
  /\ \/ /\ \/ driver' = "out" /\ UNCHANGED <<state, disconnect>>
           \/ Close(TRUE)
        /\ UNCHANGED <<conns, transportVars, restore_session_blocking>>
     \/ /\ conns < MaxSession
        /\ conns' = conns + 1
        /\ \/ /\ NewSession(conns + 1)
              /\ SetNonBlocking
              /\ Advance("HANDSHAKE")
              /\ UNCHANGED <<sftp_session, verified, sshauthenticatedwith>>
           \/ /\ socket' \in {0, conns + 1}
              /\ session_fd_hold' = socket'
              /\ Close(TRUE)
              /\ UNCHANGED <<ssh_session, sftp_session, blocking, verified,
                             sshauthenticatedwith, restore_session_blocking>>
           \/ /\ Disconnected
              /\ Close(FALSE)
              /\ UNCHANGED restore_session_blocking
  /\ UNCHANGED <<poll_op_in_progress, sftppath, reused_session, reconnect_attempted,
                 authVars, fileVars>>

\* verifyHostKeyUnlocked() has accepted the key, or refused it and closed the
\* connection itself
HostKey ==
  \/ /\ verified' = ssh_session
     /\ driver' = "in"
     /\ state' = "AUTHLIST"
     /\ UNCHANGED <<disconnect, ssh_session, sftp_session, socket, session_fd_hold,
                    blocking, sshauthenticatedwith>>
  \/ Disconnected /\ Close(FALSE)

HandleHandshake ==
  /\ In("HANDSHAKE")
  /\ \/ Wait
     \/ Close(TRUE) /\ UNCHANGED transportVars
     \/ HostKey
     \/ driver' = "verifyHostKey" /\ UNCHANGED <<state, disconnect, transportVars>>
  /\ UNCHANGED <<poll_op_in_progress, conns, sftppath, onceVars, authVars, fileVars>>

\* the host-key store has returned
HostKeyDecision ==
  /\ driver = "verifyHostKey"
  /\ HostKey
  /\ UNCHANGED <<poll_op_in_progress, conns, sftppath, onceVars, authVars, fileVars>>

HandleAuthList ==
  /\ In("AUTHLIST")
  /\ \/ Wait /\ UNCHANGED auth_queue
     \/ /\ auth_queue' \in Plan
        /\ Advance("AUTH")
        /\ UNCHANGED transportVars
  /\ UNCHANGED <<poll_op_in_progress, conns, sftppath, onceVars, agent,
                 provider_candidates, fileVars>>

\* an attempt has logged in: the plan is released, finishConnectUnlocked()
LoggedIn ==
  /\ sshauthenticatedwith' = TRUE
  /\ auth_queue' = <<>>
  /\ agent' = 0
  /\ provider_candidates' = -1
  /\ Advance("SFTP_INIT")
  /\ UNCHANGED <<ssh_session, sftp_session, socket, session_fd_hold, blocking, verified>>

\* the queue changes and the loop goes on
Queued(q) ==
  /\ auth_queue' = q
  /\ UNCHANGED <<state, disconnect, transportVars>>

\* handleAuth() for an attempt that is one libssh2 call
AuthCall ==
  /\ Head(auth_queue) = "CALL"
  /\ \/ LoggedIn
     \/ Queued(Tail(auth_queue)) /\ UNCHANGED <<driver, agent, provider_candidates>>
     \/ Wait /\ UNCHANGED authVars
     \/ Disconnected /\ Close(FALSE) /\ UNCHANGED authVars   \* access denied

\* the agent has no usable identity left
AgentNoMore == agent' = 0

\* stepAgentAuth()
AuthAgent ==
  /\ Head(auth_queue) = "AGENT"
  /\ \/ LoggedIn
     \/ /\ Queued(Tail(auth_queue))
        /\ AgentNoMore
        /\ UNCHANGED <<driver, provider_candidates>>
     \/ /\ agent' = ssh_session
        /\ Wait
        /\ UNCHANGED <<auth_queue, provider_candidates>>
     \/ /\ agent' = 0
        /\ Close(TRUE)
        /\ UNCHANGED <<transportVars, auth_queue, provider_candidates>>

\* expandProviderAttempt(): no public key method, the candidates are asked
\* for, used up, or the next one is resolved; an error or a cancellation
\* closes the operation
AuthProvider ==
  /\ Head(auth_queue) = "PROVIDER"
  /\ UNCHANGED agent
  /\ \/ /\ provider_candidates = -1
        /\ Queued(Tail(auth_queue))
        /\ UNCHANGED <<driver, provider_candidates>>
     \/ /\ provider_candidates = -1
        /\ driver' = "getClientIdentityCandidates"
        /\ Queued(auth_queue)
        /\ UNCHANGED provider_candidates
     \/ /\ provider_candidates = 0
        /\ provider_candidates' = -1
        /\ Queued(Tail(auth_queue))
        /\ UNCHANGED driver
     \/ /\ provider_candidates > 0
        /\ provider_candidates' = provider_candidates - 1
        /\ \/ /\ \E a \in {<<>>, <<"CALL">>, <<"AGENT">>} : Queued(a \o auth_queue)
              /\ UNCHANGED driver
           \/ /\ driver' = "getPrivateKeyMaterial"
              /\ Queued(auth_queue)
           \/ Close(TRUE) /\ UNCHANGED <<transportVars, auth_queue>>

\* fault: the operation goes on when no attempt is left
AuthPlanExhausted ==
  /\ In("AUTH")
  /\ \/ /\ auth_queue = <<>>
        /\ Advance("SFTP_INIT")
        /\ UNCHANGED <<transportVars, authVars>>
     \/ auth_queue # <<>> /\ (AuthCall \/ AuthAgent \/ AuthProvider)
  /\ UNCHANGED <<poll_op_in_progress, conns, sftppath, onceVars, fileVars>>

HandleAuth ==
  /\ In("AUTH")
  /\ \/ /\ auth_queue = <<>>
        /\ Close(TRUE)
        /\ UNCHANGED <<transportVars, authVars>>
     \/ auth_queue # <<>> /\ (AuthCall \/ AuthAgent \/ AuthProvider)
  /\ UNCHANGED <<poll_op_in_progress, conns, sftppath, onceVars, fileVars>>

\* the provider has returned candidates or key material, or failed
ProviderReturn ==
  /\ \/ /\ driver = "getClientIdentityCandidates"
        /\ \/ /\ provider_candidates' \in 0..MaxCand
              /\ driver' = "in"
              /\ Queued(auth_queue)
           \/ /\ Close(TRUE)
              /\ UNCHANGED <<transportVars, auth_queue, provider_candidates>>
     \/ /\ driver = "getPrivateKeyMaterial"
        /\ UNCHANGED provider_candidates
        /\ \/ /\ \E a \in {<<>>, <<"CALL">>} : Queued(a \o auth_queue)
              /\ driver' = "in"
           \/ Close(TRUE) /\ UNCHANGED <<transportVars, auth_queue>>
  /\ UNCHANGED <<poll_op_in_progress, conns, sftppath, agent, onceVars, fileVars>>

HandleSftpInit ==
  /\ In("SFTP_INIT")
  /\ \/ Wait /\ UNCHANGED <<onceVars, fileVars>>
     \/ RetryAfterConnectionLoss
     \/ SessionError(TRUE) /\ UNCHANGED <<onceVars, fileVars>>
     \/ /\ sftp_session' = ssh_session
        /\ Advance(IF sftppath THEN "STAT" ELSE "REALPATH")
        /\ UNCHANGED <<ssh_session, socket, session_fd_hold, blocking, verified,
                       sshauthenticatedwith, onceVars, fileVars>>
  /\ UNCHANGED <<poll_op_in_progress, conns, sftppath, authVars>>

HandleRealPath ==
  /\ In("REALPATH")
  /\ \/ (Wait \/ SessionError(TRUE)) /\ UNCHANGED sftppath
     \/ /\ sftppath' = TRUE
        /\ Advance("STAT")
        /\ UNCHANGED transportVars
  /\ UNCHANGED <<poll_op_in_progress, conns, onceVars, authVars, fileVars>>

HandleStat ==
  /\ In("STAT")
  /\ \/ (Wait \/ SessionError(FALSE)) /\ UNCHANGED <<onceVars, fileVars>>
     \/ RetryAfterConnectionLoss
     \/ /\ file_size' \in 0..MaxSize
        /\ Advance("OPEN")
        /\ UNCHANGED <<transportVars, onceVars, sftp_handle, bytes_read>>
  /\ UNCHANGED <<poll_op_in_progress, conns, sftppath, authVars>>

HandleOpen ==
  /\ In("OPEN")
  /\ \/ (Wait \/ SessionError(FALSE)) /\ UNCHANGED sftp_handle
     \/ /\ sftp_handle' = sftp_session
        /\ Advance("READ")
        /\ UNCHANGED transportVars
  /\ UNCHANGED <<poll_op_in_progress, conns, sftppath, onceVars, authVars, file_size, bytes_read>>

\* libssh2_sftp_read() returns at most what is missing
ReadSome == \E n \in 1..(file_size - bytes_read) : bytes_read' = bytes_read + n

\* handleRead(): data, an error, an early end of file, or all of it is there;
\* every 16 calls the operation can be cancelled
HandleRead ==
  /\ In("READ")
  /\ \/ /\ bytes_read < file_size
        /\ \/ (Wait \/ SessionError(FALSE)) /\ UNCHANGED bytes_read
           \/ /\ ReadSome
              /\ Advance("READ") \/ Close(TRUE)
              /\ UNCHANGED transportVars
     \/ Advance("CLOSE") /\ UNCHANGED <<bytes_read, transportVars>>
  /\ UNCHANGED <<poll_op_in_progress, conns, sftppath, onceVars, authVars, file_size, sftp_handle>>

\* handleClose(): errors are ignored
HandleClose ==
  /\ In("CLOSE")
  /\ \/ Wait /\ UNCHANGED sftp_handle
     \/ /\ sftp_handle' = 0
        /\ state' = "DONE"
        /\ driver' = "closing"
        /\ disconnect' = FALSE
        /\ UNCHANGED transportVars
  /\ UNCHANGED <<poll_op_in_progress, conns, sftppath, onceVars, authVars, file_size, bytes_read>>

Handler ==
  \/ Start \/ HandleConnecting \/ HandleHandshake \/ HandleAuthList \/ HandleAuth
  \/ HandleSftpInit \/ HandleRealPath \/ HandleStat \/ HandleOpen \/ HandleRead
  \/ HandleClose \/ CloseIntern

-----------------------------------------------------------------------------
(* The rest of the client. *)

opVars == <<state, driver, disconnect, onceVars, authVars, fileVars>>

\* a blocking method outside a poll operation, connecting first if need be: it
\* leaves no connection, a working one, or, when a client identity provider
\* fails in the implicit connect, a session that is not authenticated
BlockingMethod ==
  /\ driver = "out"
  /\ ~poll_op_in_progress
  /\ \/ Disconnected /\ UNCHANGED <<conns, sftppath>>
     \/ /\ conns < MaxSession
        /\ conns' = conns + 1
        /\ NewSession(conns + 1)
        /\ verified' = conns + 1
        /\ \/ /\ sftp_session' = conns + 1
              /\ sshauthenticatedwith' = TRUE
              /\ blocking' = TRUE
              /\ sftppath' = TRUE
           \/ /\ sftp_session' = 0
              /\ sshauthenticatedwith' = FALSE
              /\ blocking' = FALSE
              /\ UNCHANGED sftppath
  /\ UNCHANGED <<poll_op_in_progress, opVars>>

\* a blocking method while a poll operation is in progress: only the implicit
\* connect is refused.  With an SFTP session it runs, after the liveness check
\* of sftpIsAliveUnlocked(), which can close the connection
UseDuringPoll ==
  /\ Unlocked
  /\ poll_op_in_progress
  /\ sftp_session # 0
  /\ \/ Disconnected
     \/ blocking' = TRUE /\ UNCHANGED <<ssh_session, sftp_session, socket, session_fd_hold,
                                        verified, sshauthenticatedwith>>
  /\ UNCHANGED <<poll_op_in_progress, conns, sftppath, opVars>>

\* the async I/O controller closes the socket, without the lock
closeIo ==
  /\ socket # 0
  /\ socket' = 0
  /\ UNCHANGED <<poll_op_in_progress, conns, sftppath, ssh_session, sftp_session,
                 session_fd_hold, blocking, verified, sshauthenticatedwith, opVars>>

Next ==
  \/ startPollGetFile \/ ContinuePoll \/ abort \/ Destroy
  \/ Handler \/ HostKeyDecision \/ ProviderReturn
  \/ BlockingMethod \/ closeIo

Spec == Init /\ [][Next]_vars

\* the client is also used by others while a poll operation is in progress
SharedSpec == Init /\ [][Next \/ UseDuringPoll]_vars

\* The caller goes on calling continuePoll(), Qore code returns, and a handler
\* does not have to wait for ever: the server answers or the connection ends.
Fairness ==
  /\ WF_vars(ContinuePoll)
  /\ WF_vars(CloseIntern)
  /\ WF_vars(HostKeyDecision \/ ProviderReturn)
  /\ SF_vars(Handler /\ driver' # "out")

FairSpec == Spec /\ Fairness

-----------------------------------------------------------------------------
(* Properties. *)

\* Every stage finds what it works on: a session in non-blocking mode from the
\* handshake on, which getSessionPollInfo() and the handlers assert or
\* dereference, and an SFTP session made on it from the first request on.
StageOnSession ==
  driver \in {"out", "in"} \cup Callback =>
    /\ state \in OnSession => ssh_session # 0 /\ ~blocking
    /\ state \in Transfer => sftp_session = ssh_session
    /\ state \in {"START", "CONNECTING"} => agent = 0 /\ sftp_handle = 0

\* The descriptor number libssh2 was given is held for the whole life of the
\* session (holdSessionDescriptorUnlocked() before prepareSessionUnlocked(),
\* closeTransportUnlocked() after the session is freed), whatever the I/O
\* controller closes meanwhile; nothing is held between operations without a
\* session.
DescriptorHeld ==
  /\ ssh_session # 0 => session_fd_hold = ssh_session
  /\ sftp_session \in {0, ssh_session}
  /\ driver = "out" => session_fd_hold = ssh_session /\ socket \in {0, ssh_session}

\* The operation works on a session it may use, and only on that.
SessionOwned == StageOnSession /\ DescriptorHeld

\* "the SSH agent connection must be released before the session it was
\* created from", on every path of the poll operation.
AgentReleasedFirst == agent # 0 => agent = ssh_session

\* "the handle must be closed before the socket connection is closed or a crash
\* will result": an open remote file handle is one of the SFTP session that the
\* client still has.
HandleReleasedFirst == sftp_handle # 0 => sftp_handle = sftp_session

\* That is so in every stage and on every way out but one: sessionError() after a
\* failed read may have closed the connection, and freed the handle with it, when
\* closeIntern() comes to close the handle.
HandleReleasedButOnce ==
  HandleReleasedFirst \/ (driver = "closing" /\ state = "READ" /\ ssh_session = 0)

\* The assertions of ~SftpPollOperationPriv(): an operation that has ended
\* holds no agent, no candidate list and no remote handle, and has given the
\* client back.
NothingHeld ==
  state \notin Active /\ driver = "out" =>
    /\ agent = 0
    /\ provider_candidates = -1
    /\ sftp_handle = 0
    /\ ~restore_session_blocking

\* What the operation has taken it has released when it is over, whichever way it
\* went; the agent before its session, and the remote handle before the SFTP
\* session unless a failed read has closed the connection first.
ResourcesReleased == AgentReleasedFirst /\ HandleReleasedButOnce /\ NothingHeld

\* The session is "switched to non-blocking mode for the life of the operation
\* and restored when the operation completes, is aborted, or is destroyed": no
\* SFTP session is left in non-blocking mode for the blocking methods.
BlockingRestored == ~poll_op_in_progress /\ sftp_session # 0 => blocking

\* The operation ends, with the file or with an exception, if it is driven.
OpEnds == (state \in Active) ~> (state \notin Active)

\* The operation is a retrieval that reserves the client as long as it runs
\* and starts over at most once.  It runs until closeIntern() has given the
\* reservation back.
phase ==
  CASE state = "NONE" -> "idle"
    [] state # "NONE" /\ (state \in Active \/ driver # "out") -> "running"
    [] state = "DONE" /\ driver = "out" -> "done"
    [] OTHER -> "failed"

Retrieval == INSTANCE FileRetrieval
               WITH phase <- phase, reserved <- poll_op_in_progress,
                    retried <- (phase = "running" /\ reconnect_attempted)

IsRetrieval == Retrieval!Spec

\* The host key was accepted and a user has logged in on the connection over
\* which a file is requested, also after a retry, when the operation has made
\* the connection itself; the one it adopts is taken as it is.
VerifiedTransfer ==
  /\ driver = "in" /\ state \in {"SFTP_INIT"} \cup Transfer
  /\ ~reused_session \/ reconnect_attempted
  => verified = ssh_session /\ sshauthenticatedwith

\* Nobody but the operation changes the connection while it is in progress and
\* waits.
PollExclusive ==
  [][driver = "out" /\ poll_op_in_progress =>
       UNCHANGED <<ssh_session, sftp_session, blocking>>]_vars
=============================================================================
