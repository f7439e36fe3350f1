----------------------------- MODULE SFTPClient -----------------------------
(***************************************************************************)
(* The blocking methods of one SFTPClient object shared by threads.        *)
(*                                                                         *)
(* A method holds the object's lock from its first line to its last, makes *)
(* the connection if there is none that answers, and works on the SFTP     *)
(* session with a remote handle that a QSftpHelper on its stack must close *)
(* before anything closes the connection.  The lock is given up in two     *)
(* places: while connecting, for a host-key store or a client identity     *)
(* provider ("callback"), and by get() and put() for every buffer, for the *)
(* caller's stream ("stream").  connect_in_progress is not set on this     *)
(* class's way into sshConnectUnlocked(), so nothing marks the object as   *)
(* busy in either.                                                         *)
(*                                                                         *)
(* Connections, sessions and the handles opened on them are numbered by    *)
(* the connection; the stages of SSH2Client's connect are one step here.   *)
(***************************************************************************)
EXTENDS Integers

CONSTANTS
  Thread,      \* the threads that use the object
  NoThread,    \* the owner of the lock when it is free
  MaxConn      \* bound: connections made in a behaviour

ASSUME SFTPAssumption ==
  /\ NoThread \notin Thread
  /\ MaxConn \in Nat

VARIABLES
  owner,          \* the thread that holds the lock m
  pc,             \* where each thread is; see Stage
  method,         \* the method a thread is in: "connect" or "request"
  conns,          \* connections made so far
  ssh_session,    \* the session, or 0
  sftp_session,   \* the session the SFTP session was made on, or 0
  blocking,       \* the session is in blocking mode
  sftp_handle,    \* the session the handle of a thread's QSftpHelper is on, or 0
  mine            \* history: the session a thread has connected or found alive,
                  \* -1 when calls have overlapped; see Overlap

sessionVars == <<ssh_session, sftp_session, blocking>>
vars == <<owner, pc, method, conns, sessionVars, sftp_handle, mine>>

\* stages of sftpConnectUnlocked() after a session has been made
Connecting == {"sshConnect", "sftpInit"}

\* stages that send requests on the SFTP session
Request == {"request", "transfer"}

\* stages without the lock, in Qore code
Outside == {"callback", "stream"}

Stage == {"idle", "isAlive", "connect", "ending", "disconnect"}
           \cup Connecting \cup Request \cup Outside

\* The variables keep the values the code gives them.
TypeOK ==
  /\ owner \in Thread \cup {NoThread}
  /\ pc \in [Thread -> Stage]
  /\ method \in [Thread -> {"connect", "request"}]
  /\ conns \in 0..MaxConn
  /\ ssh_session \in 0..conns
  /\ sftp_session \in 0..conns
  /\ blocking \in BOOLEAN
  /\ sftp_handle \in [Thread -> 0..conns]
  /\ mine \in [Thread -> -1..conns]

Init ==
  /\ owner = NoThread
  /\ pc = [t \in Thread |-> "idle"]
  /\ method = [t \in Thread |-> "connect"]
  /\ conns = 0
  /\ ssh_session = 0
  /\ sftp_session = 0
  /\ blocking = TRUE
  /\ sftp_handle = [t \in Thread |-> 0]
  /\ mine = [t \in Thread |-> 0]

-----------------------------------------------------------------------------
\* t is at stage s, with the lock
At(t, s) == owner = t /\ pc[t] = s

Goto(t, s) == pc' = [pc EXCEPT ![t] = s]

\* fault: the SFTP session is not ended with the session
SftpSessionKept ==
  /\ ssh_session' = 0
  /\ blocking' = TRUE
  /\ UNCHANGED sftp_session

\* SFTPClient::disconnectUnlocked(): doShutdown() ends the SFTP session, then
\* the session and the transport go; the next session starts in blocking mode
DisconnectUnlocked ==
  /\ ssh_session' = 0
  /\ sftp_session' = 0
  /\ blocking' = TRUE

\* ~BlockingHelper(), ~AutoLocker()
Return(t) ==
  /\ owner' = NoThread
  /\ Goto(t, "idle")
  /\ mine' = [mine EXCEPT ![t] = 0]

\* a request method goes on with its request: BlockingHelper
StartRequest(t) ==
  /\ Goto(t, "request")
  /\ mine' = [mine EXCEPT ![t] = IF @ = -1 THEN -1 ELSE sftp_session']
  /\ UNCHANGED owner

-----------------------------------------------------------------------------
(* Calls. *)

\* history: the call of t begins while others are in Qore code, in the middle of
\* theirs
Overlap(t) ==
  LET others == {u \in Thread : pc[u] \in Outside}
  IN mine' = [u \in Thread |->
                IF others # {} /\ u \in others \cup {t} THEN -1 ELSE mine[u]]

\* a method that makes an implicit connection: sftpConnectedUnlocked() first
CallRequest(t) ==
  /\ pc[t] = "idle"
  /\ owner = NoThread
  /\ owner' = t
  /\ method' = [method EXCEPT ![t] = "request"]
  /\ Goto(t, IF sftp_session # 0 THEN "isAlive" ELSE "connect")
  /\ Overlap(t)
  /\ UNCHANGED <<conns, sessionVars, sftp_handle>>

\* sftpConnect()
Connect(t) ==
  /\ pc[t] = "idle"
  /\ owner = NoThread
  /\ owner' = t
  /\ method' = [method EXCEPT ![t] = "connect"]
  /\ Goto(t, "connect")
  /\ Overlap(t)
  /\ UNCHANGED <<conns, sessionVars, sftp_handle>>

\* SSH2Client::disconnect(); connect_in_progress is never set on this class.  A
\* request method refused for its arguments reports it with
\* doSessionErrUnlocked(), which can have the same effect
Disconnect(t) ==
  /\ pc[t] = "idle"
  /\ owner = NoThread
  /\ DisconnectUnlocked
  /\ mine' = [u \in Thread |-> IF pc[u] \in Outside THEN -1 ELSE mine[u]]
  /\ UNCHANGED <<owner, pc, method, conns, sftp_handle>>

\* fault: a connection found dead is used
DeadUsed(t) ==
  /\ At(t, "isAlive")
  /\ (blocking' = FALSE /\ UNCHANGED <<ssh_session, sftp_session>>) \/ DisconnectUnlocked
  /\ StartRequest(t)
  /\ UNCHANGED <<method, conns, sftp_handle>>

\* sftpIsAliveUnlocked(): alive; not alive, with the connection closed by
\* doSessionErrUnlocked() or a failed wait, or left; on a session that another
\* method has left in non-blocking mode, also alive but closed by its own
\* QSftpHelper on the way out
IsAlive(t) ==
  /\ At(t, "isAlive")
  /\ \/ /\ blocking' = FALSE
        /\ UNCHANGED <<ssh_session, sftp_session>>
        /\ StartRequest(t)
     \/ /\ UNCHANGED sessionVars \/ DisconnectUnlocked
        /\ Goto(t, "connect")
        /\ UNCHANGED <<owner, mine>>
     \/ /\ ~blocking
        /\ DisconnectUnlocked
        /\ StartRequest(t)
  /\ UNCHANGED <<method, conns, sftp_handle>>

-----------------------------------------------------------------------------
(* sftpConnectUnlocked(). *)

\* an SFTP session is closed first; then checkConnectPreconditionsUnlocked(),
\* which fails or closes the session, and the connection is made or not
SftpConnect(t) ==
  /\ At(t, "connect")
  /\ \/ /\ sftp_session = 0
        /\ UNCHANGED <<sessionVars, conns>>
        /\ Return(t)
     \/ /\ DisconnectUnlocked
        /\ Return(t)
        /\ UNCHANGED conns
     \/ /\ conns < MaxConn
        /\ conns' = conns + 1
        /\ ssh_session' = conns + 1
        /\ sftp_session' = 0
        /\ blocking' = FALSE
        /\ mine' = [mine EXCEPT ![t] = IF @ = -1 THEN -1 ELSE conns + 1]
        /\ Goto(t, "sshConnect")
        /\ UNCHANGED owner
  /\ UNCHANGED <<method, sftp_handle>>

\* the rest of sshConnectUnlocked(): it succeeds, fails and closes the
\* connection, or gives the lock up to call Qore code
SshConnect(t) ==
  /\ At(t, "sshConnect")
  /\ \/ /\ blocking' = FALSE
        /\ Goto(t, "sftpInit")
        /\ UNCHANGED <<owner, mine, ssh_session, sftp_session>>
     \/ DisconnectUnlocked /\ Return(t)
     \/ /\ owner' = NoThread
        /\ Goto(t, "callback")
        /\ UNCHANGED <<mine, sessionVars>>
  /\ UNCHANGED <<method, conns, sftp_handle>>

\* the Qore code has returned: on, or an error, after which the connection is
\* closed (host key) or left as it is (identity provider)
CallbackReturn(t) ==
  /\ pc[t] = "callback"
  /\ owner = NoThread
  /\ \/ /\ owner' = t
        /\ Goto(t, "sshConnect")
        /\ UNCHANGED <<mine, sessionVars>>
     \/ DisconnectUnlocked /\ Return(t)
     \/ UNCHANGED sessionVars /\ Return(t)
  /\ UNCHANGED <<method, conns, sftp_handle>>

\* libssh2_sftp_init() and the realpath of the working directory; every error
\* closes the connection
SftpInit(t) ==
  /\ At(t, "sftpInit")
  /\ \/ DisconnectUnlocked /\ Return(t)
     \/ /\ sftp_session' = ssh_session
        /\ UNCHANGED ssh_session
        /\ \/ method[t] = "connect" /\ blocking' = TRUE /\ Return(t)
           \/ method[t] = "request" /\ blocking' = FALSE /\ StartRequest(t)
  /\ UNCHANGED <<method, conns, sftp_handle>>

-----------------------------------------------------------------------------
(* Requests, and the QSftpHelper that owns the handle. *)

\* fault: the handle is left open
HandleLeftOpen(t) == UNCHANGED <<sftp_handle, sessionVars>>

\* QSftpHelper::closeIntern(): the handle is closed, or the wait for it fails
\* and the connection is closed
CloseHandle(t) ==
  /\ sftp_handle' = [sftp_handle EXCEPT ![t] = 0]
  /\ UNCHANGED sessionVars \/ (sftp_handle[t] # 0 /\ DisconnectUnlocked)

\* a method ends: ~QSftpHelper() has closed the handle, ~BlockingHelper()
EndRequest(t) ==
  /\ UNCHANGED <<ssh_session, sftp_session>>
  /\ blocking' = TRUE
  /\ Return(t)

\* a method without a handle is answered: mkdir, rmdir, rename, removeFile,
\* stat, lstat, chmod, chown, symlink, readlink, statvfs, chdir
Answered(t) ==
  /\ At(t, "request")
  /\ EndRequest(t)
  /\ UNCHANGED <<method, conns, sftp_handle>>

\* a file or directory has been opened: getFile, getTextFile, retrieveFile,
\* putFile, transferFile, get, put, list, listFull
Opened(t) ==
  /\ At(t, "request")
  /\ sftp_handle' = [sftp_handle EXCEPT ![t] = sftp_session]
  /\ Goto(t, "transfer")
  /\ UNCHANGED <<owner, method, conns, sessionVars, mine>>

\* data has been read or written, or directory entries read, to the end
Transferred(t) ==
  /\ At(t, "transfer")
  /\ CloseHandle(t)
  /\ Goto(t, "ending")
  /\ UNCHANGED <<owner, method, conns, mine>>

\* get() and put() give the lock up to hand a buffer to the caller's stream, or
\* to ask it for one
Stream(t) ==
  /\ At(t, "transfer")
  /\ owner' = NoThread
  /\ Goto(t, "stream")
  /\ UNCHANGED <<method, conns, sessionVars, sftp_handle, mine>>

\* the stream has taken or given a buffer, or raised an exception
StreamReturn(t) ==
  /\ pc[t] = "stream"
  /\ owner = NoThread
  /\ owner' = t
  /\ \/ Goto(t, "transfer") /\ UNCHANGED <<sessionVars, sftp_handle>>
     \/ Goto(t, "ending") /\ CloseHandle(t)
  /\ UNCHANGED <<method, conns, mine>>

\* QSftpHelper::err(): tryClose(), then doSessionErrUnlocked()
Err(t) ==
  /\ pc[t] \in Request
  /\ owner = t
  /\ CloseHandle(t)
  /\ Goto(t, "ending")
  /\ UNCHANGED <<owner, method, conns, mine>>

\* the method returns; an error, also one of closing the handle, is reported
\* by doSessionErrUnlocked(): if there is something to read, the connection is
\* taken for dead and closed
Ending(t) ==
  /\ At(t, "ending")
  /\ EndRequest(t) \/ (DisconnectUnlocked /\ Return(t))
  /\ UNCHANGED <<method, conns, sftp_handle>>

\* QSftpHelper::waitSocket() fails: disconnectUnlocked() is given the helper,
\* whose preDisconnect() closes the handle first
WaitFails(t) ==
  /\ pc[t] \in Request
  /\ owner = t
  /\ CloseHandle(t)
  /\ Goto(t, "disconnect")
  /\ UNCHANGED <<owner, method, conns, mine>>

FinishDisconnect(t) ==
  /\ At(t, "disconnect")
  /\ DisconnectUnlocked
  /\ Return(t)
  /\ UNCHANGED <<method, conns, sftp_handle>>

-----------------------------------------------------------------------------
LockedStep(t) ==
  \/ IsAlive(t) \/ SftpConnect(t) \/ SshConnect(t) \/ SftpInit(t)
  \/ Answered(t) \/ Opened(t) \/ Transferred(t) \/ Stream(t) \/ Err(t) \/ Ending(t)
  \/ WaitFails(t) \/ FinishDisconnect(t)

Call(t) == CallRequest(t) \/ Connect(t) \/ Disconnect(t)

OutsideReturn(t) == CallbackReturn(t) \/ StreamReturn(t)

Next == \E t \in Thread : Call(t) \/ LockedStep(t) \/ OutsideReturn(t)

Spec == Init /\ [][Next]_vars

-----------------------------------------------------------------------------
(* Properties. *)

\* "the handle must be closed before the socket connection is closed or a
\* crash will result": on every path of a method whose call no other call has
\* overlapped, the handle belongs to the SFTP session the object has.
HandleClosedFirst ==
  \A t \in Thread :
    sftp_handle[t] # 0 /\ mine[t] # -1 => sftp_handle[t] = sftp_session

\* A method that no call has overlapped works from its first request to its
\* last on the session it found or made, in the non-blocking mode its timeouts
\* depend on, and a connect goes on with the session it made.  So only a call
\* that comes in while the method is in Qore code can take its session away.
MethodKeepsSession ==
  \A t \in Thread : mine[t] # -1 =>
    /\ pc[t] \in Request \cup {"stream"} =>
         mine[t] # 0 /\ sftp_session = mine[t] /\ ~blocking
    /\ pc[t] \in Connecting \cup {"callback"} => ssh_session = mine[t]

\* The SFTP session belongs to the session, and between methods, overlapping or
\* not, the session is in blocking mode, which the liveness check of the next
\* method relies on.
RestState ==
  /\ sftp_session \in {0, ssh_session}
  /\ (\A t \in Thread : pc[t] = "idle") /\ sftp_session # 0 => blocking
=============================================================================
