------------------------- MODULE SFTPClientProofs -------------------------
(***************************************************************************)
(* Proofs about SFTPClient, for any threads and number of connections.     *)
(*                                                                         *)
(* The lock is free while a method is in Qore code, and another call can   *)
(* then close or replace the session. mine[t] says whether that has        *)
(* happened to the call of t: AloneInv, that a call not marked is the only *)
(* one, makes MineInv inductive, that what such a call has found or made   *)
(* is still there. ModeInv is about all calls: as long as the mode of an   *)
(* SFTP session is not restored, some method is on its way to restore it.  *)
(***************************************************************************)
EXTENDS SFTPClient, TLAPS

\* stages with the lock
Locked == Stage \ ({"idle"} \cup Outside)

\* stages in which the session can be in non-blocking mode with an SFTP session
Switched == {"sftpInit", "stream", "ending", "disconnect"} \cup Request

\* the lock belongs to the one thread that is in a stage with it
LockInv == \A t \in Thread : owner = t <=> pc[t] \in Locked

\* a handle is open only in a transfer
HandleInv == \A t \in Thread : sftp_handle[t] # 0 => pc[t] \in {"transfer", "stream"}

\* a call that is not marked as overlapped is the only one there is
AloneInv ==
  /\ \A t \in Thread : pc[t] = "idle" => mine[t] = 0
  /\ \A t, u \in Thread : t # u /\ pc[t] # "idle" /\ pc[u] # "idle" => mine[t] = -1

\* what a call that is not overlapped has found or made is still there
MineInv ==
  /\ \A t \in Thread : pc[t] = "isAlive" => sftp_session # 0
  /\ \A t \in Thread : mine[t] # -1 =>
       /\ pc[t] = "isAlive" => blocking
       /\ pc[t] \in Connecting \cup {"callback"} => mine[t] # 0 /\ ssh_session = mine[t]
       /\ pc[t] \in Request \cup {"stream"} =>
            mine[t] # 0 /\ sftp_session = mine[t] /\ ~blocking
       /\ sftp_handle[t] # 0 => sftp_handle[t] = sftp_session

\* some method is still to restore the mode of an SFTP session, or it is restored
ModeInv ==
  /\ sftp_session \in {0, ssh_session}
  /\ sftp_session # 0 /\ ~blocking => \E t \in Thread : pc[t] \in Switched

IInv == TypeOK /\ LockInv /\ HandleInv /\ AloneInv /\ MineInv /\ ModeInv

-----------------------------------------------------------------------------
\* A method is called, and is alone or overlaps the calls there are.
LEMMA CallRequestIInv ==
  ASSUME NEW t \in Thread, IInv, CallRequest(t)
  PROVE  IInv'
<1>1. TypeOK'
  BY SFTPAssumption DEF IInv, CallRequest, Overlap, Goto, TypeOK, Stage, sessionVars
<1>2. LockInv'
  BY SFTPAssumption DEF IInv, CallRequest, Goto, TypeOK, LockInv, Locked, Stage, Outside
<1>3. HandleInv'
  BY SFTPAssumption DEF IInv, CallRequest, Goto, HandleInv
<1>4. AloneInv'
  BY SFTPAssumption DEF IInv, CallRequest, Overlap, Goto, TypeOK, LockInv, AloneInv, Locked, Outside
<1>5. MineInv'
  BY SFTPAssumption DEF IInv, CallRequest, Overlap, Goto, TypeOK, LockInv, MineInv, ModeInv,
       Switched, Locked, Connecting, Request, sessionVars
<1>6. ModeInv'
  BY SFTPAssumption DEF IInv, CallRequest, Goto, ModeInv, Switched, Request, sessionVars
<1> QED BY <1>1, <1>2, <1>3, <1>4, <1>5, <1>6 DEF IInv

\* connect() is called.
LEMMA ConnectIInv ==
  ASSUME NEW t \in Thread, IInv, Connect(t)
  PROVE  IInv'
<1>1. TypeOK'
  BY SFTPAssumption DEF IInv, Connect, Overlap, Goto, TypeOK, Stage, sessionVars
<1>2. LockInv'
  BY SFTPAssumption DEF IInv, Connect, Goto, TypeOK, LockInv, Locked, Stage, Outside
<1>3. HandleInv'
  BY SFTPAssumption DEF IInv, Connect, Goto, HandleInv
<1>4. AloneInv'
  BY SFTPAssumption DEF IInv, Connect, Overlap, Goto, TypeOK, LockInv, AloneInv, Locked, Outside
<1>5. MineInv'
  BY SFTPAssumption DEF IInv, Connect, Overlap, Goto, LockInv, HandleInv, MineInv, Locked, Stage,
       Outside, Connecting, Request
<1>6. ModeInv'
  BY SFTPAssumption DEF IInv, Connect, Goto, ModeInv, Switched, Request, sessionVars
<1> QED BY <1>1, <1>2, <1>3, <1>4, <1>5, <1>6 DEF IInv

\* disconnect() takes the session away; the calls in Qore code are overlapped by it.
LEMMA DisconnectIInv ==
  ASSUME NEW t \in Thread, IInv, Disconnect(t)
  PROVE  IInv'
<1>1. TypeOK'
  BY SFTPAssumption DEF IInv, Disconnect, DisconnectUnlocked, TypeOK
<1>2. LockInv'
  BY SFTPAssumption DEF IInv, Disconnect, LockInv
<1>3. HandleInv'
  BY SFTPAssumption DEF IInv, Disconnect, HandleInv
<1>4. AloneInv'
  BY SFTPAssumption DEF IInv, Disconnect, AloneInv, Outside
<1>5. MineInv'
  BY SFTPAssumption DEF IInv, Disconnect, TypeOK, LockInv, HandleInv, AloneInv, MineInv, Locked,
       Outside
<1>6. ModeInv'
  BY SFTPAssumption DEF Disconnect, DisconnectUnlocked, ModeInv
<1> QED BY <1>1, <1>2, <1>3, <1>4, <1>5, <1>6 DEF IInv

\* A method finds the session alive and goes on, or connects anew.
LEMMA IsAliveIInv ==
  ASSUME NEW t \in Thread, IInv, IsAlive(t)
  PROVE  IInv'
<1>1. TypeOK'
  <2>1. owner' \in Thread \cup {NoThread} /\ pc' \in [Thread -> Stage]
    BY SFTPAssumption DEF IInv, IsAlive, StartRequest, Goto, TypeOK, Stage, Request
  <2>2. method' \in [Thread -> {"connect", "request"}] /\ conns' \in 0..MaxConn
    BY SFTPAssumption DEF IInv, IsAlive, TypeOK
  <2>3. ssh_session' \in 0..conns' /\ sftp_session' \in 0..conns'
    BY SFTPAssumption DEF IInv, IsAlive, DisconnectUnlocked, TypeOK, sessionVars
  <2>4. blocking' \in BOOLEAN
    BY SFTPAssumption DEF IInv, IsAlive, DisconnectUnlocked, TypeOK, sessionVars
  <2>5. sftp_handle' \in [Thread -> 0..conns']
    BY SFTPAssumption DEF IInv, IsAlive, TypeOK
  <2>6. mine' \in [Thread -> -1..conns']
    BY SFTPAssumption DEF IInv, IsAlive, StartRequest, DisconnectUnlocked, TypeOK
  <2> QED BY <2>1, <2>2, <2>3, <2>4, <2>5, <2>6 DEF TypeOK
<1>2. LockInv'
  BY SFTPAssumption DEF IInv, IsAlive, At, StartRequest, Goto, TypeOK, LockInv, Locked, Stage,
       Outside, Request
<1>3. HandleInv'
  BY SFTPAssumption DEF IInv, IsAlive, At, StartRequest, Goto, TypeOK, HandleInv
<1>4. AloneInv'
  BY SFTPAssumption DEF IInv, IsAlive, At, StartRequest, Goto, TypeOK, AloneInv
<1>5. MineInv'
  BY SFTPAssumption DEF IInv, IsAlive, At, StartRequest, Goto, TypeOK, LockInv, HandleInv,
       AloneInv, MineInv, Connecting, Request
<1>6. ModeInv'
  BY SFTPAssumption DEF IInv, IsAlive, At, StartRequest, Goto, DisconnectUnlocked, TypeOK,
       ModeInv, Switched, Request, sessionVars
<1> QED BY <1>1, <1>2, <1>3, <1>4, <1>5, <1>6 DEF IInv

\* The SFTP session is closed before a new connection is made, or that fails.
LEMMA SftpConnectIInv ==
  ASSUME NEW t \in Thread, IInv, SftpConnect(t)
  PROVE  IInv'
<1>1. TypeOK'
  <2>1. owner' \in Thread \cup {NoThread} /\ pc' \in [Thread -> Stage]
    BY SFTPAssumption DEF IInv, SftpConnect, Goto, Return, TypeOK, Stage, Connecting
  <2>2. method' \in [Thread -> {"connect", "request"}] /\ conns' \in 0..MaxConn
    BY SFTPAssumption DEF IInv, SftpConnect, TypeOK
  <2>3. ssh_session' \in 0..conns' /\ sftp_session' \in 0..conns'
    BY SFTPAssumption DEF IInv, SftpConnect, DisconnectUnlocked, TypeOK, sessionVars
  <2>4. blocking' \in BOOLEAN
    BY SFTPAssumption DEF IInv, SftpConnect, DisconnectUnlocked, TypeOK, sessionVars
  <2>5. sftp_handle' \in [Thread -> 0..conns']
    BY SFTPAssumption DEF IInv, SftpConnect, TypeOK
  <2>6. mine' \in [Thread -> -1..conns']
    BY SFTPAssumption DEF IInv, SftpConnect, Return, TypeOK
  <2> QED BY <2>1, <2>2, <2>3, <2>4, <2>5, <2>6 DEF TypeOK
<1>2. LockInv'
  BY SFTPAssumption DEF IInv, SftpConnect, At, Goto, Return, TypeOK, LockInv, Locked, Stage,
       Outside, Connecting
<1>3. HandleInv'
  BY SFTPAssumption DEF IInv, SftpConnect, At, Goto, Return, TypeOK, HandleInv
<1>4. AloneInv'
  BY SFTPAssumption DEF IInv, SftpConnect, At, Goto, Return, TypeOK, AloneInv
<1>5. MineInv'
  BY SFTPAssumption DEF IInv, SftpConnect, At, Goto, Return, TypeOK, LockInv, HandleInv, AloneInv,
       MineInv, Locked, Outside, Connecting, Request
<1>6. ModeInv'
  BY SFTPAssumption DEF SftpConnect, DisconnectUnlocked, ModeInv, sessionVars
<1> QED BY <1>1, <1>2, <1>3, <1>4, <1>5, <1>6 DEF IInv

\* The connection is made, or is given up, or Qore code is called without the lock.
LEMMA SshConnectIInv ==
  ASSUME NEW t \in Thread, IInv, SshConnect(t)
  PROVE  IInv'
<1>1. TypeOK'
  <2>1. owner' \in Thread \cup {NoThread} /\ pc' \in [Thread -> Stage]
    BY SFTPAssumption DEF IInv, SshConnect, Goto, Return, TypeOK, Stage, Outside, Connecting
  <2>2. method' \in [Thread -> {"connect", "request"}] /\ conns' \in 0..MaxConn
    BY SFTPAssumption DEF IInv, SshConnect, TypeOK
  <2>3. ssh_session' \in 0..conns' /\ sftp_session' \in 0..conns'
    BY SFTPAssumption DEF IInv, SshConnect, DisconnectUnlocked, TypeOK, sessionVars
  <2>4. blocking' \in BOOLEAN
    BY SFTPAssumption DEF IInv, SshConnect, DisconnectUnlocked, TypeOK, sessionVars
  <2>5. sftp_handle' \in [Thread -> 0..conns']
    BY SFTPAssumption DEF IInv, SshConnect, TypeOK
  <2>6. mine' \in [Thread -> -1..conns']
    BY SFTPAssumption DEF IInv, SshConnect, Return, TypeOK
  <2> QED BY <2>1, <2>2, <2>3, <2>4, <2>5, <2>6 DEF TypeOK
<1>2. LockInv'
  BY SFTPAssumption DEF IInv, SshConnect, At, Goto, Return, TypeOK, LockInv, Locked, Stage,
       Outside, Connecting
<1>3. HandleInv'
  BY SFTPAssumption DEF IInv, SshConnect, At, Goto, Return, TypeOK, HandleInv
<1>4. AloneInv'
  BY SFTPAssumption DEF IInv, SshConnect, At, Goto, Return, TypeOK, AloneInv
<1>5. MineInv'
  BY SFTPAssumption DEF IInv, SshConnect, At, Goto, Return, TypeOK, LockInv, HandleInv, AloneInv,
       MineInv, Locked, Outside, Connecting, Request, sessionVars
<1>6. ModeInv'
  BY SFTPAssumption DEF IInv, SshConnect, At, Goto, DisconnectUnlocked, TypeOK, ModeInv, Switched,
       Request, sessionVars
<1> QED BY <1>1, <1>2, <1>3, <1>4, <1>5, <1>6 DEF IInv

\* Qore code returns: a call that nobody has overlapped finds its session in place.
LEMMA CallbackReturnIInv ==
  ASSUME NEW t \in Thread, IInv, CallbackReturn(t)
  PROVE  IInv'
<1>1. TypeOK'
  <2>1. owner' \in Thread \cup {NoThread} /\ pc' \in [Thread -> Stage]
    BY SFTPAssumption DEF IInv, CallbackReturn, Goto, Return, TypeOK, Stage, Connecting
  <2>2. method' \in [Thread -> {"connect", "request"}] /\ conns' \in 0..MaxConn
    BY SFTPAssumption DEF IInv, CallbackReturn, TypeOK
  <2>3. ssh_session' \in 0..conns' /\ sftp_session' \in 0..conns'
    BY SFTPAssumption DEF IInv, CallbackReturn, DisconnectUnlocked, TypeOK, sessionVars
  <2>4. blocking' \in BOOLEAN
    BY SFTPAssumption DEF IInv, CallbackReturn, DisconnectUnlocked, TypeOK, sessionVars
  <2>5. sftp_handle' \in [Thread -> 0..conns']
    BY SFTPAssumption DEF IInv, CallbackReturn, TypeOK
  <2>6. mine' \in [Thread -> -1..conns']
    BY SFTPAssumption DEF IInv, CallbackReturn, Return, TypeOK
  <2> QED BY <2>1, <2>2, <2>3, <2>4, <2>5, <2>6 DEF TypeOK
<1>2. LockInv'
  BY SFTPAssumption DEF IInv, CallbackReturn, Goto, Return, TypeOK, LockInv, Locked, Stage,
       Outside, Connecting
<1>3. HandleInv'
  BY SFTPAssumption DEF IInv, CallbackReturn, Goto, Return, TypeOK, HandleInv
<1>4. AloneInv'
  BY SFTPAssumption DEF IInv, CallbackReturn, Goto, Return, TypeOK, AloneInv
<1>5. MineInv'
  BY SFTPAssumption DEF IInv, CallbackReturn, Goto, Return, TypeOK, LockInv, HandleInv, AloneInv,
       MineInv, Locked, Outside, Connecting, Request, sessionVars
<1>6. ModeInv'
  BY SFTPAssumption DEF IInv, CallbackReturn, Goto, Return, DisconnectUnlocked, TypeOK, ModeInv,
       Switched, Request, sessionVars
<1> QED BY <1>1, <1>2, <1>3, <1>4, <1>5, <1>6 DEF IInv

\* The SFTP session is made: connect() restores the blocking mode, a request goes on
\* without it.
LEMMA SftpInitIInv ==
  ASSUME NEW t \in Thread, IInv, SftpInit(t)
  PROVE  IInv'
<1>1. TypeOK'
  <2>1. owner' \in Thread \cup {NoThread} /\ pc' \in [Thread -> Stage]
    BY SFTPAssumption DEF IInv, SftpInit, StartRequest, Goto, Return, TypeOK, Stage, Request
  <2>2. method' \in [Thread -> {"connect", "request"}] /\ conns' \in 0..MaxConn
    BY SFTPAssumption DEF IInv, SftpInit, TypeOK
  <2>3. ssh_session' \in 0..conns' /\ sftp_session' \in 0..conns'
    BY SFTPAssumption DEF IInv, SftpInit, DisconnectUnlocked, TypeOK
  <2>4. blocking' \in BOOLEAN
    BY SFTPAssumption DEF SftpInit, DisconnectUnlocked
  <2>5. sftp_handle' \in [Thread -> 0..conns']
    BY SFTPAssumption DEF IInv, SftpInit, TypeOK
  <2>6. mine' \in [Thread -> -1..conns']
    BY SFTPAssumption DEF IInv, SftpInit, StartRequest, Return, TypeOK
  <2> QED BY <2>1, <2>2, <2>3, <2>4, <2>5, <2>6 DEF TypeOK
<1>2. LockInv'
  BY SFTPAssumption DEF IInv, SftpInit, At, StartRequest, Goto, Return, TypeOK, LockInv, Locked,
       Stage, Outside, Request
<1>3. HandleInv'
  BY SFTPAssumption DEF IInv, SftpInit, At, StartRequest, Goto, Return, TypeOK, HandleInv
<1>4. AloneInv'
  BY SFTPAssumption DEF IInv, SftpInit, At, StartRequest, Goto, Return, TypeOK, AloneInv
<1>5. MineInv'
  BY SFTPAssumption DEF IInv, SftpInit, At, StartRequest, Goto, Return, TypeOK, LockInv,
       HandleInv, AloneInv, MineInv, Locked, Outside, Connecting, Request
<1>6. ModeInv'
  BY SFTPAssumption DEF IInv, SftpInit, StartRequest, Goto, DisconnectUnlocked, TypeOK, ModeInv,
       Switched, Request
<1> QED BY <1>1, <1>2, <1>3, <1>4, <1>5, <1>6 DEF IInv

\* A request is answered: the method ends and restores the mode.
LEMMA AnsweredIInv ==
  ASSUME NEW t \in Thread, IInv, Answered(t)
  PROVE  IInv'
<1>1. TypeOK'
  BY SFTPAssumption DEF IInv, Answered, EndRequest, Return, Goto, TypeOK, Stage
<1>2. LockInv'
  BY SFTPAssumption DEF IInv, Answered, At, EndRequest, Return, Goto, TypeOK, LockInv, Locked
<1>3. HandleInv'
  BY SFTPAssumption DEF IInv, Answered, At, EndRequest, Return, Goto, HandleInv
<1>4. AloneInv'
  BY SFTPAssumption DEF IInv, Answered, EndRequest, Return, Goto, TypeOK, AloneInv
<1>5. MineInv'
  BY SFTPAssumption DEF IInv, Answered, At, EndRequest, Return, Goto, TypeOK, HandleInv, AloneInv,
       MineInv, Connecting, Request
<1>6. ModeInv'
  BY SFTPAssumption DEF IInv, Answered, EndRequest, ModeInv
<1> QED BY <1>1, <1>2, <1>3, <1>4, <1>5, <1>6 DEF IInv

\* A transfer has its handle, of the SFTP session the object has.
LEMMA OpenedIInv ==
  ASSUME NEW t \in Thread, IInv, Opened(t)
  PROVE  IInv'
<1>1. TypeOK'
  BY SFTPAssumption DEF IInv, Opened, Goto, TypeOK, Stage, Request, sessionVars
<1>2. LockInv'
  BY SFTPAssumption DEF IInv, Opened, At, Goto, LockInv, Locked, Stage, Outside, Request
<1>3. HandleInv'
  BY SFTPAssumption DEF IInv, Opened, Goto, TypeOK, HandleInv
<1>4. AloneInv'
  BY SFTPAssumption DEF IInv, Opened, At, Goto, AloneInv
<1>5. MineInv'
  BY SFTPAssumption DEF IInv, Opened, At, Goto, MineInv, Connecting, Request, sessionVars
<1>6. ModeInv'
  BY SFTPAssumption DEF IInv, Opened, Goto, ModeInv, Switched, Request, sessionVars
<1> QED BY <1>1, <1>2, <1>3, <1>4, <1>5, <1>6 DEF IInv

\* A transfer ends, and closes its handle before the method ends.
LEMMA TransferredIInv ==
  ASSUME NEW t \in Thread, IInv, Transferred(t)
  PROVE  IInv'
<1>1. TypeOK'
  <2>1. owner' \in Thread \cup {NoThread} /\ pc' \in [Thread -> Stage]
    BY SFTPAssumption DEF IInv, Transferred, Goto, TypeOK, Stage
  <2>2. method' \in [Thread -> {"connect", "request"}] /\ conns' \in 0..MaxConn
    BY SFTPAssumption DEF IInv, Transferred, TypeOK
  <2>3. ssh_session' \in 0..conns' /\ sftp_session' \in 0..conns'
    BY SFTPAssumption DEF IInv, Transferred, CloseHandle, DisconnectUnlocked, TypeOK, sessionVars
  <2>4. blocking' \in BOOLEAN
    BY SFTPAssumption DEF IInv, Transferred, CloseHandle, DisconnectUnlocked, TypeOK, sessionVars
  <2>5. sftp_handle' \in [Thread -> 0..conns']
    BY SFTPAssumption DEF IInv, Transferred, CloseHandle, TypeOK
  <2>6. mine' \in [Thread -> -1..conns']
    BY SFTPAssumption DEF IInv, Transferred, TypeOK
  <2> QED BY <2>1, <2>2, <2>3, <2>4, <2>5, <2>6 DEF TypeOK
<1>2. LockInv'
  BY SFTPAssumption DEF IInv, Transferred, At, Goto, LockInv, Locked, Stage, Outside
<1>3. HandleInv'
  BY SFTPAssumption DEF IInv, Transferred, Goto, CloseHandle, TypeOK, HandleInv
<1>4. AloneInv'
  BY SFTPAssumption DEF IInv, Transferred, At, Goto, AloneInv
<1>5. MineInv'
  BY SFTPAssumption DEF IInv, Transferred, At, Goto, CloseHandle, TypeOK, LockInv, HandleInv,
       AloneInv, MineInv, Locked, Outside, Connecting, Request
<1>6. ModeInv'
  BY SFTPAssumption DEF IInv, Transferred, Goto, CloseHandle, DisconnectUnlocked, ModeInv,
       Switched, sessionVars
<1> QED BY <1>1, <1>2, <1>3, <1>4, <1>5, <1>6 DEF IInv

\* A transfer calls the stream without the lock.
LEMMA StreamIInv ==
  ASSUME NEW t \in Thread, IInv, Stream(t)
  PROVE  IInv'
<1>1. TypeOK'
  BY SFTPAssumption DEF IInv, Stream, Goto, TypeOK, Stage, Outside, sessionVars
<1>2. LockInv'
  BY SFTPAssumption DEF IInv, Stream, At, Goto, TypeOK, LockInv, Locked, Outside
<1>3. HandleInv'
  BY SFTPAssumption DEF IInv, Stream, Goto, HandleInv
<1>4. AloneInv'
  BY SFTPAssumption DEF IInv, Stream, At, Goto, AloneInv
<1>5. MineInv'
  BY SFTPAssumption DEF IInv, Stream, At, Goto, MineInv, Connecting, Request, sessionVars
<1>6. ModeInv'
  BY SFTPAssumption DEF IInv, Stream, Goto, ModeInv, Switched, sessionVars
<1> QED BY <1>1, <1>2, <1>3, <1>4, <1>5, <1>6 DEF IInv

\* The stream returns.
LEMMA StreamReturnIInv ==
  ASSUME NEW t \in Thread, IInv, StreamReturn(t)
  PROVE  IInv'
<1>1. TypeOK'
  <2>1. owner' \in Thread \cup {NoThread} /\ pc' \in [Thread -> Stage]
    BY SFTPAssumption DEF IInv, StreamReturn, Goto, TypeOK, Stage, Request
  <2>2. method' \in [Thread -> {"connect", "request"}] /\ conns' \in 0..MaxConn
    BY SFTPAssumption DEF IInv, StreamReturn, TypeOK
  <2>3. ssh_session' \in 0..conns' /\ sftp_session' \in 0..conns'
    BY SFTPAssumption DEF IInv, StreamReturn, CloseHandle, DisconnectUnlocked, TypeOK, sessionVars
  <2>4. blocking' \in BOOLEAN
    BY SFTPAssumption DEF IInv, StreamReturn, CloseHandle, DisconnectUnlocked, TypeOK, sessionVars
  <2>5. sftp_handle' \in [Thread -> 0..conns']
    BY SFTPAssumption DEF IInv, StreamReturn, CloseHandle, TypeOK
  <2>6. mine' \in [Thread -> -1..conns']
    BY SFTPAssumption DEF IInv, StreamReturn, TypeOK
  <2> QED BY <2>1, <2>2, <2>3, <2>4, <2>5, <2>6 DEF TypeOK
<1>2. LockInv'
  BY SFTPAssumption DEF IInv, StreamReturn, Goto, TypeOK, LockInv, Locked, Stage, Outside, Request
<1>3. HandleInv'
  BY SFTPAssumption DEF IInv, StreamReturn, Goto, CloseHandle, TypeOK, HandleInv
<1>4. AloneInv'
  BY SFTPAssumption DEF IInv, StreamReturn, Goto, TypeOK, AloneInv
<1>5. MineInv'
  BY SFTPAssumption DEF IInv, StreamReturn, Goto, CloseHandle, TypeOK, LockInv, HandleInv,
       AloneInv, MineInv, Locked, Outside, Connecting, Request, sessionVars
<1>6. ModeInv'
  BY SFTPAssumption DEF IInv, StreamReturn, Goto, CloseHandle, DisconnectUnlocked, TypeOK,
       ModeInv, Switched, Request, sessionVars
<1> QED BY <1>1, <1>2, <1>3, <1>4, <1>5, <1>6 DEF IInv

\* A request fails.
LEMMA ErrIInv ==
  ASSUME NEW t \in Thread, IInv, Err(t)
  PROVE  IInv'
<1>1. TypeOK'
  <2>1. owner' \in Thread \cup {NoThread} /\ pc' \in [Thread -> Stage]
    BY SFTPAssumption DEF IInv, Err, Goto, TypeOK, Stage
  <2>2. method' \in [Thread -> {"connect", "request"}] /\ conns' \in 0..MaxConn
    BY SFTPAssumption DEF IInv, Err, TypeOK
  <2>3. ssh_session' \in 0..conns' /\ sftp_session' \in 0..conns'
    BY SFTPAssumption DEF IInv, Err, CloseHandle, DisconnectUnlocked, TypeOK, sessionVars
  <2>4. blocking' \in BOOLEAN
    BY SFTPAssumption DEF IInv, Err, CloseHandle, DisconnectUnlocked, TypeOK, sessionVars
  <2>5. sftp_handle' \in [Thread -> 0..conns']
    BY SFTPAssumption DEF IInv, Err, CloseHandle, TypeOK
  <2>6. mine' \in [Thread -> -1..conns']
    BY SFTPAssumption DEF IInv, Err, TypeOK
  <2> QED BY <2>1, <2>2, <2>3, <2>4, <2>5, <2>6 DEF TypeOK
<1>2. LockInv'
  BY SFTPAssumption DEF IInv, Err, Goto, LockInv, Locked, Stage, Outside
<1>3. HandleInv'
  BY SFTPAssumption DEF IInv, Err, Goto, CloseHandle, TypeOK, HandleInv
<1>4. AloneInv'
  BY SFTPAssumption DEF IInv, Err, Goto, LockInv, AloneInv, Locked
<1>5. MineInv'
  BY SFTPAssumption DEF IInv, Err, Goto, CloseHandle, TypeOK, LockInv, HandleInv, AloneInv,
       MineInv, Locked, Outside, Connecting, Request
<1>6. ModeInv'
  BY SFTPAssumption DEF IInv, Err, Goto, CloseHandle, DisconnectUnlocked, ModeInv, Switched,
       sessionVars
<1> QED BY <1>1, <1>2, <1>3, <1>4, <1>5, <1>6 DEF IInv

\* The method ends: the mode is restored, or the connection is closed.
LEMMA EndingIInv ==
  ASSUME NEW t \in Thread, IInv, Ending(t)
  PROVE  IInv'
<1>1. TypeOK'
  <2>1. owner' \in Thread \cup {NoThread} /\ pc' \in [Thread -> Stage]
    BY SFTPAssumption DEF IInv, Ending, EndRequest, Return, Goto, TypeOK, Stage
  <2>2. method' \in [Thread -> {"connect", "request"}] /\ conns' \in 0..MaxConn
    BY SFTPAssumption DEF IInv, Ending, TypeOK
  <2>3. ssh_session' \in 0..conns' /\ sftp_session' \in 0..conns'
    BY SFTPAssumption DEF IInv, Ending, EndRequest, DisconnectUnlocked, TypeOK
  <2>4. blocking' \in BOOLEAN
    BY SFTPAssumption DEF Ending, EndRequest, DisconnectUnlocked
  <2>5. sftp_handle' \in [Thread -> 0..conns']
    BY SFTPAssumption DEF IInv, Ending, TypeOK
  <2>6. mine' \in [Thread -> -1..conns']
    BY SFTPAssumption DEF IInv, Ending, EndRequest, Return, TypeOK
  <2> QED BY <2>1, <2>2, <2>3, <2>4, <2>5, <2>6 DEF TypeOK
<1>2. LockInv'
  BY SFTPAssumption DEF IInv, Ending, At, EndRequest, Return, Goto, TypeOK, LockInv, Locked
<1>3. HandleInv'
  BY SFTPAssumption DEF IInv, Ending, At, EndRequest, Return, Goto, TypeOK, HandleInv
<1>4. AloneInv'
  BY SFTPAssumption DEF IInv, Ending, EndRequest, Return, Goto, TypeOK, AloneInv
<1>5. MineInv'
  BY SFTPAssumption DEF IInv, Ending, At, EndRequest, Return, Goto, TypeOK, LockInv, HandleInv,
       AloneInv, MineInv, Locked, Outside, Connecting, Request
<1>6. ModeInv'
  BY SFTPAssumption DEF IInv, Ending, EndRequest, DisconnectUnlocked, ModeInv
<1> QED BY <1>1, <1>2, <1>3, <1>4, <1>5, <1>6 DEF IInv

\* A wait fails: the handle is closed, then the connection.
LEMMA WaitFailsIInv ==
  ASSUME NEW t \in Thread, IInv, WaitFails(t)
  PROVE  IInv'
<1>1. TypeOK'
  <2>1. owner' \in Thread \cup {NoThread} /\ pc' \in [Thread -> Stage]
    BY SFTPAssumption DEF IInv, WaitFails, Goto, TypeOK, Stage
  <2>2. method' \in [Thread -> {"connect", "request"}] /\ conns' \in 0..MaxConn
    BY SFTPAssumption DEF IInv, WaitFails, TypeOK
  <2>3. ssh_session' \in 0..conns' /\ sftp_session' \in 0..conns'
    BY SFTPAssumption DEF IInv, WaitFails, CloseHandle, DisconnectUnlocked, TypeOK, sessionVars
  <2>4. blocking' \in BOOLEAN
    BY SFTPAssumption DEF IInv, WaitFails, CloseHandle, DisconnectUnlocked, TypeOK, sessionVars
  <2>5. sftp_handle' \in [Thread -> 0..conns']
    BY SFTPAssumption DEF IInv, WaitFails, CloseHandle, TypeOK
  <2>6. mine' \in [Thread -> -1..conns']
    BY SFTPAssumption DEF IInv, WaitFails, TypeOK
  <2> QED BY <2>1, <2>2, <2>3, <2>4, <2>5, <2>6 DEF TypeOK
<1>2. LockInv'
  BY SFTPAssumption DEF IInv, WaitFails, Goto, LockInv, Locked, Stage, Outside
<1>3. HandleInv'
  BY SFTPAssumption DEF IInv, WaitFails, Goto, CloseHandle, TypeOK, HandleInv
<1>4. AloneInv'
  BY SFTPAssumption DEF IInv, WaitFails, Goto, LockInv, AloneInv, Locked
<1>5. MineInv'
  BY SFTPAssumption DEF IInv, WaitFails, Goto, CloseHandle, TypeOK, LockInv, HandleInv, AloneInv,
       MineInv, Locked, Outside, Connecting, Request
<1>6. ModeInv'
  BY SFTPAssumption DEF IInv, WaitFails, Goto, CloseHandle, DisconnectUnlocked, ModeInv, Switched,
       sessionVars
<1> QED BY <1>1, <1>2, <1>3, <1>4, <1>5, <1>6 DEF IInv

\* A failed method has closed its connection.
LEMMA FinishDisconnectIInv ==
  ASSUME NEW t \in Thread, IInv, FinishDisconnect(t)
  PROVE  IInv'
<1>1. TypeOK'
  BY SFTPAssumption DEF IInv, FinishDisconnect, Return, Goto, DisconnectUnlocked, TypeOK, Stage
<1>2. LockInv'
  BY SFTPAssumption DEF IInv, FinishDisconnect, At, Return, Goto, TypeOK, LockInv, Locked
<1>3. HandleInv'
  BY SFTPAssumption DEF IInv, FinishDisconnect, At, Return, Goto, HandleInv
<1>4. AloneInv'
  BY SFTPAssumption DEF IInv, FinishDisconnect, Return, Goto, TypeOK, AloneInv
<1>5. MineInv'
  BY SFTPAssumption DEF IInv, FinishDisconnect, At, Return, Goto, LockInv, HandleInv, AloneInv,
       MineInv, Locked, Stage, Outside, Connecting, Request
<1>6. ModeInv'
  BY SFTPAssumption DEF FinishDisconnect, DisconnectUnlocked, ModeInv
<1> QED BY <1>1, <1>2, <1>3, <1>4, <1>5, <1>6 DEF IInv

\* The invariant holds at first.
LEMMA InitIInv == Init => IInv
BY SFTPAssumption DEF Init, IInv, TypeOK, LockInv, HandleInv, AloneInv, MineInv, ModeInv, Locked,
     Stage, Connecting, Request

\* It holds on when nothing changes.
LEMMA StutterIInv ==
  ASSUME IInv, UNCHANGED vars
  PROVE  IInv'
BY DEF IInv, TypeOK, LockInv, HandleInv, AloneInv, MineInv, ModeInv, vars, sessionVars

\* Every step keeps it.
LEMMA NextIInv == IInv /\ [Next]_vars => IInv'
<1> SUFFICES ASSUME IInv, [Next]_vars PROVE IInv'
  OBVIOUS
<1>1. ASSUME NEW t \in Thread, Call(t) PROVE IInv'
  BY <1>1, CallRequestIInv, ConnectIInv, DisconnectIInv DEF Call
<1>2. ASSUME NEW t \in Thread, LockedStep(t) PROVE IInv'
  BY <1>2, IsAliveIInv, SftpConnectIInv, SshConnectIInv, SftpInitIInv, AnsweredIInv, OpenedIInv,
       TransferredIInv, StreamIInv, ErrIInv, EndingIInv, WaitFailsIInv, FinishDisconnectIInv
     DEF LockedStep
<1>3. ASSUME NEW t \in Thread, OutsideReturn(t) PROVE IInv'
  BY <1>3, CallbackReturnIInv, StreamReturnIInv DEF OutsideReturn
<1>4. CASE UNCHANGED vars
  BY <1>4, StutterIInv
<1> QED BY <1>1, <1>2, <1>3, <1>4 DEF Next

\* It holds in every reachable state.
LEMMA AlwaysIInv == Spec => []IInv
BY InitIInv, NextIInv, PTL DEF Spec

\* The variables keep the values the code gives them.
THEOREM TypeCorrect == Spec => []TypeOK
<1>1. IInv => TypeOK
  BY DEF IInv
<1> QED BY <1>1, AlwaysIInv, PTL

\* For any threads and connections: a handle that a method has open belongs to the
\* SFTP session the object has, unless another call has overlapped the method, so
\* that the handle is closed before the connection.
THEOREM HandlesClosedFirst == Spec => []HandleClosedFirst
<1>1. IInv => HandleClosedFirst
  BY DEF IInv, MineInv, HandleClosedFirst
<1> QED BY <1>1, AlwaysIInv, PTL

\* A method that no other call has overlapped works on one session from its first
\* request to its last, in non-blocking mode.
THEOREM MethodsKeepSession == Spec => []MethodKeepsSession
<1>1. IInv => MethodKeepsSession
  BY DEF IInv, MineInv, MethodKeepsSession
<1> QED BY <1>1, AlwaysIInv, PTL

\* The SFTP session belongs to the session, and when no method is in progress it is
\* in blocking mode, whatever calls have overlapped and failed before.
THEOREM AtRest == Spec => []RestState
<1>1. IInv => RestState
  BY DEF IInv, ModeInv, RestState, Switched, Request
<1> QED BY <1>1, AlwaysIInv, PTL

=============================================================================
