---------------------- MODULE SftpPollOperationProofs ----------------------
(***************************************************************************)
(* Proofs about SftpPollOperation, for any number of connections,          *)
(* candidates, identities and reads.                                       *)
(*                                                                         *)
(* The stages of the operation are entered from several places and left,   *)
(* by failure, abort() or the destructor, from each of them. IInv says     *)
(* what each stage has: the session, the mode, the transport and what is   *)
(* to be released. StateInv is about the thread that drives the operation, *)
(* which gives up the lock for the host key decision and for the provider; *)
(* it says in which stages that can be, and that the client is reserved as *)
(* long as the operation runs or is being closed. The refinement follows   *)
(* from it: the abstract phase is a function of the reservation and the    *)
(* state.                                                                  *)
(***************************************************************************)
EXTENDS SftpPollOperation, SequenceTheorems, TLAPS

Closing == {"closing", "destroying"}

\* which stages the driving thread can be in where, and that the client is
\* reserved exactly as long as the operation runs
StateInv ==
  /\ driver \in {"in", "destroying"} => state \in Active
  /\ driver = "closing" => state \in Active \cup {"DONE"}
  /\ driver = "verifyHostKey" => state = "HANDSHAKE"
  /\ driver \in {"getClientIdentityCandidates", "getPrivateKeyMaterial"} =>
       state = "AUTH" /\ auth_queue # <<>> /\ Head(auth_queue) = "PROVIDER"
  /\ poll_op_in_progress <=> (state \in Active \/ driver # "out")

\* the session, what is made on it and the transport belong together, unless
\* closeIntern() is about to close a connection that has no session yet
TransportInv ==
  /\ ssh_session # 0 => session_fd_hold = ssh_session
  /\ sftp_session \in {0, ssh_session}
  /\ ~(driver = "closing" /\ disconnect) =>
       session_fd_hold = ssh_session /\ socket \in {0, ssh_session}

\* what each stage works on, and that it can be put back
SessionInv ==
  driver \notin Closing =>
    /\ state \in OnSession => ssh_session # 0 /\ ~blocking /\ restore_session_blocking
    /\ state \in Transfer => sftp_session = ssh_session
    /\ state = "CONNECTING" => ssh_session = 0

\* in which stages the operation can have something to release
HeldInv ==
  /\ agent # 0 =>
       /\ state = "AUTH" /\ auth_queue # <<>> /\ Head(auth_queue) = "AGENT"
       /\ agent = ssh_session
  /\ provider_candidates # -1 => state = "AUTH"
  /\ sftp_handle # 0 => state \in {"READ", "CLOSE"}
  /\ HandleReleasedButOnce
  /\ state \notin Active /\ driver = "out" => ~restore_session_blocking

\* an SFTP session in non-blocking mode is one whose mode will be restored
ModeInv == sftp_session # 0 /\ ~blocking => restore_session_blocking

\* a connection the operation has made is verified, then authenticated; after a
\* retry there is no session to adopt
VerifiedInv ==
  /\ driver \notin Closing =>
       /\ state \in {"AUTHLIST", "AUTH"} => verified = ssh_session
       /\ state \in {"SFTP_INIT"} \cup Transfer /\ (~reused_session \/ reconnect_attempted) =>
            verified = ssh_session /\ sshauthenticatedwith
  /\ state = "START" /\ reconnect_attempted => ssh_session = 0

\* nothing has been read before the file is open
CountInv == state \in Active \ {"READ", "CLOSE"} => bytes_read = 0

IInv ==
  /\ TypeOK /\ StateInv /\ TransportInv /\ SessionInv /\ HeldInv /\ ModeInv /\ VerifiedInv
  /\ CountInv

-----------------------------------------------------------------------------

\* A plan is a sequence of at most four attempts.
LEMMA PlanShape == \A p \in Plan : p \in Seq(Attempt) /\ Len(p) <= 4
<1>1. \A p \in {<<>>, <<"PROVIDER">>, <<"CALL", "PROVIDER">>, <<"PROVIDER", "CALL">>} :
        p \in Seq(Attempt) /\ Len(p) <= 2
  <2>1. <<>> \in Seq(Attempt) /\ Len(<<>>) <= 2
    OBVIOUS
  <2>2. <<"PROVIDER">> \in Seq(Attempt) /\ Len(<<"PROVIDER">>) <= 2
    BY DEF Attempt
  <2>3. <<"CALL", "PROVIDER">> \in Seq(Attempt) /\ Len(<<"CALL", "PROVIDER">>) <= 2
    BY DEF Attempt
  <2>4. <<"PROVIDER", "CALL">> \in Seq(Attempt) /\ Len(<<"PROVIDER", "CALL">>) <= 2
    BY DEF Attempt
  <2> QED BY <2>1, <2>2, <2>3, <2>4
<1>2. \A q \in {<<>>, <<"AGENT">>, <<"CALL">>, <<"AGENT", "CALL">>} :
        q \in Seq(Attempt) /\ Len(q) <= 2
  <2>1. <<>> \in Seq(Attempt) /\ Len(<<>>) <= 2
    OBVIOUS
  <2>2. <<"AGENT">> \in Seq(Attempt) /\ Len(<<"AGENT">>) <= 2
    BY DEF Attempt
  <2>3. <<"CALL">> \in Seq(Attempt) /\ Len(<<"CALL">>) <= 2
    BY DEF Attempt
  <2>4. <<"AGENT", "CALL">> \in Seq(Attempt) /\ Len(<<"AGENT", "CALL">>) <= 2
    BY DEF Attempt
  <2> QED BY <2>1, <2>2, <2>3, <2>4
<1>3. ASSUME NEW p \in Seq(Attempt), NEW q \in Seq(Attempt), Len(p) <= 2, Len(q) <= 2
      PROVE  p \o q \in Seq(Attempt) /\ Len(p \o q) <= 4
  BY <1>3
<1> SUFFICES ASSUME NEW r \in Plan PROVE r \in Seq(Attempt) /\ Len(r) <= 4
  OBVIOUS
<1>4. PICK p \in {<<>>, <<"PROVIDER">>, <<"CALL", "PROVIDER">>, <<"PROVIDER", "CALL">>},
           q \in {<<>>, <<"AGENT">>, <<"CALL">>, <<"AGENT", "CALL">>} : r = p \o q
  BY DEF Plan
<1> QED BY ONLY <1>1, <1>2, <1>3, <1>4, Zenon

\* The empty plan may be what is left of one.
LEMMA QueueEmpty == <<>> \in Queue
<1>1. <<>> \in Plan
  <2>1. <<>> \o <<>> = <<>>
    OBVIOUS
  <2> QED BY <2>1 DEF Plan
<1>2. SubSeq(<<>>, 1, Len(<<>>)) = <<>>
  OBVIOUS
<1> QED BY <1>1, <1>2 DEF Queue

\* A whole plan is what is left of it.
LEMMA PlanIsQueue == Plan \subseteq Queue
<1> SUFFICES ASSUME NEW p \in Plan PROVE p \in Queue
  OBVIOUS
<1>1. p \in Seq(Attempt)
  BY PlanShape
<1>2. SubSeq(p, 1, Len(p)) = p
  BY <1>1
<1> QED BY <1>2 DEF Queue

\* The rest of a plan from any place on.
LEMMA QueueMember == ASSUME NEW p \in Plan, NEW i \in 1..5 PROVE SubSeq(p, i, Len(p)) \in Queue
BY DEF Queue

\* What is left of a plan without its head is left of it too.
LEMMA QueueTail == \A q \in Queue : q \in Seq(Attempt) /\ (q # <<>> => Tail(q) \in Queue)
<1> SUFFICES ASSUME NEW q \in Queue
             PROVE  q \in Seq(Attempt) /\ (q # <<>> => Tail(q) \in Queue)
  OBVIOUS
<1> PICK p \in Plan, i \in 1..5 : q = SubSeq(p, i, Len(p))
  BY DEF Queue
<1>1. p \in Seq(Attempt) /\ Len(p) <= 4
  BY PlanShape
<1>2. SubSeq(p, i, Len(p)) \in Seq(Attempt)
  BY <1>1
<1>3. ASSUME SubSeq(p, i, Len(p)) # <<>> PROVE Tail(SubSeq(p, i, Len(p))) \in Queue
  <2>1. i <= Len(p)
    BY <1>1, <1>3
  <2>2. Tail(SubSeq(p, i, Len(p))) = SubSeq(p, i + 1, Len(p))
    BY <1>1, <2>1
  <2>3. i + 1 \in 1..5
    BY <1>1, <2>1
  <2> QED BY <2>2, <2>3, QueueMember
<1> QED BY <1>2, <1>3

\* The queue with what the provider has supplied at its head.
LEMMA FrontTail ==
  \A q \in Queue \cup Front :
    /\ q \in Seq(Attempt)
    /\ <<>> \o q = q
    /\ q # <<>> => Tail(q) \in Queue
    /\ q # <<>> /\ Head(q) = "PROVIDER" =>
         /\ q \in Queue
         /\ \A a \in {"CALL", "AGENT"} : <<a>> \o q \in Front
<1> SUFFICES ASSUME NEW q \in Queue \cup Front
             PROVE  /\ q \in Seq(Attempt)
                    /\ <<>> \o q = q
                    /\ q # <<>> => Tail(q) \in Queue
                    /\ q # <<>> /\ Head(q) = "PROVIDER" =>
                         /\ q \in Queue
                         /\ \A a \in {"CALL", "AGENT"} : <<a>> \o q \in Front
  BY Zenon
<1>1. /\ q \in Seq(Attempt)
      /\ q # <<>> => Tail(q) \in Queue
      /\ q # <<>> /\ Head(q) = "PROVIDER" => q \in Queue
  <2>1. CASE q \in Queue
    BY <2>1, QueueTail
  <2>2. CASE q \in Front
    <3>1. PICK a \in {"AGENT", "CALL"}, r \in Queue : q = <<a>> \o r
      BY <2>2 DEF Front
    <3>2. r \in Seq(Attempt)
      BY QueueTail
    <3>3. q \in Seq(Attempt) /\ Head(q) = a /\ Tail(q) = r
      BY <3>1, <3>2 DEF Attempt
    <3> QED BY <3>1, <3>3
  <2> QED BY <2>1, <2>2
<1>2. <<>> \o q = q
  BY <1>1
<1>3. ASSUME q # <<>>, Head(q) = "PROVIDER", NEW a \in {"CALL", "AGENT"}
      PROVE  <<a>> \o q \in Front
  BY <1>1, <1>3 DEF Front
<1> QED BY <1>1, <1>2, <1>3

\* TypeOK, in parts
FlagsOK ==
  /\ poll_op_in_progress \in BOOLEAN
  /\ blocking \in BOOLEAN
  /\ sshauthenticatedwith \in BOOLEAN
  /\ sftppath \in BOOLEAN
  /\ disconnect \in BOOLEAN
  /\ reused_session \in BOOLEAN
  /\ reconnect_attempted \in BOOLEAN
  /\ restore_session_blocking \in BOOLEAN

SessionsOK ==
  /\ conns \in Session
  /\ ssh_session \in Session
  /\ sftp_session \in Session
  /\ socket \in Session
  /\ session_fd_hold \in Session
  /\ verified \in Session
  /\ agent \in Session
  /\ sftp_handle \in Session

StageOK ==
  /\ state \in Active \cup {"NONE", "DONE", "CLOSED"}
  /\ driver \in Stage

QueueOK == auth_queue \in Queue \cup Front

CountsOK ==
  /\ provider_candidates \in -1..MaxCand
  /\ file_size \in 0..MaxSize
  /\ bytes_read \in 0..file_size

\* The parts make up TypeOK.
LEMMA TypeParts == TypeOK <=> FlagsOK /\ SessionsOK /\ StageOK /\ QueueOK /\ CountsOK
BY Zenon DEF TypeOK, FlagsOK, SessionsOK, StageOK, QueueOK, CountsOK

\* They do so after a step too.
LEMMA TypePartsNext ==
  FlagsOK' /\ SessionsOK' /\ StageOK' /\ QueueOK' /\ CountsOK' => TypeOK'
BY Zenon DEF TypeOK, FlagsOK, SessionsOK, StageOK, QueueOK, CountsOK

\* handleAuth(), by the kind of attempt at the head of the plan
AuthRest == UNCHANGED <<poll_op_in_progress, conns, sftppath, onceVars, fileVars>>
AuthFails == In("AUTH") /\ Close(TRUE) /\ UNCHANGED <<transportVars, authVars>> /\ AuthRest
AuthCallStep == In("AUTH") /\ auth_queue # <<>> /\ AuthCall /\ AuthRest
AuthAgentStep == In("AUTH") /\ auth_queue # <<>> /\ AuthAgent /\ AuthRest
AuthProviderStep == In("AUTH") /\ auth_queue # <<>> /\ AuthProvider /\ AuthRest

\* startPollGetFile() reserves the client.
LEMMA startPollGetFileIInv ==
  ASSUME IInv, startPollGetFile
  PROVE  IInv'
<1>1. TypeOK'
  <2>1. FlagsOK'
    BY PollAssumption DEF IInv, startPollGetFile, TypeOK, transportVars, FlagsOK
  <2>2. SessionsOK'
    BY PollAssumption DEF IInv, startPollGetFile, TypeOK, transportVars, authVars, SessionsOK
  <2>3. StageOK'
    BY PollAssumption DEF IInv, startPollGetFile, StateInv, Stage, Active, StageOK
  <2>4. QueueOK'
    BY FrontTail, QueueEmpty, PlanIsQueue DEF IInv, startPollGetFile, TypeOK, authVars, QueueOK
  <2>5. CountsOK'
    BY PollAssumption DEF IInv, startPollGetFile, TypeOK, authVars, CountsOK
  <2> QED BY <2>1, <2>2, <2>3, <2>4, <2>5, TypePartsNext
<1>2. StateInv'
  BY PollAssumption DEF IInv, startPollGetFile, StateInv, Active
<1>3. TransportInv'
  BY PollAssumption DEF IInv, startPollGetFile, TransportInv, transportVars
<1>4. SessionInv'
  BY PollAssumption DEF startPollGetFile, SessionInv, OnSession, Transfer
<1>5. HeldInv'
  BY PollAssumption DEF IInv, startPollGetFile, HeldInv, HandleReleasedButOnce, HandleReleasedFirst,
       authVars
<1>6. ModeInv'
  BY PollAssumption DEF IInv, startPollGetFile, StateInv, HeldInv, ModeInv, transportVars
<1>7. VerifiedInv'
  BY PollAssumption DEF startPollGetFile, VerifiedInv, Transfer
<1>8. CountInv'
  BY PollAssumption DEF startPollGetFile, CountInv
<1> QED BY <1>1, <1>2, <1>3, <1>4, <1>5, <1>6, <1>7, <1>8 DEF IInv

\* continuePoll() comes in.
LEMMA ContinuePollIInv ==
  ASSUME IInv, ContinuePoll
  PROVE  IInv'
<1>1. TypeOK'
  <2>1. FlagsOK'
    BY PollAssumption DEF IInv, ContinuePoll, Close, TypeOK, transportVars, clientVars, onceVars,
         FlagsOK
  <2>2. SessionsOK'
    BY PollAssumption DEF IInv, ContinuePoll, TypeOK, transportVars, clientVars, authVars,
         fileVars, SessionsOK
  <2>3. StageOK'
    BY PollAssumption DEF ContinuePoll, Close, Stage, StageOK
  <2>4. QueueOK'
    BY FrontTail, QueueEmpty, PlanIsQueue DEF IInv, ContinuePoll, TypeOK, authVars, QueueOK
  <2>5. CountsOK'
    BY PollAssumption DEF IInv, ContinuePoll, TypeOK, authVars, fileVars, CountsOK
  <2> QED BY <2>1, <2>2, <2>3, <2>4, <2>5, TypePartsNext
<1>2. StateInv'
  BY PollAssumption DEF IInv, ContinuePoll, Close, StateInv, clientVars
<1>3. TransportInv'
  BY PollAssumption DEF IInv, ContinuePoll, TransportInv, transportVars, clientVars
<1>4. SessionInv'
  BY PollAssumption DEF IInv, ContinuePoll, Close, SessionInv, Closing, transportVars, clientVars,
       onceVars
<1>5. HeldInv'
  BY PollAssumption DEF IInv, ContinuePoll, Close, HeldInv, HandleReleasedButOnce,
       HandleReleasedFirst, transportVars, clientVars, authVars, fileVars
<1>6. ModeInv'
  BY PollAssumption DEF IInv, ContinuePoll, ModeInv, transportVars, clientVars, onceVars
<1>7. VerifiedInv'
  BY PollAssumption DEF IInv, ContinuePoll, Close, VerifiedInv, Closing, transportVars,
       clientVars, onceVars
<1>8. CountInv'
  BY PollAssumption DEF IInv, ContinuePoll, Close, CountInv, fileVars
<1> QED BY <1>1, <1>2, <1>3, <1>4, <1>5, <1>6, <1>7, <1>8 DEF IInv

\* abort() comes in.
LEMMA abortIInv ==
  ASSUME IInv, abort
  PROVE  IInv'
<1>1. TypeOK'
  <2>1. FlagsOK'
    BY PollAssumption DEF IInv, abort, Close, TypeOK, transportVars, clientVars, onceVars, FlagsOK
  <2>2. SessionsOK'
    BY PollAssumption DEF IInv, abort, TypeOK, transportVars, clientVars, authVars, fileVars,
         SessionsOK
  <2>3. StageOK'
    BY PollAssumption DEF abort, Close, Stage, StageOK
  <2>4. QueueOK'
    BY FrontTail, QueueEmpty, PlanIsQueue DEF IInv, abort, TypeOK, authVars, QueueOK
  <2>5. CountsOK'
    BY PollAssumption DEF IInv, abort, TypeOK, authVars, fileVars, CountsOK
  <2> QED BY <2>1, <2>2, <2>3, <2>4, <2>5, TypePartsNext
<1>2. StateInv'
  BY PollAssumption DEF IInv, abort, Close, StateInv, clientVars
<1>3. TransportInv'
  BY PollAssumption DEF IInv, abort, TransportInv, transportVars, clientVars
<1>4. SessionInv'
  BY PollAssumption DEF abort, Close, SessionInv, Closing
<1>5. HeldInv'
  BY PollAssumption DEF IInv, abort, Close, HeldInv, HandleReleasedButOnce, HandleReleasedFirst,
       transportVars, clientVars, authVars, fileVars
<1>6. ModeInv'
  BY PollAssumption DEF IInv, abort, ModeInv, transportVars, clientVars, onceVars
<1>7. VerifiedInv'
  BY PollAssumption DEF IInv, abort, Close, VerifiedInv, Closing, transportVars, clientVars,
       onceVars
<1>8. CountInv'
  BY PollAssumption DEF IInv, abort, Close, CountInv, fileVars
<1> QED BY <1>1, <1>2, <1>3, <1>4, <1>5, <1>6, <1>7, <1>8 DEF IInv

\* The object is destroyed while it runs, or after.
LEMMA DestroyIInv ==
  ASSUME IInv, Destroy
  PROVE  IInv'
<1>1. TypeOK'
  <2>1. FlagsOK'
    BY PollAssumption DEF IInv, Destroy, TypeOK, transportVars, clientVars, onceVars, FlagsOK
  <2>2. SessionsOK'
    BY PollAssumption DEF IInv, Destroy, TypeOK, transportVars, clientVars, authVars, fileVars,
         SessionsOK
  <2>3. StageOK'
    BY PollAssumption DEF Destroy, Stage, StageOK
  <2>4. QueueOK'
    BY FrontTail, QueueEmpty, PlanIsQueue DEF IInv, Destroy, TypeOK, authVars, QueueOK
  <2>5. CountsOK'
    BY PollAssumption DEF IInv, Destroy, TypeOK, authVars, fileVars, CountsOK
  <2> QED BY <2>1, <2>2, <2>3, <2>4, <2>5, TypePartsNext
<1>2. StateInv'
  BY PollAssumption DEF IInv, Destroy, StateInv, Active, OnSession, Transfer, clientVars
<1>3. TransportInv'
  BY PollAssumption DEF IInv, Destroy, TransportInv, transportVars, clientVars
<1>4. SessionInv'
  BY PollAssumption DEF Destroy, SessionInv, OnSession, Transfer, Closing
<1>5. HeldInv'
  BY PollAssumption DEF IInv, Destroy, HeldInv, HandleReleasedButOnce, HandleReleasedFirst, Active,
       OnSession, Transfer, transportVars, clientVars, authVars, fileVars, onceVars
<1>6. ModeInv'
  BY PollAssumption DEF IInv, Destroy, ModeInv, transportVars, clientVars, onceVars
<1>7. VerifiedInv'
  BY PollAssumption DEF IInv, Destroy, VerifiedInv, Transfer, Closing, transportVars, clientVars,
       onceVars
<1>8. CountInv'
  BY PollAssumption DEF IInv, Destroy, CountInv, Active, OnSession, Transfer, fileVars
<1> QED BY <1>1, <1>2, <1>3, <1>4, <1>5, <1>6, <1>7, <1>8 DEF IInv

\* closeIntern() releases what is held, restores the mode of a session that is kept
\* and gives the client back.
LEMMA CloseInternIInv ==
  ASSUME IInv, CloseIntern
  PROVE  IInv'
<1>1. TypeOK'
  <2>1. FlagsOK'
    BY PollAssumption DEF IInv, CloseIntern, Disconnected, GiveBack, TypeOK, FlagsOK
  <2>2. SessionsOK'
    BY PollAssumption DEF IInv, CloseIntern, ReleaseResources, Disconnected, TypeOK, Session,
         SessionsOK
  <2>3. StageOK'
    BY PollAssumption DEF CloseIntern, FinalState, Stage, StageOK
  <2>4. QueueOK'
    BY FrontTail, QueueEmpty, PlanIsQueue DEF CloseIntern, QueueOK
  <2>5. CountsOK'
    BY PollAssumption DEF IInv, CloseIntern, ReleaseResources, TypeOK, CountsOK
  <2> QED BY <2>1, <2>2, <2>3, <2>4, <2>5, TypePartsNext
<1>2. StateInv'
  BY PollAssumption DEF CloseIntern, FinalState, GiveBack, StateInv, Active, OnSession, Transfer
<1>3. TransportInv'
  BY PollAssumption DEF IInv, CloseIntern, Disconnected, TransportInv
<1>4. SessionInv'
  BY PollAssumption DEF CloseIntern, FinalState, SessionInv, OnSession, Transfer
<1>5. HeldInv'
  BY PollAssumption DEF CloseIntern, ReleaseResources, HeldInv, HandleReleasedButOnce,
       HandleReleasedFirst
<1>6. ModeInv'
  BY PollAssumption DEF IInv, CloseIntern, Disconnected, ModeInv
<1>7. VerifiedInv'
  BY PollAssumption DEF CloseIntern, FinalState, VerifiedInv, Transfer
<1>8. CountInv'
  BY PollAssumption DEF CloseIntern, FinalState, CountInv, Active, OnSession, Transfer
<1> QED BY <1>1, <1>2, <1>3, <1>4, <1>5, <1>6, <1>7, <1>8 DEF IInv

\* The operation adopts the session of the client, or connects.
LEMMA StartIInv ==
  ASSUME IInv, Start
  PROVE  IInv'
<1>1. TypeOK'
  <2>1. FlagsOK'
    BY PollAssumption DEF IInv, Start, SetNonBlocking, Advance, Close, TypeOK, FlagsOK
  <2>2. SessionsOK'
    BY PollAssumption DEF IInv, Start, TypeOK, authVars, fileVars, SessionsOK
  <2>3. StageOK'
    BY PollAssumption DEF IInv, Start, Advance, Close, TypeOK, Stage, Active, OnSession, Transfer,
         StageOK
  <2>4. QueueOK'
    BY FrontTail, QueueEmpty, PlanIsQueue DEF IInv, Start, TypeOK, authVars, QueueOK
  <2>5. CountsOK'
    BY PollAssumption DEF IInv, Start, TypeOK, authVars, fileVars, CountsOK
  <2> QED BY <2>1, <2>2, <2>3, <2>4, <2>5, TypePartsNext
<1>2. StateInv'
  BY PollAssumption DEF IInv, Start, In, Advance, Close, StateInv, Active, OnSession, Transfer
<1>3. TransportInv'
  BY PollAssumption DEF IInv, Start, In, TransportInv
<1>4. SessionInv'
  BY PollAssumption DEF IInv, Start, SetNonBlocking, Advance, Close, TransportInv, SessionInv,
       OnSession, Transfer, Closing
<1>5. HeldInv'
  BY PollAssumption DEF IInv, Start, In, Advance, Close, HeldInv, HandleReleasedButOnce,
       HandleReleasedFirst, authVars, fileVars
<1>6. ModeInv'
  BY PollAssumption DEF IInv, Start, SetNonBlocking, ModeInv
<1>7. VerifiedInv'
  BY PollAssumption DEF IInv, Start, In, Advance, Close, VerifiedInv, Transfer
<1>8. CountInv'
  BY PollAssumption DEF IInv, Start, In, CountInv, Active, fileVars
<1> QED BY <1>1, <1>2, <1>3, <1>4, <1>5, <1>6, <1>7, <1>8 DEF IInv

\* The connection is made, and its session in non-blocking mode; or it fails.
LEMMA HandleConnectingIInv ==
  ASSUME IInv, HandleConnecting
  PROVE  IInv'
<1>1. TypeOK'
  <2>1. FlagsOK'
    BY PollAssumption DEF IInv, HandleConnecting, SetNonBlocking, Advance, Close, Disconnected,
         TypeOK, transportVars, FlagsOK
  <2>2. SessionsOK'
    BY PollAssumption DEF IInv, HandleConnecting, Close, NewSession, Disconnected, TypeOK,
         Session, transportVars, authVars, fileVars, SessionsOK
  <2>3. StageOK'
    BY PollAssumption DEF IInv, HandleConnecting, Advance, Close, TypeOK, Stage, Active,
         OnSession, StageOK
  <2>4. QueueOK'
    BY FrontTail, QueueEmpty, PlanIsQueue DEF IInv, HandleConnecting, TypeOK, authVars, QueueOK
  <2>5. CountsOK'
    BY PollAssumption DEF IInv, HandleConnecting, TypeOK, authVars, fileVars, CountsOK
  <2> QED BY <2>1, <2>2, <2>3, <2>4, <2>5, TypePartsNext
<1>2. StateInv'
  BY PollAssumption DEF IInv, HandleConnecting, In, Advance, Close, StateInv, Active, OnSession
<1>3. TransportInv'
  BY PollAssumption DEF IInv, HandleConnecting, In, Close, NewSession, Disconnected, TransportInv,
       SessionInv, Closing, transportVars
<1>4. SessionInv'
  BY PollAssumption DEF IInv, HandleConnecting, In, SetNonBlocking, Advance, Close, NewSession,
       TypeOK, SessionInv, Session, Transfer, Closing, transportVars
<1>5. HeldInv'
  BY PollAssumption DEF IInv, HandleConnecting, In, Advance, Close, HeldInv, HandleReleasedButOnce,
       HandleReleasedFirst, Active, authVars, fileVars
<1>6. ModeInv'
  BY PollAssumption DEF IInv, HandleConnecting, In, SetNonBlocking, Disconnected, ModeInv,
       transportVars
<1>7. VerifiedInv'
  BY PollAssumption DEF HandleConnecting, In, Advance, Close, VerifiedInv, Transfer
<1>8. CountInv'
  BY PollAssumption DEF IInv, HandleConnecting, In, StateInv, CountInv, fileVars
<1> QED BY <1>1, <1>2, <1>3, <1>4, <1>5, <1>6, <1>7, <1>8 DEF IInv

\* The handshake goes on, ends with the host key, or fails.
LEMMA HandleHandshakeIInv ==
  ASSUME IInv, HandleHandshake
  PROVE  IInv'
<1>1. TypeOK'
  <2>1. FlagsOK'
    BY PollAssumption DEF IInv, HandleHandshake, Wait, Close, HostKey, Disconnected, TypeOK,
         transportVars, onceVars, FlagsOK
  <2>2. SessionsOK'
    BY PollAssumption DEF IInv, HandleHandshake, Wait, Close, HostKey, Disconnected, TypeOK,
         Session, transportVars, authVars, fileVars, SessionsOK
  <2>3. StageOK'
    BY PollAssumption DEF HandleHandshake, In, Wait, Close, HostKey, Stage, Active, OnSession,
         Callback, StageOK
  <2>4. QueueOK'
    BY FrontTail, QueueEmpty, PlanIsQueue DEF IInv, HandleHandshake, TypeOK, authVars, QueueOK
  <2>5. CountsOK'
    BY PollAssumption DEF IInv, HandleHandshake, TypeOK, authVars, fileVars, CountsOK
  <2> QED BY <2>1, <2>2, <2>3, <2>4, <2>5, TypePartsNext
<1>2. StateInv'
  BY PollAssumption DEF IInv, HandleHandshake, In, Wait, Close, HostKey, StateInv, Active, OnSession
<1>3. TransportInv'
  BY PollAssumption DEF IInv, HandleHandshake, In, Wait, HostKey, Disconnected, TransportInv,
       transportVars
<1>4. SessionInv'
  BY PollAssumption DEF IInv, HandleHandshake, In, Wait, Close, HostKey, SessionInv, OnSession,
       Transfer, Closing, transportVars, onceVars
<1>5. HeldInv'
  BY PollAssumption DEF IInv, HandleHandshake, In, Wait, Close, HostKey, HeldInv,
       HandleReleasedButOnce, HandleReleasedFirst, Active, OnSession, authVars, fileVars
<1>6. ModeInv'
  BY PollAssumption DEF IInv, HandleHandshake, In, SessionInv, ModeInv, OnSession, Closing, onceVars
<1>7. VerifiedInv'
  BY PollAssumption DEF HandleHandshake, In, Wait, Close, HostKey, VerifiedInv, Transfer
<1>8. CountInv'
  BY PollAssumption DEF IInv, HandleHandshake, In, StateInv, CountInv, fileVars
<1> QED BY <1>1, <1>2, <1>3, <1>4, <1>5, <1>6, <1>7, <1>8 DEF IInv

\* The host key is decided about with the lock given up: the session is the same
\* after.
LEMMA HostKeyDecisionIInv ==
  ASSUME IInv, HostKeyDecision
  PROVE  IInv'
<1>1. TypeOK'
  <2>1. FlagsOK'
    BY PollAssumption DEF IInv, HostKeyDecision, HostKey, Close, Disconnected, TypeOK, onceVars,
         FlagsOK
  <2>2. SessionsOK'
    BY PollAssumption DEF IInv, HostKeyDecision, HostKey, Close, Disconnected, TypeOK, Session,
         authVars, fileVars, SessionsOK
  <2>3. StageOK'
    BY PollAssumption DEF IInv, HostKeyDecision, HostKey, Close, StateInv, Stage, Active,
         OnSession, StageOK
  <2>4. QueueOK'
    BY FrontTail, QueueEmpty, PlanIsQueue DEF IInv, HostKeyDecision, TypeOK, authVars, QueueOK
  <2>5. CountsOK'
    BY PollAssumption DEF IInv, HostKeyDecision, TypeOK, authVars, fileVars, CountsOK
  <2> QED BY <2>1, <2>2, <2>3, <2>4, <2>5, TypePartsNext
<1>2. StateInv'
  BY PollAssumption DEF IInv, HostKeyDecision, HostKey, Close, StateInv, Active, OnSession
<1>3. TransportInv'
  BY PollAssumption DEF IInv, HostKeyDecision, HostKey, Disconnected, TransportInv
<1>4. SessionInv'
  BY PollAssumption DEF IInv, HostKeyDecision, HostKey, Close, StateInv, SessionInv, OnSession,
       Transfer, Closing, onceVars
<1>5. HeldInv'
  BY PollAssumption DEF IInv, HostKeyDecision, HostKey, Close, StateInv, HeldInv,
       HandleReleasedButOnce, HandleReleasedFirst, authVars, fileVars
<1>6. ModeInv'
  BY PollAssumption DEF IInv, HostKeyDecision, HostKey, Disconnected, ModeInv, onceVars
<1>7. VerifiedInv'
  BY PollAssumption DEF IInv, HostKeyDecision, HostKey, Close, StateInv, VerifiedInv, Transfer
<1>8. CountInv'
  BY PollAssumption DEF IInv, HostKeyDecision, StateInv, CountInv, Active, OnSession, fileVars
<1> QED BY <1>1, <1>2, <1>3, <1>4, <1>5, <1>6, <1>7, <1>8 DEF IInv

\* The methods of the server make the plan.
LEMMA HandleAuthListIInv ==
  ASSUME IInv, HandleAuthList
  PROVE  IInv'
<1>1. TypeOK'
  <2>1. FlagsOK'
    BY PollAssumption DEF IInv, HandleAuthList, Wait, Close, Advance, TypeOK, transportVars,
         onceVars, FlagsOK
  <2>2. SessionsOK'
    BY PollAssumption DEF IInv, HandleAuthList, Wait, TypeOK, transportVars, fileVars, SessionsOK
  <2>3. StageOK'
    BY PollAssumption DEF HandleAuthList, In, Wait, Close, Advance, Stage, Active, OnSession,
         StageOK
  <2>4. QueueOK'
    BY FrontTail, QueueEmpty, PlanIsQueue DEF IInv, HandleAuthList, TypeOK, QueueOK
  <2>5. CountsOK'
    BY PollAssumption DEF IInv, HandleAuthList, TypeOK, fileVars, CountsOK
  <2> QED BY <2>1, <2>2, <2>3, <2>4, <2>5, TypePartsNext
<1>2. StateInv'
  BY PollAssumption DEF IInv, HandleAuthList, In, Wait, Close, Advance, StateInv, Active, OnSession
<1>3. TransportInv'
  BY PollAssumption DEF IInv, HandleAuthList, In, Wait, TransportInv, transportVars
<1>4. SessionInv'
  BY PollAssumption DEF IInv, HandleAuthList, In, Wait, Close, Advance, SessionInv, OnSession,
       Transfer, Closing, transportVars, onceVars
<1>5. HeldInv'
  BY PollAssumption DEF IInv, HandleAuthList, In, Wait, Close, Advance, StateInv, HeldInv,
       HandleReleasedButOnce, HandleReleasedFirst, fileVars
<1>6. ModeInv'
  BY PollAssumption DEF IInv, HandleAuthList, In, Wait, ModeInv, transportVars, onceVars
<1>7. VerifiedInv'
  BY PollAssumption DEF IInv, HandleAuthList, In, Wait, Close, Advance, VerifiedInv, Transfer,
       Closing, transportVars
<1>8. CountInv'
  BY PollAssumption DEF IInv, HandleAuthList, In, CountInv, Active, OnSession, fileVars
<1> QED BY <1>1, <1>2, <1>3, <1>4, <1>5, <1>6, <1>7, <1>8 DEF IInv

\* A call to authenticate succeeds, is refused or fails.
LEMMA AuthCallStepIInv ==
  ASSUME IInv, AuthCallStep
  PROVE  IInv'
<1>1. TypeOK'
  <2>1. FlagsOK'
    BY PollAssumption DEF IInv, AuthCallStep, AuthCall, LoggedIn, Queued, Wait, Close,
         Disconnected, Advance, TypeOK, transportVars, onceVars, AuthRest, FlagsOK
  <2>2. SessionsOK'
    BY PollAssumption DEF IInv, AuthCallStep, AuthCall, LoggedIn, Queued, Wait, Close,
         Disconnected, TypeOK, Session, transportVars, authVars, fileVars, AuthRest, SessionsOK
  <2>3. StageOK'
    BY PollAssumption DEF AuthCallStep, In, AuthCall, LoggedIn, Queued, Wait, Close, Advance,
         Stage, Active, OnSession, StageOK
  <2>4. QueueOK'
    BY FrontTail, QueueEmpty, PlanIsQueue DEF IInv, AuthCallStep, AuthCall, LoggedIn, Queued,
         TypeOK, authVars, QueueOK
  <2>5. CountsOK'
    BY PollAssumption DEF IInv, AuthCallStep, AuthCall, LoggedIn, Close, TypeOK, authVars,
         fileVars, AuthRest, CountsOK
  <2> QED BY <2>1, <2>2, <2>3, <2>4, <2>5, TypePartsNext
<1>2. StateInv'
  BY PollAssumption DEF IInv, AuthCallStep, In, AuthCall, LoggedIn, Queued, Wait, Close, Advance,
       StateInv, Active, OnSession, AuthRest
<1>3. TransportInv'
  BY PollAssumption DEF IInv, AuthCallStep, In, AuthCall, LoggedIn, Queued, Wait, Disconnected,
       TransportInv, transportVars
<1>4. SessionInv'
  BY PollAssumption DEF IInv, AuthCallStep, In, AuthCall, LoggedIn, Queued, Wait, Close, Advance,
       SessionInv, OnSession, Transfer, Closing, transportVars, onceVars, AuthRest
<1>5. HeldInv'
  BY PollAssumption DEF IInv, AuthCallStep, In, AuthCall, LoggedIn, Queued, Wait, Close, Advance,
       StateInv, HeldInv, HandleReleasedButOnce, HandleReleasedFirst, authVars, fileVars, AuthRest
<1>6. ModeInv'
  BY PollAssumption DEF IInv, AuthCallStep, In, SessionInv, ModeInv, OnSession, Closing, onceVars,
       AuthRest
<1>7. VerifiedInv'
  BY PollAssumption DEF IInv, AuthCallStep, In, AuthCall, LoggedIn, Queued, Wait, Close, Advance,
       VerifiedInv, Closing, transportVars, onceVars, AuthRest
<1>8. CountInv'
  BY PollAssumption DEF IInv, AuthCallStep, In, CountInv, Active, OnSession, fileVars, AuthRest
<1> QED BY <1>1, <1>2, <1>3, <1>4, <1>5, <1>6, <1>7, <1>8 DEF IInv

\* The agent is opened on the session, tries an identity, and is released.
LEMMA AuthAgentStepIInv ==
  ASSUME IInv, AuthAgentStep
  PROVE  IInv'
<1>1. TypeOK'
  <2>1. FlagsOK'
    BY PollAssumption DEF IInv, AuthAgentStep, AuthAgent, LoggedIn, Queued, Wait, Close, Advance,
         TypeOK, transportVars, onceVars, AuthRest, FlagsOK
  <2>2. SessionsOK'
    BY PollAssumption DEF IInv, AuthAgentStep, AuthAgent, LoggedIn, Queued, Wait, Close,
         AgentNoMore, TypeOK, Session, transportVars, fileVars, AuthRest, SessionsOK
  <2>3. StageOK'
    BY PollAssumption DEF AuthAgentStep, In, AuthAgent, LoggedIn, Queued, Wait, Close, Advance,
         Stage, Active, OnSession, StageOK
  <2>4. QueueOK'
    BY FrontTail, QueueEmpty, PlanIsQueue DEF IInv, AuthAgentStep, AuthAgent, LoggedIn, Queued,
         TypeOK, QueueOK
  <2>5. CountsOK'
    BY PollAssumption DEF IInv, AuthAgentStep, AuthAgent, LoggedIn, Close, TypeOK, fileVars,
         AuthRest, CountsOK
  <2> QED BY <2>1, <2>2, <2>3, <2>4, <2>5, TypePartsNext
<1>2. StateInv'
  BY PollAssumption DEF IInv, AuthAgentStep, In, AuthAgent, LoggedIn, Queued, Wait, Close,
       Advance, StateInv, Active, OnSession, AuthRest
<1>3. TransportInv'
  BY PollAssumption DEF IInv, AuthAgentStep, In, AuthAgent, LoggedIn, Queued, Wait, TransportInv,
       transportVars
<1>4. SessionInv'
  BY PollAssumption DEF IInv, AuthAgentStep, In, AuthAgent, LoggedIn, Queued, Wait, Close,
       Advance, SessionInv, OnSession, Transfer, Closing, transportVars, onceVars, AuthRest
<1>5. HeldInv'
  BY PollAssumption DEF IInv, AuthAgentStep, In, AuthAgent, LoggedIn, Queued, Wait, Close,
       Advance, AgentNoMore, HeldInv, HandleReleasedButOnce, HandleReleasedFirst, Active,
       OnSession, transportVars, fileVars, AuthRest
<1>6. ModeInv'
  BY PollAssumption DEF IInv, AuthAgentStep, In, SessionInv, ModeInv, OnSession, Closing,
       onceVars, AuthRest
<1>7. VerifiedInv'
  BY PollAssumption DEF IInv, AuthAgentStep, In, AuthAgent, LoggedIn, Queued, Wait, Close,
       Advance, VerifiedInv, Transfer, Closing, transportVars
<1>8. CountInv'
  BY PollAssumption DEF IInv, AuthAgentStep, In, CountInv, Active, OnSession, fileVars, AuthRest
<1> QED BY <1>1, <1>2, <1>3, <1>4, <1>5, <1>6, <1>7, <1>8 DEF IInv

\* The provider is called for its candidates, and for one after the other.
LEMMA AuthProviderStepIInv ==
  ASSUME IInv, AuthProviderStep
  PROVE  IInv'
<1>1. TypeOK'
  <2>1. FlagsOK'
    BY PollAssumption DEF IInv, AuthProviderStep, AuthProvider, Queued, Close, TypeOK,
         transportVars, onceVars, AuthRest, FlagsOK
  <2>2. SessionsOK'
    BY PollAssumption DEF IInv, AuthProviderStep, AuthProvider, Queued, TypeOK, transportVars,
         fileVars, AuthRest, SessionsOK
  <2>3. StageOK'
    BY PollAssumption DEF AuthProviderStep, In, AuthProvider, Queued, Close, Stage, Active,
         OnSession, Callback, StageOK
  <2>4. QueueOK'
    <3>1. /\ auth_queue \in Queue
          /\ Tail(auth_queue) \in Queue
          /\ <<>> \o auth_queue \in Queue
          /\ <<"CALL">> \o auth_queue \in Front
          /\ <<"AGENT">> \o auth_queue \in Front
      BY FrontTail DEF AuthProviderStep, AuthProvider, IInv, TypeOK
    <3> QED BY <3>1 DEF AuthProviderStep, AuthProvider, Queued, QueueOK
  <2>5. CountsOK'
    BY PollAssumption DEF IInv, AuthProviderStep, AuthProvider, Close, TypeOK, fileVars, AuthRest,
         CountsOK
  <2> QED BY <2>1, <2>2, <2>3, <2>4, <2>5, TypePartsNext
<1>2. StateInv'
  BY PollAssumption DEF IInv, AuthProviderStep, In, AuthProvider, Queued, Close, StateInv, AuthRest
<1>3. TransportInv'
  BY PollAssumption DEF IInv, AuthProviderStep, In, AuthProvider, Queued, TransportInv,
       transportVars
<1>4. SessionInv'
  BY PollAssumption DEF IInv, AuthProviderStep, In, AuthProvider, Queued, Close, SessionInv,
       Closing, transportVars, onceVars, AuthRest
<1>5. HeldInv'
  <2>1. HandleReleasedButOnce'
    BY DEF IInv, AuthProviderStep, In, AuthRest, fileVars, HeldInv, HandleReleasedButOnce,
         HandleReleasedFirst
  <2> QED BY <2>1, PollAssumption DEF IInv, AuthProviderStep, AuthProvider, Queued, Close, HeldInv,
        fileVars, onceVars, AuthRest
<1>6. ModeInv'
  BY PollAssumption DEF IInv, AuthProviderStep, In, SessionInv, ModeInv, OnSession, Closing,
       onceVars, AuthRest
<1>7. VerifiedInv'
  BY PollAssumption DEF IInv, AuthProviderStep, In, AuthProvider, Queued, Close, VerifiedInv,
       Transfer, Closing, transportVars
<1>8. CountInv'
  BY PollAssumption DEF IInv, AuthProviderStep, In, CountInv, Active, OnSession, fileVars, AuthRest
<1> QED BY <1>1, <1>2, <1>3, <1>4, <1>5, <1>6, <1>7, <1>8 DEF IInv

\* The plan has come to its end.
LEMMA AuthFailsIInv ==
  ASSUME IInv, AuthFails
  PROVE  IInv'
<1>1. TypeOK'
  <2>1. FlagsOK'
    BY PollAssumption DEF IInv, AuthFails, Close, TypeOK, transportVars, onceVars, AuthRest, FlagsOK
  <2>2. SessionsOK'
    BY PollAssumption DEF IInv, AuthFails, TypeOK, transportVars, authVars, fileVars, AuthRest,
         SessionsOK
  <2>3. StageOK'
    BY PollAssumption DEF IInv, AuthFails, Close, TypeOK, Stage, StageOK
  <2>4. QueueOK'
    BY FrontTail, QueueEmpty, PlanIsQueue DEF IInv, AuthFails, TypeOK, authVars, QueueOK
  <2>5. CountsOK'
    BY PollAssumption DEF IInv, AuthFails, TypeOK, authVars, fileVars, AuthRest, CountsOK
  <2> QED BY <2>1, <2>2, <2>3, <2>4, <2>5, TypePartsNext
<1>2. StateInv'
  BY PollAssumption DEF IInv, AuthFails, In, Close, StateInv, AuthRest
<1>3. TransportInv'
  BY PollAssumption DEF IInv, AuthFails, Close, TransportInv, transportVars
<1>4. SessionInv'
  BY PollAssumption DEF AuthFails, Close, SessionInv, Closing
<1>5. HeldInv'
  BY PollAssumption DEF IInv, AuthFails, Close, HeldInv, HandleReleasedButOnce, HandleReleasedFirst,
       transportVars, authVars, fileVars, AuthRest
<1>6. ModeInv'
  BY PollAssumption DEF IInv, AuthFails, ModeInv, transportVars, onceVars, AuthRest
<1>7. VerifiedInv'
  BY PollAssumption DEF AuthFails, In, Close, VerifiedInv, Closing
<1>8. CountInv'
  BY PollAssumption DEF IInv, AuthFails, Close, CountInv, fileVars, AuthRest
<1> QED BY <1>1, <1>2, <1>3, <1>4, <1>5, <1>6, <1>7, <1>8 DEF IInv

\* The provider returns with the lock given up before: the session is the same after.
LEMMA ProviderReturnIInv ==
  ASSUME IInv, ProviderReturn
  PROVE  IInv'
<1>1. TypeOK'
  <2>1. FlagsOK'
    BY PollAssumption DEF IInv, ProviderReturn, Queued, Close, TypeOK, transportVars, onceVars,
         FlagsOK
  <2>2. SessionsOK'
    BY PollAssumption DEF IInv, ProviderReturn, Queued, TypeOK, transportVars, fileVars, SessionsOK
  <2>3. StageOK'
    BY PollAssumption DEF IInv, ProviderReturn, Queued, Close, TypeOK, Stage, StageOK
  <2>4. QueueOK'
    BY FrontTail, QueueEmpty, PlanIsQueue DEF IInv, ProviderReturn, Queued, TypeOK, StateInv,
         QueueOK
  <2>5. CountsOK'
    BY PollAssumption DEF IInv, ProviderReturn, Close, TypeOK, fileVars, CountsOK
  <2> QED BY <2>1, <2>2, <2>3, <2>4, <2>5, TypePartsNext
<1>2. StateInv'
  BY PollAssumption DEF IInv, ProviderReturn, Queued, Close, TypeOK, StateInv
<1>3. TransportInv'
  BY PollAssumption DEF IInv, ProviderReturn, Queued, TransportInv, transportVars
<1>4. SessionInv'
  BY PollAssumption DEF IInv, ProviderReturn, Queued, Close, SessionInv, Closing, transportVars,
       onceVars
<1>5. HeldInv'
  BY PollAssumption DEF IInv, ProviderReturn, Queued, Close, StateInv, HeldInv,
       HandleReleasedButOnce, HandleReleasedFirst, fileVars
<1>6. ModeInv'
  BY PollAssumption DEF IInv, ProviderReturn, Queued, ModeInv, transportVars, onceVars
<1>7. VerifiedInv'
  BY PollAssumption DEF IInv, ProviderReturn, Queued, Close, VerifiedInv, Closing, transportVars,
       onceVars
<1>8. CountInv'
  BY PollAssumption DEF IInv, ProviderReturn, TypeOK, StateInv, CountInv, fileVars
<1> QED BY <1>1, <1>2, <1>3, <1>4, <1>5, <1>6, <1>7, <1>8 DEF IInv

\* The SFTP session is made, or the operation connects anew, or it fails.
LEMMA HandleSftpInitIInv ==
  ASSUME IInv, HandleSftpInit
  PROVE  IInv'
<1>0. In("SFTP_INIT") /\ UNCHANGED <<poll_op_in_progress, conns, sftppath, authVars>>
  BY DEF HandleSftpInit
<1>1. TypeOK'
  <2>1. FlagsOK'
    BY PollAssumption DEF IInv, HandleSftpInit, Wait, Close, SessionError, Disconnected,
         RetryAfterConnectionLoss, Advance, TypeOK, transportVars, onceVars, FlagsOK
  <2>2. SessionsOK'
    <3>1. CASE Wait /\ UNCHANGED <<onceVars, fileVars>>
      BY <1>0, <3>1, PollAssumption DEF IInv, Wait, TypeOK, transportVars, authVars, fileVars,
           SessionsOK
    <3>2. CASE RetryAfterConnectionLoss
      BY <1>0, <3>2, PollAssumption DEF IInv, Disconnected, RetryAfterConnectionLoss, TypeOK,
           Session, authVars, SessionsOK
    <3>3. CASE SessionError(TRUE) /\ UNCHANGED <<onceVars, fileVars>>
      BY <1>0, <3>3, PollAssumption DEF IInv, SessionError, Disconnected, TypeOK, Session,
           transportVars, authVars, fileVars, SessionsOK
    <3>4. CASE /\ sftp_session' = ssh_session
               /\ Advance(IF sftppath THEN "STAT" ELSE "REALPATH")
               /\ UNCHANGED <<ssh_session, socket, session_fd_hold, blocking, verified,
                               sshauthenticatedwith, onceVars, fileVars>>
      BY <1>0, <3>4, PollAssumption DEF IInv, TypeOK, authVars, fileVars, SessionsOK
    <3> QED BY <3>1, <3>2, <3>3, <3>4 DEF HandleSftpInit
  <2>3. StageOK'
    BY PollAssumption DEF HandleSftpInit, In, Wait, Close, SessionError, RetryAfterConnectionLoss,
         Advance, Stage, Active, OnSession, Transfer, StageOK
  <2>4. QueueOK'
    BY FrontTail, QueueEmpty, PlanIsQueue DEF IInv, HandleSftpInit, TypeOK, authVars, QueueOK
  <2>5. CountsOK'
    BY PollAssumption DEF IInv, HandleSftpInit, Close, SessionError, RetryAfterConnectionLoss,
         TypeOK, authVars, fileVars, CountsOK
  <2> QED BY <2>1, <2>2, <2>3, <2>4, <2>5, TypePartsNext
<1>2. StateInv'
  BY PollAssumption DEF IInv, HandleSftpInit, In, Wait, Close, SessionError,
       RetryAfterConnectionLoss, Advance, StateInv, Active, OnSession, Transfer
<1>3. TransportInv'
  BY PollAssumption DEF IInv, HandleSftpInit, In, Wait, SessionError, Disconnected,
       RetryAfterConnectionLoss, TransportInv, transportVars
<1>4. SessionInv'
  BY PollAssumption DEF IInv, HandleSftpInit, In, Wait, Close, SessionError,
       RetryAfterConnectionLoss, Advance, SessionInv, OnSession, Transfer, Closing, transportVars,
       onceVars
<1>5. HeldInv'
  BY PollAssumption DEF IInv, HandleSftpInit, In, Wait, Close, SessionError,
       RetryAfterConnectionLoss, Advance, TypeOK, HeldInv, HandleReleasedButOnce,
       HandleReleasedFirst, authVars, fileVars
<1>6. ModeInv'
  BY PollAssumption DEF IInv, HandleSftpInit, In, Disconnected, RetryAfterConnectionLoss,
       SessionInv, ModeInv, OnSession, Closing, onceVars
<1>7. VerifiedInv'
  <2>1. CASE Wait /\ UNCHANGED <<onceVars, fileVars>>
    BY <1>0, <2>1, PollAssumption DEF IInv, In, Wait, Close, VerifiedInv, Closing, transportVars,
         onceVars
  <2>2. CASE RetryAfterConnectionLoss
    BY <1>0, <2>2, PollAssumption DEF Disconnected, RetryAfterConnectionLoss, Advance,
         VerifiedInv, Transfer
  <2>3. CASE SessionError(TRUE) /\ UNCHANGED <<onceVars, fileVars>>
    BY <1>0, <2>3, PollAssumption DEF In, Close, SessionError, VerifiedInv, Closing
  <2>4. CASE /\ sftp_session' = ssh_session
             /\ Advance(IF sftppath THEN "STAT" ELSE "REALPATH")
             /\ UNCHANGED <<ssh_session, socket, session_fd_hold, blocking, verified,
                               sshauthenticatedwith, onceVars, fileVars>>
    BY <1>0, <2>4, PollAssumption DEF IInv, In, Advance, VerifiedInv, onceVars
  <2> QED BY <2>1, <2>2, <2>3, <2>4 DEF HandleSftpInit
<1>8. CountInv'
  BY PollAssumption DEF IInv, HandleSftpInit, In, RetryAfterConnectionLoss, CountInv, Active,
       OnSession, fileVars
<1> QED BY <1>1, <1>2, <1>3, <1>4, <1>5, <1>6, <1>7, <1>8 DEF IInv

\* The path is resolved.
LEMMA HandleRealPathIInv ==
  ASSUME IInv, HandleRealPath
  PROVE  IInv'
<1>1. TypeOK'
  <2>1. FlagsOK'
    BY PollAssumption DEF IInv, HandleRealPath, Wait, Close, SessionError, Disconnected, Advance,
         TypeOK, transportVars, onceVars, FlagsOK
  <2>2. SessionsOK'
    BY PollAssumption DEF IInv, HandleRealPath, Wait, Close, SessionError, Disconnected, TypeOK,
         Session, transportVars, authVars, fileVars, SessionsOK
  <2>3. StageOK'
    BY PollAssumption DEF HandleRealPath, In, Wait, Close, SessionError, Advance, Stage, Active,
         OnSession, Transfer, StageOK
  <2>4. QueueOK'
    BY FrontTail, QueueEmpty, PlanIsQueue DEF IInv, HandleRealPath, TypeOK, authVars, QueueOK
  <2>5. CountsOK'
    BY PollAssumption DEF IInv, HandleRealPath, TypeOK, authVars, fileVars, CountsOK
  <2> QED BY <2>1, <2>2, <2>3, <2>4, <2>5, TypePartsNext
<1>2. StateInv'
  BY PollAssumption DEF IInv, HandleRealPath, In, Wait, Close, SessionError, Advance, StateInv,
       Active, OnSession, Transfer
<1>3. TransportInv'
  BY PollAssumption DEF IInv, HandleRealPath, In, Wait, SessionError, Disconnected, TransportInv,
       transportVars
<1>4. SessionInv'
  BY PollAssumption DEF IInv, HandleRealPath, In, Wait, Close, SessionError, Advance, SessionInv,
       OnSession, Transfer, Closing, transportVars, onceVars
<1>5. HeldInv'
  BY PollAssumption DEF IInv, HandleRealPath, In, Wait, Close, SessionError, Advance, HeldInv,
       HandleReleasedButOnce, HandleReleasedFirst, Active, OnSession, Transfer, authVars, fileVars
<1>6. ModeInv'
  BY PollAssumption DEF IInv, HandleRealPath, In, SessionInv, ModeInv, OnSession, Transfer,
       Closing, onceVars
<1>7. VerifiedInv'
  BY PollAssumption DEF IInv, HandleRealPath, In, Wait, Close, SessionError, Advance, VerifiedInv,
       Transfer, Closing, transportVars, onceVars
<1>8. CountInv'
  BY PollAssumption DEF IInv, HandleRealPath, In, StateInv, CountInv, fileVars
<1> QED BY <1>1, <1>2, <1>3, <1>4, <1>5, <1>6, <1>7, <1>8 DEF IInv

\* The file is looked at, or the operation connects anew, or it fails.
LEMMA HandleStatIInv ==
  ASSUME IInv, HandleStat
  PROVE  IInv'
<1>0. In("STAT") /\ UNCHANGED <<poll_op_in_progress, conns, sftppath, authVars>>
  BY DEF HandleStat
<1>1. TypeOK'
  <2>1. FlagsOK'
    BY PollAssumption DEF IInv, HandleStat, Wait, Close, SessionError, Disconnected,
         RetryAfterConnectionLoss, Advance, TypeOK, transportVars, onceVars, FlagsOK
  <2>2. SessionsOK'
    <3>1. CASE Wait /\ UNCHANGED <<onceVars, fileVars>>
      BY <1>0, <3>1, PollAssumption DEF IInv, Wait, TypeOK, transportVars, authVars, fileVars,
           SessionsOK
    <3>2. CASE RetryAfterConnectionLoss
      BY <1>0, <3>2, PollAssumption DEF IInv, Disconnected, RetryAfterConnectionLoss, TypeOK,
           Session, authVars, SessionsOK
    <3>3. CASE SessionError(FALSE) /\ UNCHANGED <<onceVars, fileVars>>
      BY <1>0, <3>3, PollAssumption DEF IInv, SessionError, Disconnected, TypeOK, Session,
           transportVars, authVars, fileVars, SessionsOK
    <3>4. CASE Advance("OPEN") /\ UNCHANGED <<transportVars, onceVars, sftp_handle>>
      BY <1>0, <3>4, PollAssumption DEF IInv, TypeOK, transportVars, authVars, SessionsOK
    <3> QED BY <3>1, <3>2, <3>3, <3>4 DEF HandleStat
  <2>3. StageOK'
    BY PollAssumption DEF HandleStat, In, Wait, Close, SessionError, RetryAfterConnectionLoss,
         Advance, Stage, Active, OnSession, Transfer, StageOK
  <2>4. QueueOK'
    BY FrontTail, QueueEmpty, PlanIsQueue DEF IInv, HandleStat, TypeOK, authVars, QueueOK
  <2>5. CountsOK'
    BY PollAssumption DEF IInv, HandleStat, In, Close, SessionError, RetryAfterConnectionLoss,
         TypeOK, CountInv, authVars, fileVars, CountsOK
  <2> QED BY <2>1, <2>2, <2>3, <2>4, <2>5, TypePartsNext
<1>2. StateInv'
  BY PollAssumption DEF IInv, HandleStat, In, Wait, Close, SessionError, RetryAfterConnectionLoss,
       Advance, StateInv, Active, OnSession, Transfer
<1>3. TransportInv'
  BY PollAssumption DEF IInv, HandleStat, In, Wait, SessionError, Disconnected,
       RetryAfterConnectionLoss, TransportInv, transportVars
<1>4. SessionInv'
  BY PollAssumption DEF IInv, HandleStat, In, Wait, Close, SessionError, RetryAfterConnectionLoss,
       Advance, SessionInv, OnSession, Transfer, Closing, transportVars, onceVars
<1>5. HeldInv'
  BY PollAssumption DEF IInv, HandleStat, In, Wait, Close, SessionError, RetryAfterConnectionLoss,
       Advance, TypeOK, HeldInv, HandleReleasedButOnce, HandleReleasedFirst, authVars, fileVars
<1>6. ModeInv'
  BY PollAssumption DEF IInv, HandleStat, In, Disconnected, RetryAfterConnectionLoss, SessionInv,
       ModeInv, OnSession, Transfer, Closing, onceVars
<1>7. VerifiedInv'
  <2>1. CASE Wait /\ UNCHANGED <<onceVars, fileVars>>
    BY <1>0, <2>1, PollAssumption DEF IInv, In, Wait, Close, VerifiedInv, Closing, transportVars,
         onceVars
  <2>2. CASE RetryAfterConnectionLoss
    BY <1>0, <2>2, PollAssumption DEF Disconnected, RetryAfterConnectionLoss, Advance,
         VerifiedInv, Transfer
  <2>3. CASE SessionError(FALSE) /\ UNCHANGED <<onceVars, fileVars>>
    BY <1>0, <2>3, PollAssumption DEF In, Close, SessionError, VerifiedInv, Closing
  <2>4. CASE Advance("OPEN") /\ UNCHANGED <<transportVars, onceVars, sftp_handle>>
    BY <1>0, <2>4, PollAssumption DEF IInv, In, Advance, VerifiedInv, Transfer, transportVars,
         onceVars
  <2> QED BY <2>1, <2>2, <2>3, <2>4 DEF HandleStat
<1>8. CountInv'
  BY PollAssumption DEF IInv, HandleStat, In, RetryAfterConnectionLoss, CountInv, Active,
       OnSession, Transfer, fileVars
<1> QED BY <1>1, <1>2, <1>3, <1>4, <1>5, <1>6, <1>7, <1>8 DEF IInv

\* The file is opened.
LEMMA HandleOpenIInv ==
  ASSUME IInv, HandleOpen
  PROVE  IInv'
<1>1. TypeOK'
  <2>1. FlagsOK'
    BY PollAssumption DEF IInv, HandleOpen, Wait, Close, SessionError, Disconnected, Advance,
         TypeOK, transportVars, onceVars, FlagsOK
  <2>2. SessionsOK'
    BY PollAssumption DEF IInv, HandleOpen, Wait, Close, SessionError, Disconnected, TypeOK,
         Session, transportVars, authVars, SessionsOK
  <2>3. StageOK'
    BY PollAssumption DEF HandleOpen, In, Wait, Close, SessionError, Advance, Stage, Active,
         OnSession, Transfer, StageOK
  <2>4. QueueOK'
    BY FrontTail, QueueEmpty, PlanIsQueue DEF IInv, HandleOpen, TypeOK, authVars, QueueOK
  <2>5. CountsOK'
    BY PollAssumption DEF IInv, HandleOpen, TypeOK, authVars, CountsOK
  <2> QED BY <2>1, <2>2, <2>3, <2>4, <2>5, TypePartsNext
<1>2. StateInv'
  BY PollAssumption DEF IInv, HandleOpen, In, Wait, Close, SessionError, Advance, StateInv,
       Active, OnSession, Transfer
<1>3. TransportInv'
  BY PollAssumption DEF IInv, HandleOpen, In, Wait, SessionError, Disconnected, TransportInv,
       transportVars
<1>4. SessionInv'
  BY PollAssumption DEF IInv, HandleOpen, In, Wait, Close, SessionError, Advance, SessionInv,
       OnSession, Transfer, Closing, transportVars, onceVars
<1>5. HeldInv'
  <2>1. HandleReleasedButOnce'
    BY DEF IInv, HandleOpen, In, Wait, Close, SessionError, Advance, transportVars, HeldInv,
         HandleReleasedButOnce, HandleReleasedFirst
  <2> QED BY <2>1, PollAssumption DEF IInv, HandleOpen, In, Wait, Close, SessionError, Advance,
        HeldInv, Active, OnSession, Transfer, authVars
<1>6. ModeInv'
  BY PollAssumption DEF IInv, HandleOpen, In, SessionInv, ModeInv, OnSession, Transfer, Closing,
       onceVars
<1>7. VerifiedInv'
  BY PollAssumption DEF IInv, HandleOpen, In, Wait, Close, SessionError, Advance, VerifiedInv,
       Transfer, Closing, transportVars, onceVars
<1>8. CountInv'
  BY PollAssumption DEF IInv, HandleOpen, In, StateInv, CountInv
<1> QED BY <1>1, <1>2, <1>3, <1>4, <1>5, <1>6, <1>7, <1>8 DEF IInv

\* The file is read.
LEMMA HandleReadIInv ==
  ASSUME IInv, HandleRead
  PROVE  IInv'
<1>1. TypeOK'
  <2>1. FlagsOK'
    BY PollAssumption DEF IInv, HandleRead, Wait, Close, SessionError, Disconnected, Advance,
         TypeOK, transportVars, onceVars, FlagsOK
  <2>2. SessionsOK'
    BY PollAssumption DEF IInv, HandleRead, Wait, Close, SessionError, Disconnected, TypeOK,
         Session, transportVars, authVars, SessionsOK
  <2>3. StageOK'
    BY PollAssumption DEF HandleRead, In, Wait, Close, SessionError, Advance, Stage, Active,
         OnSession, Transfer, StageOK
  <2>4. QueueOK'
    BY FrontTail, QueueEmpty, PlanIsQueue DEF IInv, HandleRead, TypeOK, authVars, QueueOK
  <2>5. CountsOK'
    BY PollAssumption DEF IInv, HandleRead, Close, SessionError, ReadSome, TypeOK, authVars,
         CountsOK
  <2> QED BY <2>1, <2>2, <2>3, <2>4, <2>5, TypePartsNext
<1>2. StateInv'
  BY PollAssumption DEF IInv, HandleRead, In, Wait, Close, SessionError, Advance, StateInv,
       Active, OnSession, Transfer
<1>3. TransportInv'
  BY PollAssumption DEF IInv, HandleRead, In, Wait, SessionError, Disconnected, TransportInv,
       transportVars
<1>4. SessionInv'
  BY PollAssumption DEF IInv, HandleRead, In, Wait, Close, SessionError, Advance, SessionInv,
       OnSession, Transfer, Closing, transportVars, onceVars
<1>5. HeldInv'
  <2>1. HandleReleasedButOnce'
    BY DEF IInv, HandleRead, In, Wait, Close, SessionError, Disconnected, Advance, transportVars,
         HeldInv, HandleReleasedButOnce, HandleReleasedFirst
  <2> QED BY <2>1, PollAssumption DEF IInv, HandleRead, In, Wait, Close, SessionError, Advance,
        HeldInv, Active, OnSession, Transfer, authVars
<1>6. ModeInv'
  BY PollAssumption DEF IInv, HandleRead, In, SessionInv, ModeInv, OnSession, Transfer, Closing,
       onceVars
<1>7. VerifiedInv'
  BY PollAssumption DEF IInv, HandleRead, In, Wait, Close, SessionError, Advance, VerifiedInv,
       Transfer, Closing, transportVars, onceVars
<1>8. CountInv'
  BY PollAssumption DEF HandleRead, In, Wait, Close, SessionError, Advance, CountInv
<1> QED BY <1>1, <1>2, <1>3, <1>4, <1>5, <1>6, <1>7, <1>8 DEF IInv

\* The file is closed, and the operation done.
LEMMA HandleCloseIInv ==
  ASSUME IInv, HandleClose
  PROVE  IInv'
<1>1. TypeOK'
  <2>1. FlagsOK'
    BY PollAssumption DEF IInv, HandleClose, Wait, Close, TypeOK, transportVars, onceVars, FlagsOK
  <2>2. SessionsOK'
    BY PollAssumption DEF IInv, HandleClose, Wait, Close, TypeOK, Session, transportVars,
         authVars, SessionsOK
  <2>3. StageOK'
    BY PollAssumption DEF IInv, HandleClose, Wait, Close, TypeOK, Stage, StageOK
  <2>4. QueueOK'
    BY FrontTail, QueueEmpty, PlanIsQueue DEF IInv, HandleClose, TypeOK, authVars, QueueOK
  <2>5. CountsOK'
    BY PollAssumption DEF IInv, HandleClose, TypeOK, authVars, CountsOK
  <2> QED BY <2>1, <2>2, <2>3, <2>4, <2>5, TypePartsNext
<1>2. StateInv'
  BY PollAssumption DEF IInv, HandleClose, In, Wait, Close, StateInv
<1>3. TransportInv'
  BY PollAssumption DEF IInv, HandleClose, In, Wait, TransportInv, transportVars
<1>4. SessionInv'
  BY PollAssumption DEF IInv, HandleClose, In, Wait, Close, SessionInv, Closing, transportVars,
       onceVars
<1>5. HeldInv'
  <2>1. HandleReleasedButOnce'
    BY DEF IInv, HandleClose, In, Wait, Close, transportVars, HeldInv, HandleReleasedButOnce,
         HandleReleasedFirst
  <2> QED BY <2>1, PollAssumption DEF IInv, HandleClose, In, Wait, Close, TypeOK, HeldInv, authVars
<1>6. ModeInv'
  BY PollAssumption DEF IInv, HandleClose, In, Wait, ModeInv, transportVars, onceVars
<1>7. VerifiedInv'
  BY PollAssumption DEF IInv, HandleClose, In, Wait, Close, VerifiedInv, Closing, transportVars,
       onceVars
<1>8. CountInv'
  BY PollAssumption DEF HandleClose, In, Wait, Close, CountInv, Active, OnSession, Transfer
<1> QED BY <1>1, <1>2, <1>3, <1>4, <1>5, <1>6, <1>7, <1>8 DEF IInv

\* A blocking method, run outside of a poll operation, leaves no connection, a
\* working one, or a session without a user.
LEMMA BlockingMethodIInv ==
  ASSUME IInv, BlockingMethod
  PROVE  IInv'
<1>1. TypeOK'
  <2>1. FlagsOK'
    BY PollAssumption DEF IInv, BlockingMethod, Disconnected, TypeOK, onceVars, opVars, FlagsOK
  <2>2. SessionsOK'
    BY PollAssumption DEF IInv, BlockingMethod, Disconnected, NewSession, TypeOK, Session,
         authVars, fileVars, opVars, SessionsOK
  <2>3. StageOK'
    BY PollAssumption DEF IInv, BlockingMethod, TypeOK, opVars, StageOK
  <2>4. QueueOK'
    BY FrontTail, QueueEmpty, PlanIsQueue DEF IInv, BlockingMethod, TypeOK, authVars, opVars,
         QueueOK
  <2>5. CountsOK'
    BY PollAssumption DEF IInv, BlockingMethod, TypeOK, authVars, fileVars, opVars, CountsOK
  <2> QED BY <2>1, <2>2, <2>3, <2>4, <2>5, TypePartsNext
<1>2. StateInv'
  BY PollAssumption DEF IInv, BlockingMethod, StateInv, opVars
<1>3. TransportInv'
  BY PollAssumption DEF BlockingMethod, Disconnected, NewSession, TransportInv
<1>4. SessionInv'
  BY PollAssumption DEF IInv, BlockingMethod, StateInv, SessionInv, Active, OnSession, opVars
<1>5. HeldInv'
  BY PollAssumption DEF IInv, BlockingMethod, TypeOK, StateInv, HeldInv, HandleReleasedButOnce,
       HandleReleasedFirst, authVars, fileVars, onceVars, opVars
<1>6. ModeInv'
  BY PollAssumption DEF BlockingMethod, Disconnected, ModeInv
<1>7. VerifiedInv'
  BY PollAssumption DEF IInv, BlockingMethod, StateInv, VerifiedInv, Active, OnSession, opVars
<1>8. CountInv'
  BY PollAssumption DEF IInv, BlockingMethod, CountInv, fileVars, opVars
<1> QED BY <1>1, <1>2, <1>3, <1>4, <1>5, <1>6, <1>7, <1>8 DEF IInv

\* The I/O controller closes the socket under the session.
LEMMA closeIoIInv ==
  ASSUME IInv, closeIo
  PROVE  IInv'
<1>1. TypeOK'
  <2>1. FlagsOK'
    BY PollAssumption DEF IInv, closeIo, TypeOK, onceVars, opVars, FlagsOK
  <2>2. SessionsOK'
    BY PollAssumption DEF IInv, closeIo, TypeOK, Session, authVars, fileVars, opVars, SessionsOK
  <2>3. StageOK'
    BY PollAssumption DEF IInv, closeIo, TypeOK, opVars, StageOK
  <2>4. QueueOK'
    BY FrontTail, QueueEmpty, PlanIsQueue DEF IInv, closeIo, TypeOK, authVars, opVars, QueueOK
  <2>5. CountsOK'
    BY PollAssumption DEF IInv, closeIo, TypeOK, authVars, fileVars, opVars, CountsOK
  <2> QED BY <2>1, <2>2, <2>3, <2>4, <2>5, TypePartsNext
<1>2. StateInv'
  BY PollAssumption DEF IInv, closeIo, StateInv, authVars, opVars
<1>3. TransportInv'
  BY PollAssumption DEF IInv, closeIo, TransportInv, opVars
<1>4. SessionInv'
  BY PollAssumption DEF IInv, closeIo, SessionInv, onceVars, opVars
<1>5. HeldInv'
  BY PollAssumption DEF IInv, closeIo, HeldInv, HandleReleasedButOnce, HandleReleasedFirst,
       authVars, fileVars, onceVars, opVars
<1>6. ModeInv'
  BY PollAssumption DEF IInv, closeIo, ModeInv, onceVars, opVars
<1>7. VerifiedInv'
  BY PollAssumption DEF IInv, closeIo, VerifiedInv, onceVars, opVars
<1>8. CountInv'
  BY PollAssumption DEF IInv, closeIo, CountInv, fileVars, opVars
<1> QED BY <1>1, <1>2, <1>3, <1>4, <1>5, <1>6, <1>7, <1>8 DEF IInv

\* The steps of the authentication.
LEMMA HandleAuthIInv ==
  ASSUME IInv, HandleAuth
  PROVE  IInv'
<1>1. AuthFails \/ AuthCallStep \/ AuthAgentStep \/ AuthProviderStep
  BY DEF HandleAuth, AuthFails, AuthCallStep, AuthAgentStep, AuthProviderStep, AuthRest
<1> QED BY <1>1, AuthFailsIInv, AuthCallStepIInv, AuthAgentStepIInv, AuthProviderStepIInv

\* Nothing changes.
LEMMA StutterIInv ==
  ASSUME IInv, UNCHANGED vars
  PROVE  IInv'
<1>1. TypeOK'
  BY DEF IInv, TypeOK, vars, transportVars, clientVars, authVars, fileVars, onceVars
<1>2. StateInv' /\ TransportInv' /\ SessionInv' /\ HeldInv'
  BY DEF IInv, StateInv, TransportInv, SessionInv, HeldInv, HandleReleasedButOnce,
       HandleReleasedFirst, vars, transportVars, clientVars, authVars, fileVars, onceVars
<1>3. ModeInv' /\ VerifiedInv' /\ CountInv'
  BY DEF IInv, ModeInv, VerifiedInv, CountInv, vars, transportVars, clientVars, fileVars, onceVars
<1> QED BY <1>1, <1>2, <1>3 DEF IInv

\* The invariant holds at first.
LEMMA InitIInv == Init => IInv
<1> SUFFICES ASSUME Init PROVE IInv
  OBVIOUS
<1>1. TypeOK
  <2>1. FlagsOK
    BY DEF Init, FlagsOK
  <2>2. SessionsOK
    BY PollAssumption DEF Init, SessionsOK, Session
  <2>3. StageOK
    BY DEF Init, StageOK, Stage
  <2>4. QueueOK
    BY QueueEmpty DEF Init, QueueOK
  <2>5. CountsOK
    BY PollAssumption DEF Init, CountsOK
  <2> QED BY <2>1, <2>2, <2>3, <2>4, <2>5, TypeParts
<1>2. StateInv /\ TransportInv /\ SessionInv /\ HeldInv /\ ModeInv /\ VerifiedInv /\ CountInv
  BY DEF Init, StateInv, TransportInv, SessionInv, HeldInv, HandleReleasedButOnce,
       HandleReleasedFirst, ModeInv, VerifiedInv, CountInv, Active, OnSession, Transfer
<1> QED BY <1>1, <1>2 DEF IInv

\* Every step keeps it.
LEMMA NextIInv == IInv /\ [Next]_vars => IInv'
<1> SUFFICES ASSUME IInv, [Next]_vars PROVE IInv'
  OBVIOUS
<1>1. CASE startPollGetFile
  BY <1>1, startPollGetFileIInv
<1>2. CASE ContinuePoll
  BY <1>2, ContinuePollIInv
<1>3. CASE abort
  BY <1>3, abortIInv
<1>4. CASE Destroy
  BY <1>4, DestroyIInv
<1>5. CASE Start
  BY <1>5, StartIInv
<1>6. CASE HandleConnecting
  BY <1>6, HandleConnectingIInv
<1>7. CASE HandleHandshake
  BY <1>7, HandleHandshakeIInv
<1>8. CASE HandleAuthList
  BY <1>8, HandleAuthListIInv
<1>9. CASE HandleAuth
  BY <1>9, HandleAuthIInv
<1>10. CASE HandleSftpInit
  BY <1>10, HandleSftpInitIInv
<1>11. CASE HandleRealPath
  BY <1>11, HandleRealPathIInv
<1>12. CASE HandleStat
  BY <1>12, HandleStatIInv
<1>13. CASE HandleOpen
  BY <1>13, HandleOpenIInv
<1>14. CASE HandleRead
  BY <1>14, HandleReadIInv
<1>15. CASE HandleClose
  BY <1>15, HandleCloseIInv
<1>16. CASE CloseIntern
  BY <1>16, CloseInternIInv
<1>17. CASE HostKeyDecision
  BY <1>17, HostKeyDecisionIInv
<1>18. CASE ProviderReturn
  BY <1>18, ProviderReturnIInv
<1>19. CASE BlockingMethod
  BY <1>19, BlockingMethodIInv
<1>20. CASE closeIo
  BY <1>20, closeIoIInv
<1>21. CASE UNCHANGED vars
  BY <1>21, StutterIInv
<1> QED BY <1>1, <1>2, <1>3, <1>4, <1>5, <1>6, <1>7, <1>8, <1>9, <1>10, <1>11, <1>12, <1>13,
     <1>14, <1>15, <1>16, <1>17, <1>18, <1>19, <1>20, <1>21 DEF Next, Handler

\* It holds in every reachable state.
LEMMA AlwaysIInv == Spec => []IInv
BY InitIInv, NextIInv, PTL DEF Spec

\* The variables keep the values the code gives them.
THEOREM TypeCorrect == Spec => []TypeOK
<1>1. IInv => TypeOK
  BY DEF IInv
<1> QED BY <1>1, AlwaysIInv, PTL

\* On every path of the operation, calls that come in at any time included, each
\* stage works on the session that is the client's, and the descriptor is held for
\* the transport of that session.
THEOREM SessionsOwned == Spec => []SessionOwned
<1>1. IInv => SessionOwned
  <2> SUFFICES ASSUME IInv PROVE SessionOwned
    OBVIOUS
  <2>1. StageOnSession
    BY DEF IInv, SessionInv, HeldInv, StageOnSession, Callback, Closing
  <2>2. DescriptorHeld
    BY DEF IInv, TransportInv, DescriptorHeld
  <2> QED BY <2>1, <2>2 DEF SessionOwned
<1> QED BY <1>1, AlwaysIInv, PTL

\* The agent is released before its session, the remote handle before the SFTP
\* session but for the connection a failed read has closed, and an operation that
\* has ended, in whatever way, holds no agent, no candidates and no handle, and has
\* no mode left to restore.
THEOREM AllReleased == Spec => []ResourcesReleased
<1>1. IInv => ResourcesReleased
  BY DEF IInv, HeldInv, HandleReleasedButOnce, HandleReleasedFirst, ResourcesReleased,
       AgentReleasedFirst, NothingHeld, Active, OnSession, Transfer
<1> QED BY <1>1, AlwaysIInv, PTL

\* When the client is not reserved, no SFTP session is in non-blocking mode:
\* closeIntern() has restored it, or the session is gone.
THEOREM ModeRestored == Spec => []BlockingRestored
<1>1. IInv => BlockingRestored
  BY DEF IInv, StateInv, HeldInv, ModeInv, BlockingRestored
<1> QED BY <1>1, AlwaysIInv, PTL

\* The file is requested over a connection whose host key was accepted and on which a
\* user has logged in, if the operation has made the connection itself, at first or
\* in its retry.
THEOREM TransferVerified == Spec => []VerifiedTransfer
<1>1. IInv => VerifiedTransfer
  BY DEF IInv, VerifiedInv, VerifiedTransfer, Closing
<1> QED BY <1>1, AlwaysIInv, PTL

-----------------------------------------------------------------------------
\* what the abstract phase is, by the reservation and the state
PhaseTable ==
  /\ poll_op_in_progress \in BOOLEAN /\ reconnect_attempted \in BOOLEAN
  /\ state = "NONE" => phase = "idle" /\ ~poll_op_in_progress
  /\ poll_op_in_progress => phase = "running"
  /\ ~poll_op_in_progress /\ state = "DONE" => phase = "done"
  /\ ~poll_op_in_progress /\ state = "CLOSED" => phase = "failed"
  /\ ~poll_op_in_progress => state \in {"NONE", "DONE", "CLOSED"}

\* The table holds in every reachable state.
LEMMA PhaseOf == IInv => PhaseTable
<1> SUFFICES ASSUME IInv PROVE PhaseTable
  OBVIOUS
<1>1. state = "NONE" => state \notin Active /\ driver = "out"
  BY DEF IInv, TypeOK, StateInv, Active, OnSession, Transfer, Stage, Callback
<1>2. poll_op_in_progress <=> (state \in Active \/ driver # "out")
  BY DEF IInv, StateInv
<1>3. /\ state \in Active \cup {"NONE", "DONE", "CLOSED"}
      /\ poll_op_in_progress \in BOOLEAN /\ reconnect_attempted \in BOOLEAN
  BY DEF IInv, TypeOK
<1>4. CASE state = "NONE"
  BY <1>1, <1>2, <1>3, <1>4 DEF phase, PhaseTable
<1>5. CASE state # "NONE" /\ poll_op_in_progress
  BY <1>2, <1>3, <1>5 DEF phase, PhaseTable, Active, OnSession, Transfer
<1>6. CASE state = "DONE" /\ ~poll_op_in_progress
  BY <1>2, <1>3, <1>6 DEF phase, PhaseTable
<1>7. CASE state = "CLOSED" /\ ~poll_op_in_progress
  BY <1>2, <1>3, <1>7 DEF phase, PhaseTable
<1> QED BY <1>2, <1>3, <1>4, <1>5, <1>6, <1>7

\* It holds after a step too.
LEMMA PhaseOfNext == IInv' => PhaseTable'
BY PhaseOf, PTL

\* the kinds of steps the abstract specification tells apart
Quiet ==
  /\ UNCHANGED <<poll_op_in_progress, reconnect_attempted>>
  /\ ~poll_op_in_progress => UNCHANGED state
Begins  == ~poll_op_in_progress /\ state = "NONE" /\ poll_op_in_progress' /\ ~reconnect_attempted'
Retries ==
  /\ poll_op_in_progress /\ UNCHANGED poll_op_in_progress
  /\ ~reconnect_attempted /\ reconnect_attempted'
Ends    == poll_op_in_progress /\ ~poll_op_in_progress'
Drops   ==
  /\ ~poll_op_in_progress /\ UNCHANGED poll_op_in_progress
  /\ state \in {"DONE", "CLOSED"} /\ state' = "NONE"

\* Every step is of one of these kinds.
LEMMA StepKinds ==
  ASSUME IInv, [Next]_vars
  PROVE  Quiet \/ Begins \/ Retries \/ Ends \/ Drops
<1>1. CASE startPollGetFile
  BY <1>1 DEF startPollGetFile, Begins
<1>2. CASE ContinuePoll
  BY <1>2 DEF ContinuePoll, Quiet, IInv, StateInv, clientVars, onceVars
<1>3. CASE abort
  BY <1>3 DEF abort, Quiet, IInv, StateInv, clientVars, onceVars
<1>4. CASE Destroy
  BY <1>4 DEF Destroy, Quiet, Drops, clientVars, onceVars
<1>5. CASE Start
  BY <1>5 DEF Start, Quiet, In, IInv, StateInv
<1>6. CASE HandleConnecting
  BY <1>6 DEF HandleConnecting, Quiet, In, IInv, StateInv
<1>7. CASE HandleHandshake
  BY <1>7 DEF HandleHandshake, Quiet, In, IInv, StateInv, onceVars
<1>8. CASE HandleAuthList
  BY <1>8 DEF HandleAuthList, Quiet, In, IInv, StateInv, onceVars
<1>9. CASE HandleAuth
  BY <1>9 DEF HandleAuth, Quiet, In, IInv, StateInv, onceVars
<1>10. CASE HandleSftpInit
  BY <1>10 DEF HandleSftpInit, Quiet, Retries, RetryAfterConnectionLoss, In, IInv, StateInv,
       onceVars
<1>11. CASE HandleRealPath
  BY <1>11 DEF HandleRealPath, Quiet, In, IInv, StateInv, onceVars
<1>12. CASE HandleStat
  BY <1>12 DEF HandleStat, Quiet, Retries, RetryAfterConnectionLoss, In, IInv, StateInv, onceVars
<1>13. CASE HandleOpen
  BY <1>13 DEF HandleOpen, Quiet, In, IInv, StateInv, onceVars
<1>14. CASE HandleRead
  BY <1>14 DEF HandleRead, Quiet, In, IInv, StateInv, onceVars
<1>15. CASE HandleClose
  BY <1>15 DEF HandleClose, Quiet, In, IInv, StateInv, onceVars
<1>16. CASE CloseIntern
  BY <1>16 DEF CloseIntern, Ends, GiveBack, IInv, StateInv
<1>17. CASE HostKeyDecision
  BY <1>17 DEF HostKeyDecision, Quiet, IInv, StateInv, onceVars
<1>18. CASE ProviderReturn
  BY <1>18 DEF ProviderReturn, Quiet, IInv, StateInv, onceVars
<1>19. CASE BlockingMethod
  BY <1>19 DEF BlockingMethod, Quiet, onceVars, opVars
<1>20. CASE closeIo
  BY <1>20 DEF closeIo, Quiet, onceVars, opVars
<1>21. CASE UNCHANGED vars
  BY <1>21 DEF vars, clientVars, onceVars, Quiet
<1> QED BY <1>1, <1>2, <1>3, <1>4, <1>5, <1>6, <1>7, <1>8, <1>9, <1>10, <1>11, <1>12, <1>13,
     <1>14, <1>15, <1>16, <1>17, <1>18, <1>19, <1>20, <1>21 DEF Next, Handler

\* Each kind of step is a step of the abstract specification, or none.
LEMMA RetrievalStep ==
  ASSUME IInv, [Next]_vars
  PROVE  [Retrieval!Next]_(Retrieval!fvars)
<1>1. IInv'
  BY NextIInv
<1>2. PhaseTable /\ PhaseTable'
  BY <1>1, PhaseOf, PhaseOfNext
<1>3. CASE Quiet
  <2>1. UNCHANGED phase
    BY <1>2, <1>3 DEF Quiet, PhaseTable
  <2> QED BY <1>2, <1>3, <2>1 DEF Quiet, Retrieval!fvars
<1>4. CASE Begins
  BY <1>2, <1>4 DEF Begins, PhaseTable, Retrieval!Next, Retrieval!Begin
<1>5. CASE Retries
  BY <1>2, <1>5 DEF Retries, PhaseTable, Retrieval!Next, Retrieval!Retry
<1>6. CASE Ends
  BY <1>2, <1>6 DEF Ends, PhaseTable, Retrieval!Next, Retrieval!End
<1>7. CASE Drops
  BY <1>2, <1>7 DEF Drops, PhaseTable, Retrieval!Next, Retrieval!Drop
<1> QED BY StepKinds, <1>3, <1>4, <1>5, <1>6, <1>7

\* The operation implements FileRetrieval: it reserves the client from its start to
\* its end, starts over at most once, and ends once, with the file or without.
THEOREM RefinesRetrieval == Spec => IsRetrieval
<1>1. Init => Retrieval!Init
  BY DEF Init, Retrieval!Init, phase, Active, OnSession, Transfer
<1>2. IInv /\ [Next]_vars => [Retrieval!Next]_(Retrieval!fvars)
  BY RetrievalStep
<1> QED BY <1>1, <1>2, AlwaysIInv, PTL DEF Spec, IsRetrieval, Retrieval!Spec

=============================================================================
