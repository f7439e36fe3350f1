---------------------------- MODULE SSH2Channel ----------------------------
(***************************************************************************)
(* The data path of one SSH2Channel object shared by threads: what becomes *)
(* of the bytes the server sends and of the bytes a caller writes.         *)
(*                                                                         *)
(* Every method holds the client's lock from its check_open() to its end,  *)
(* waits for the network included, so that two calls never mix their data. *)
(* The libssh2 calls return data, 0 at the end of the stream, EAGAIN when  *)
(* they would block, or another negative code.  A wait that ends with the  *)
(* socket ready changes nothing and is not a step.  Waits that fail close  *)
(* the connection, and the channel with it, in read() and in the request   *)
(* methods, but not in the methods that transfer a given number of bytes.  *)
(*                                                                         *)
(* The bytes from the server are numbered in the order of arrival; the     *)
(* bytes of a buffer to be written are numbered from 1.                    *)
(***************************************************************************)
EXTENDS Integers, Sequences, FiniteSets

CONSTANTS
  Thread,     \* the threads that use the channel
  NoThread,   \* the owner of the lock when it is free
  MaxData,    \* bound: bytes the server sends
  MaxSize,    \* bound: size of a block or buffer
  MaxWire,    \* bound: bytes sent by one write(), resent ones included
  MaxErr,     \* bound: the largest error code, negated
  Width       \* bits of a size_t

ASSUME ChannelAssumption ==
  /\ NoThread \notin Thread
  /\ {MaxData, MaxWire, Width} \subseteq Nat
  /\ {MaxSize, MaxErr} \subseteq Nat \ {0}
  /\ MaxSize + MaxErr < 2^Width

VARIABLES
  owner,       \* the thread that holds the client's lock
  channel,     \* the channel is open
  pc,          \* the method a thread is in; see Stage
  raised,      \* an exception has been raised in the thread's last call
  size,        \* the size of the block or buffer of the call
  first,       \* read() has not waited yet
  buffer,      \* the bytes a call has read
  b_sent,      \* the bytes a call has written, as write() counts them
  arrived,     \* bytes that have come from the server
  consumed,    \* bytes taken out of libssh2
  eof,         \* the server has sent its last byte
  dead,        \* history: the connection is broken
  delivered,   \* the bytes returned to callers, in the order of return
  lost,        \* history: bytes read by calls that ended with an exception
  wire         \* history: bytes sent since the last write() began

callVars   == <<owner, channel, pc, raised>>
localVars  == <<size, first, buffer, b_sent>>
serverVars == <<arrived, consumed, eof, dead>>
dataVars   == <<delivered, lost, wire>>
vars == <<callVars, localVars, serverVars, dataVars>>

Stage == {"idle", "read", "readBlock", "readBuffer", "write"}

Byte == 1..MaxData

\* The variables keep the values the code gives them.
TypeOK ==
  /\ owner \in Thread \cup {NoThread}
  /\ {channel, eof, dead} \subseteq BOOLEAN
  /\ pc \in [Thread -> Stage]
  /\ raised \in [Thread -> BOOLEAN]
  /\ size \in [Thread -> 1..MaxSize]
  /\ first \in [Thread -> BOOLEAN]
  /\ \A t \in Thread : buffer[t] \in Seq(Byte) /\ Len(buffer[t]) <= MaxData
  /\ b_sent \in [Thread -> 0..(2^Width - 1)]
  /\ arrived \in 0..MaxData
  /\ consumed \in 0..arrived
  /\ delivered \in Seq(Byte)
  /\ lost \subseteq Byte

Init ==
  /\ owner = NoThread
  /\ channel = TRUE
  /\ pc = [t \in Thread |-> "idle"]
  /\ raised = [t \in Thread |-> FALSE]
  /\ size = [t \in Thread |-> 1]
  /\ first = [t \in Thread |-> TRUE]
  /\ buffer = [t \in Thread |-> <<>>]
  /\ b_sent = [t \in Thread |-> 0]
  /\ arrived = 0
  /\ consumed = 0
  /\ eof = FALSE
  /\ dead = FALSE
  /\ delivered = <<>>
  /\ lost = {}
  /\ wire = <<>>

-----------------------------------------------------------------------------
(* Calls and returns *)

\* the call begins: the lock, check_open(), the locals
Begin(t, method) ==
  /\ pc[t] = "idle"
  /\ owner = NoThread
  /\ channel
  /\ owner' = t
  /\ pc' = [pc EXCEPT ![t] = method]
  /\ raised' = [raised EXCEPT ![t] = FALSE]
  /\ \E n \in 1..MaxSize : size' = [size EXCEPT ![t] = n]
  /\ first' = [first EXCEPT ![t] = TRUE]
  /\ b_sent' = [b_sent EXCEPT ![t] = 0]
  /\ UNCHANGED <<channel, buffer, serverVars, delivered, lost>>

Call(t) ==
  \/ \E method \in {"read", "readBlock", "readBuffer"} :
       Begin(t, method) /\ UNCHANGED wire
  \/ Begin(t, "write") /\ wire' = <<>>

\* the call ends, its locals go out of scope
Leave(t) ==
  /\ owner' = NoThread
  /\ pc' = [pc EXCEPT ![t] = "idle"]
  /\ size' = [size EXCEPT ![t] = 1]
  /\ first' = [first EXCEPT ![t] = TRUE]
  /\ b_sent' = [b_sent EXCEPT ![t] = 0]

\* a read returns what it has read
Return(t) ==
  /\ Leave(t)
  /\ delivered' = delivered \o buffer[t]
  /\ buffer' = [buffer EXCEPT ![t] = <<>>]
  /\ UNCHANGED <<channel, raised, lost>>

\* an exception ends a read: what has been read is dropped
Raise(t) ==
  /\ Leave(t)
  /\ raised' = [raised EXCEPT ![t] = TRUE]
  /\ lost' = lost \cup {buffer[t][i] : i \in 1..Len(buffer[t])}
  /\ buffer' = [buffer EXCEPT ![t] = <<>>]
  /\ UNCHANGED delivered

-----------------------------------------------------------------------------
(* libssh2_channel_read_ex(), as the read methods see it *)

\* fault: every call fills the buffer from its start
BufferOverwritten(t, n) ==
  /\ ~dead
  /\ \E k \in 1..n :
       /\ consumed + k <= arrived
       /\ consumed' = consumed + k
       /\ buffer' = [buffer EXCEPT ![t] = [i \in 1..k |-> consumed + i]]
  /\ UNCHANGED <<arrived, eof, dead>>

\* at least one and at most n of the bytes that have arrived
ReadEx(t, n) ==
  /\ ~dead
  /\ \E k \in 1..n :
       /\ consumed + k <= arrived
       /\ consumed' = consumed + k
       /\ buffer' = [buffer EXCEPT ![t] = @ \o [i \in 1..k |-> consumed + i]]
  /\ UNCHANGED <<arrived, eof, dead>>

NothingToRead == ~dead /\ consumed = arrived

-----------------------------------------------------------------------------
(* read() and readBinary(): what is there, after one wait if nothing is *)

ReadData(t) ==
  /\ pc[t] = "read"
  /\ ReadEx(t, MaxData)
  /\ UNCHANGED <<callVars, size, first, b_sent, dataVars>>

\* EAGAIN, nothing read and not waited yet: a failed wait closes the connection
ReadWait(t) ==
  /\ pc[t] = "read"
  /\ NothingToRead /\ ~eof
  /\ buffer[t] = <<>> /\ first[t]
  /\ \/ /\ first' = [first EXCEPT ![t] = FALSE]
        /\ UNCHANGED <<callVars, size, b_sent, buffer, delivered, lost>>
     \/ /\ Raise(t)
        /\ channel' = FALSE
  /\ UNCHANGED <<serverVars, wire>>

ReadReturn(t) ==
  /\ pc[t] = "read"
  /\ NothingToRead
  /\ eof \/ buffer[t] # <<>> \/ ~first[t]
  /\ Return(t)
  /\ UNCHANGED <<serverVars, wire>>

\* fault: the loop goes on after an error
ReadErrorIgnored(t) ==
  /\ pc[t] = "read"
  /\ dead
  /\ UNCHANGED vars

\* doSessionErrUnlocked(); the connection is left open
ReadError(t) ==
  /\ pc[t] = "read"
  /\ dead
  /\ Raise(t)
  /\ UNCHANGED <<channel, serverVars, wire>>

-----------------------------------------------------------------------------
(* readBlock() and readBinaryBlock(): as many bytes as asked for *)

\* fault: the whole block is asked for again
BlockFromStart(t) ==
  /\ pc[t] = "readBlock"
  /\ Len(buffer[t]) < size[t]
  /\ ReadEx(t, size[t])
  /\ UNCHANGED <<callVars, size, first, b_sent, dataVars>>

\* b_remaining bytes are asked for
BlockData(t) ==
  /\ pc[t] = "readBlock"
  /\ ReadEx(t, size[t] - Len(buffer[t]))
  /\ UNCHANGED <<callVars, size, first, b_sent, dataVars>>

BlockReturn(t) ==
  /\ pc[t] = "readBlock"
  /\ Len(buffer[t]) >= size[t]
  /\ Return(t)
  /\ UNCHANGED <<serverVars, wire>>

\* 0 or EAGAIN, and a wait that fails: the connection is left open
BlockTimeout(t) ==
  /\ pc[t] = "readBlock"
  /\ Len(buffer[t]) < size[t]
  /\ NothingToRead
  /\ Raise(t)
  /\ UNCHANGED <<channel, serverVars, wire>>

\* Any other negative code is passed over and the call repeated: the test for
\* it comes after the loop.
BlockError(t) ==
  /\ pc[t] = "readBlock"
  /\ dead
  /\ Len(buffer[t]) < size[t]
  /\ UNCHANGED vars

-----------------------------------------------------------------------------
(* read() into the caller's buffer: what one call returns, after any waits *)

BufferData(t) ==
  /\ pc[t] = "readBuffer"
  /\ buffer[t] = <<>>
  /\ ReadEx(t, size[t])
  /\ UNCHANGED <<callVars, size, first, b_sent, dataVars>>

BufferReturn(t) ==
  /\ pc[t] = "readBuffer"
  /\ buffer[t] # <<>>
  /\ Return(t)
  /\ UNCHANGED <<serverVars, wire>>

\* a failed wait, or an error
BufferError(t) ==
  /\ pc[t] = "readBuffer"
  /\ buffer[t] = <<>>
  /\ NothingToRead \/ dead
  /\ Raise(t)
  /\ UNCHANGED <<channel, serverVars, wire>>

-----------------------------------------------------------------------------
(* write() *)

\* the loop ends when b_sent has reached the size of the buffer
Count(t, n) ==
  IF n >= size[t]
  THEN Leave(t)
  ELSE b_sent' = [b_sent EXCEPT ![t] = n] /\ UNCHANGED <<owner, pc, size, first>>

\* fault: a call starts over at the beginning of the buffer
WriteFromStart(t) ==
  /\ pc[t] = "write"
  /\ ~dead
  /\ \E k \in 1..(size[t] - b_sent[t]) :
       /\ Len(wire) + k <= MaxWire
       /\ wire' = wire \o [i \in 1..k |-> <<t, i>>]
       /\ Count(t, b_sent[t] + k)
  /\ UNCHANGED <<channel, raised, buffer, serverVars, delivered, lost>>

\* libssh2_channel_write_ex() takes some of the rest of the buffer
WriteSome(t) ==
  /\ pc[t] = "write"
  /\ ~dead
  /\ \E k \in 1..(size[t] - b_sent[t]) :
       /\ Len(wire) + k <= MaxWire
       /\ wire' = wire \o [i \in 1..k |-> <<t, b_sent[t] + i>>]
       /\ Count(t, b_sent[t] + k)
  /\ UNCHANGED <<channel, raised, buffer, serverVars, delivered, lost>>

\* EAGAIN, and a wait that fails
WriteTimeout(t) ==
  /\ pc[t] = "write"
  /\ ~dead
  /\ raised' = [raised EXCEPT ![t] = TRUE]
  /\ Leave(t)
  /\ UNCHANGED <<channel, buffer, serverVars, dataVars>>

\* A negative code: the exception is raised, and the code is then added to
\* b_sent, a size_t, like a number of bytes; the loop ends if that wraps round.
WriteError(t) ==
  /\ pc[t] = "write"
  /\ raised' = [raised EXCEPT ![t] = TRUE]
  /\ \E e \in 1..MaxErr : Count(t, (b_sent[t] - e) % 2^Width)
  /\ UNCHANGED <<channel, buffer, serverVars, dataVars>>

-----------------------------------------------------------------------------
(* The other methods, and the environment *)

\* setenv(), requestPty(), shell(), exec(), subsystem(), sendEof(), waitEof(),
\* close(), waitClosed() and the like: one libssh2 call repeated until it does
\* not block.  Only a failed wait changes the state used here; the object's
\* destructor and disconnect() have the same effect.
RequestFails(t) ==
  /\ pc[t] = "idle"
  /\ owner = NoThread
  /\ channel
  /\ channel' = FALSE
  /\ raised' = [raised EXCEPT ![t] = TRUE]
  /\ UNCHANGED <<owner, pc, localVars, serverVars, dataVars>>

\* external: data, the end of the data, or the end of the connection
Server ==
  /\ \/ /\ arrived < MaxData /\ ~eof
        /\ arrived' = arrived + 1
        /\ UNCHANGED <<eof, dead>>
     \/ eof' = TRUE /\ UNCHANGED <<arrived, dead>>
     \/ dead' = TRUE /\ UNCHANGED <<arrived, eof>>
  /\ UNCHANGED <<consumed, callVars, localVars, dataVars>>

Read(t) == ReadData(t) \/ ReadWait(t) \/ ReadReturn(t) \/ ReadError(t)
Block(t) == BlockData(t) \/ BlockReturn(t) \/ BlockTimeout(t) \/ BlockError(t)
Buffer(t) == BufferData(t) \/ BufferReturn(t) \/ BufferError(t)
Write(t) == WriteSome(t) \/ WriteTimeout(t) \/ WriteError(t)

Next ==
  \/ Server
  \/ \E t \in Thread :
       Call(t) \/ Read(t) \/ Block(t) \/ Buffer(t) \/ Write(t) \/ RequestFails(t)

Spec == Init /\ [][Next]_vars

\* A call goes on: libssh2 calls return, and waits end, by their timeout at
\* the latest.
FairSpec ==
  /\ Spec
  /\ \A t \in Thread : WF_vars(Read(t)) /\ WF_vars(Block(t)) /\ WF_vars(Buffer(t))

-----------------------------------------------------------------------------
(* Properties *)

Bytes(s) == {s[i] : i \in 1..Len(s)}

\* No byte is returned twice, none is lost except by an exception, and they are
\* returned in the order of arrival, whichever threads and methods read: the
\* bytes taken out of libssh2 are those returned, then those of the one call in
\* progress.
StreamInOrder ==
  LET reading == {t \in Thread : buffer[t] # <<>>}
      all == delivered \o IF reading = {} THEN <<>> ELSE buffer[CHOOSE t \in reading : TRUE]
  IN /\ Cardinality(reading) <= 1
     /\ \A i, j \in 1..Len(all) : i < j => all[i] < all[j]
     /\ Bytes(all) \cup lost = 1..consumed
     /\ Bytes(all) \cap lost = {}

\* A block that is returned without an exception has exactly the size asked for.
BlockWhole ==
  [][\A t \in Thread :
       pc[t] = "readBlock" /\ pc'[t] = "idle" /\ ~raised'[t] =>
         Len(delivered') = Len(delivered) + size[t]]_vars

\* write() that returns without an exception has sent the whole buffer, once,
\* in order, and nothing of another thread's buffer in between.
WriteWhole ==
  [][\A t \in Thread :
       pc[t] = "write" /\ pc'[t] = "idle" /\ ~raised'[t] =>
         wire' = [i \in 1..size[t] |-> <<t, i>>]]_vars

\* read() returns, with data, without, or with an exception.  readBlock() does
\* unless the connection is broken: an error of libssh2 makes it go round again.
ReadEnds ==
  \A t \in Thread :
    /\ pc[t] \in {"read", "readBuffer"} ~> pc[t] = "idle"
    /\ pc[t] = "readBlock" ~> (pc[t] = "idle" \/ dead)
=============================================================================
