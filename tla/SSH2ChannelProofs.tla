------------------------ MODULE SSH2ChannelProofs ------------------------
(***************************************************************************)
(* Proofs about SSH2Channel, for any threads and any amount of data.       *)
(*                                                                         *)
(* The lock of the client is held from the first to the last step of a     *)
(* call, so that at most one call has read bytes it has not returned       *)
(* (LockInv, BufferInv): Held. The bytes returned, then Held, are the      *)
(* first bytes of the stream but for the lost ones (StreamInv), which is   *)
(* what each read appends to, each return moves and each exception drops.  *)
(* WireInv is the same for write(): without an exception, what was sent is *)
(* what was counted.                                                       *)
(***************************************************************************)
EXTENDS SSH2Channel, SequenceTheorems, FiniteSetTheorems, TLAPS

\* the bytes the call in progress has read
Held == IF owner = NoThread THEN <<>> ELSE buffer[owner]

Ordered(s) == \A i, j \in 1..Len(s) : i < j => s[i] < s[j]

\* the bytes of s and the lost ones are the first c bytes of the stream
IsStream(s, gone, c) ==
  /\ Ordered(s)
  /\ Bytes(s) \cup gone = 1..c
  /\ Bytes(s) \cap gone = {}

\* the c + 1st to the c + kth byte
Run(c, k) == [i \in 1..k |-> c + i]

\* the first n bytes of a buffer of t
Sent(t, n) == [i \in 1..n |-> <<t, i>>]

\* the lock is held exactly by the thread that is in a method
LockInv == \A t \in Thread : owner = t <=> pc[t] # "idle"

\* only the call that holds the lock has read something, no more than fits
BufferInv ==
  /\ buffer \in [Thread -> Seq(Byte)]
  /\ \A t \in Thread : pc[t] \in {"idle", "write"} => buffer[t] = <<>>
  /\ \A t \in Thread : pc[t] = "readBlock" => Len(buffer[t]) <= size[t]
  /\ Len(delivered) + Len(Held) <= consumed

\* a write() without an exception has sent what it has counted
WireInv ==
  \A t \in Thread : pc[t] = "write" /\ ~raised[t] =>
    b_sent[t] < size[t] /\ wire = Sent(t, b_sent[t])

StreamInv == IsStream(delivered \o Held, lost, consumed)

IInv == TypeOK /\ LockInv /\ BufferInv /\ WireInv /\ StreamInv

-----------------------------------------------------------------------------
\* What the proofs use of the constants.
LEMMA Bounds ==
  /\ NoThread \notin Thread /\ MaxData \in Nat /\ MaxWire \in Nat /\ Width \in Nat
  /\ MaxSize \in Nat \ {0} /\ MaxErr \in Nat \ {0}
  /\ 2^Width \in Nat /\ MaxSize < 2^Width
BY ChannelAssumption

\* A run is a sequence.
LEMMA RunType ==
  ASSUME NEW c \in Nat, NEW k \in Nat
  PROVE  Run(c, k) \in Seq(Nat) /\ Len(Run(c, k)) = k /\ \A i \in 1..k : Run(c, k)[i] = c + i
BY DEF Run

\* The bytes of two sequences.
LEMMA BytesConcat ==
  ASSUME NEW s \in Seq(Nat), NEW r \in Seq(Nat)
  PROVE  Bytes(s \o r) = Bytes(s) \cup Bytes(r)
<1>1. s \o r \in Seq(Nat) /\ Len(s \o r) = Len(s) + Len(r)
  OBVIOUS
<1>2. \A i \in 1..Len(s) : (s \o r)[i] = s[i]
  OBVIOUS
<1>3. \A i \in 1..Len(r) : (s \o r)[Len(s) + i] = r[i]
  OBVIOUS
<1>4. Bytes(s) \subseteq Bytes(s \o r)
  BY <1>1, <1>2 DEF Bytes
<1>5. Bytes(r) \subseteq Bytes(s \o r)
  <2> SUFFICES ASSUME NEW i \in 1..Len(r) PROVE r[i] \in Bytes(s \o r)
    BY DEF Bytes
  <2>1. Len(s) + i \in 1..Len(s \o r)
    BY <1>1
  <2> QED BY <2>1, <1>3 DEF Bytes
<1>6. Bytes(s \o r) \subseteq Bytes(s) \cup Bytes(r)
  <2> SUFFICES ASSUME NEW i \in 1..Len(s \o r) PROVE (s \o r)[i] \in Bytes(s) \cup Bytes(r)
    BY DEF Bytes
  <2>1. CASE i <= Len(s)
    <3>1. i \in 1..Len(s)
      BY <2>1
    <3> QED BY <3>1, <1>2 DEF Bytes
  <2>2. CASE i > Len(s)
    <3>1. i - Len(s) \in 1..Len(r) /\ (s \o r)[i] = r[i - Len(s)]
      BY <2>2, <1>1, <1>3
    <3> QED BY <3>1 DEF Bytes
  <2> QED BY <2>1, <2>2, <1>1
<1> QED BY <1>4, <1>5, <1>6

\* Concatenation is associative.
LEMMA Regroup ==
  ASSUME NEW s \in Seq(Nat), NEW r \in Seq(Nat), NEW q \in Seq(Nat)
  PROVE  (s \o r) \o q = s \o (r \o q)
BY ONLY s \in Seq(Nat), r \in Seq(Nat), q \in Seq(Nat)

\* The next bytes of the stream may be put behind what has been read.
LEMMA StreamAppend ==
  ASSUME NEW s \in Seq(Nat), NEW gone, NEW c \in Nat, NEW k \in Nat, IsStream(s, gone, c)
  PROVE  IsStream(s \o Run(c, k), gone, c + k)
<1> DEFINE r == Run(c, k)
<1>1. r \in Seq(Nat) /\ Len(r) = k /\ \A i \in 1..k : r[i] = c + i
  BY RunType
<1>2. Bytes(r) = (c + 1)..(c + k)
  <2>1. Bytes(r) \subseteq (c + 1)..(c + k)
    BY <1>1 DEF Bytes
  <2>2. ASSUME NEW x \in (c + 1)..(c + k) PROVE x \in Bytes(r)
    <3>1. x - c \in 1..Len(r) /\ r[x - c] = x
      BY <1>1
    <3> QED BY <3>1 DEF Bytes
  <2> QED BY <2>1, <2>2
<1>3. Bytes(s \o r) = Bytes(s) \cup Bytes(r)
  BY <1>1, BytesConcat
<1>4. Bytes(s) \cup gone = 1..c /\ Bytes(s) \cap gone = {} /\ Ordered(s)
  BY DEF IsStream
<1>5. Bytes(s \o r) \cup gone = 1..(c + k) /\ Bytes(s \o r) \cap gone = {}
  <2> HIDE DEF r
  <2>1. 1..(c + k) = (1..c) \cup ((c + 1)..(c + k)) /\ (1..c) \cap ((c + 1)..(c + k)) = {}
    OBVIOUS
  <2> QED BY <1>2, <1>3, <1>4, <2>1
<1>6. Ordered(s \o r)
  <2> HIDE DEF r
  <2> SUFFICES ASSUME NEW i \in 1..Len(s \o r), NEW j \in 1..Len(s \o r), i < j
               PROVE  (s \o r)[i] < (s \o r)[j]
    BY DEF Ordered
  <2>0. Len(s \o r) = Len(s) + k
    BY <1>1, ConcatProperties
  <2>1. CASE j <= Len(s)
    BY <2>1, <1>1, <1>4, <2>0 DEF Ordered
  <2>2. CASE j > Len(s)
    <3>1. (s \o r)[j] = c + (j - Len(s))
      BY <1>1, <2>0, <2>2
    <3>2. CASE i <= Len(s)
      <4>1. (s \o r)[i] = s[i] /\ s[i] \in Bytes(s)
        BY <3>2, <1>1 DEF Bytes
      <4>2. s[i] \in 1..c
        BY <4>1, <1>4
      <4> QED BY <3>1, <4>1, <4>2, <2>2
    <3>3. CASE i > Len(s)
      <4>1. (s \o r)[i] = c + (i - Len(s))
        BY <1>1, <2>0, <3>3
      <4> QED BY <3>1, <4>1
    <3> QED BY <3>2, <3>3
  <2> QED BY <2>1, <2>2
<1> QED BY <1>5, <1>6 DEF IsStream

\* Bytes dropped from the end of the stream are lost, and the rest is in order.
LEMMA StreamDrop ==
  ASSUME NEW d \in Seq(Nat), NEW b \in Seq(Nat), NEW gone, NEW c \in Nat,
         IsStream(d \o b, gone, c)
  PROVE  IsStream(d, gone \cup Bytes(b), c)
<1>1. Bytes(d \o b) = Bytes(d) \cup Bytes(b)
  BY BytesConcat
<1>2. Ordered(d \o b) /\ Bytes(d \o b) \cup gone = 1..c /\ Bytes(d \o b) \cap gone = {}
  BY DEF IsStream
<1>3. Ordered(d)
  <2> SUFFICES ASSUME NEW i \in 1..Len(d), NEW j \in 1..Len(d), i < j PROVE d[i] < d[j]
    BY DEF Ordered
  <2>1. /\ i \in 1..Len(d \o b) /\ j \in 1..Len(d \o b)
        /\ (d \o b)[i] = d[i] /\ (d \o b)[j] = d[j]
    OBVIOUS
  <2> QED BY <1>2, <2>1 DEF Ordered
<1>4. Bytes(d) \cap Bytes(b) = {}
  <2> SUFFICES ASSUME NEW i \in 1..Len(d), NEW j \in 1..Len(b) PROVE d[i] # b[j]
    BY DEF Bytes
  <2>1. /\ i \in 1..Len(d \o b) /\ Len(d) + j \in 1..Len(d \o b) /\ i < Len(d) + j
        /\ (d \o b)[i] = d[i] /\ (d \o b)[Len(d) + j] = b[j]
    OBVIOUS
  <2>2. d[i] < b[j]
    BY <1>2, <2>1 DEF Ordered
  <2>3. d[i] \in Nat /\ b[j] \in Nat
    OBVIOUS
  <2> QED BY <2>2, <2>3
<1> QED BY <1>1, <1>2, <1>3, <1>4 DEF IsStream

\* The next bytes of the buffer behind those already sent.
LEMMA SentMore ==
  ASSUME NEW t, NEW n \in Nat, NEW k \in Nat
  PROVE  Sent(t, n) \o [i \in 1..k |-> <<t, n + i>>] = Sent(t, n + k)
BY DEF Sent

\* TypeOK, in parts
FlagsOK ==
  /\ {channel, eof, dead} \subseteq BOOLEAN
  /\ raised \in [Thread -> BOOLEAN]
  /\ first \in [Thread -> BOOLEAN]

CallOK ==
  /\ owner \in Thread \cup {NoThread}
  /\ pc \in [Thread -> Stage]
  /\ size \in [Thread -> 1..MaxSize]
  /\ b_sent \in [Thread -> 0..(2^Width - 1)]

CountOK ==
  /\ arrived \in 0..MaxData
  /\ consumed \in 0..arrived

DataOK ==
  /\ \A t \in Thread : buffer[t] \in Seq(Byte) /\ Len(buffer[t]) <= MaxData
  /\ delivered \in Seq(Byte)
  /\ lost \subseteq Byte

\* The parts make up TypeOK.
LEMMA TypeParts == (FlagsOK /\ CallOK /\ CountOK /\ DataOK => TypeOK)'
BY DEF TypeOK, FlagsOK, CallOK, CountOK, DataOK

\* what the proofs use of the state
LEMMA HeldFacts ==
  ASSUME IInv
  PROVE  /\ delivered \in Seq(Nat) /\ Held \in Seq(Nat) /\ consumed \in Nat
         /\ \A t \in Thread : buffer[t] \in Seq(Nat)
         /\ \A t \in Thread : pc[t] # "idle" => owner = t /\ Held = buffer[t]
         /\ owner = NoThread => Held = <<>>
<1>1. ASSUME NEW s \in Seq(Byte) PROVE s \in Seq(Nat)
  <2>1. Len(s) \in Nat /\ s \in [1..Len(s) -> Byte]
    OBVIOUS
  <2>2. Byte \subseteq Nat
    BY Bounds DEF Byte
  <2>3. s \in [1..Len(s) -> Nat]
    BY <2>1, <2>2
  <2> QED BY <2>1, <2>3, SeqDef
<1>2. \A t \in Thread : t # NoThread
  BY Bounds
<1>3. buffer \in [Thread -> Seq(Byte)] /\ delivered \in Seq(Byte) /\ consumed \in Nat
  BY Bounds DEF IInv, TypeOK, BufferInv
<1>4. \A t \in Thread : pc[t] # "idle" => owner = t
  BY DEF IInv, LockInv
<1>5. owner \in Thread \cup {NoThread}
  BY DEF IInv, TypeOK
<1> QED BY <1>1, <1>2, <1>3, <1>4, <1>5 DEF Held

\* a call that reads: what has been read goes behind what was there
LEMMA ReadExStep ==
  ASSUME NEW t \in Thread, NEW n \in Int, IInv, pc[t] # "idle", ReadEx(t, n),
         UNCHANGED <<owner, delivered, lost>>
  PROVE  /\ consumed' \in 0..arrived /\ StreamInv'
         /\ buffer' \in [Thread -> Seq(Byte)]
         /\ \A u \in Thread : u # t => buffer'[u] = buffer[u]
         /\ Len(buffer'[t]) <= Len(buffer[t]) + n
         /\ Len(delivered') + Len(Held') <= consumed'
<1>1. PICK k \in 1..n : /\ consumed + k <= arrived
                        /\ consumed' = consumed + k
                        /\ buffer' = [buffer EXCEPT ![t] = @ \o Run(consumed, k)]
  BY DEF ReadEx, Run
<1>2. /\ delivered \in Seq(Nat) /\ buffer[t] \in Seq(Nat) /\ consumed \in Nat
      /\ owner = t /\ Held = buffer[t] /\ owner # NoThread
  BY HeldFacts, Bounds
<1>3. k \in Nat /\ Run(consumed, k) \in Seq(Nat) /\ Len(Run(consumed, k)) = k
  <2>1. k \in Nat
    OBVIOUS
  <2> QED BY <1>2, <2>1, RunType
<1>4. arrived \in 0..MaxData /\ buffer \in [Thread -> Seq(Byte)] /\ Len(delivered) + Len(Held) <= consumed
  BY DEF IInv, TypeOK, BufferInv
<1>5. Run(consumed, k) \in Seq(Byte)
  BY <1>1, <1>2, <1>3, <1>4, Bounds DEF Run, Byte
<1>6. Held' = buffer[t] \o Run(consumed, k)
  BY <1>1, <1>2, <1>4 DEF Held
<1>7. buffer' \in [Thread -> Seq(Byte)] /\ buffer'[t] = buffer[t] \o Run(consumed, k)
  BY <1>1, <1>4, <1>5
<1>8. StreamInv'
  <2>1. delivered \o Held \in Seq(Nat) /\ IsStream(delivered \o Held, lost, consumed)
    BY <1>2 DEF IInv, StreamInv
  <2>2. IsStream((delivered \o Held) \o Run(consumed, k), lost, consumed + k)
    BY <1>2, <1>3, <2>1, StreamAppend
  <2>3. (delivered \o Held) \o Run(consumed, k) = delivered \o (Held \o Run(consumed, k))
    BY <1>2, <1>3, Regroup
  <2> QED BY <1>1, <1>2, <1>6, <2>2, <2>3 DEF StreamInv
<1>9. Len(Held') = Len(Held) + k
  <2>1. ASSUME NEW s \in Seq(Nat), NEW r \in Seq(Nat) PROVE Len(s \o r) = Len(s) + Len(r)
    OBVIOUS
  <2>2. Len(buffer[t] \o Run(consumed, k)) = Len(buffer[t]) + Len(Run(consumed, k))
    BY <1>2, <1>3, <2>1
  <2> QED BY <1>2, <1>3, <1>6, <2>2
<1> QED BY <1>1, <1>2, <1>3, <1>4, <1>6, <1>7, <1>8, <1>9, Bounds

\* a read that returns
LEMMA ReturnStep ==
  ASSUME NEW t \in Thread, IInv, pc[t] # "idle", Return(t), UNCHANGED consumed
  PROVE  /\ StreamInv' /\ buffer' \in [Thread -> Seq(Byte)]
         /\ buffer' = [buffer EXCEPT ![t] = <<>>]
         /\ delivered' \in Seq(Byte)
         /\ Len(delivered') = Len(delivered) + Len(buffer[t])
         /\ Len(delivered') + Len(Held') <= consumed'
<1>1. /\ delivered \in Seq(Nat) /\ buffer[t] \in Seq(Nat) /\ Held = buffer[t]
      /\ delivered \in Seq(Byte) /\ buffer \in [Thread -> Seq(Byte)]
      /\ Len(delivered) + Len(Held) <= consumed /\ consumed \in Nat
  BY HeldFacts DEF IInv, TypeOK, BufferInv
<1>2. Held' = <<>> /\ delivered' = delivered \o buffer[t] /\ buffer' = [buffer EXCEPT ![t] = <<>>]
  BY DEF Return, Leave, Held
<1>3. delivered' \in Seq(Byte) /\ delivered' \in Seq(Nat) /\ Len(delivered') = Len(delivered) + Len(buffer[t])
  BY <1>1, <1>2
<1>4. delivered' \o Held' = delivered \o Held
  BY <1>1, <1>2, <1>3, ConcatEmptySeq
<1>5. StreamInv'
  BY <1>4 DEF StreamInv, IInv, Return
<1> QED BY <1>1, <1>2, <1>3, <1>5

\* a read that raises an exception
LEMMA RaiseStep ==
  ASSUME NEW t \in Thread, IInv, pc[t] # "idle", Raise(t), UNCHANGED consumed
  PROVE  /\ StreamInv' /\ buffer' \in [Thread -> Seq(Byte)]
         /\ buffer' = [buffer EXCEPT ![t] = <<>>]
         /\ lost' \subseteq Byte
         /\ Len(delivered') + Len(Held') <= consumed'
<1>1. /\ delivered \in Seq(Nat) /\ buffer[t] \in Seq(Nat) /\ Held = buffer[t]
      /\ buffer \in [Thread -> Seq(Byte)] /\ lost \subseteq Byte
      /\ Len(delivered) + Len(Held) <= consumed /\ consumed \in Nat
  BY HeldFacts DEF IInv, TypeOK, BufferInv
<1>2. /\ Held' = <<>> /\ UNCHANGED delivered /\ buffer' = [buffer EXCEPT ![t] = <<>>]
      /\ lost' = lost \cup Bytes(buffer[t])
  BY DEF Raise, Leave, Held, Bytes
<1>3. Bytes(buffer[t]) \subseteq Byte
  BY <1>1 DEF Bytes
<1>4. delivered' \o Held' = delivered
  BY <1>1, <1>2, ConcatEmptySeq
<1>5. StreamInv'
  <2>1. IsStream(delivered \o buffer[t], lost, consumed)
    BY <1>1 DEF IInv, StreamInv
  <2>2. IsStream(delivered, lost \cup Bytes(buffer[t]), consumed)
    BY <1>1, <2>1, StreamDrop
  <2> QED BY <1>2, <1>4, <2>2 DEF StreamInv
<1> QED BY <1>1, <1>2, <1>3, <1>5

\* a step that leaves the bytes of the server alone
LEMMA KeepStep ==
  ASSUME IInv, UNCHANGED <<consumed, delivered, lost, buffer>>, Held' = Held
  PROVE  StreamInv' /\ buffer' \in [Thread -> Seq(Byte)] /\ Len(delivered') + Len(Held') <= consumed'
BY DEF IInv, StreamInv, BufferInv

\* a call that ends frees the lock and its locals
LEMMA LeaveStep ==
  ASSUME NEW t \in Thread, IInv, pc[t] # "idle", Leave(t)
  PROVE  CallOK' /\ LockInv' /\ first' \in [Thread -> BOOLEAN] /\ pc' = [pc EXCEPT ![t] = "idle"]
<1>1. /\ pc \in [Thread -> Stage] /\ size \in [Thread -> 1..MaxSize]
      /\ first \in [Thread -> BOOLEAN] /\ b_sent \in [Thread -> 0..(2^Width - 1)]
  BY DEF IInv, TypeOK
<1>2. "idle" \in Stage /\ 1 \in 1..MaxSize /\ 0 \in 0..(2^Width - 1)
  BY Bounds DEF Stage
<1>3. \A u \in Thread : u # t => pc[u] = "idle"
  BY DEF IInv, LockInv
<1>4. /\ owner' = NoThread
      /\ pc' = [pc EXCEPT ![t] = "idle"]
      /\ size' = [size EXCEPT ![t] = 1]
      /\ first' = [first EXCEPT ![t] = TRUE]
      /\ b_sent' = [b_sent EXCEPT ![t] = 0]
  BY DEF Leave
<1>5. pc' \in [Thread -> Stage] /\ size' \in [Thread -> 1..MaxSize]
  BY ONLY <1>1, <1>2, <1>4
<1>6. b_sent' \in [Thread -> 0..(2^Width - 1)]
  BY ONLY <1>1, <1>2, <1>4
<1>7. LockInv'
  BY <1>1, <1>3, <1>4, Bounds DEF LockInv
<1> QED BY <1>1, <1>4, <1>5, <1>6, <1>7 DEF CallOK

\* a read that ends, with its data or with an exception
LEMMA EndIInv ==
  ASSUME NEW t \in Thread, IInv, pc[t] \notin {"idle", "write"}, Leave(t),
         buffer' = [buffer EXCEPT ![t] = <<>>],
         delivered' \in Seq(Byte), lost' \subseteq Byte,
         Len(delivered') + Len(Held') <= consumed',
         StreamInv',
         channel' \in BOOLEAN,
         raised' \in [Thread -> BOOLEAN],
         UNCHANGED serverVars
  PROVE  IInv'
<1>1. CallOK' /\ LockInv' /\ first' \in [Thread -> BOOLEAN] /\ pc' = [pc EXCEPT ![t] = "idle"]
  BY LeaveStep
<1>2. /\ buffer \in [Thread -> Seq(Byte)] /\ pc \in [Thread -> Stage]
      /\ {eof, dead} \subseteq BOOLEAN /\ arrived \in 0..MaxData /\ consumed \in 0..arrived
      /\ \A u \in Thread : Len(buffer[u]) <= MaxData
  BY DEF IInv, TypeOK, BufferInv
<1>3. \A u \in Thread : u # t => pc[u] = "idle" /\ buffer[u] = <<>>
  BY DEF IInv, LockInv, BufferInv
<1>4. /\ \A u \in Thread : pc'[u] = "idle" /\ buffer'[u] = <<>>
      /\ buffer' \in [Thread -> Seq(Byte)] /\ Len(<<>>) = 0 /\ <<>> \in Seq(Byte)
  BY <1>1, <1>2, <1>3
<1>5. TypeOK'
  <2>1. FlagsOK'
    BY <1>1, <1>2 DEF FlagsOK, serverVars
  <2>2. CountOK'
    BY <1>2 DEF CountOK, serverVars
  <2>3. DataOK'
    BY <1>4, Bounds DEF DataOK
  <2> QED BY <1>1, <2>1, <2>2, <2>3, TypeParts
<1>6. BufferInv'
  BY <1>4 DEF BufferInv
<1>7. WireInv'
  BY <1>4 DEF WireInv
<1> QED BY <1>1, <1>5, <1>6, <1>7 DEF IInv

\* The end of read(), readBlock() and read() into a buffer, with data.
LEMMA ReturnIInv ==
  ASSUME NEW t \in Thread, IInv, pc[t] \notin {"idle", "write"}, Return(t), UNCHANGED serverVars
  PROVE  IInv'
<1>1. /\ StreamInv' /\ buffer' = [buffer EXCEPT ![t] = <<>>] /\ delivered' \in Seq(Byte)
      /\ Len(delivered') + Len(Held') <= consumed'
  BY ReturnStep DEF serverVars
<1>2. Leave(t) /\ UNCHANGED <<channel, raised, lost>>
  BY DEF Return
<1>3. channel' \in BOOLEAN /\ raised' \in [Thread -> BOOLEAN] /\ lost' \subseteq Byte
  BY <1>2 DEF IInv, TypeOK
<1> QED BY <1>1, <1>2, <1>3, EndIInv

\* Their end with an exception, whether or not the connection is closed.
LEMMA RaiseIInv ==
  ASSUME NEW t \in Thread, IInv, pc[t] \notin {"idle", "write"}, Raise(t),
         channel' \in {channel, FALSE}, UNCHANGED serverVars
  PROVE  IInv'
<1>1. /\ StreamInv' /\ buffer' = [buffer EXCEPT ![t] = <<>>] /\ lost' \subseteq Byte
      /\ Len(delivered') + Len(Held') <= consumed'
  BY RaiseStep DEF serverVars
<1>2. Leave(t) /\ raised' = [raised EXCEPT ![t] = TRUE] /\ UNCHANGED delivered
  BY DEF Raise
<1>3. channel' \in BOOLEAN /\ raised' \in [Thread -> BOOLEAN] /\ delivered' \in Seq(Byte)
  BY <1>2 DEF IInv, TypeOK
<1> QED BY <1>1, <1>2, <1>3, EndIInv

\* a read that goes on with more data
LEMMA DataIInv ==
  ASSUME NEW t \in Thread, NEW n \in Int, IInv, pc[t] \notin {"idle", "write"}, ReadEx(t, n),
         pc[t] = "readBlock" => n <= size[t] - Len(buffer[t]),
         UNCHANGED <<callVars, size, first, b_sent, dataVars>>
  PROVE  IInv'
<1>1. /\ consumed' \in 0..arrived /\ StreamInv'
      /\ buffer' \in [Thread -> Seq(Byte)]
      /\ \A u \in Thread : u # t => buffer'[u] = buffer[u]
      /\ Len(buffer'[t]) <= Len(buffer[t]) + n
      /\ Len(delivered') + Len(Held') <= consumed'
  BY ReadExStep DEF callVars, dataVars
<1>2. UNCHANGED <<owner, channel, pc, raised, size, first, b_sent, arrived, eof, dead>>
      /\ UNCHANGED <<delivered, lost, wire>>
  BY DEF ReadEx, callVars, dataVars
<1>3. owner = t /\ t # NoThread
  BY Bounds DEF IInv, LockInv
<1>4. TypeOK'
  <2>1. FlagsOK' /\ CallOK'
    BY <1>2 DEF FlagsOK, CallOK, IInv, TypeOK
  <2>2. CountOK'
    BY <1>1, <1>2 DEF CountOK, IInv, TypeOK
  <2>3. delivered' \in Seq(Byte) /\ lost' \subseteq Byte
    BY <1>2 DEF IInv, TypeOK
  <2>4. Len(buffer'[t]) <= MaxData
    <3>1. Held' = buffer'[t]
      BY <1>2, <1>3 DEF Held
    <3>2. Len(delivered') \in Nat /\ Len(buffer'[t]) \in Nat
      BY <1>1, <2>3
    <3>3. consumed' \in Nat /\ consumed' <= MaxData
      BY <1>1, Bounds DEF IInv, TypeOK
    <3> QED BY <1>1, <3>1, <3>2, <3>3, Bounds
  <2>5. \A u \in Thread : Len(buffer'[u]) <= MaxData
    BY <1>1, <2>4 DEF IInv, TypeOK
  <2> QED BY <1>1, <2>1, <2>2, <2>3, <2>5, TypeParts DEF DataOK
<1>5. LockInv' /\ WireInv'
  BY <1>2 DEF LockInv, WireInv, IInv
<1>6. BufferInv'
  <2>1. \A u \in Thread : pc'[u] \in {"idle", "write"} => buffer'[u] = <<>>
    BY <1>1, <1>2 DEF IInv, BufferInv
  <2>2. pc[t] = "readBlock" => Len(buffer'[t]) <= size[t]
    <3>1. buffer'[t] \in Seq(Byte) /\ buffer[t] \in Seq(Byte)
      BY <1>1 DEF IInv, BufferInv
    <3>2. size[t] \in Int
      BY Bounds DEF IInv, TypeOK
    <3>3. Len(buffer'[t]) \in Nat /\ Len(buffer[t]) \in Nat
      BY <3>1
    <3> QED BY <1>1, <3>2, <3>3
  <2>3. \A u \in Thread : pc'[u] = "readBlock" => Len(buffer'[u]) <= size'[u]
    BY <1>1, <1>2, <2>2 DEF IInv, BufferInv
  <2> QED BY <1>1, <2>1, <2>3 DEF BufferInv
<1> QED BY <1>1, <1>4, <1>5, <1>6 DEF IInv

\* a step that reads nothing: what is left to show about it
LEMMA FrameIInv ==
  ASSUME IInv, UNCHANGED <<consumed, delivered, lost, buffer>>, Held' = Held,
         FlagsOK', CallOK', LockInv', WireInv',
         arrived' \in 0..MaxData, consumed <= arrived',
         \A t \in Thread : pc'[t] \in {"idle", "write"} => buffer[t] = <<>>,
         \A t \in Thread : pc'[t] = "readBlock" => Len(buffer[t]) <= size'[t]
  PROVE  IInv'
<1>1. StreamInv' /\ buffer' \in [Thread -> Seq(Byte)] /\ Len(delivered') + Len(Held') <= consumed'
  BY KeepStep
<1>2. CountOK'
  BY Bounds DEF CountOK, IInv, TypeOK
<1>3. DataOK'
  BY DEF DataOK, IInv, TypeOK
<1>4. BufferInv'
  BY <1>1 DEF BufferInv
<1> QED BY <1>1, <1>2, <1>3, <1>4, TypeParts DEF IInv

\* A step that changes nothing, as that of readBlock() after an error.
LEMMA StutterIInv == ASSUME IInv, UNCHANGED vars PROVE IInv'
<1>1. UNCHANGED <<owner, channel, pc, raised, size, first, buffer, b_sent>>
      /\ UNCHANGED <<arrived, consumed, eof, dead, delivered, lost, wire>>
  BY DEF vars, callVars, localVars, serverVars, dataVars
<1>2. FlagsOK' /\ CallOK'
  BY <1>1 DEF FlagsOK, CallOK, IInv, TypeOK
<1>3. LockInv' /\ WireInv' /\ Held' = Held
  BY <1>1 DEF LockInv, WireInv, IInv, Held
<1>4. arrived' \in 0..MaxData /\ consumed <= arrived'
  BY <1>1, Bounds DEF IInv, TypeOK
<1>5. /\ \A t \in Thread : pc'[t] \in {"idle", "write"} => buffer[t] = <<>>
      /\ \A t \in Thread : pc'[t] = "readBlock" => Len(buffer[t]) <= size'[t]
  BY <1>1 DEF IInv, BufferInv
<1> QED BY <1>1, <1>2, <1>3, <1>4, <1>5, FrameIInv

\* Data, the end of the data, the end of the connection.
LEMMA ServerIInv == ASSUME IInv, Server PROVE IInv'
<1>1. UNCHANGED <<owner, channel, pc, raised, size, first, buffer, b_sent>>
      /\ UNCHANGED <<consumed, delivered, lost, wire>>
  BY DEF Server, callVars, localVars, dataVars
<1>2. FlagsOK' /\ CallOK'
  BY <1>1 DEF FlagsOK, CallOK, IInv, TypeOK, Server
<1>3. LockInv' /\ WireInv' /\ Held' = Held
  BY <1>1 DEF LockInv, WireInv, IInv, Held
<1>4. arrived' \in 0..MaxData /\ consumed <= arrived'
  <2>1. arrived \in 0..MaxData /\ consumed \in 0..arrived
    BY DEF IInv, TypeOK
  <2>2. arrived' = arrived \/ (arrived < MaxData /\ arrived' = arrived + 1)
    BY DEF Server
  <2> QED BY <2>1, <2>2, Bounds
<1>5. /\ \A t \in Thread : pc'[t] \in {"idle", "write"} => buffer[t] = <<>>
      /\ \A t \in Thread : pc'[t] = "readBlock" => Len(buffer[t]) <= size'[t]
  BY <1>1 DEF IInv, BufferInv
<1> QED BY <1>1, <1>2, <1>3, <1>4, <1>5, FrameIInv

\* A request method closes the channel, which nobody is using.
LEMMA RequestFailsIInv == ASSUME NEW t \in Thread, IInv, RequestFails(t) PROVE IInv'
<1>1. UNCHANGED <<owner, pc, size, first, buffer, b_sent>>
      /\ UNCHANGED <<arrived, consumed, eof, dead, delivered, lost, wire>>
  BY DEF RequestFails, localVars, serverVars, dataVars
<1>2. channel' = FALSE /\ raised' = [raised EXCEPT ![t] = TRUE] /\ pc[t] = "idle"
  BY DEF RequestFails
<1>3. FlagsOK' /\ CallOK'
  BY <1>1, <1>2 DEF FlagsOK, CallOK, IInv, TypeOK
<1>4. LockInv' /\ Held' = Held
  BY <1>1 DEF LockInv, IInv, Held
<1>5. WireInv'
  BY <1>1, <1>2 DEF WireInv, IInv, TypeOK
<1>6. arrived' \in 0..MaxData /\ consumed <= arrived'
  BY <1>1, Bounds DEF IInv, TypeOK
<1>7. /\ \A u \in Thread : pc'[u] \in {"idle", "write"} => buffer[u] = <<>>
      /\ \A u \in Thread : pc'[u] = "readBlock" => Len(buffer[u]) <= size'[u]
  BY <1>1 DEF IInv, BufferInv
<1> QED BY <1>1, <1>3, <1>4, <1>5, <1>6, <1>7, FrameIInv

\* A call begins: nobody holds the lock, so that nothing is in a buffer.
LEMMA CallIInv == ASSUME NEW t \in Thread, IInv, Call(t) PROVE IInv'
<1>1. PICK m \in Stage \ {"idle"} : Begin(t, m) /\ (m = "write" => wire' = <<>>)
  BY DEF Call, Stage
<1>2. PICK n \in 1..MaxSize : size' = [size EXCEPT ![t] = n]
  BY <1>1 DEF Begin
<1>3. /\ pc[t] = "idle" /\ owner = NoThread /\ owner' = t
      /\ pc' = [pc EXCEPT ![t] = m]
      /\ raised' = [raised EXCEPT ![t] = FALSE]
      /\ first' = [first EXCEPT ![t] = TRUE]
      /\ b_sent' = [b_sent EXCEPT ![t] = 0]
      /\ UNCHANGED <<channel, buffer, arrived, consumed, eof, dead, delivered, lost>>
  BY <1>1 DEF Begin, serverVars
<1>4. \A u \in Thread : pc[u] = "idle" /\ buffer[u] = <<>>
  BY <1>3, Bounds DEF IInv, LockInv, BufferInv
<1>5. FlagsOK'
  BY <1>3 DEF FlagsOK, IInv, TypeOK
<1>6. CallOK'
  <2>1. 0 \in 0..(2^Width - 1)
    BY Bounds
  <2>2. b_sent' \in [Thread -> 0..(2^Width - 1)]
    BY <1>3, <2>1 DEF IInv, TypeOK
  <2> QED BY <1>2, <1>3, <2>2 DEF CallOK, IInv, TypeOK
<1>7. LockInv'
  BY <1>3, <1>4 DEF LockInv, IInv, TypeOK
<1>8. Held' = Held
  BY <1>3, <1>4, Bounds DEF Held
<1>9. WireInv'
  <2>1. \A u \in Thread : pc'[u] = "write" => u = t /\ m = "write"
    BY <1>3, <1>4 DEF IInv, TypeOK
  <2>2. b_sent'[t] = 0 /\ size'[t] = n
    BY <1>2, <1>3 DEF IInv, TypeOK
  <2>3. Sent(t, 0) = <<>>
    BY DEF Sent
  <2> QED BY <1>1, <2>1, <2>2, <2>3, Bounds DEF WireInv
<1>10. arrived' \in 0..MaxData /\ consumed <= arrived'
  BY <1>3, Bounds DEF IInv, TypeOK
<1>11. \A u \in Thread : pc'[u] = "readBlock" => Len(buffer[u]) <= size'[u]
  <2>1. \A u \in Thread : size'[u] \in 1..MaxSize
    BY <1>2 DEF IInv, TypeOK
  <2>2. Len(<<>>) = 0
    OBVIOUS
  <2> QED BY <1>4, <2>1, <2>2, Bounds
<1> QED BY <1>3, <1>4, <1>5, <1>6, <1>7, <1>8, <1>9, <1>10, <1>11, FrameIInv

\* read() waits once
LEMMA WaitIInv ==
  ASSUME NEW t \in Thread, IInv, first' = [first EXCEPT ![t] = FALSE],
         UNCHANGED <<callVars, size, b_sent, buffer, serverVars, dataVars>>
  PROVE  IInv'
<1>1. UNCHANGED <<owner, channel, pc, raised, size, buffer, b_sent>>
      /\ UNCHANGED <<arrived, consumed, eof, dead, delivered, lost, wire>>
  BY DEF callVars, serverVars, dataVars
<1>2. FlagsOK' /\ CallOK'
  BY <1>1 DEF FlagsOK, CallOK, IInv, TypeOK
<1>3. LockInv' /\ WireInv' /\ Held' = Held
  BY <1>1 DEF LockInv, WireInv, IInv, Held
<1>4. arrived' \in 0..MaxData /\ consumed <= arrived'
  BY <1>1, Bounds DEF IInv, TypeOK
<1>5. /\ \A u \in Thread : pc'[u] \in {"idle", "write"} => buffer[u] = <<>>
      /\ \A u \in Thread : pc'[u] = "readBlock" => Len(buffer[u]) <= size'[u]
  BY <1>1 DEF IInv, BufferInv
<1> QED BY <1>1, <1>2, <1>3, <1>4, <1>5, FrameIInv

\* a write() that goes on or ends
LEMMA WriteIInv ==
  ASSUME NEW t \in Thread, NEW n \in 0..(2^Width - 1), IInv, pc[t] = "write",
         Count(t, n) \/ Leave(t),
         raised' \in [Thread -> BOOLEAN],
         WireInv',
         UNCHANGED <<channel, buffer, serverVars, delivered, lost>>
  PROVE  IInv'
<1>1. UNCHANGED <<channel, buffer, arrived, consumed, eof, dead, delivered, lost>>
  BY DEF serverVars
<1>2. buffer[t] = <<>> /\ owner = t /\ t # NoThread
  BY Bounds DEF IInv, LockInv, BufferInv
<1>3. CASE Leave(t)
  <2>1. /\ CallOK' /\ LockInv' /\ first' \in [Thread -> BOOLEAN]
        /\ pc' = [pc EXCEPT ![t] = "idle"]
    BY <1>3, LeaveStep
  <2>2. FlagsOK'
    BY <1>1, <2>1 DEF FlagsOK, IInv, TypeOK
  <2>3. \A u \in Thread : pc'[u] = "idle" /\ buffer[u] = <<>>
    BY <1>2, <2>1 DEF IInv, LockInv, BufferInv, TypeOK
  <2>4. Held' = Held
    BY <1>1, <1>2, <1>3 DEF Held, Leave
  <2>5. arrived' \in 0..MaxData /\ consumed <= arrived'
    BY <1>1, Bounds DEF IInv, TypeOK
  <2> QED BY <1>1, <2>1, <2>2, <2>3, <2>4, <2>5, FrameIInv
<1>4. CASE ~Leave(t)
  <2>1. b_sent' = [b_sent EXCEPT ![t] = n] /\ UNCHANGED <<owner, pc, size, first>>
    BY <1>4 DEF Count
  <2>2. CallOK'
    <3>1. b_sent' \in [Thread -> 0..(2^Width - 1)]
      BY <2>1 DEF IInv, TypeOK
    <3> QED BY <2>1, <3>1 DEF CallOK, IInv, TypeOK
  <2>3. FlagsOK'
    BY <1>1, <2>1 DEF FlagsOK, IInv, TypeOK
  <2>4. LockInv' /\ Held' = Held
    BY <1>1, <2>1 DEF LockInv, Held, IInv
  <2>5. arrived' \in 0..MaxData /\ consumed <= arrived'
    BY <1>1, Bounds DEF IInv, TypeOK
  <2>6. /\ \A u \in Thread : pc'[u] \in {"idle", "write"} => buffer[u] = <<>>
        /\ \A u \in Thread : pc'[u] = "readBlock" => Len(buffer[u]) <= size'[u]
    BY <2>1 DEF IInv, BufferInv
  <2> QED BY <1>1, <2>2, <2>3, <2>4, <2>5, <2>6, FrameIInv
<1> QED BY <1>3, <1>4

\* write() sends the bytes that follow those it has counted.
LEMMA WriteSomeIInv == ASSUME NEW t \in Thread, IInv, WriteSome(t) PROVE IInv'
<1>1. PICK k \in 1..(size[t] - b_sent[t]) :
        /\ wire' = wire \o [i \in 1..k |-> <<t, b_sent[t] + i>>]
        /\ Count(t, b_sent[t] + k)
  BY DEF WriteSome
<1>2. /\ pc[t] = "write" /\ UNCHANGED raised
      /\ UNCHANGED <<channel, buffer, serverVars, delivered, lost>>
  BY DEF WriteSome
<1>3. size[t] \in 1..MaxSize /\ b_sent[t] \in Nat /\ b_sent \in [Thread -> 0..(2^Width - 1)]
  BY Bounds DEF IInv, TypeOK
<1>4. b_sent[t] + k \in 0..(2^Width - 1)
  <2>1. b_sent[t] + k \in Nat /\ b_sent[t] + k <= MaxSize
    BY ONLY <1>3, Bounds, k \in 1..(size[t] - b_sent[t])
  <2> QED BY ONLY <2>1, Bounds
<1>5. WireInv'
  <2> SUFFICES ASSUME NEW u \in Thread, pc'[u] = "write", ~raised'[u]
               PROVE  b_sent'[u] < size'[u] /\ wire' = Sent(u, b_sent'[u])
    BY DEF WireInv
  <2>1. \A v \in Thread : v # t => pc[v] = "idle"
    BY <1>2 DEF IInv, LockInv
  <2>2. u = t /\ ~Leave(t)
    <3>1. Leave(t) => pc' = [pc EXCEPT ![t] = "idle"]
      BY DEF Leave
    <3>2. pc' = pc \/ Leave(t)
      BY <1>1 DEF Count
    <3> QED BY <2>1, <3>1, <3>2 DEF IInv, TypeOK
  <2>3. /\ ~(b_sent[t] + k >= size[t])
        /\ b_sent' = [b_sent EXCEPT ![t] = b_sent[t] + k] /\ UNCHANGED size
    BY <1>1, <2>2 DEF Count
  <2>4. wire = Sent(t, b_sent[t])
    BY <1>2, <2>2 DEF IInv, WireInv
  <2>5. wire' = Sent(t, b_sent[t] + k)
    <3>1. k \in Nat
      OBVIOUS
    <3> QED BY <1>1, <1>3, <2>4, <3>1, SentMore
  <2>6. b_sent'[t] = b_sent[t] + k /\ b_sent[t] + k < size[t]
    BY <1>3, <2>3
  <2> QED BY <2>2, <2>3, <2>5, <2>6
<1>6. raised' \in [Thread -> BOOLEAN]
  BY <1>2 DEF IInv, TypeOK
<1> QED BY <1>1, <1>2, <1>4, <1>5, <1>6, WriteIInv

\* the thread that writes is the only one, and its exception is raised
LEMMA WriteRaised ==
  ASSUME NEW t \in Thread, NEW n, IInv, pc[t] = "write", Count(t, n) \/ Leave(t),
         raised' = [raised EXCEPT ![t] = TRUE]
  PROVE  raised' \in [Thread -> BOOLEAN] /\ WireInv'
<1>1. raised \in [Thread -> BOOLEAN] /\ pc \in [Thread -> Stage]
  BY DEF IInv, TypeOK
<1>2. \A u \in Thread : u # t => pc[u] = "idle"
  BY DEF IInv, LockInv
<1>3. pc' = pc \/ pc' = [pc EXCEPT ![t] = "idle"]
  BY DEF Count, Leave
<1>4. \A u \in Thread : u # t => pc'[u] = "idle"
  BY <1>1, <1>2, <1>3
<1> QED BY <1>1, <1>4 DEF WireInv

\* write() ends with an exception.
LEMMA WriteTimeoutIInv == ASSUME NEW t \in Thread, IInv, WriteTimeout(t) PROVE IInv'
<1>1. /\ pc[t] = "write" /\ raised' = [raised EXCEPT ![t] = TRUE] /\ Leave(t)
      /\ UNCHANGED <<channel, buffer, serverVars, delivered, lost>>
  BY DEF WriteTimeout, dataVars
<1>2. 0 \in 0..(2^Width - 1)
  BY Bounds
<1>3. raised' \in [Thread -> BOOLEAN] /\ WireInv'
  BY <1>1, WriteRaised
<1> QED BY <1>1, <1>2, <1>3, WriteIInv

\* An error added to b_sent, modulo the width of a size_t, leaves a typed count, and
\* the exception is already raised.
LEMMA WriteErrorIInv == ASSUME NEW t \in Thread, IInv, WriteError(t) PROVE IInv'
<1>1. /\ pc[t] = "write" /\ raised' = [raised EXCEPT ![t] = TRUE]
      /\ UNCHANGED <<channel, buffer, serverVars, delivered, lost>>
  BY DEF WriteError, dataVars
<1>2. PICK e \in 1..MaxErr : Count(t, (b_sent[t] - e) % 2^Width)
  BY DEF WriteError
<1>3. (b_sent[t] - e) % 2^Width \in 0..(2^Width - 1)
  <2>1. b_sent[t] \in Int /\ e \in Int /\ 2^Width \in Nat /\ 2^Width > 0
    BY Bounds DEF IInv, TypeOK
  <2>2. b_sent[t] - e \in Int /\ 2^Width \in Nat \ {0}
    BY ONLY <2>1
  <2>3. ASSUME NEW a \in Int, NEW m \in Nat \ {0} PROVE a % m \in 0..(m - 1)
    OBVIOUS
  <2> QED BY <2>2, <2>3, Zenon
<1>4. raised' \in [Thread -> BOOLEAN] /\ WireInv'
  BY <1>1, <1>2, WriteRaised
<1> QED BY <1>1, <1>2, <1>3, <1>4, WriteIInv

\* The steps of read().
LEMMA ReadIInv == ASSUME NEW t \in Thread, IInv, Read(t) PROVE IInv'
<1>1. CASE ReadData(t)
  BY <1>1, Bounds, DataIInv DEF ReadData
<1>2. CASE ReadWait(t)
  <2>1. CASE Raise(t) /\ channel' = FALSE
    BY <1>2, <2>1, RaiseIInv DEF ReadWait
  <2>2. CASE ~(Raise(t) /\ channel' = FALSE)
    BY <1>2, <2>2, WaitIInv DEF ReadWait, dataVars
  <2> QED BY <2>1, <2>2
<1>3. CASE ReadReturn(t)
  BY <1>3, ReturnIInv DEF ReadReturn
<1>4. CASE ReadError(t)
  BY <1>4, RaiseIInv DEF ReadError
<1> QED BY <1>1, <1>2, <1>3, <1>4 DEF Read

\* The steps of readBlock(), which never asks for more than is missing.
LEMMA BlockIInv == ASSUME NEW t \in Thread, IInv, Block(t) PROVE IInv'
<1>1. CASE BlockData(t)
  <2>1. size[t] - Len(buffer[t]) \in Int
    BY Bounds DEF IInv, TypeOK, BufferInv
  <2>2. /\ pc[t] = "readBlock" /\ ReadEx(t, size[t] - Len(buffer[t]))
        /\ UNCHANGED <<callVars, size, first, b_sent, dataVars>>
    BY <1>1 DEF BlockData
  <2>3. size[t] - Len(buffer[t]) <= size[t] - Len(buffer[t])
    BY <2>1
  <2> QED BY <2>1, <2>2, <2>3, DataIInv
<1>2. CASE BlockReturn(t)
  BY <1>2, ReturnIInv DEF BlockReturn
<1>3. CASE BlockTimeout(t)
  BY <1>3, RaiseIInv DEF BlockTimeout
<1>4. CASE BlockError(t)
  BY <1>4, StutterIInv DEF BlockError
<1> QED BY <1>1, <1>2, <1>3, <1>4 DEF Block

\* The steps of read() into a buffer.
LEMMA BufferIInv == ASSUME NEW t \in Thread, IInv, Buffer(t) PROVE IInv'
<1>1. CASE BufferData(t)
  <2>1. size[t] \in Int
    BY Bounds DEF IInv, TypeOK
  <2>2. /\ pc[t] = "readBuffer" /\ ReadEx(t, size[t])
        /\ UNCHANGED <<callVars, size, first, b_sent, dataVars>>
    BY <1>1 DEF BufferData
  <2> QED BY <2>1, <2>2, DataIInv
<1>2. CASE BufferReturn(t)
  BY <1>2, ReturnIInv DEF BufferReturn
<1>3. CASE BufferError(t)
  BY <1>3, RaiseIInv DEF BufferError
<1> QED BY <1>1, <1>2, <1>3 DEF Buffer

\* The steps of write().
LEMMA WriteAllIInv == ASSUME NEW t \in Thread, IInv, Write(t) PROVE IInv'
BY WriteSomeIInv, WriteTimeoutIInv, WriteErrorIInv DEF Write

\* The invariant holds at first.
LEMMA InitIInv == Init => IInv
<1> SUFFICES ASSUME Init PROVE IInv
  OBVIOUS
<1>0. <<>> \in Seq(Byte) /\ Len(<<>>) = 0 /\ Held = <<>> /\ <<>> \o <<>> = <<>>
  BY DEF Init, Held
<1>1. TypeOK
  <2>1. owner \in Thread \cup {NoThread} /\ {channel, eof, dead} \subseteq BOOLEAN
    BY DEF Init
  <2>2. /\ pc \in [Thread -> Stage]
        /\ raised \in [Thread -> BOOLEAN]
        /\ first \in [Thread -> BOOLEAN]
    BY DEF Init, Stage
  <2>3. size \in [Thread -> 1..MaxSize] /\ b_sent \in [Thread -> 0..(2^Width - 1)]
    BY Bounds DEF Init
  <2>4. \A t \in Thread : buffer[t] \in Seq(Byte) /\ Len(buffer[t]) <= MaxData
    BY <1>0, Bounds DEF Init
  <2>5. arrived \in 0..MaxData /\ consumed \in 0..arrived
    BY Bounds DEF Init
  <2>6. delivered \in Seq(Byte) /\ lost \subseteq Byte
    BY <1>0 DEF Init
  <2> QED BY <2>1, <2>2, <2>3, <2>4, <2>5, <2>6 DEF TypeOK
<1>2. LockInv
  BY Bounds DEF Init, LockInv
<1>3. BufferInv
  BY <1>0 DEF Init, BufferInv
<1>4. WireInv
  BY DEF Init, WireInv
<1>5. StreamInv
  <2>1. delivered \o Held = <<>> /\ lost = {} /\ consumed = 0
    BY <1>0 DEF Init
  <2>2. Bytes(<<>>) = {} /\ 1..0 = {} /\ Ordered(<<>>)
    BY DEF Bytes, Ordered
  <2> QED BY <2>1, <2>2 DEF StreamInv, IsStream
<1> QED BY <1>1, <1>2, <1>3, <1>4, <1>5 DEF IInv

\* Every step keeps it.
LEMMA NextIInv == IInv /\ [Next]_vars => IInv'
<1> SUFFICES ASSUME IInv, [Next]_vars PROVE IInv'
  OBVIOUS
<1> QED BY CallIInv, ReadIInv, BlockIInv, BufferIInv, WriteAllIInv, RequestFailsIInv, ServerIInv,
          StutterIInv DEF Next

\* It holds in every reachable state.
LEMMA AlwaysIInv == Spec => []IInv
BY InitIInv, NextIInv, PTL DEF Spec

\* The variables keep the values the code gives them; the count of write() stays a
\* size_t.
THEOREM TypeCorrect == Spec => []TypeOK
<1>1. IInv => TypeOK
  BY DEF IInv
<1> QED BY <1>1, AlwaysIInv, PTL

\* For any threads, sizes and data: every byte taken out of libssh2 is returned once
\* and in the order of arrival, or was read by a call that raised an exception; at
\* most one call has bytes that are not returned yet.
THEOREM StreamsInOrder == Spec => []StreamInOrder
<1>1. IInv => StreamInOrder
  <2> SUFFICES ASSUME IInv PROVE StreamInOrder
    OBVIOUS
  <2> DEFINE reading == {t \in Thread : buffer[t] # <<>>}
             rest == IF reading = {} THEN <<>> ELSE buffer[CHOOSE t \in reading : TRUE]
  <2>1. \A t \in reading : owner = t /\ Held = buffer[t]
    BY HeldFacts DEF IInv, BufferInv
  <2>2. rest = Held /\ Cardinality(reading) <= 1
    <3>1. CASE reading = {}
      <4>1. Held = <<>>
        BY <3>1, HeldFacts DEF Held, IInv, TypeOK
      <4>2. Cardinality(reading) = 0
        <5>1. Cardinality({}) = 0
          BY FS_EmptySet
        <5> HIDE DEF reading
        <5> QED BY <3>1, <5>1
      <4> QED BY <3>1, <4>1, <4>2
    <3>2. CASE reading # {}
      <4>1. reading = {owner}
        BY <2>1, <3>2
      <4>2. (CHOOSE t \in reading : TRUE) \in reading
        BY <3>2
      <4>3. Cardinality({owner}) = 1
        BY FS_Singleton
      <4>4. rest = Held
        BY <2>1, <3>2, <4>2
      <4>5. Cardinality(reading) = 1
        <5> HIDE DEF reading
        <5> QED BY <4>1, <4>3
      <4> HIDE DEF reading, rest
      <4> QED BY <4>4, <4>5
    <3> QED BY <3>1, <3>2
  <2>3. IsStream(delivered \o rest, lost, consumed)
    BY <2>2 DEF IInv, StreamInv
  <2> QED BY <2>2, <2>3 DEF StreamInOrder, IsStream, Ordered
<1> QED BY <1>1, AlwaysIInv, PTL

-----------------------------------------------------------------------------
\* Of the steps of a thread u, only the return of a block ends the readBlock() of
\* a thread t without an exception, and only the last part of the buffer its
\* write().
LEMMA OwnStep ==
  ASSUME NEW t \in Thread, IInv, [Next]_vars, pc'[t] # pc[t], pc'[t] = "idle", ~raised'[t]
  PROVE  /\ pc[t] = "readBlock" => BlockReturn(t)
         /\ pc[t] = "write" => WriteSome(t)
<1>0. pc \in [Thread -> Stage] /\ raised \in [Thread -> BOOLEAN]
  BY DEF IInv, TypeOK
<1>1. CASE Server \/ UNCHANGED vars
  BY <1>1 DEF Server, vars, callVars
<1>2. ASSUME NEW u \in Thread, Read(u) PROVE pc[t] \notin {"readBlock", "write"}
  BY <1>0, <1>2 DEF Read, ReadData, ReadWait, ReadReturn, ReadError, Raise, Return, Leave, callVars
<1>3. ASSUME NEW u \in Thread, Block(u) PROVE pc[t] # "write" /\ (pc[t] = "readBlock" => BlockReturn(t))
  BY <1>0, <1>3 DEF Block, BlockData, BlockReturn, BlockTimeout, BlockError, Raise, Return, Leave,
       vars, callVars
<1>4. ASSUME NEW u \in Thread, Buffer(u) PROVE pc[t] \notin {"readBlock", "write"}
  BY <1>0, <1>4 DEF Buffer, BufferData, BufferReturn, BufferError, Raise, Return, Leave, callVars
<1>5. ASSUME NEW u \in Thread, Write(u) PROVE pc[t] # "readBlock" /\ (pc[t] = "write" => WriteSome(t))
  BY <1>0, <1>5 DEF Write, WriteSome, WriteTimeout, WriteError, Count, Leave
<1>6. ASSUME NEW u \in Thread, Call(u) \/ RequestFails(u) PROVE FALSE
  BY <1>0, <1>6 DEF Call, Begin, RequestFails
<1> QED BY <1>1, <1>2, <1>3, <1>4, <1>5, <1>6 DEF Next

\* A readBlock() that returns without an exception returns as many bytes as it was
\* asked for.
THEOREM BlocksWhole == Spec => BlockWhole
<1>1. ASSUME IInv, [Next]_vars, NEW t \in Thread, pc[t] = "readBlock", pc'[t] = "idle", ~raised'[t]
      PROVE  Len(delivered') = Len(delivered) + size[t]
  <2>1. BlockReturn(t)
    BY <1>1, OwnStep
  <2>2. Len(delivered') = Len(delivered) + Len(buffer[t])
    BY <1>1, <2>1, ReturnStep DEF BlockReturn, serverVars
  <2>3. Len(buffer[t]) = size[t]
    <3>1. Len(buffer[t]) <= size[t] /\ Len(buffer[t]) >= size[t]
      BY <1>1, <2>1 DEF BlockReturn, IInv, BufferInv
    <3>2. size[t] \in Int /\ buffer[t] \in Seq(Byte)
      BY <1>1, Bounds DEF IInv, TypeOK
    <3>3. Len(buffer[t]) \in Int
      BY <3>2
    <3> QED BY <3>1, <3>2, <3>3
  <2> QED BY <2>2, <2>3
<1>2. IInv /\ [Next]_vars =>
        [\A t \in Thread : pc[t] = "readBlock" /\ pc'[t] = "idle" /\ ~raised'[t] =>
           Len(delivered') = Len(delivered) + size[t]]_vars
  BY <1>1
<1> QED BY <1>2, AlwaysIInv, PTL DEF Spec, BlockWhole

\* A write() that returns without an exception has sent its whole buffer, once and in
\* order, and nothing else since it began.
THEOREM WritesWhole == Spec => WriteWhole
<1>1. ASSUME IInv, [Next]_vars, NEW t \in Thread, pc[t] = "write", pc'[t] = "idle", ~raised'[t]
      PROVE  wire' = [i \in 1..size[t] |-> <<t, i>>]
  <2>1. WriteSome(t)
    BY <1>1, OwnStep
  <2>2. PICK k \in 1..(size[t] - b_sent[t]) :
          /\ wire' = wire \o [i \in 1..k |-> <<t, b_sent[t] + i>>]
          /\ Count(t, b_sent[t] + k)
    BY <2>1 DEF WriteSome
  <2>3. ~raised[t] /\ wire = Sent(t, b_sent[t])
    BY <1>1, <2>1 DEF WriteSome, IInv, WireInv
  <2>4. b_sent[t] \in Nat /\ size[t] \in Nat /\ k \in Nat
    BY <1>1, Bounds DEF IInv, TypeOK
  <2>5. b_sent[t] + k = size[t]
    <3>1. b_sent[t] + k >= size[t]
      BY <1>1, <2>2 DEF Count
    <3> QED BY <3>1, <2>4
  <2>6. wire' = Sent(t, b_sent[t] + k)
    BY <2>2, <2>3, <2>4, SentMore
  <2> QED BY <2>5, <2>6 DEF Sent
<1>2. IInv /\ [Next]_vars =>
        [\A t \in Thread : pc[t] = "write" /\ pc'[t] = "idle" /\ ~raised'[t] =>
           wire' = [i \in 1..size[t] |-> <<t, i>>]]_vars
  BY <1>1
<1> QED BY <1>2, AlwaysIInv, PTL DEF Spec, WriteWhole

=============================================================================
