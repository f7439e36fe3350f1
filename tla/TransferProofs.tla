--------------------------- MODULE TransferProofs ---------------------------
(***************************************************************************)
(* Proofs about Transfer for every buffer size and every source length.    *)
(*                                                                         *)
(* The properties are not inductive: that the destination is in order      *)
(* after a write depends on which bytes of the source the buffer holds and *)
(* on how many of them are in flight.  IInv adds where the buffer comes    *)
(* from (Block), how position, buffer, acknowledged bytes and bytes in     *)
(* flight add up to the destination (Placed), what each method's counter   *)
(* counts (Counted), and what is known before and after a loop (AtEnd).    *)
(***************************************************************************)
EXTENDS Transfer, TLAPS, SequenceTheorems

\* the buffer holds the bytes read last
Block == buf = Bytes(pos - Len(buf), Len(buf)) /\ Len(buf) <= pos

\* the buffer is in use while it is written; only sftp writes are partial
BufferUse ==
  /\ pc \notin {"write", "failed"} => buf = <<>>
  /\ method \notin Put => total = 0 /\ flight = 0

Placed == Len(dest) = pos - Len(buf) + total + flight

Counted ==
  /\ method \in Get => tot = pos
  /\ method \in {"putFile", "put"} => tot = pos - Len(buf) + total
  /\ method \in {"transferFile", "scpPut"} => tot = pos - Len(buf)
  /\ method = "scpGet" => tot = 0

Bounded == method \in Sized => pos <= size

AtEnd ==
  /\ pc \in {"start", "open"} => pos = 0
  /\ pc \in {"close", "done"} /\ method \in Sized => tot >= size
  /\ method = "put" => pos <= len /\ (eof => pos = len)
  /\ pc \in {"close", "done"} /\ method = "put" => pos = len
  /\ method = "putFile" =>
       /\ pc \notin {"copy", "read"}
       /\ pc \in {"write", "close", "done"} => pos = size

IInv == TypeOK /\ InOrder /\ Block /\ BufferUse /\ Placed /\ Counted /\ Bounded /\ AtEnd

-----------------------------------------------------------------------------
\* The bytes from an offset on are a sequence of numbers.
LEMMA BytesIsSeq ==
  ASSUME NEW a \in Nat, NEW n \in Nat
  PROVE  Bytes(a, n) \in Seq(Nat) /\ Len(Bytes(a, n)) = n
<1>1. \A i \in 1..n : a + i \in Nat
  OBVIOUS
<1>2. Bytes(a, n) \in [1..n -> Nat]
  BY <1>1, Zenon DEF Bytes
<1>3. Bytes(a, n) \in Seq(Nat)
  BY <1>2
<1>4. DOMAIN Bytes(a, n) = 1..n
  BY DEF Bytes
<1> QED BY <1>3, <1>4, LenProperties

\* Bytes appended where the last ones ended continue the source.
LEMMA BytesContinue ==
  ASSUME NEW a \in Nat, NEW n \in Nat
  PROVE  Bytes(0, a) \o Bytes(a, n) = Bytes(0, a + n)
<1> DEFINE s == Bytes(0, a)
           t == Bytes(a, n)
           u == Bytes(0, a + n)
<1>1. /\ s \in Seq(Nat) /\ Len(s) = a
      /\ t \in Seq(Nat) /\ Len(t) = n
      /\ u \in Seq(Nat) /\ Len(u) = a + n
  <2>1. a + n \in Nat
    OBVIOUS
  <2> HIDE DEF s, t, u
  <2>2. s \in Seq(Nat) /\ Len(s) = a
    BY BytesIsSeq DEF s
  <2>3. t \in Seq(Nat) /\ Len(t) = n
    BY BytesIsSeq DEF t
  <2>4. u \in Seq(Nat) /\ Len(u) = a + n
    BY <2>1, BytesIsSeq DEF u
  <2> QED BY <2>2, <2>3, <2>4
<1>2. /\ \A i \in 1..a : s[i] = i
      /\ \A i \in 1..n : t[i] = a + i
      /\ \A i \in 1..(a + n) : u[i] = i
  BY DEF Bytes
<1> HIDE DEF s, t, u
<1>3. s \o t \in Seq(Nat) /\ Len(s \o t) = a + n
  BY <1>1, ConcatProperties
<1>4. ASSUME NEW i \in 1..(a + n)
      PROVE  (s \o t)[i] = u[i]
  BY <1>1, <1>2
<1>5. s \o t = u
  BY <1>1, <1>3, <1>4, SeqEqual
<1> QED BY <1>5 DEF s, t, u

\* A part of a block is the bytes from the part's own offset on.
LEMMA BytesPart ==
  ASSUME NEW a \in Nat, NEW n \in Nat, NEW i \in Nat, NEW m \in Nat, i + m <= n
  PROVE  SubSeq(Bytes(a, n), i + 1, i + m) = Bytes(a + i, m)
BY DEF Bytes

\* No bytes are the empty sequence.
LEMMA BytesNone == ASSUME NEW a PROVE Bytes(a, 0) = <<>>
BY DEF Bytes

\* Appending the bytes that follow keeps a destination in order.
LEMMA AppendInOrder ==
  ASSUME NEW d \in Seq(Nat), NEW a \in Nat, NEW n \in Nat,
         d = Bytes(0, Len(d)), a = Len(d)
  PROVE  /\ d \o Bytes(a, n) \in Seq(Nat)
         /\ Len(d \o Bytes(a, n)) = a + n
         /\ d \o Bytes(a, n) = Bytes(0, Len(d \o Bytes(a, n)))
<1>1. d \o Bytes(a, n) = Bytes(0, a + n)
  BY BytesContinue
<1>2. Bytes(0, a + n) \in Seq(Nat) /\ Len(Bytes(0, a + n)) = a + n
  BY BytesIsSeq
<1> QED BY <1>1, <1>2

-----------------------------------------------------------------------------
\* A call begins with nothing read, written or counted.
LEMMA InitIInv == Init => IInv
<1> SUFFICES ASSUME Init PROVE IInv
  OBVIOUS
<1>1. size \in 0..MaxLen
  <2>1. CASE method = "putFile"
    BY <2>1, TransferAssumption DEF Init
  <2>2. CASE method = "scpPut"
    BY <2>2, TransferAssumption DEF Init
  <2>3. CASE method # "putFile" /\ method # "scpPut"
    BY <2>3, TransferAssumption DEF Init
  <2> QED BY <2>1, <2>2, <2>3
<1>2. /\ method \in Method /\ pc = "start" /\ len \in 0..MaxLen /\ pos = 0
      /\ eof = FALSE /\ buf = <<>> /\ total = 0 /\ tot = 0 /\ flight = 0 /\ dest = <<>>
  BY DEF Init
<1>3. TypeOK
  <2>1. buf \in Seq(Nat) /\ dest \in Seq(Nat) /\ Len(buf) = 0
    BY <1>2
  <2>2. eof \in BOOLEAN /\ pc \in Stage
    BY <1>2 DEF Stage
  <2> QED BY <1>1, <1>2, <2>1, <2>2, TransferAssumption DEF TypeOK
<1>4. InOrder /\ Block
  BY <1>2, BytesNone DEF InOrder, Block
<1>5. BufferUse /\ Placed /\ Counted
  <2>1. Len(buf) = 0 /\ Len(dest) = 0 /\ pos = 0 /\ total = 0 /\ tot = 0 /\ flight = 0
    BY <1>2
  <2>2. BufferUse
    BY <1>2 DEF BufferUse
  <2>3. Placed
    BY <2>1 DEF Placed
  <2>4. Counted
    BY <2>1 DEF Counted
  <2> QED BY <2>2, <2>3, <2>4
<1>6. Bounded /\ AtEnd
  BY <1>1, <1>2, TransferAssumption DEF Bounded, AtEnd
<1> QED BY <1>3, <1>4, <1>5, <1>6 DEF IInv

\* Steps that move no bytes: what they change is the stage, the source or
\* the size found by stat().
LEMMA ChangeIInv == IInv /\ Change => IInv'
<1> SUFFICES ASSUME IInv, Change PROVE IInv'
  OBVIOUS
<1>1. method # "put" /\ method # "putFile"
  BY DEF Change, FromFile, Get
<1> QED BY <1>1 DEF IInv, Change, TypeOK, InOrder, Block, BufferUse, Placed, Counted, Bounded, AtEnd

\* A copy that fails keeps what it had copied.
LEMMA FailIInv == IInv /\ Fail => IInv'
<1> SUFFICES ASSUME IInv, Fail PROVE IInv'
  OBVIOUS
<1>1. TypeOK'
  BY DEF IInv, Fail, source, TypeOK, Stage
<1>2. (InOrder /\ Block /\ BufferUse /\ Placed /\ Counted)'
  BY DEF IInv, Fail, source, InOrder, Block, BufferUse, Placed, Counted
<1>3. (Bounded /\ AtEnd)'
  BY DEF IInv, Fail, source, Bounded, AtEnd
<1> QED BY <1>1, <1>2, <1>3 DEF IInv

\* stat() sets the size of a copy that has not begun.
LEMMA StatIInv == IInv /\ Stat => IInv'
<1> SUFFICES ASSUME IInv, Stat PROVE IInv'
  OBVIOUS
<1>1. pos = 0
  BY DEF IInv, Stat, AtEnd
<1>2. TypeOK'
  BY DEF IInv, Stat, source, TypeOK, Stage
<1>3. (InOrder /\ Block /\ BufferUse /\ Placed /\ Counted)'
  BY DEF IInv, Stat, source, InOrder, Block, BufferUse, Placed, Counted
<1>4. (Bounded /\ AtEnd)'
  BY <1>1 DEF IInv, Stat, source, TypeOK, Bounded, AtEnd
<1> QED BY <1>2, <1>3, <1>4 DEF IInv

\* Opening begins the loop; putFile() has all of its data as one block.
LEMMA OpenIInv == IInv /\ Open => IInv'
<1> SUFFICES ASSUME IInv, Open PROVE IInv'
  OBVIOUS
<1>1. /\ pos = 0 /\ buf = <<>> /\ Len(buf) = 0 /\ total = 0 /\ flight = 0 /\ tot = 0 /\ size \in 0..MaxLen
      /\ Len(dest) = 0
  BY DEF IInv, Open, AtEnd, BufferUse, TypeOK, Counted, Placed, Method, Get, Put
<1>2. CASE method = "putFile"
  <2>1. buf' = Bytes(0, size) /\ buf' \in Seq(Nat) /\ Len(buf') = size
    BY <1>1, <1>2, BytesIsSeq, TransferAssumption DEF Open
  <2>2. /\ pos' = size /\ size' = size /\ tot' = 0 /\ total' = 0 /\ flight' = 0 /\ dest' = dest /\ method' = method
        /\ pc' = IF size > 0 THEN "write" ELSE "close"
    BY <1>1, <1>2 DEF Open
  <2>3. TypeOK'
    BY <1>1, <2>1, <2>2, TransferAssumption DEF IInv, Open, TypeOK, Stage
  <2>4. (InOrder /\ Block)'
    BY <1>1, <2>1, <2>2, TransferAssumption DEF IInv, InOrder, Block
  <2>5. pc' # "write" => buf' = <<>>
    BY <1>1, <2>1, <2>2, BytesNone, TransferAssumption
  <2>6. (BufferUse /\ Placed /\ Counted)'
    BY <1>1, <1>2, <2>1, <2>2, <2>5, TransferAssumption DEF IInv, BufferUse, Placed, Counted, Put, Get
  <2>7. (Bounded /\ AtEnd)'
    BY <1>1, <1>2, <2>1, <2>2, TransferAssumption DEF Bounded, AtEnd
  <2> QED BY <2>3, <2>4, <2>6, <2>7 DEF IInv
<1>3. CASE method # "putFile"
  <2>1. TypeOK'
    BY <1>3 DEF IInv, Open, TypeOK, Stage
  <2>2. (InOrder /\ Block /\ BufferUse /\ Placed /\ Counted)'
    BY <1>3 DEF IInv, Open, InOrder, Block, BufferUse, Placed, Counted
  <2>3. (Bounded /\ AtEnd)'
    BY <1>1, <1>3 DEF IInv, Open, Bounded, AtEnd
  <2> QED BY <2>1, <2>2, <2>3 DEF IInv
<1> QED BY <1>2, <1>3

\* The loop goes on, or ends where its condition says.
LEMMA LoopIInv == IInv /\ Loop => IInv'
<1> SUFFICES ASSUME IInv, Loop PROVE IInv'
  OBVIOUS
<1>1. TypeOK'
  BY DEF IInv, Loop, source, TypeOK, Stage
<1>2. (InOrder /\ Block /\ BufferUse /\ Placed /\ Counted /\ Bounded)'
  BY DEF IInv, Loop, source, InOrder, Block, BufferUse, Placed, Counted, Bounded
<1>3. AtEnd'
  BY DEF IInv, Loop, source, AtEnd, Sized
<1> QED BY <1>1, <1>2, <1>3 DEF IInv

\* Closing ends the copy and moves no bytes.
LEMMA CloseIInv == IInv /\ Close => IInv'
<1> SUFFICES ASSUME IInv, Close PROVE IInv'
  OBVIOUS
<1>1. TypeOK'
  BY DEF IInv, Close, source, TypeOK, Stage
<1>2. (InOrder /\ Block /\ BufferUse /\ Placed /\ Counted /\ Bounded)'
  BY DEF IInv, Close, source, InOrder, Block, BufferUse, Placed, Counted, Bounded
<1>3. AtEnd'
  BY DEF IInv, Close, source, AtEnd
<1> QED BY <1>1, <1>2, <1>3 DEF IInv

\* The EOF of a channel moves no bytes.
LEMMA ChannelEofIInv == IInv /\ ChannelEof => IInv'
<1> SUFFICES ASSUME IInv, ChannelEof PROVE IInv'
  OBVIOUS
<1>1. TypeOK'
  BY DEF IInv, ChannelEof, TypeOK
<1>2. (InOrder /\ Block /\ BufferUse /\ Placed /\ Counted /\ Bounded)'
  BY DEF IInv, ChannelEof, InOrder, Block, BufferUse, Placed, Counted, Bounded
<1>3. AtEnd'
  BY DEF IInv, ChannelEof, AtEnd
<1> QED BY <1>1, <1>2, <1>3 DEF IInv

-----------------------------------------------------------------------------
(* Steps that move bytes.                                                  *)

\* What a read may ask for never takes a sized method past its size.
LEMMA WantedBound ==
  ASSUME IInv, method \in Sized, pc = "read", NEW n \in 1..Wanted
  PROVE  pos + n <= size
<1>1. tot = pos /\ size \in Nat /\ pos \in Nat
  <2>1. Len(buf) = 0 /\ total = 0
    BY DEF IInv, BufferUse, TypeOK
  <2> QED BY <2>1, TransferAssumption DEF IInv, TypeOK, Counted, AtEnd, Sized, Method, Get, Put
<1>2. CASE method = "getFile"
  BY <1>1, <1>2 DEF Wanted
<1>3. CASE method # "getFile"
  <2>1. Wanted = AtMost(size - tot, BufSize)
    BY <1>3 DEF Wanted, Sized
  <2> QED BY <1>1, <2>1, TransferAssumption DEF AtMost
<1> QED BY <1>2, <1>3

\* A read into the result itself continues the destination.
LEMMA ReadInPlaceIInv == IInv /\ pc = "read" /\ ReadInPlace => IInv'
<1> SUFFICES ASSUME IInv, pc = "read", ReadInPlace PROVE IInv'
  OBVIOUS
<1>1. PICK n \in 1..Wanted : Take(n) /\ tot' = tot + n /\ dest' = dest \o Bytes(pos, n)
  BY DEF ReadInPlace
<1>2. /\ method = "getFile" /\ method' = "getFile" /\ pc' = "copy" /\ size' = size
      /\ buf' = buf /\ total' = total /\ flight' = flight
      /\ len' = len /\ eof' = eof /\ pos' = pos + n /\ pos + n <= len
  BY <1>1 DEF ReadInPlace, Take
<1>3. n \in Nat /\ pos + n <= size
  <2>1. method \in Sized /\ Wanted = size - tot
    BY <1>2 DEF Sized, Method, Get, Wanted
  <2>2. n \in Nat
    BY <2>1 DEF IInv, TypeOK
  <2>3. pos + n <= size
    BY <2>1, WantedBound
  <2> QED BY <2>2, <2>3
<1>4. /\ buf = <<>> /\ Len(buf) = 0 /\ total = 0 /\ flight = 0 /\ tot = pos /\ pos \in Nat
      /\ Len(dest) = pos
  BY <1>2, TransferAssumption DEF IInv, BufferUse, TypeOK, Counted, Placed, Get, Put
<1>5. dest' \in Seq(Nat) /\ Len(dest') = pos + n /\ dest' = Bytes(0, Len(dest'))
  <2>1. dest \in Seq(Nat) /\ dest = Bytes(0, Len(dest))
    BY DEF IInv, TypeOK, InOrder
  <2>2. /\ dest \o Bytes(pos, n) \in Seq(Nat)
        /\ Len(dest \o Bytes(pos, n)) = pos + n
        /\ dest \o Bytes(pos, n) = Bytes(0, Len(dest \o Bytes(pos, n)))
    BY <1>3, <1>4, <2>1, AppendInOrder
  <2> QED BY <1>1, <2>2
<1>6. TypeOK'
  BY <1>1, <1>2, <1>3, <1>4, <1>5, TransferAssumption DEF IInv, TypeOK, Stage
<1>7. (InOrder /\ Block)'
  BY <1>2, <1>3, <1>4, <1>5, BytesNone DEF InOrder, Block
<1>8. (BufferUse /\ Placed /\ Counted)'
  BY <1>1, <1>2, <1>3, <1>4, <1>5 DEF BufferUse, Placed, Counted
<1>9. (Bounded /\ AtEnd)'
  BY <1>2, <1>3, <1>4 DEF Bounded, AtEnd
<1> QED BY <1>6, <1>7, <1>8, <1>9 DEF IInv

\* A read into the buffer gives the block that follows the last one.
LEMMA ReadBlockIInv == IInv /\ pc = "read" /\ ReadBlock => IInv'
<1> SUFFICES ASSUME IInv, pc = "read", ReadBlock PROVE IInv'
  OBVIOUS
<1>1. PICK n \in 1..Wanted :
        Take(n) /\ buf' = Bytes(pos, n) /\ tot' = IF method \in Get THEN tot + n ELSE tot
  BY DEF ReadBlock
<1>2. /\ method \in Method \ {"getFile", "putFile"} /\ method' = method /\ pc' = "write"
      /\ size' = size /\ total' = 0 /\ flight' = flight /\ dest' = dest
      /\ len' = len /\ eof' = eof /\ ~eof /\ pos' = pos + n /\ pos + n <= len
  BY <1>1 DEF ReadBlock, Take
<1>3. n \in Nat /\ (method \in Sized => pos + n <= size)
  <2>1. Wanted \in Int
    BY TransferAssumption DEF IInv, TypeOK, Wanted, AtMost
  <2> QED BY <2>1, WantedBound
<1>4. /\ buf = <<>> /\ Len(buf) = 0 /\ total = 0 /\ flight = 0 /\ pos \in Nat /\ Len(dest) = pos
  BY TransferAssumption DEF IInv, BufferUse, TypeOK, Placed
<1>5. buf' \in Seq(Nat) /\ Len(buf') = n
  BY <1>1, <1>3, <1>4, BytesIsSeq
<1>6. Counted'
  BY <1>1, <1>2, <1>3, <1>4, <1>5 DEF IInv, Counted, Get
<1>7. TypeOK'
  <2>1. tot' \in 0..MaxLen
    BY <1>1, <1>2, <1>3, <1>4, <1>5, <1>6, TransferAssumption DEF IInv, TypeOK, Counted
  <2> QED BY <1>2, <1>3, <1>4, <1>5, <2>1, TransferAssumption DEF IInv, TypeOK, Stage
<1>8. (InOrder /\ Block)'
  BY <1>1, <1>2, <1>3, <1>4, <1>5 DEF IInv, InOrder, Block
<1>9. (BufferUse /\ Placed)'
  BY <1>2, <1>3, <1>4, <1>5 DEF BufferUse, Placed
<1>10. (Bounded /\ AtEnd)'
  BY <1>2, <1>3, <1>4 DEF IInv, Bounded, AtEnd
<1> QED BY <1>6, <1>7, <1>8, <1>9, <1>10 DEF IInv

\* A read of nothing moves no bytes and may end the loop.
LEMMA ReadNothingIInv == IInv /\ pc = "read" /\ ReadNothing => IInv'
<1> SUFFICES ASSUME IInv, pc = "read", ReadNothing PROVE IInv'
  OBVIOUS
<1>1. /\ method' = method /\ len' = len /\ pos' = pos /\ size' = size /\ buf' = buf
      /\ total' = total /\ tot' = tot /\ flight' = flight /\ dest' = dest /\ eof' = TRUE
      /\ eof \/ pos >= len
  BY DEF ReadNothing
<1>2. /\ pc' \in {"copy", "close", "failed"}
      /\ pc' = "close" => method = "put"
      /\ pc' = "copy" => method \in Get
  BY DEF ReadNothing, Get
<1>3. method = "put" => pos = len
  BY <1>1 DEF IInv, AtEnd, TypeOK
<1>4. TypeOK'
  BY <1>1, <1>2 DEF IInv, TypeOK, Stage
<1>5. (InOrder /\ Block /\ BufferUse /\ Placed /\ Counted /\ Bounded)'
  BY <1>1, <1>2 DEF IInv, InOrder, Block, BufferUse, Placed, Counted, Bounded
<1>6. AtEnd'
  BY <1>1, <1>2, <1>3 DEF IInv, AtEnd, TypeOK, Sized, Get
<1> QED BY <1>4, <1>5, <1>6 DEF IInv

\* A block handed over as a whole continues the destination.
LEMMA WriteBlockIInv == IInv /\ WriteBlock => IInv'
<1> SUFFICES ASSUME IInv, WriteBlock PROVE IInv'
  OBVIOUS
<1>1. /\ method \notin Put /\ method' = method /\ pc' = "copy" /\ size' = size
      /\ buf' = <<>> /\ Len(buf') = 0 /\ total' = total /\ flight' = flight /\ dest' = dest \o buf
      /\ len' = len /\ eof' = eof /\ pos' = pos
      /\ tot' = IF method = "scpPut" THEN tot + Len(buf) ELSE tot
  BY DEF WriteBlock, source
<1>2. /\ total = 0 /\ flight = 0 /\ pos \in Nat /\ Len(buf) \in Nat /\ Len(buf) <= pos
      /\ Len(dest) = pos - Len(buf) /\ buf = Bytes(pos - Len(buf), Len(buf))
      /\ dest = Bytes(0, Len(dest)) /\ dest \in Seq(Nat)
  BY <1>1, TransferAssumption DEF IInv, TypeOK, BufferUse, Placed, Block, InOrder
<1>3. dest' \in Seq(Nat) /\ Len(dest') = pos /\ dest' = Bytes(0, Len(dest'))
  <2> DEFINE a == pos - Len(buf)
             n == Len(buf)
  <2>1. a \in Nat /\ n \in Nat /\ a = Len(dest) /\ a + n = pos
    BY <1>2
  <2>2. dest' = dest \o Bytes(a, n)
    BY <1>1, <1>2
  <2> HIDE DEF a, n
  <2> QED BY <1>2, <2>1, <2>2, AppendInOrder
<1>4. Counted'
  BY <1>1, <1>2 DEF IInv, Counted, Get, Put
<1>5. TypeOK'
  <2>1. tot' \in 0..MaxLen
    BY <1>1, <1>2, TransferAssumption DEF IInv, TypeOK, Counted
  <2> QED BY <1>1, <1>2, <1>3, <2>1 DEF IInv, TypeOK, Stage
<1>6. (InOrder /\ Block)'
  BY <1>1, <1>2, <1>3, BytesNone DEF InOrder, Block
<1>7. (BufferUse /\ Placed)'
  BY <1>1, <1>2, <1>3 DEF BufferUse, Placed
<1>8. (Bounded /\ AtEnd)'
  BY <1>1 DEF IInv, Bounded, AtEnd, Put
<1> QED BY <1>4, <1>5, <1>6, <1>7, <1>8 DEF IInv

\* of a block of b bytes that starts at offset a of the source, with t bytes
\* acknowledged and f in flight behind them: the next n
NextBytes(a, b, t, f, n) == SubSeq(SubSeq(Bytes(a, b), t + 1, b), f + 1, f + n)

\* They are the ones that a destination which ends at a + t + f lacks.
LEMMA SentIsNext ==
  ASSUME NEW a \in Nat, NEW b \in Nat, NEW t \in Nat, NEW f \in Nat, NEW n \in Nat,
         t + f + n <= b
  PROVE  NextBytes(a, b, t, f, n) = Bytes(a + t + f, n)
<1> DEFINE r == b - t
           c == a + t
<1>1. r \in Nat /\ c \in Nat /\ t + r = b /\ t + r <= b /\ f + n <= r
  OBVIOUS
<1>2. SubSeq(Bytes(a, b), t + 1, t + r) = Bytes(a + t, r)
  <2>1. r \in Nat /\ t + r <= b
    BY <1>1
  <2> HIDE DEF r, c
  <2> QED BY ONLY a \in Nat, b \in Nat, t \in Nat, <2>1, BytesPart, SMTT(60)
<1>3. SubSeq(Bytes(a, b), t + 1, b) = Bytes(c, r)
  BY <1>1, <1>2
<1> HIDE DEF r, c
<1>4. SubSeq(Bytes(c, r), f + 1, f + n) = Bytes(c + f, n)
  BY <1>1, BytesPart
<1> QED BY <1>3, <1>4 DEF c, NextBytes

\* libssh2 is given the rest of the block, and sends the part of it behind
\* the bytes in flight.
LEMMA WriteAheadIInv == IInv /\ WriteAhead => IInv'
<1> SUFFICES ASSUME IInv, WriteAhead PROVE IInv'
  OBVIOUS
<1> DEFINE a == pos - Len(buf)
           b == Len(buf)
<1>1. /\ pos \in Nat /\ b \in Nat /\ a \in Nat /\ total \in Nat /\ flight \in Nat
      /\ total + flight <= b
  BY TransferAssumption DEF IInv, TypeOK, Block
<1>2. /\ buf \in Seq(Nat) /\ dest \in Seq(Nat) /\ dest = Bytes(0, Len(dest))
      /\ Len(dest) = a + total + flight /\ buf = Bytes(a, b)
  BY DEF IInv, TypeOK, Block, Placed, InOrder
<1>3. PICK n \in 1..(Len(Unwritten) - flight) :
        /\ dest' = dest \o SubSeq(Unwritten, flight + 1, flight + n)
        /\ flight' = flight + n
  BY DEF WriteAhead
<1>4. n \in Nat /\ total + flight + n <= b
  <2>1. Len(Unwritten) = b - total
    BY <1>1, <1>2 DEF Unwritten
  <2> QED BY <1>1, <2>1
<1>5. dest' = dest \o Bytes(a + total + flight, n)
  <2>1. Unwritten = SubSeq(Bytes(a, b), total + 1, b)
    BY <1>2 DEF Unwritten
  <2> HIDE DEF a, b
  <2>2. NextBytes(a, b, total, flight, n) = Bytes(a + total + flight, n)
    <3>1. a \in Nat /\ b \in Nat /\ total \in Nat /\ flight \in Nat /\ n \in Nat /\ total + flight + n <= b
      BY <1>1, <1>4
    <3> QED BY ONLY <3>1, SentIsNext
  <2> QED BY <1>3, <2>1, <2>2 DEF NextBytes
<1>6. /\ dest' \in Seq(Nat) /\ Len(dest') = a + total + flight + n
      /\ dest' = Bytes(0, Len(dest'))
  <2> DEFINE c == a + total + flight
  <2>1. c \in Nat
    BY <1>1
  <2>2. c = Len(dest) /\ dest \in Seq(Nat) /\ dest = Bytes(0, Len(dest)) /\ dest' = dest \o Bytes(c, n)
    BY <1>2, <1>5
  <2>3. Len(dest') = c + n => Len(dest') = a + total + flight + n
    OBVIOUS
  <2> HIDE DEF c
  <2>4. /\ dest \o Bytes(c, n) \in Seq(Nat) /\ Len(dest \o Bytes(c, n)) = c + n
        /\ dest \o Bytes(c, n) = Bytes(0, Len(dest \o Bytes(c, n)))
    BY <1>4, <2>1, <2>2, AppendInOrder
  <2> QED BY <2>2, <2>3, <2>4
<1>7. /\ method \in Put /\ method' = method /\ pc' = pc /\ size' = size /\ buf' = buf
      /\ total' = total /\ tot' = tot /\ len' = len /\ pos' = pos /\ eof' = eof
  BY DEF WriteAhead, source
<1>8. TypeOK'
  BY <1>1, <1>3, <1>4, <1>6, <1>7 DEF IInv, TypeOK
<1>9. (InOrder /\ Block)'
  BY <1>6, <1>7 DEF IInv, InOrder, Block
<1>10. (BufferUse /\ Placed)'
  BY <1>1, <1>3, <1>4, <1>6, <1>7 DEF IInv, BufferUse, Placed
<1>11. (Counted /\ Bounded /\ AtEnd)'
  BY <1>7 DEF IInv, Counted, Bounded, AtEnd
<1> QED BY <1>8, <1>9, <1>10, <1>11 DEF IInv

\* An acknowledgement turns bytes in flight into reported ones, and the
\* block is done when all of it is reported.
LEMMA WriteAckedIInv == IInv /\ WriteAcked => IInv'
<1> SUFFICES ASSUME IInv, WriteAcked PROVE IInv'
  OBVIOUS
<1>1. PICK n \in 1..flight :
       /\ flight' = flight - n
       /\ IF BlockWritten(n)
            THEN /\ buf' = <<>>
                 /\ total' = 0
                 /\ tot' = IF method = "transferFile" THEN tot + total + n ELSE tot + n
                 /\ pc' = IF method = "putFile" THEN "close" ELSE "copy"
            ELSE /\ total' = total + n
                 /\ tot' = IF method = "transferFile" THEN tot ELSE tot + n
                 /\ UNCHANGED <<buf, pc>>
  BY DEF WriteAcked
<1>2. /\ pc = "write" /\ method \in Put /\ method' = method /\ size' = size /\ dest' = dest
      /\ len' = len /\ pos' = pos /\ eof' = eof
  BY DEF WriteAcked, source
<1>3. /\ pos \in Nat /\ Len(buf) \in Nat /\ Len(buf) <= pos /\ total \in Nat /\ flight \in Nat
      /\ total + flight <= Len(buf) /\ n \in Nat /\ n <= flight /\ n > 0 /\ tot \in Nat /\ pos <= MaxLen
      /\ Len(dest) = pos - Len(buf) + total + flight
      /\ method = "transferFile" => tot = pos - Len(buf)
      /\ method \in {"putFile", "put"} => tot = pos - Len(buf) + total
  BY TransferAssumption DEF IInv, TypeOK, Block, Placed, Counted
<1>4. (InOrder /\ Bounded)'
  BY <1>2 DEF IInv, InOrder, Bounded
<1>5. CASE BlockWritten(n)
  <2>1. /\ buf' = <<>> /\ Len(buf') = 0 /\ total' = 0 /\ flight' = 0 /\ total + n = Len(buf)
        /\ flight = n
    BY <1>1, <1>3, <1>5 DEF BlockWritten
  <2>2. /\ pc' = IF method = "putFile" THEN "close" ELSE "copy"
        /\ tot' = pos
    BY <1>1, <1>2, <1>3, <1>5, <2>1 DEF Put
  <2>3. TypeOK'
    BY <1>2, <1>3, <2>1, <2>2, TransferAssumption DEF IInv, TypeOK, Stage
  <2>4. (Block /\ BufferUse /\ Placed)'
    BY <1>2, <1>3, <2>1, BytesNone DEF Block, BufferUse, Placed
  <2>5. Counted'
    BY <1>2, <1>3, <2>1, <2>2 DEF Counted, Get, Put
  <2>6. AtEnd'
    <3>1. /\ method = "put" => pos <= len /\ (eof => pos = len)
          /\ method = "putFile" => pos = size
      BY <1>2 DEF IInv, AtEnd
    <3>2. CASE method = "putFile"
      BY <1>2, <1>3, <2>2, <3>1, <3>2 DEF AtEnd
    <3>3. CASE method # "putFile"
      BY <1>2, <2>2, <3>1, <3>3 DEF AtEnd
    <3> QED BY <3>2, <3>3
  <2> QED BY <1>4, <2>3, <2>4, <2>5, <2>6 DEF IInv
<1>6. CASE ~BlockWritten(n)
  <2>1. /\ buf' = buf /\ pc' = pc /\ total' = total + n /\ flight' = flight - n
        /\ tot' = IF method = "transferFile" THEN tot ELSE tot + n
    BY <1>1, <1>6
  <2>2. TypeOK'
    BY <1>2, <1>3, <2>1, TransferAssumption DEF IInv, TypeOK, Put
  <2>3. (Block /\ BufferUse /\ Placed)'
    BY <1>2, <1>3, <2>1 DEF IInv, Block, BufferUse, Placed
  <2>4. Counted'
    BY <1>2, <1>3, <2>1 DEF Counted, Get, Put
  <2>5. AtEnd'
    BY <1>2, <2>1 DEF IInv, AtEnd
  <2> QED BY <1>4, <2>2, <2>3, <2>4, <2>5 DEF IInv
<1> QED BY <1>5, <1>6

\* Every step preserves the inductive invariant.
LEMMA NextIInv == IInv /\ [Next]_vars => IInv'
<1> SUFFICES ASSUME IInv, [Next]_vars PROVE IInv'
  OBVIOUS
<1>1. CASE Step
  <2>1. CASE Read
    BY <2>1, ReadInPlaceIInv, ReadBlockIInv, ReadNothingIInv DEF Read
  <2> QED BY <1>1, <2>1, StatIInv, OpenIInv, LoopIInv, WriteBlockIInv, CloseIInv DEF Step
<1>2. CASE UNCHANGED vars
  <2>1. TypeOK'
    BY <1>2 DEF IInv, vars, source, TypeOK
  <2>2. (InOrder /\ Block /\ BufferUse /\ Placed /\ Counted)'
    BY <1>2 DEF IInv, vars, source, InOrder, Block, BufferUse, Placed, Counted
  <2>3. (Bounded /\ AtEnd)'
    BY <1>2 DEF IInv, vars, source, Bounded, AtEnd
  <2> QED BY <2>1, <2>2, <2>3 DEF IInv
<1> QED BY <1>1, <1>2, WriteAheadIInv, WriteAckedIInv, ChannelEofIInv, ChangeIInv, FailIInv DEF Next

\* The inductive invariant holds in every state of every copy.
LEMMA AlwaysIInv == Spec => []IInv
BY InitIInv, NextIInv, PTL DEF Spec

-----------------------------------------------------------------------------
\* Type correctness, with the unacknowledged bytes within the block.
THEOREM TypeCorrect == Spec => []TypeOK
BY AlwaysIInv, PTL DEF IInv

\* Whatever the server accepts or acknowledges of a write, and wherever a
\* copy fails, the destination is a prefix of the source.
THEOREM DestinationInOrder == Spec => []InOrder
BY AlwaysIInv, PTL DEF IInv

\* No sized copy writes past its size, so getFile() stays within the buffer
\* it allocated however the remote file grows.
THEOREM NoOverrun == Spec => []WithinSize
<1>1. IInv => WithinSize
  <2> SUFFICES ASSUME IInv, method \in Sized PROVE Len(dest) <= size
    BY DEF WithinSize
  <2> QED BY TransferAssumption DEF IInv, TypeOK, Placed, Bounded
<1> QED BY <1>1, AlwaysIInv, PTL

\* A copy that returns normally moved every byte it promised.
THEOREM NothingMissing == Spec => []WholeTransfer
<1>1. IInv => WholeTransfer
  <2> SUFFICES ASSUME IInv, pc = "done"
               PROVE  Len(dest) = CASE method \in Sized -> size
                                    [] method = "put"   -> len
                                    [] OTHER            -> pos
    BY DEF WholeTransfer
  <2>1. Len(buf) = 0 /\ total = 0 /\ flight = 0 /\ Len(dest) = pos
    BY TransferAssumption DEF IInv, TypeOK, BufferUse, Placed
  <2>2. method \in Sized => pos = size
    BY <2>1, TransferAssumption DEF IInv, TypeOK, Counted, Bounded, AtEnd, Sized, Method, Get, Put
  <2>3. method = "put" => pos = len
    BY DEF IInv, AtEnd
  <2> QED BY <2>1, <2>2, <2>3 DEF Sized
<1> QED BY <1>1, AlwaysIInv, PTL

\* The count returned is the count that arrived, all of it acknowledged.
THEOREM CountReturned == Spec => []Acknowledged
<1>1. IInv => Acknowledged
  <2> SUFFICES ASSUME IInv, pc = "done"
               PROVE  flight = 0 /\ (method # "scpGet" => tot = Len(dest))
    BY DEF Acknowledged
  <2>1. Len(buf) = 0 /\ total = 0 /\ flight = 0 /\ Len(dest) = pos
    BY TransferAssumption DEF IInv, TypeOK, BufferUse, Placed
  <2> QED BY <2>1, TransferAssumption DEF IInv, TypeOK, Counted, Method, Get, Put
<1> QED BY <1>1, AlwaysIInv, PTL
=============================================================================
