------------------------------ MODULE Transfer ------------------------------
(***************************************************************************)
(* The copying loops: one call of a method that moves a file's bytes       *)
(* between the server and the caller.                                      *)
(*                                                                         *)
(*   getFile        getFile(), getTextFile(): into a buffer of the size    *)
(*                  that stat() reported                                   *)
(*   retrieveFile   into a local file, block by block                      *)
(*   get            into a stream, block by block                          *)
(*   putFile        from the caller's memory                               *)
(*   transferFile   from a local file, block by block                      *)
(*   put            from a stream, until it ends                           *)
(*   scpGet         from an scp channel into a stream, until its EOF       *)
(*   scpPut         from a stream to an scp channel, a given size          *)
(*                                                                         *)
(* A byte is its offset in the source, so the source is its length; the    *)
(* destination is the sequence of the bytes put there.  Files may grow and *)
(* shrink while they are copied.  libssh2 sends what it is given to write  *)
(* ahead of the acknowledgements it reports ("flight"), and takes the      *)
(* bytes in flight to be the first ones of the buffer it is called with    *)
(* next.  The lock and the connection are in SFTPClient and SSH2Client:    *)
(* here any wait and any call may fail.                                    *)
(***************************************************************************)
EXTENDS Integers, Sequences

CONSTANTS
  BufSize,   \* QSSH2_BUFSIZE, and the 4096 bytes of the scp methods
  MaxLen     \* bound: the length of a source

ASSUME TransferAssumption ==
  /\ BufSize \in Nat \ {0}
  /\ MaxLen \in Nat

VARIABLES
  method,    \* the method called
  pc,        \* where it is; see Stage
  len,       \* the source's length now
  size,      \* fsize, towrite or size: what is to be copied
  pos,       \* bytes read from the source
  eof,       \* the source has answered with end of file, which it remembers
  buf,       \* the block read and not yet written
  total,     \* how much of buf the server has acknowledged
  tot,       \* tot or size: the count the method keeps
  flight,    \* libssh2: bytes of buf sent and not yet acknowledged
  dest       \* the destination's bytes

source == <<len, pos, eof>>
vars == <<method, pc, source, size, buf, total, tot, flight, dest>>

Get == {"getFile", "retrieveFile", "get"}
Put == {"putFile", "transferFile", "put"}
Method == Get \cup Put \cup {"scpGet", "scpPut"}

\* methods that copy as many bytes as they were told, or found, before
Sized == Method \ {"put", "scpGet"}

\* methods whose source is a file that others may write to meanwhile
FromFile == Get \cup {"transferFile", "scpGet"}

Stage == {"start", "open", "copy", "read", "write", "close", "done", "failed"}
Ended == {"done", "failed"}

\* the bytes of the source from offset a, n of them
Bytes(a, n) == [i \in 1..n |-> a + i]

AtMost(a, b) == IF a < b THEN a ELSE b

\* The variables keep the values the code gives them.
TypeOK ==
  /\ method \in Method
  /\ pc \in Stage
  /\ len \in 0..MaxLen
  /\ size \in 0..MaxLen
  /\ pos \in 0..MaxLen
  /\ eof \in BOOLEAN
  /\ buf \in Seq(Nat)
  /\ total \in 0..Len(buf)
  /\ tot \in 0..MaxLen
  /\ flight \in 0..(Len(buf) - total)
  /\ dest \in Seq(Nat)

\* putFile()'s buffer and scpPut()'s size are the caller's; the bindings
\* refuse an scpPut() of nothing
Init ==
  /\ method \in Method
  /\ pc = "start"
  /\ len \in 0..MaxLen
  /\ size \in CASE method = "putFile" -> {len}
                [] method = "scpPut"  -> 1..MaxLen
                [] OTHER              -> {0}
  /\ pos = 0
  /\ eof = FALSE
  /\ buf = <<>>
  /\ total = 0
  /\ tot = 0
  /\ flight = 0
  /\ dest = <<>>

\* other writers of the source: it grows or shrinks
Change ==
  /\ method \in FromFile
  /\ pc \notin Ended
  /\ len' \in 0..MaxLen
  /\ UNCHANGED <<method, pc, size, pos, eof, buf, total, tot, flight, dest>>

\* a timeout, an error of the server or of a local file, or an exception of
\* the caller's stream; the scp methods still send and wait for the channel's
\* end, and raise all the same
Fail ==
  /\ pc \notin Ended
  /\ pc' = "failed"
  /\ UNCHANGED <<method, source, size, buf, total, tot, flight, dest>>

\* stat() of a remote file and fstat() of a local one
Stat ==
  /\ pc = "start"
  /\ size' = IF method \in Get \cup {"transferFile"} THEN len ELSE size
  /\ pc' = "open"
  /\ UNCHANGED <<method, source, buf, total, tot, flight, dest>>

\* the remote handle or the scp channel, and retrieveFile()'s local file; all
\* of putFile()'s bytes are in the buffer already
Open ==
  /\ pc = "open"
  /\ IF method = "putFile"
       THEN /\ buf' = Bytes(0, size)
            /\ pos' = size
            /\ pc' = IF size > 0 THEN "write" ELSE "close"
       ELSE /\ pc' = "copy"
            /\ UNCHANGED <<buf, pos>>
  /\ UNCHANGED <<method, len, eof, size, total, tot, flight, dest>>

\* fault: a whole buffer is asked for, whatever is left of the file
WantedBuffer == IF method = "getFile" THEN size - tot ELSE BufSize

\* how much the next read() of the loop asks for
Wanted ==
  CASE method = "getFile"        -> size - tot
    [] method \in {"put", "scpGet"} -> BufSize
    [] OTHER                     -> AtMost(size - tot, BufSize)

\* fault: an end of file ends the download, short or not
LoopEndsAtEof ==
  /\ pc = "copy"
  /\ pc' = IF \/ method \in Sized /\ tot >= size
              \/ method \in Get \cup {"scpGet"} /\ eof
             THEN IF method \in Get THEN "done" ELSE "close"
             ELSE "read"
  /\ UNCHANGED <<method, source, size, buf, total, tot, flight, dest>>

\* the head of the loops: "while (fsize - tot)", "while (size < towrite)",
\* "while (size > 0)", "while (!c->eof())"
Loop ==
  /\ pc = "copy"
  /\ pc' = IF \/ method \in Sized /\ tot >= size
              \/ method = "scpGet" /\ eof
             THEN IF method \in Get THEN "done" ELSE "close"
             ELSE "read"
  /\ UNCHANGED <<method, source, size, buf, total, tot, flight, dest>>

\* a read answered with the next n bytes
Take(n) ==
  /\ ~eof
  /\ pos + n <= len
  /\ pos' = pos + n
  /\ UNCHANGED <<len, eof>>

\* libssh2_sftp_read() into the buffer at tot
ReadInPlace ==
  /\ method = "getFile"
  /\ \E n \in 1..Wanted :
       /\ Take(n)
       /\ tot' = tot + n
       /\ dest' = dest \o Bytes(pos, n)
  /\ pc' = "copy"
  /\ UNCHANGED <<method, size, buf, total, flight>>

\* a block of the source, which another call writes
ReadBlock ==
  /\ method \in Method \ {"getFile", "putFile"}
  /\ \E n \in 1..Wanted :
       /\ Take(n)
       /\ buf' = Bytes(pos, n)
       /\ tot' = IF method \in Get THEN tot + n ELSE tot
  /\ total' = 0
  /\ pc' = "write"
  /\ UNCHANGED <<method, size, flight, dest>>

\* fault: scpPut() tries its stream again after the end
ReadNothingRepeats ==
  /\ eof \/ pos >= len
  /\ eof' = TRUE
  /\ pc' = CASE method \in Get \cup {"scpPut"} -> "copy"
             [] method = "put"                 -> "close"
             [] OTHER                          -> "failed"
  /\ UNCHANGED <<method, len, pos, size, buf, total, tot, flight, dest>>

\* a read of nothing: the loops of Get go round again, put() is at its end,
\* scpPut() and transferFile() fail, and scpGet(), whose channel answered
\* after the EOF had been looked for, waits for more until the timeout
ReadNothing ==
  /\ eof \/ pos >= len
  /\ eof' = TRUE
  /\ pc' = CASE method \in Get  -> "copy"
             [] method = "put"  -> "close"
             [] OTHER           -> "failed"
  /\ UNCHANGED <<method, len, pos, size, buf, total, tot, flight, dest>>

Read ==
  /\ pc = "read"
  /\ ReadInPlace \/ ReadBlock \/ ReadNothing

\* scpGet()'s channel has received the EOF behind the last byte
ChannelEof ==
  /\ method = "scpGet"
  /\ pc \notin {"start", "open"} \cup Ended
  /\ pos >= len
  /\ ~eof
  /\ eof' = TRUE
  /\ UNCHANGED <<method, pc, len, pos, size, buf, total, tot, flight, dest>>

\* the block goes to the local file, the stream or the scp channel as a whole
WriteBlock ==
  /\ pc = "write"
  /\ method \notin Put
  /\ dest' = dest \o buf
  /\ buf' = <<>>
  /\ tot' = IF method = "scpPut" THEN tot + Len(buf) ELSE tot
  /\ pc' = "copy"
  /\ UNCHANGED <<method, source, size, total, flight>>

\* fault: the rest of the block is taken from its beginning
UnwrittenFromStart == SubSeq(buf, 1, Len(buf) - total)

\* what libssh2_sftp_write() is called with
Unwritten == SubSeq(buf, total + 1, Len(buf))

\* libssh2 sends more of it, and has no acknowledgement yet
WriteAhead ==
  /\ pc = "write"
  /\ method \in Put
  /\ \E n \in 1..(Len(Unwritten) - flight) :
       /\ dest' = dest \o SubSeq(Unwritten, flight + 1, flight + n)
       /\ flight' = flight + n
  /\ UNCHANGED <<method, pc, source, size, buf, total, tot>>

\* fault: no inner loop, a short write is followed by the next block
BlockWrittenShort(n) == n > 0

\* an inner loop ends when the whole block is acknowledged
BlockWritten(n) == total + n = Len(buf)

\* fault: the last write of a block is counted for the block
WriteAckedLastCounted ==
  /\ pc = "write"
  /\ method \in Put
  /\ \E n \in 1..flight :
       /\ flight' = flight - n
       /\ IF BlockWritten(n)
            THEN /\ buf' = <<>>
                 /\ total' = 0
                 /\ tot' = tot + n
                 /\ pc' = IF method = "putFile" THEN "close" ELSE "copy"
            ELSE /\ total' = total + n
                 /\ UNCHANGED <<buf, pc, tot>>
  /\ UNCHANGED <<method, source, size, dest>>

\* libssh2_sftp_write() returns n, "total += rc": the loop goes on with the
\* rest of the same buffer
WriteAcked ==
  /\ pc = "write"
  /\ method \in Put
  /\ \E n \in 1..flight :
       /\ flight' = flight - n
       /\ IF BlockWritten(n)
            THEN /\ buf' = <<>>
                 /\ total' = 0
                 /\ tot' = IF method = "transferFile" THEN tot + total + n ELSE tot + n
                 /\ pc' = IF method = "putFile" THEN "close" ELSE "copy"
            ELSE /\ total' = total + n
                 /\ tot' = IF method = "transferFile" THEN tot ELSE tot + n
                 /\ UNCHANGED <<buf, pc>>
  /\ UNCHANGED <<method, source, size, dest>>

\* the remote handle is closed; the scp methods wait for the channel's end
Close ==
  /\ pc = "close"
  /\ pc' = "done"
  /\ UNCHANGED <<method, source, size, buf, total, tot, flight, dest>>

Step == Stat \/ Open \/ Loop \/ Read \/ WriteBlock \/ Close

Next ==
  \/ Step
  \/ WriteAhead
  \/ WriteAcked
  \/ ChannelEof
  \/ Change
  \/ Fail

\* the thread runs its method, and the server answers what it was sent
Fairness ==
  /\ WF_vars(Step)
  /\ WF_vars(WriteAhead)
  /\ WF_vars(WriteAcked)

Spec == Init /\ [][Next]_vars /\ Fairness

-----------------------------------------------------------------------------
\* At any time, after a failure too, the destination holds the first bytes of
\* the source, each once and in its place: short writes, blocks and bytes in
\* flight of libssh2_sftp_write() never repeat, drop or displace data
\* (issue #2633).
InOrder == dest = Bytes(0, Len(dest))

\* The method writes no byte beyond the size it found or was told, however
\* the source grows: getFile() reads into a buffer of exactly that size.
WithinSize == method \in Sized => Len(dest) <= size

\* A method that returns without an exception has moved everything it
\* promised: the size that stat() reported or the caller gave, also when the
\* source changed meanwhile, and a stream or a channel up to its end.
WholeTransfer ==
  pc = "done" =>
    Len(dest) = CASE method \in Sized -> size
                  [] method = "put"   -> len
                  [] OTHER            -> pos

\* The number that the method returns is the number of bytes that arrived,
\* and an upload is reported when the server has acknowledged every byte.
Acknowledged ==
  pc = "done" =>
    /\ flight = 0
    /\ method # "scpGet" => tot = Len(dest)

\* A method returns unless the file it reads has become shorter than stat()
\* said: getFile(), retrieveFile() and get() then read nothing for ever.
TransferEnds ==
  pc = "start" ~> (pc \in Ended \/ (method \in Get /\ eof))
=============================================================================
