------------------------- MODULE SftpPollerProofs -------------------------
(***************************************************************************)
(* Proofs about SftpPoller, for any number of threads, directories and     *)
(* files, and any use of startInline().                                    *)
(*                                                                         *)
(* sc counts the threads in run(), and one more after a start() that could *)
(* not create its thread (CountInv): when it is 0, no thread is in run(),  *)
(* which is all that stop() needs.  The other properties are about what    *)
(* one loop does to its files: StageInv, SeenInv and GoneInv say for each  *)
(* stage which files are listed, processed and still on the server.  They  *)
(* hold as long as one loop runs at a time (AloneInv), which start() sees  *)
(* to, until startInline() adds a loop to another.                         *)
(***************************************************************************)
EXTENDS SftpPoller, FiniteSetTheorems, TLAPS

\* stages of run() in which there are listed files to be handled
Handling == {"fileEvent", "retrieve", "single", "eventStop", "dispose", "post"}

\* sc counts the threads in run(), and one that could not be created
CountInv ==
  /\ IsFiniteSet(Running)
  /\ sc = Cardinality(Running) + (IF lost THEN 1 ELSE 0)

\* TypeOK but for the counter, in parts
FlagsOK ==
  /\ runflag \in BOOLEAN /\ get_files \in BOOLEAN /\ new_sftp \in BOOLEAN
  /\ lost \in BOOLEAN /\ alone \in BOOLEAN
  /\ given \in [Thread -> BOOLEAN]

ThreadsOK ==
  /\ owner \in Thread \cup {NoThread}
  /\ tid \in Thread \cup {NoThread}
  /\ made \in Thread \cup {NoThread}
  /\ pc \in [Thread -> Stage]

FilesOK ==
  /\ dir \in [Thread -> 1..Dirs]
  /\ files \in [Thread -> SUBSET File]
  /\ place \in [File -> 0..Gone]
  /\ deliveries \in [File -> 0..2]

TypeInv == FlagsOK /\ ThreadsOK /\ FilesOK /\ CountInv

\* one thread at most is in run() until startInline() adds its own
AloneInv == alone => \A t, u \in Running : t = u

\* what a stage of the loop knows of its files and, alone, of what an error does
StageInv ==
  \A t \in Thread :
    /\ pc[t] \in Handling => files[t] # {}
    /\ alone =>
         /\ pc[t] = "fileEvent" => get_files
         /\ pc[t] \in {"single", "eventStop", "dispose", "post"} => ~get_files
         /\ (pc[t] = "retrieve" /\ ~get_files) \/ pc[t] \in {"dispose", "post"} => given[t]

\* only files that have been on the server are listed and processed
SeenInv ==
  /\ \A t \in Thread : \A f \in files[t] : place[f] # 0
  /\ \A f \in File : deliveries[f] # 0 => place[f] # 0

\* a loop that goes on does not find a file again that it has processed
GoneInv ==
  Disposes /\ alone => \A f \in File : deliveries[f] # 0 =>
    /\ deliveries[f] = 1
    /\ \A t \in Running :
         \/ pc[t] = "fail"
         \/ pc[t] = "dispose" /\ f = First(t)
         \/ /\ place[f] = Gone
            /\ pc[t] \in Handling /\ f \in files[t] => pc[t] = "post" /\ f = First(t)

LoopInv == AloneInv /\ StageInv /\ SeenInv /\ GoneInv

IInv == TypeInv /\ LoopInv

-----------------------------------------------------------------------------
\* What the proofs use of the constants.
LEMMA Consts ==
  /\ NoThread \notin Thread /\ Dirs \in Nat \ {0} /\ Disposes \in BOOLEAN
  /\ Thread = Caller \cup Worker
BY PollerAssumption DEF Thread

\* The file at the head of a list is on it.
LEMMA FirstListed ==
  ASSUME NEW t, files[t] # {}
  PROVE  First(t) \in files[t]
BY DEF First

\* When no thread is counted, none is in run() and none has been lost.
LEMMA NoneCounted ==
  ASSUME CountInv, sc = 0
  PROVE  Running = {} /\ ~lost
<1>1. Cardinality(Running) \in Nat
  BY FS_CardinalityType DEF CountInv
<1>2. Cardinality(Running) = 0 /\ ~lost
  BY <1>1 DEF CountInv
<1> QED BY <1>2, FS_EmptySet DEF CountInv

\* The count stays right when no thread enters or leaves run().
LEMMA CountKept ==
  ASSUME CountInv, Running' = Running, sc' = sc, lost' = lost
  PROVE  CountInv'
BY DEF CountInv

\* It stays right when a thread enters run() and is counted.
LEMMA CountUp ==
  ASSUME CountInv, NEW t, t \notin Running, Running' = Running \cup {t}, sc' = sc + 1, lost' = lost
  PROVE  CountInv'
<1>1. IsFiniteSet(Running') /\ Cardinality(Running') = Cardinality(Running) + 1
  BY FS_AddElement DEF CountInv
<1>2. Cardinality(Running) \in Nat
  BY FS_CardinalityType DEF CountInv
<1> QED BY <1>1, <1>2 DEF CountInv

\* It stays right when a thread leaves run() and is no longer counted.
LEMMA CountDown ==
  ASSUME CountInv, NEW t, t \in Running, Running' = Running \ {t}, sc' = sc - 1, lost' = lost
  PROVE  CountInv'
<1>1. IsFiniteSet(Running') /\ Cardinality(Running') = Cardinality(Running) - 1
  BY FS_RemoveElement DEF CountInv
<1>2. Cardinality(Running) \in Nat
  BY FS_CardinalityType DEF CountInv
<1> QED BY <1>1, <1>2 DEF CountInv

\* It is one more when the first thread to be counted is lost.
LEMMA CountLost ==
  ASSUME CountInv, sc = 0, Running' = Running, sc' = sc + 1, lost'
  PROVE  CountInv'
<1>1. Running = {}
  BY NoneCounted
<1> QED BY <1>1, FS_EmptySet DEF CountInv

\* A call begins.
LEMMA CallType ==
  ASSUME TypeInv, NEW t \in Thread, Call(t)
  PROVE  TypeInv'
<1>1. FlagsOK'
  BY Consts DEF TypeInv, FlagsOK, Call, lockVars, loopVars, historyVars
<1>2. ThreadsOK'
  BY Consts DEF TypeInv, ThreadsOK, Stage, Call, Goto, lockVars
<1>3. FilesOK'
  BY Consts DEF TypeInv, FilesOK, Gone, Call, loopVars, historyVars
<1>4. CountInv'
  <2>1. Running' = Running /\ sc' = sc /\ lost' = lost
    BY DEF Running, Polling, Call, Goto, Calls, lockVars, historyVars
  <2> QED BY <2>1, CountKept DEF TypeInv
<1> QED BY <1>1, <1>2, <1>3, <1>4 DEF TypeInv

\* start() finds the poller running.
LEMMA StartRunningType ==
  ASSUME TypeInv, NEW t \in Thread, StartRunning(t)
  PROVE  TypeInv'
<1>1. FlagsOK'
  BY Consts DEF TypeInv, FlagsOK, StartRunning, lockVars, loopVars, historyVars
<1>2. ThreadsOK'
  BY Consts DEF TypeInv, ThreadsOK, Stage, StartRunning, Goto, lockVars
<1>3. FilesOK'
  BY Consts DEF TypeInv, FilesOK, Gone, StartRunning, loopVars, historyVars
<1>4. CountInv'
  <2>1. Running' = Running /\ sc' = sc /\ lost' = lost
    BY DEF Running, Polling, StartRunning, Goto, lockVars, historyVars
  <2> QED BY <2>1, CountKept DEF TypeInv
<1> QED BY <1>1, <1>2, <1>3, <1>4 DEF TypeInv

\* start() takes the mutex.
LEMMA StartType ==
  ASSUME TypeInv, NEW t \in Thread, Start(t)
  PROVE  TypeInv'
<1>1. FlagsOK'
  BY Consts DEF TypeInv, FlagsOK, Start, loopVars, historyVars
<1>2. ThreadsOK'
  BY Consts DEF TypeInv, ThreadsOK, Stage, Waiting, Start, Goto, Lock
<1>3. FilesOK'
  BY Consts DEF TypeInv, FilesOK, Gone, Start, loopVars, historyVars
<1>4. CountInv'
  <2>1. Running' = Running /\ sc' = sc /\ lost' = lost
    BY DEF Running, Polling, Start, Goto, historyVars
  <2> QED BY <2>1, CountKept DEF TypeInv
<1> QED BY <1>1, <1>2, <1>3, <1>4 DEF TypeInv

\* start() starts a thread, which is then in run() and counted.
LEMMA StartThreadType ==
  ASSUME TypeInv, NEW t \in Thread, StartThread(t)
  PROVE  TypeInv'
<1>1. FlagsOK'
  BY Consts DEF TypeInv, FlagsOK, StartThread, loopVars
<1>2. ThreadsOK'
  BY Consts DEF TypeInv, ThreadsOK, Stage, Waiting, Polling, StartThread, Goto
<1>3. FilesOK'
  BY Consts DEF TypeInv, FilesOK, Gone, StartThread, loopVars
<1>4. CountInv'
  <2>1. PICK w \in Worker : pc[w] = "idle" /\ pc' = [pc EXCEPT ![t] = "startTid", ![w] = "loop"]
    BY DEF StartThread
  <2>2. w \in Thread /\ w \notin Running /\ Running' = Running \cup {w}
    BY <2>1, Consts DEF TypeInv, ThreadsOK, Running, Polling, StartThread
  <2> QED BY <2>2, CountUp DEF TypeInv, StartThread, CountThread
<1> QED BY <1>1, <1>2, <1>3, <1>4 DEF TypeInv

\* start() has counted a thread and cannot create it: it stays counted.
LEMMA StartFailsType ==
  ASSUME TypeInv, NEW t \in Thread, StartFails(t)
  PROVE  TypeInv'
<1>1. FlagsOK'
  BY Consts DEF TypeInv, FlagsOK, StartFails, loopVars
<1>2. ThreadsOK'
  BY Consts DEF TypeInv, ThreadsOK, Stage, Waiting, StartFails, Goto, Unlock
<1>3. FilesOK'
  BY Consts DEF TypeInv, FilesOK, Gone, StartFails, loopVars
<1>4. CountInv'
  <2>1. Running' = Running /\ lost' /\ sc' = sc + 1
    BY DEF Running, Polling, StartFails, CountThread, Goto
  <2>2. sc = 0
    BY DEF StartFails, OldLoopGone
  <2> QED BY <2>1, <2>2, CountLost DEF TypeInv
<1> QED BY <1>1, <1>2, <1>3, <1>4 DEF TypeInv

\* start() stores the thread and frees the mutex.
LEMMA StartReturnType ==
  ASSUME TypeInv, NEW t \in Thread, StartReturn(t)
  PROVE  TypeInv'
<1>1. FlagsOK'
  BY Consts DEF TypeInv, FlagsOK, StartReturn, loopVars, historyVars
<1>2. ThreadsOK'
  BY Consts DEF TypeInv, ThreadsOK, Stage, Waiting, StartReturn, Goto, Unlock
<1>3. FilesOK'
  BY Consts DEF TypeInv, FilesOK, Gone, StartReturn, loopVars, historyVars
<1>4. CountInv'
  <2>1. Running' = Running /\ sc' = sc /\ lost' = lost
    BY DEF Running, Polling, StartReturn, Goto, historyVars
  <2> QED BY <2>1, CountKept DEF TypeInv
<1> QED BY <1>1, <1>2, <1>3, <1>4 DEF TypeInv

\* stop() is refused in the polling thread.
LEMMA StopRefusedType ==
  ASSUME TypeInv, NEW t \in Thread, StopRefused(t)
  PROVE  TypeInv'
<1>1. FlagsOK'
  BY Consts DEF TypeInv, FlagsOK, StopRefused, lockVars, loopVars, historyVars
<1>2. ThreadsOK'
  BY Consts DEF TypeInv, ThreadsOK, Stage, StopRefused, Goto, lockVars
<1>3. FilesOK'
  BY Consts DEF TypeInv, FilesOK, Gone, StopRefused, loopVars, historyVars
<1>4. CountInv'
  <2>1. Running' = Running /\ sc' = sc /\ lost' = lost
    BY DEF Running, Polling, StopRefused, Goto, lockVars, historyVars
  <2> QED BY <2>1, CountKept DEF TypeInv
<1> QED BY <1>1, <1>2, <1>3, <1>4 DEF TypeInv

\* stop() takes the mutex and clears the flag.
LEMMA StopType ==
  ASSUME TypeInv, NEW t \in Thread, Stop(t)
  PROVE  TypeInv'
<1>1. FlagsOK'
  BY Consts DEF TypeInv, FlagsOK, Stop, loopVars, historyVars
<1>2. ThreadsOK'
  BY Consts DEF TypeInv, ThreadsOK, Stage, Waiting, Stop, Goto, Lock
<1>3. FilesOK'
  BY Consts DEF TypeInv, FilesOK, Gone, Stop, loopVars, historyVars
<1>4. CountInv'
  <2>1. Running' = Running /\ sc' = sc /\ lost' = lost
    BY DEF Running, Polling, Stop, Goto, historyVars
  <2> QED BY <2>1, CountKept DEF TypeInv
<1> QED BY <1>1, <1>2, <1>3, <1>4 DEF TypeInv

\* stop() ends when no thread is counted.
LEMMA StopReturnType ==
  ASSUME TypeInv, NEW t \in Thread, StopReturn(t)
  PROVE  TypeInv'
<1>1. FlagsOK'
  BY Consts DEF TypeInv, FlagsOK, StopReturn, loopVars, historyVars
<1>2. ThreadsOK'
  BY Consts DEF TypeInv, ThreadsOK, Stage, Waiting, StopReturn, Goto, Unlock
<1>3. FilesOK'
  BY Consts DEF TypeInv, FilesOK, Gone, StopReturn, loopVars, historyVars
<1>4. CountInv'
  <2>1. Running' = Running /\ sc' = sc /\ lost' = lost
    BY DEF Running, Polling, StopReturn, Goto, historyVars
  <2> QED BY <2>1, CountKept DEF TypeInv
<1> QED BY <1>1, <1>2, <1>3, <1>4 DEF TypeInv

\* stopNoWait() clears the flag.
LEMMA StopNoWaitType ==
  ASSUME TypeInv, NEW t \in Thread, StopNoWait(t)
  PROVE  TypeInv'
<1>1. FlagsOK'
  BY Consts DEF TypeInv, FlagsOK, StopNoWait, loopVars, historyVars
<1>2. ThreadsOK'
  BY Consts DEF TypeInv, ThreadsOK, Stage, Polling, StopNoWait, Goto
<1>3. FilesOK'
  BY Consts DEF TypeInv, FilesOK, Gone, StopNoWait, loopVars, historyVars
<1>4. CountInv'
  <2>1. Running' = Running /\ sc' = sc /\ lost' = lost
    BY DEF Running, Polling, StopNoWait, Goto, historyVars
  <2> QED BY <2>1, CountKept DEF TypeInv
<1> QED BY <1>1, <1>2, <1>3, <1>4 DEF TypeInv

\* waitStop() ends when no thread is counted.
LEMMA WaitStopType ==
  ASSUME TypeInv, NEW t \in Thread, WaitStop(t)
  PROVE  TypeInv'
<1>1. FlagsOK'
  BY Consts DEF TypeInv, FlagsOK, WaitStop, lockVars, loopVars, historyVars
<1>2. ThreadsOK'
  BY Consts DEF TypeInv, ThreadsOK, Stage, WaitStop, Goto, lockVars
<1>3. FilesOK'
  BY Consts DEF TypeInv, FilesOK, Gone, WaitStop, loopVars, historyVars
<1>4. CountInv'
  <2>1. Running' = Running /\ sc' = sc /\ lost' = lost
    BY DEF Running, Polling, WaitStop, Goto, lockVars, historyVars
  <2> QED BY <2>1, CountKept DEF TypeInv
<1> QED BY <1>1, <1>2, <1>3, <1>4 DEF TypeInv

\* startInline() finds the poller running or not.
LEMMA StartInlineType ==
  ASSUME TypeInv, NEW t \in Thread, StartInline(t)
  PROVE  TypeInv'
<1>1. FlagsOK'
  BY Consts DEF TypeInv, FlagsOK, StartInline, loopVars, historyVars
<1>2. ThreadsOK'
  BY Consts DEF TypeInv, ThreadsOK, Stage, Waiting, StartInline, Goto
<1>3. FilesOK'
  BY Consts DEF TypeInv, FilesOK, Gone, StartInline, loopVars, historyVars
<1>4. CountInv'
  <2>1. Running' = Running /\ sc' = sc /\ lost' = lost
    BY DEF TypeInv, ThreadsOK, Running, Polling, StartInline, Goto, historyVars
  <2> QED BY <2>1, CountKept DEF TypeInv
<1> QED BY <1>1, <1>2, <1>3, <1>4 DEF TypeInv

\* startInline() counts its thread, which is then in run().
LEMMA InlineIncType ==
  ASSUME TypeInv, NEW t \in Thread, InlineInc(t)
  PROVE  TypeInv'
<1>1. FlagsOK'
  BY Consts DEF TypeInv, FlagsOK, InlineInc, loopVars
<1>2. ThreadsOK'
  BY Consts DEF TypeInv, ThreadsOK, Stage, Waiting, Polling, InlineInc, Goto
<1>3. FilesOK'
  BY Consts DEF TypeInv, FilesOK, Gone, InlineInc, loopVars
<1>4. CountInv'
  <2>1. t \notin Running /\ Running' = Running \cup {t}
    BY DEF TypeInv, ThreadsOK, Running, Polling, InlineInc, Goto
  <2> QED BY <2>1, CountUp DEF TypeInv, InlineInc
<1> QED BY <1>1, <1>2, <1>3, <1>4 DEF TypeInv

\* The head of the loop.
LEMMA LoopType ==
  ASSUME TypeInv, NEW t \in Thread, Loop(t)
  PROVE  TypeInv'
<1>1. FlagsOK'
  BY Consts DEF TypeInv, FlagsOK, Loop, NoneGiven, lockVars, loopVars
<1>2. ThreadsOK'
  BY Consts DEF TypeInv, ThreadsOK, Stage, Polling, Loop, Goto, lockVars
<1>3. FilesOK'
  BY Consts DEF TypeInv, FilesOK, Gone, Loop, loopVars
<1>4. CountInv'
  <2>1. Running' = Running /\ sc' = sc /\ lost' = lost
    BY DEF Running, Polling, Loop, Goto, lockVars
  <2> QED BY <2>1, CountKept DEF TypeInv
<1> QED BY <1>1, <1>2, <1>3, <1>4 DEF TypeInv

\* A connection is set up, or that fails.
LEMMA SetupType ==
  ASSUME TypeInv, NEW t \in Thread, Setup(t)
  PROVE  TypeInv'
<1>1. FlagsOK'
  BY Consts DEF TypeInv, FlagsOK, Setup, lockVars, historyVars
<1>2. ThreadsOK'
  BY Consts DEF TypeInv, ThreadsOK, Stage, Polling, Setup, Goto, Catch, LeaveOnce, lockVars
<1>3. FilesOK'
  BY Consts DEF TypeInv, FilesOK, Gone, Setup, Catch, LeaveOnce, historyVars
<1>4. CountInv'
  <2>1. Running' = Running /\ sc' = sc /\ lost' = lost
    BY DEF TypeInv, ThreadsOK, Running, Polling, Setup, Goto, Catch, LeaveOnce, lockVars,
         historyVars
  <2> QED BY <2>1, CountKept DEF TypeInv
<1> QED BY <1>1, <1>2, <1>3, <1>4 DEF TypeInv

\* A directory is listed.
LEMMA ListType ==
  ASSUME TypeInv, NEW t \in Thread, List(t)
  PROVE  TypeInv'
<1>1. FlagsOK'
  BY Consts DEF TypeInv, FlagsOK, List, ErrorsRetried, NoneGiven, lockVars
<1>2. ThreadsOK'
  BY Consts DEF TypeInv, ThreadsOK, Stage, Polling, List, Goto, NextDir, LeaveOnce, lockVars
<1>3. FilesOK'
  BY Consts DEF TypeInv, FilesOK, Gone, List, NextDir, LeaveOnce
<1>4. CountInv'
  <2>1. Running' = Running /\ sc' = sc /\ lost' = lost
    BY DEF TypeInv, ThreadsOK, Running, Polling, List, Goto, NextDir, LeaveOnce, lockVars
  <2> QED BY <2>1, CountKept DEF TypeInv
<1> QED BY <1>1, <1>2, <1>3, <1>4 DEF TypeInv

\* A listing fails and is retried.
LEMMA ListFailsType ==
  ASSUME TypeInv, NEW t \in Thread, ListFails(t)
  PROVE  TypeInv'
<1>1. FlagsOK'
  BY Consts DEF TypeInv, FlagsOK, ListFails, ErrorsRetried, NoneGiven, lockVars
<1>2. ThreadsOK'
  BY Consts DEF TypeInv, ThreadsOK, Stage, Polling, ListFails, Goto, Catch, LeaveOnce, lockVars
<1>3. FilesOK'
  BY Consts DEF TypeInv, FilesOK, Gone, ListFails, Catch, LeaveOnce
<1>4. CountInv'
  <2>1. Running' = Running /\ sc' = sc /\ lost' = lost
    BY DEF TypeInv, ThreadsOK, Running, Polling, ListFails, Goto, Catch, LeaveOnce, lockVars
  <2> QED BY <2>1, CountKept DEF TypeInv
<1> QED BY <1>1, <1>2, <1>3, <1>4 DEF TypeInv

\* fileEvent() is called.
LEMMA FileEventType ==
  ASSUME TypeInv, NEW t \in Thread, FileEvent(t)
  PROVE  TypeInv'
<1>1. FlagsOK'
  BY Consts DEF TypeInv, FlagsOK, FileEvent, lockVars, historyVars
<1>2. ThreadsOK'
  BY Consts DEF TypeInv, ThreadsOK, Stage, Polling, FileEvent, Goto, NextDir, Catch, LeaveOnce,
       lockVars
<1>3. FilesOK'
  BY Consts DEF TypeInv, FilesOK, Gone, FileEvent, NextDir, Catch, LeaveOnce, historyVars
<1>4. CountInv'
  <2>1. Running' = Running /\ sc' = sc /\ lost' = lost
    BY DEF TypeInv, ThreadsOK, Running, Polling, FileEvent, Goto, NextDir, Catch, LeaveOnce,
         lockVars, historyVars
  <2> QED BY <2>1, CountKept DEF TypeInv
<1> QED BY <1>1, <1>2, <1>3, <1>4 DEF TypeInv

\* A file is retrieved, or that fails.
LEMMA RetrieveType ==
  ASSUME TypeInv, NEW t \in Thread, Retrieve(t)
  PROVE  TypeInv'
<1>1. FlagsOK'
  BY Consts DEF TypeInv, FlagsOK, Retrieve, lockVars, historyVars
<1>2. ThreadsOK'
  BY Consts DEF TypeInv, ThreadsOK, Stage, Polling, Retrieve, Goto, Catch, LeaveOnce, lockVars
<1>3. FilesOK'
  BY Consts DEF TypeInv, FilesOK, Gone, Retrieve, Catch, LeaveOnce, historyVars
<1>4. CountInv'
  <2>1. Running' = Running /\ sc' = sc /\ lost' = lost
    BY DEF TypeInv, ThreadsOK, Running, Polling, Retrieve, Goto, Catch, LeaveOnce, lockVars,
         historyVars
  <2> QED BY <2>1, CountKept DEF TypeInv
<1> QED BY <1>1, <1>2, <1>3, <1>4 DEF TypeInv

\* singleFileEvent() is called.
LEMMA SingleFileEventType ==
  ASSUME TypeInv, NEW t \in Thread, SingleFileEvent(t)
  PROVE  TypeInv'
<1>1. FlagsOK'
  BY Consts DEF TypeInv, FlagsOK, SingleFileEvent, lockVars
<1>2. ThreadsOK'
  BY Consts DEF TypeInv, ThreadsOK, Stage, Polling, SingleFileEvent, Goto, Catch, LeaveOnce,
       lockVars
<1>3. FilesOK'
  <2>1. ASSUME NEW x
        PROVE  [deliveries EXCEPT ![x] = IF alone /\ @ < 2 THEN @ + 1 ELSE @] \in [File -> 0..2]
    <3>1. CASE x \in File
      BY <3>1 DEF TypeInv, FilesOK
    <3>2. CASE x \notin File
      BY <3>2 DEF TypeInv, FilesOK
    <3> QED BY <3>1, <3>2
  <2>2. deliveries' \in [File -> 0..2]
    BY <2>1 DEF TypeInv, FilesOK, SingleFileEvent
  <2> QED BY <2>2, Consts DEF TypeInv, FilesOK, SingleFileEvent, Catch, LeaveOnce
<1>4. CountInv'
  <2>1. Running' = Running /\ sc' = sc /\ lost' = lost
    BY DEF TypeInv, ThreadsOK, Running, Polling, SingleFileEvent, Goto, Catch, LeaveOnce, lockVars
  <2> QED BY <2>1, CountKept DEF TypeInv
<1> QED BY <1>1, <1>2, <1>3, <1>4 DEF TypeInv

\* A file is deleted or moved, or that fails.
LEMMA DisposeType ==
  ASSUME TypeInv, NEW t \in Thread, Dispose(t)
  PROVE  TypeInv'
<1>1. FlagsOK'
  BY Consts DEF TypeInv, FlagsOK, Dispose, lockVars, historyVars
<1>2. ThreadsOK'
  BY Consts DEF TypeInv, ThreadsOK, Stage, Polling, Dispose, Goto, Catch, LeaveOnce, lockVars
<1>3. FilesOK'
  <2>1. ASSUME NEW x PROVE [place EXCEPT ![x] = Gone] \in [File -> 0..Gone]
    <3>1. Gone \in 0..Gone
      BY Consts DEF Gone
    <3> QED BY <3>1 DEF TypeInv, FilesOK
  <2>2. place' \in [File -> 0..Gone]
    BY <2>1 DEF TypeInv, FilesOK, Dispose
  <2> QED BY <2>2, Consts DEF TypeInv, FilesOK, Dispose, Catch, LeaveOnce, historyVars
<1>4. CountInv'
  <2>1. Running' = Running /\ sc' = sc /\ lost' = lost
    BY DEF TypeInv, ThreadsOK, Running, Polling, Dispose, Goto, Catch, LeaveOnce, lockVars,
         historyVars
  <2> QED BY <2>1, CountKept DEF TypeInv
<1> QED BY <1>1, <1>2, <1>3, <1>4 DEF TypeInv

\* postSingleFileEvent() is called.
LEMMA PostSingleFileEventType ==
  ASSUME TypeInv, NEW t \in Thread, PostSingleFileEvent(t)
  PROVE  TypeInv'
<1>1. FlagsOK'
  BY Consts DEF TypeInv, FlagsOK, PostSingleFileEvent, lockVars, historyVars
<1>2. ThreadsOK'
  BY Consts DEF TypeInv, ThreadsOK, Stage, Polling, PostSingleFileEvent, Goto, NextDir, Catch,
       LeaveOnce, lockVars
<1>3. FilesOK'
  BY Consts DEF TypeInv, FilesOK, Gone, PostSingleFileEvent, NextDir, Catch, LeaveOnce, historyVars
<1>4. CountInv'
  <2>1. Running' = Running /\ sc' = sc /\ lost' = lost
    BY DEF TypeInv, ThreadsOK, Running, Polling, PostSingleFileEvent, Goto, NextDir, Catch,
         LeaveOnce, lockVars, historyVars
  <2> QED BY <2>1, CountKept DEF TypeInv
<1> QED BY <1>1, <1>2, <1>3, <1>4 DEF TypeInv

\* The loop sleeps.
LEMMA SleepType ==
  ASSUME TypeInv, NEW t \in Thread, Sleep(t)
  PROVE  TypeInv'
<1>1. FlagsOK'
  BY Consts DEF TypeInv, FlagsOK, Sleep, lockVars, loopVars, historyVars
<1>2. ThreadsOK'
  BY Consts DEF TypeInv, ThreadsOK, Stage, Polling, Sleep, Goto, lockVars
<1>3. FilesOK'
  BY Consts DEF TypeInv, FilesOK, Gone, Sleep, loopVars, historyVars
<1>4. CountInv'
  <2>1. Running' = Running /\ sc' = sc /\ lost' = lost
    BY DEF TypeInv, ThreadsOK, Running, Polling, Sleep, Goto, lockVars, historyVars
  <2> QED BY <2>1, CountKept DEF TypeInv
<1> QED BY <1>1, <1>2, <1>3, <1>4 DEF TypeInv

\* run() ends, and its thread is no longer counted.
LEMMA RunExitType ==
  ASSUME TypeInv, NEW t \in Thread, RunExit(t)
  PROVE  TypeInv'
<1>1. FlagsOK'
  BY Consts DEF TypeInv, FlagsOK, RunExit, NoneGiven, loopVars
<1>2. ThreadsOK'
  BY Consts DEF TypeInv, ThreadsOK, Stage, Polling, RunExit, Goto
<1>3. FilesOK'
  BY Consts DEF TypeInv, FilesOK, Gone, RunExit, loopVars
<1>4. CountInv'
  <2>1. t \in Running /\ Running' = Running \ {t}
    BY DEF TypeInv, ThreadsOK, Running, Polling, RunExit, Goto
  <2> QED BY <2>1, CountDown DEF TypeInv, RunExit
<1> QED BY <1>1, <1>2, <1>3, <1>4 DEF TypeInv

\* The application stops the poller in an event.
LEMMA EventStopType ==
  ASSUME TypeInv, NEW t \in Thread, EventStop(t)
  PROVE  TypeInv'
<1>1. FlagsOK'
  BY Consts DEF TypeInv, FlagsOK, EventStop, lockVars, loopVars, historyVars
<1>2. ThreadsOK'
  BY Consts DEF TypeInv, ThreadsOK, Stage, Polling, EventStop, Goto, lockVars
<1>3. FilesOK'
  BY Consts DEF TypeInv, FilesOK, Gone, EventStop, loopVars, historyVars
<1>4. CountInv'
  <2>1. Running' = Running /\ sc' = sc /\ lost' = lost
    BY DEF Running, Polling, EventStop, Goto, lockVars, historyVars
  <2> QED BY <2>1, CountKept DEF TypeInv
<1> QED BY <1>1, <1>2, <1>3, <1>4 DEF TypeInv

\* The options change.
LEMMA UpdateOptionsType ==
  ASSUME TypeInv, UpdateOptions
  PROVE  TypeInv'
<1>1. FlagsOK'
  BY Consts DEF TypeInv, FlagsOK, UpdateOptions, lockVars, loopVars, historyVars
<1>2. ThreadsOK'
  BY Consts DEF TypeInv, ThreadsOK, Stage, UpdateOptions, lockVars
<1>3. FilesOK'
  BY Consts DEF TypeInv, FilesOK, Gone, UpdateOptions, loopVars, historyVars
<1>4. CountInv'
  <2>1. Running' = Running /\ sc' = sc /\ lost' = lost
    BY DEF Running, UpdateOptions, lockVars, historyVars
  <2> QED BY <2>1, CountKept DEF TypeInv
<1> QED BY <1>1, <1>2, <1>3, <1>4 DEF TypeInv

\* A file appears on the server.
LEMMA UploadType ==
  ASSUME TypeInv, Upload
  PROVE  TypeInv'
<1>1. FlagsOK'
  BY Consts DEF TypeInv, FlagsOK, Upload, lockVars, loopVars, historyVars
<1>2. ThreadsOK'
  BY Consts DEF TypeInv, ThreadsOK, Stage, Upload, lockVars
<1>3. FilesOK'
  BY Consts DEF TypeInv, FilesOK, Gone, Upload, loopVars, historyVars
<1>4. CountInv'
  <2>1. Running' = Running /\ sc' = sc /\ lost' = lost
    BY DEF Running, Upload, lockVars, historyVars
  <2> QED BY <2>1, CountKept DEF TypeInv
<1> QED BY <1>1, <1>2, <1>3, <1>4 DEF TypeInv

\* Nothing changes.
LEMMA StutterType ==
  ASSUME TypeInv, UNCHANGED vars
  PROVE  TypeInv'
<1>1. FlagsOK'
  BY Consts DEF TypeInv, FlagsOK, vars, lockVars, loopVars, historyVars
<1>2. ThreadsOK'
  BY Consts DEF TypeInv, ThreadsOK, Stage, vars, lockVars
<1>3. FilesOK'
  BY Consts DEF TypeInv, FilesOK, Gone, vars, loopVars, historyVars
<1>4. CountInv'
  <2>1. Running' = Running /\ sc' = sc /\ lost' = lost
    BY DEF Running, vars, lockVars, historyVars
  <2> QED BY <2>1, CountKept DEF TypeInv
<1> QED BY <1>1, <1>2, <1>3, <1>4 DEF TypeInv

\* Every step keeps the types and the count.
LEMMA NextType == TypeInv /\ [Next]_vars => TypeInv'
<1> SUFFICES ASSUME TypeInv, [Next]_vars PROVE TypeInv'
  OBVIOUS
<1>1. ASSUME NEW t \in Thread, Method(t) PROVE TypeInv'
  BY <1>1, StartRunningType, StartType, StartThreadType, StartFailsType, StartReturnType,
       StopRefusedType, StopType, StopReturnType, StopNoWaitType, WaitStopType, StartInlineType,
       InlineIncType DEF Method
<1>2. ASSUME NEW t \in Thread, Run(t) PROVE TypeInv'
  BY <1>2, LoopType, SetupType, ListType, ListFailsType, FileEventType, RetrieveType,
       SingleFileEventType, DisposeType, PostSingleFileEventType, SleepType, RunExitType DEF Run
<1> QED BY <1>1, <1>2, CallType, EventStopType, UpdateOptionsType, UploadType, StutterType DEF Next

\* At first no thread is in run().
LEMMA InitType == Init => TypeInv
<1> SUFFICES ASSUME Init PROVE TypeInv
  OBVIOUS
<1>1. FlagsOK
  BY DEF Init, FlagsOK
<1>2. ThreadsOK
  BY DEF Init, ThreadsOK, Stage
<1>3. FilesOK
  BY Consts DEF Init, FilesOK, Gone
<1>4. CountInv
  <2>1. Running = {} /\ sc = 0 /\ ~lost
    BY DEF Init, Running, Polling
  <2> QED BY <2>1, FS_EmptySet DEF CountInv
<1> QED BY <1>1, <1>2, <1>3, <1>4 DEF TypeInv

\* The types and the count hold in every reachable state.
LEMMA AlwaysType == Spec => []TypeInv
BY InitType, NextType, PTL DEF Spec

\* The variables keep the values the code gives them, and sc is the number of threads
\* in run(), but for one more after a start() that could not create its thread, in
\* every interleaving of start(), startInline() and the ends of the loops.
THEOREM TypeCorrect == Spec => []TypeOK
<1>1. TypeInv => TypeOK
  BY DEF TypeInv, FlagsOK, ThreadsOK, FilesOK, CountInv, TypeOK
<1> QED BY <1>1, AlwaysType, PTL

\* When stop() returns, no thread is polling, for any number of threads in start(),
\* startInline() and stop(): stop() waits for sc to be 0 with the mutex, and sc
\* counts every thread in run().
THEOREM StoppedWhenStopped == Spec => StopMeansStopped
<1>1. ASSUME TypeInv, [Next]_vars, NEW t \in Thread, pc[t] = "stopWait", pc'[t] = "idle"
      PROVE  Running' = {}
  <2>1. ASSUME NEW u \in Thread, Method(u) PROVE StopReturn(t)
    BY <1>1, <2>1 DEF TypeInv, ThreadsOK, Method, StartRunning, Start, StartThread, StartFails,
         StartReturn, StopRefused, Stop, StopReturn, StopNoWait, WaitStop, StartInline, InlineInc,
         Goto
  <2>2. ASSUME NEW u \in Thread, Run(u) PROVE FALSE
    BY <1>1, <2>2 DEF TypeInv, ThreadsOK, Run, Loop, Setup, List, ListFails, FileEvent, Retrieve,
         SingleFileEvent, Dispose, PostSingleFileEvent, Sleep, RunExit, Goto, Catch, LeaveOnce,
         NextDir
  <2>3. ASSUME NEW u \in Thread, Call(u) \/ EventStop(u) PROVE FALSE
    BY <1>1, <2>3 DEF TypeInv, ThreadsOK, Call, EventStop, Goto
  <2>4. ~(UpdateOptions \/ Upload \/ UNCHANGED vars)
    BY <1>1 DEF UpdateOptions, Upload, vars
  <2>5. StopReturn(t)
    BY <1>1, <2>1, <2>2, <2>3, <2>4 DEF Next
  <2>6. sc = 0 /\ Running' = Running
    BY <1>1, <2>5 DEF StopReturn, Goto, Running, Polling
  <2>7. Running = {}
    BY <1>1, <2>6, NoneCounted DEF TypeInv
  <2> QED BY <2>6, <2>7
<1>2. TypeInv /\ [Next]_vars =>
        [\A t \in Thread : pc[t] = "stopWait" /\ pc'[t] = "idle" => Running' = {}]_vars
  BY <1>1
<1> QED BY <1>2, AlwaysType, PTL DEF Spec, StopMeansStopped

-----------------------------------------------------------------------------
\* A call begins: its thread is not in run().
LEMMA CallLoop ==
  ASSUME IInv, NEW t \in Thread, Call(t)
  PROVE  LoopInv'
<1>1. AloneInv'
  BY Consts DEF IInv, TypeInv, LoopInv, AloneInv, Running, Polling, Call, Goto, Calls, historyVars
<1>2. StageInv'
  BY Consts DEF IInv, TypeInv, LoopInv, FlagsOK, FilesOK, AloneInv, StageInv, Running, Polling,
       Handling, Call, Goto, Calls, loopVars, historyVars
<1>3. SeenInv'
  BY Consts DEF IInv, TypeInv, LoopInv, FilesOK, SeenInv, Call, loopVars, historyVars
<1>4. GoneInv'
  BY Consts DEF IInv, TypeInv, LoopInv, FilesOK, AloneInv, StageInv, GoneInv, Running, Handling,
       First, Polling, Call, Goto, Calls, loopVars, historyVars
<1> QED BY <1>1, <1>2, <1>3, <1>4 DEF LoopInv

\* start() finds the poller running.
LEMMA StartRunningLoop ==
  ASSUME IInv, NEW t \in Thread, StartRunning(t)
  PROVE  LoopInv'
<1>1. AloneInv'
  BY Consts DEF IInv, TypeInv, LoopInv, AloneInv, Running, Polling, StartRunning, Goto, historyVars
<1>2. StageInv'
  BY Consts DEF IInv, TypeInv, LoopInv, FlagsOK, FilesOK, AloneInv, StageInv, Running, Polling,
       Handling, StartRunning, Goto, loopVars, historyVars
<1>3. SeenInv'
  BY Consts DEF IInv, TypeInv, LoopInv, FilesOK, SeenInv, StartRunning, loopVars, historyVars
<1>4. GoneInv'
  BY Consts DEF IInv, TypeInv, LoopInv, FilesOK, AloneInv, StageInv, GoneInv, Running, Handling,
       First, Polling, StartRunning, Goto, loopVars, historyVars
<1> QED BY <1>1, <1>2, <1>3, <1>4 DEF LoopInv

\* start() takes the mutex: nothing of the loop changes.
LEMMA StartLoop ==
  ASSUME IInv, NEW t \in Thread, Start(t)
  PROVE  LoopInv'
<1>1. AloneInv'
  BY Consts DEF IInv, TypeInv, LoopInv, AloneInv, Running, Polling, Start, Goto, historyVars
<1>2. StageInv'
  BY Consts DEF IInv, TypeInv, LoopInv, FlagsOK, FilesOK, AloneInv, StageInv, Running, Polling,
       Handling, Start, Goto, loopVars, historyVars
<1>3. SeenInv'
  BY Consts DEF IInv, TypeInv, LoopInv, FilesOK, SeenInv, Start, loopVars, historyVars
<1>4. GoneInv'
  BY Consts DEF IInv, TypeInv, LoopInv, FilesOK, AloneInv, StageInv, GoneInv, Running, Handling,
       First, Polling, Start, Goto, loopVars, historyVars
<1> QED BY <1>1, <1>2, <1>3, <1>4 DEF LoopInv

\* start() starts a thread only when none is counted, hence none is in run().
LEMMA StartThreadLoop ==
  ASSUME IInv, NEW t \in Thread, StartThread(t)
  PROVE  LoopInv'
<1>1. Running = {} /\ ~lost
  BY NoneCounted DEF IInv, TypeInv, StartThread, OldLoopGone
<1>2. PICK w \in Worker : pc[w] = "idle" /\ pc' = [pc EXCEPT ![t] = "startTid", ![w] = "loop"]
  BY DEF StartThread
<1>3. Running' = {w}
  BY <1>1, <1>2, Consts DEF IInv, TypeInv, ThreadsOK, Running, Polling, StartThread
<1>4. AloneInv'
  BY <1>3 DEF AloneInv
<1>5. StageInv'
  BY <1>1, <1>2, Consts DEF IInv, TypeInv, ThreadsOK, StageInv, Running, Handling, Polling,
       StartThread
<1>6. SeenInv'
  BY DEF IInv, LoopInv, SeenInv, StartThread, loopVars
<1>7. GoneInv'
  BY DEF GoneInv, StartThread
<1> QED BY <1>4, <1>5, <1>6, <1>7 DEF LoopInv

\* start() cannot create a thread: none is in run().
LEMMA StartFailsLoop ==
  ASSUME IInv, NEW t \in Thread, StartFails(t)
  PROVE  LoopInv'
<1>1. AloneInv'
  BY Consts DEF IInv, TypeInv, LoopInv, AloneInv, Running, Polling, StartFails, Goto
<1>2. StageInv'
  BY Consts DEF IInv, TypeInv, LoopInv, FlagsOK, FilesOK, AloneInv, StageInv, Running, Polling,
       Handling, StartFails, Goto, loopVars
<1>3. SeenInv'
  BY Consts DEF IInv, TypeInv, LoopInv, FilesOK, SeenInv, StartFails, loopVars
<1>4. GoneInv'
  BY Consts DEF IInv, TypeInv, LoopInv, FilesOK, AloneInv, StageInv, GoneInv, Running, Handling,
       First, Polling, StartFails, Goto, loopVars
<1> QED BY <1>1, <1>2, <1>3, <1>4 DEF LoopInv

\* start() stores the thread and frees the mutex.
LEMMA StartReturnLoop ==
  ASSUME IInv, NEW t \in Thread, StartReturn(t)
  PROVE  LoopInv'
<1>1. AloneInv'
  BY Consts DEF IInv, TypeInv, LoopInv, AloneInv, Running, Polling, StartReturn, Goto, historyVars
<1>2. StageInv'
  BY Consts DEF IInv, TypeInv, LoopInv, FlagsOK, FilesOK, AloneInv, StageInv, Running, Polling,
       Handling, StartReturn, Goto, loopVars, historyVars
<1>3. SeenInv'
  BY Consts DEF IInv, TypeInv, LoopInv, FilesOK, SeenInv, StartReturn, loopVars, historyVars
<1>4. GoneInv'
  BY Consts DEF IInv, TypeInv, LoopInv, FilesOK, AloneInv, StageInv, GoneInv, Running, Handling,
       First, Polling, StartReturn, Goto, loopVars, historyVars
<1> QED BY <1>1, <1>2, <1>3, <1>4 DEF LoopInv

\* stop() is refused in the polling thread.
LEMMA StopRefusedLoop ==
  ASSUME IInv, NEW t \in Thread, StopRefused(t)
  PROVE  LoopInv'
<1>1. AloneInv'
  BY Consts DEF IInv, TypeInv, LoopInv, AloneInv, Running, Polling, StopRefused, Goto, historyVars
<1>2. StageInv'
  BY Consts DEF IInv, TypeInv, LoopInv, FlagsOK, FilesOK, AloneInv, StageInv, Running, Polling,
       Handling, StopRefused, Goto, loopVars, historyVars
<1>3. SeenInv'
  BY Consts DEF IInv, TypeInv, LoopInv, FilesOK, SeenInv, StopRefused, loopVars, historyVars
<1>4. GoneInv'
  BY Consts DEF IInv, TypeInv, LoopInv, FilesOK, AloneInv, StageInv, GoneInv, Running, Handling,
       First, Polling, StopRefused, Goto, loopVars, historyVars
<1> QED BY <1>1, <1>2, <1>3, <1>4 DEF LoopInv

\* stop() takes the mutex and clears the flag.
LEMMA StopLoop ==
  ASSUME IInv, NEW t \in Thread, Stop(t)
  PROVE  LoopInv'
<1>1. AloneInv'
  BY Consts DEF IInv, TypeInv, LoopInv, AloneInv, Running, Polling, Stop, Goto, historyVars
<1>2. StageInv'
  BY Consts DEF IInv, TypeInv, LoopInv, FlagsOK, FilesOK, AloneInv, StageInv, Running, Polling,
       Handling, Stop, Goto, loopVars, historyVars
<1>3. SeenInv'
  BY Consts DEF IInv, TypeInv, LoopInv, FilesOK, SeenInv, Stop, loopVars, historyVars
<1>4. GoneInv'
  BY Consts DEF IInv, TypeInv, LoopInv, FilesOK, AloneInv, StageInv, GoneInv, Running, Handling,
       First, Polling, Stop, Goto, loopVars, historyVars
<1> QED BY <1>1, <1>2, <1>3, <1>4 DEF LoopInv

\* stop() ends when no thread is counted.
LEMMA StopReturnLoop ==
  ASSUME IInv, NEW t \in Thread, StopReturn(t)
  PROVE  LoopInv'
<1>1. AloneInv'
  BY Consts DEF IInv, TypeInv, LoopInv, AloneInv, Running, Polling, StopReturn, Goto, historyVars
<1>2. StageInv'
  BY Consts DEF IInv, TypeInv, LoopInv, FlagsOK, FilesOK, AloneInv, StageInv, Running, Polling,
       Handling, StopReturn, Goto, loopVars, historyVars
<1>3. SeenInv'
  BY Consts DEF IInv, TypeInv, LoopInv, FilesOK, SeenInv, StopReturn, loopVars, historyVars
<1>4. GoneInv'
  BY Consts DEF IInv, TypeInv, LoopInv, FilesOK, AloneInv, StageInv, GoneInv, Running, Handling,
       First, Polling, StopReturn, Goto, loopVars, historyVars
<1> QED BY <1>1, <1>2, <1>3, <1>4 DEF LoopInv

\* stopNoWait() clears the flag.
LEMMA StopNoWaitLoop ==
  ASSUME IInv, NEW t \in Thread, StopNoWait(t)
  PROVE  LoopInv'
<1>1. AloneInv'
  BY Consts DEF IInv, TypeInv, LoopInv, AloneInv, Running, Polling, StopNoWait, Goto, historyVars
<1>2. StageInv'
  BY Consts DEF IInv, TypeInv, LoopInv, FlagsOK, FilesOK, AloneInv, StageInv, Running, Polling,
       Handling, StopNoWait, Goto, loopVars, historyVars
<1>3. SeenInv'
  BY Consts DEF IInv, TypeInv, LoopInv, FilesOK, SeenInv, StopNoWait, loopVars, historyVars
<1>4. GoneInv'
  BY Consts DEF IInv, TypeInv, LoopInv, FilesOK, AloneInv, StageInv, GoneInv, Running, Handling,
       First, Polling, StopNoWait, Goto, loopVars, historyVars
<1> QED BY <1>1, <1>2, <1>3, <1>4 DEF LoopInv

\* waitStop() ends when no thread is counted.
LEMMA WaitStopLoop ==
  ASSUME IInv, NEW t \in Thread, WaitStop(t)
  PROVE  LoopInv'
<1>1. AloneInv'
  BY Consts DEF IInv, TypeInv, LoopInv, AloneInv, Running, Polling, WaitStop, Goto, historyVars
<1>2. StageInv'
  BY Consts DEF IInv, TypeInv, LoopInv, FlagsOK, FilesOK, AloneInv, StageInv, Running, Polling,
       Handling, WaitStop, Goto, loopVars, historyVars
<1>3. SeenInv'
  BY Consts DEF IInv, TypeInv, LoopInv, FilesOK, SeenInv, WaitStop, loopVars, historyVars
<1>4. GoneInv'
  BY Consts DEF IInv, TypeInv, LoopInv, FilesOK, AloneInv, StageInv, GoneInv, Running, Handling,
       First, Polling, WaitStop, Goto, loopVars, historyVars
<1> QED BY <1>1, <1>2, <1>3, <1>4 DEF LoopInv

\* startInline() finds the poller running or not; it is not in run() yet.
LEMMA StartInlineLoop ==
  ASSUME IInv, NEW t \in Thread, StartInline(t)
  PROVE  LoopInv'
<1>1. AloneInv'
  BY Consts DEF IInv, TypeInv, ThreadsOK, LoopInv, AloneInv, Running, Polling, StartInline, Goto,
       historyVars
<1>2. StageInv'
  BY Consts DEF IInv, TypeInv, ThreadsOK, LoopInv, FlagsOK, FilesOK, AloneInv, StageInv, Running,
       Polling, Handling, StartInline, Goto, loopVars, historyVars
<1>3. SeenInv'
  BY Consts DEF IInv, TypeInv, LoopInv, FilesOK, SeenInv, StartInline, loopVars, historyVars
<1>4. GoneInv'
  BY Consts DEF IInv, TypeInv, ThreadsOK, LoopInv, FilesOK, AloneInv, StageInv, GoneInv, Running,
       Handling, First, Polling, StartInline, Goto, loopVars, historyVars
<1> QED BY <1>1, <1>2, <1>3, <1>4 DEF LoopInv

\* startInline() enters run(), as the only thread or not.
LEMMA InlineIncLoop ==
  ASSUME IInv, NEW t \in Thread, InlineInc(t)
  PROVE  LoopInv'
<1>1. Running' = Running \cup {t}
  BY DEF IInv, TypeInv, ThreadsOK, Running, Polling, InlineInc, Goto
<1>2. AloneInv'
  BY <1>1 DEF AloneInv, InlineInc
<1>3. StageInv'
  BY DEF IInv, TypeInv, ThreadsOK, LoopInv, StageInv, Running, Handling, Polling, InlineInc, Goto,
       loopVars
<1>4. SeenInv'
  BY DEF IInv, LoopInv, SeenInv, InlineInc, loopVars
<1>5. GoneInv'
  BY DEF GoneInv, InlineInc
<1> QED BY <1>2, <1>3, <1>4, <1>5 DEF LoopInv

\* The head of the loop.
LEMMA LoopLoop ==
  ASSUME IInv, NEW t \in Thread, Loop(t)
  PROVE  LoopInv'
<1>1. AloneInv'
  BY Consts DEF IInv, TypeInv, LoopInv, AloneInv, Running, Polling, Loop, Goto
<1>2. StageInv'
  BY Consts DEF IInv, TypeInv, LoopInv, FlagsOK, FilesOK, AloneInv, StageInv, Running, Polling,
       Handling, Loop, Goto, NoneGiven, loopVars
<1>3. SeenInv'
  BY Consts DEF IInv, TypeInv, LoopInv, FilesOK, SeenInv, Loop, loopVars
<1>4. GoneInv'
  BY Consts DEF IInv, TypeInv, LoopInv, FilesOK, AloneInv, StageInv, GoneInv, Running, Handling,
       First, Polling, Loop, Goto, loopVars
<1> QED BY <1>1, <1>2, <1>3, <1>4 DEF LoopInv

\* A connection is set up, or that fails.
LEMMA SetupLoop ==
  ASSUME IInv, NEW t \in Thread, Setup(t)
  PROVE  LoopInv'
<1>1. AloneInv'
  BY Consts DEF IInv, TypeInv, ThreadsOK, LoopInv, AloneInv, Running, Polling, Setup, Goto, Catch,
       LeaveOnce, historyVars
<1>2. StageInv'
  BY Consts DEF IInv, TypeInv, ThreadsOK, LoopInv, FlagsOK, FilesOK, AloneInv, StageInv, Running,
       Polling, Handling, Setup, Goto, Catch, LeaveOnce, historyVars
<1>3. SeenInv'
  BY Consts DEF IInv, TypeInv, LoopInv, FilesOK, SeenInv, Setup, Catch, LeaveOnce, historyVars
<1>4. GoneInv'
  BY Consts DEF IInv, TypeInv, ThreadsOK, LoopInv, FilesOK, AloneInv, StageInv, GoneInv, Running,
       Handling, First, Polling, Setup, Goto, Catch, LeaveOnce, historyVars
<1> QED BY <1>1, <1>2, <1>3, <1>4 DEF LoopInv

\* What is listed is on the server, and no file that has been processed is.
LEMMA ListLoop ==
  ASSUME IInv, NEW t \in Thread, List(t)
  PROVE  LoopInv'
<1>1. AloneInv'
  BY Consts DEF IInv, TypeInv, ThreadsOK, LoopInv, AloneInv, Running, Polling, List, Goto, NextDir,
       LeaveOnce
<1>2. StageInv'
  BY Consts DEF IInv, TypeInv, ThreadsOK, LoopInv, FlagsOK, FilesOK, AloneInv, StageInv, Running,
       Polling, Handling, List, Goto, ErrorsRetried, NextDir, LeaveOnce, NoneGiven
<1>3. SeenInv'
  BY Consts DEF IInv, TypeInv, LoopInv, FilesOK, SeenInv, Gone, List, NextDir, LeaveOnce
<1>4. GoneInv'
  BY Consts DEF IInv, TypeInv, ThreadsOK, LoopInv, FilesOK, AloneInv, StageInv, SeenInv, GoneInv,
       Gone, Running, Handling, First, Polling, List, Goto, ErrorsRetried, NextDir, LeaveOnce
<1> QED BY <1>1, <1>2, <1>3, <1>4 DEF LoopInv

\* A listing that fails has no files.
LEMMA ListFailsLoop ==
  ASSUME IInv, NEW t \in Thread, ListFails(t)
  PROVE  LoopInv'
<1>1. AloneInv'
  BY Consts DEF IInv, TypeInv, ThreadsOK, LoopInv, AloneInv, Running, Polling, ListFails, Goto,
       Catch, LeaveOnce
<1>2. StageInv'
  BY Consts DEF IInv, TypeInv, ThreadsOK, LoopInv, FlagsOK, FilesOK, AloneInv, StageInv, Running,
       Polling, Handling, ListFails, Goto, ErrorsRetried, Catch, LeaveOnce, NoneGiven
<1>3. SeenInv'
  BY Consts DEF IInv, TypeInv, LoopInv, FilesOK, SeenInv, ListFails, Catch, LeaveOnce
<1>4. GoneInv'
  BY Consts DEF IInv, TypeInv, ThreadsOK, LoopInv, FilesOK, AloneInv, StageInv, GoneInv, Running,
       Handling, First, Polling, ListFails, Goto, ErrorsRetried, Catch, LeaveOnce
<1> QED BY <1>1, <1>2, <1>3, <1>4 DEF LoopInv

\* fileEvent() is called for listed files before any of them is retrieved.
LEMMA FileEventLoop ==
  ASSUME IInv, NEW t \in Thread, FileEvent(t)
  PROVE  LoopInv'
<1>1. AloneInv'
  BY Consts DEF IInv, TypeInv, ThreadsOK, LoopInv, AloneInv, Running, Polling, FileEvent, Goto,
       NextDir, Catch, LeaveOnce, historyVars
<1>2. StageInv'
  BY Consts DEF IInv, TypeInv, ThreadsOK, LoopInv, FlagsOK, FilesOK, AloneInv, StageInv, Running,
       Polling, Handling, FileEvent, Goto, NextDir, Catch, LeaveOnce, historyVars
<1>3. SeenInv'
  BY Consts DEF IInv, TypeInv, LoopInv, FilesOK, SeenInv, FileEvent, NextDir, Catch, LeaveOnce,
       historyVars
<1>4. GoneInv'
  BY Consts DEF IInv, TypeInv, ThreadsOK, LoopInv, FilesOK, AloneInv, StageInv, GoneInv, Running,
       Handling, First, Polling, FileEvent, Goto, NextDir, Catch, LeaveOnce, historyVars
<1> QED BY <1>1, <1>2, <1>3, <1>4 DEF LoopInv

\* An error in the retrieval ends polling only if get_files has been cleared, that is
\* after an event in the same directory.
LEMMA RetrieveLoop ==
  ASSUME IInv, NEW t \in Thread, Retrieve(t)
  PROVE  LoopInv'
<1>1. AloneInv'
  BY Consts DEF IInv, TypeInv, ThreadsOK, LoopInv, AloneInv, Running, Polling, Retrieve, Goto,
       Catch, LeaveOnce, historyVars
<1>2. StageInv'
  BY Consts DEF IInv, TypeInv, ThreadsOK, LoopInv, FlagsOK, FilesOK, AloneInv, StageInv, Running,
       Polling, Handling, Retrieve, Goto, Catch, LeaveOnce, historyVars
<1>3. SeenInv'
  BY Consts DEF IInv, TypeInv, LoopInv, FilesOK, SeenInv, Retrieve, Catch, LeaveOnce, historyVars
<1>4. GoneInv'
  BY Consts DEF IInv, TypeInv, ThreadsOK, LoopInv, FilesOK, AloneInv, StageInv, GoneInv, Running,
       Handling, First, Polling, Retrieve, Goto, Catch, LeaveOnce, historyVars
<1> QED BY <1>1, <1>2, <1>3, <1>4 DEF LoopInv

\* The file at the head has not been processed before; it is now and is to be disposed
\* of, or polling ends.
LEMMA SingleFileEventLoop ==
  ASSUME IInv, NEW t \in Thread, SingleFileEvent(t)
  PROVE  LoopInv'
<1>1. First(t) \in files[t] /\ First(t) \in File
  BY FirstListed DEF IInv, TypeInv, FilesOK, LoopInv, StageInv, Handling, SingleFileEvent
<1>2. AloneInv'
  BY DEF IInv, TypeInv, ThreadsOK, LoopInv, AloneInv, Running, Polling, SingleFileEvent, Goto,
       Catch, LeaveOnce
<1>3. StageInv'
  BY DEF IInv, TypeInv, ThreadsOK, LoopInv, FlagsOK, FilesOK, AloneInv, StageInv, Running, Polling,
       Handling, SingleFileEvent, Goto, Catch, LeaveOnce
<1>4. SeenInv'
  BY <1>1 DEF IInv, TypeInv, LoopInv, FilesOK, SeenInv, SingleFileEvent, Catch, LeaveOnce
<1>5. GoneInv'
  <2> SUFFICES ASSUME Disposes, alone, NEW f \in File, deliveries'[f] # 0
               PROVE  /\ deliveries'[f] = 1
                      /\ \A u \in Running' :
                           \/ pc'[u] = "fail"
                           \/ pc'[u] = "dispose" /\ f = First(u)'
                           \/ /\ place'[f] = Gone
                              /\ pc'[u] \in Handling /\ f \in files'[u] =>
                                   pc'[u] = "post" /\ f = First(u)'
    BY DEF GoneInv, SingleFileEvent
  <2>1. t \in Running /\ ~get_files
    BY DEF IInv, LoopInv, StageInv, SingleFileEvent, Running, Polling
  <2>2. \A u \in Running' : u = t
    BY <2>1 DEF IInv, TypeInv, ThreadsOK, LoopInv, AloneInv, Running, Polling, SingleFileEvent,
         Goto, Catch, LeaveOnce
  <2>3. deliveries[First(t)] = 0
    BY <1>1, <2>1 DEF IInv, LoopInv, GoneInv, SingleFileEvent, Handling
  <2>4. CASE pc'[t] = "fail"
    <3>1. deliveries' = deliveries
      BY <2>4 DEF IInv, TypeInv, ThreadsOK, SingleFileEvent, Goto
    <3> QED BY <2>2, <2>4, <3>1 DEF IInv, LoopInv, GoneInv
  <2>5. CASE pc'[t] # "fail"
    <3>1. /\ pc' = [pc EXCEPT ![t] = "dispose"]
          /\ files' = files /\ place' = place
          /\ deliveries' = [deliveries EXCEPT ![First(t)] = 1]
      BY <1>1, <2>1, <2>3, <2>5 DEF IInv, TypeInv, ThreadsOK, FilesOK, SingleFileEvent, Goto, Catch,
           LeaveOnce
    <3>2. First(t)' = First(t) /\ pc'[t] = "dispose"
      BY <3>1 DEF First, IInv, TypeInv, ThreadsOK
    <3>3. CASE f = First(t)
      BY <1>1, <2>2, <3>1, <3>2, <3>3 DEF IInv, TypeInv, FilesOK
    <3>4. CASE f # First(t)
      <4>1. deliveries[f] # 0 /\ deliveries'[f] = deliveries[f]
        BY <1>1, <3>1, <3>4 DEF IInv, TypeInv, FilesOK
      <4>2. deliveries[f] = 1 /\ place[f] = Gone /\ f \notin files[t]
        BY <2>1, <3>4, <4>1 DEF IInv, LoopInv, GoneInv, SingleFileEvent, Handling
      <4> QED BY <2>2, <3>1, <4>1, <4>2
    <3> QED BY <3>3, <3>4
  <2> QED BY <2>4, <2>5
<1> QED BY <1>2, <1>3, <1>4, <1>5 DEF LoopInv

\* A file that has been delivered leaves the server, or polling ends.
LEMMA DisposeLoop ==
  ASSUME IInv, NEW t \in Thread, Dispose(t)
  PROVE  LoopInv'
<1>1. AloneInv'
  BY DEF IInv, TypeInv, ThreadsOK, LoopInv, AloneInv, Running, Polling, Dispose, Goto, Catch,
       LeaveOnce, historyVars
<1>2. StageInv'
  BY DEF IInv, TypeInv, ThreadsOK, LoopInv, FlagsOK, FilesOK, AloneInv, StageInv, Running, Polling,
       Handling, Dispose, Goto, Catch, LeaveOnce, historyVars
<1>3. SeenInv'
  BY Consts DEF IInv, TypeInv, LoopInv, FilesOK, SeenInv, Gone, Dispose, Catch, LeaveOnce,
       historyVars
<1>4. GoneInv'
  <2> SUFFICES ASSUME Disposes, alone, NEW f \in File, deliveries[f] # 0
               PROVE  /\ deliveries[f] = 1
                      /\ \A u \in Running' :
                           \/ pc'[u] = "fail"
                           \/ pc'[u] = "dispose" /\ f = First(u)'
                           \/ /\ place'[f] = Gone
                              /\ pc'[u] \in Handling /\ f \in files'[u] =>
                                   pc'[u] = "post" /\ f = First(u)'
    BY DEF GoneInv, Dispose, historyVars
  <2>1. t \in Running /\ ~get_files /\ files[t] # {}
    BY DEF IInv, LoopInv, StageInv, Dispose, Running, Polling, Handling
  <2>2. \A u \in Running' : u = t
    BY <2>1 DEF IInv, TypeInv, ThreadsOK, LoopInv, AloneInv, Running, Polling, Dispose, Goto, Catch,
         LeaveOnce
  <2>3. deliveries[f] = 1
    BY DEF IInv, LoopInv, GoneInv
  <2>4. f = First(t) \/ (place[f] = Gone /\ f \notin files[t])
    BY <2>1 DEF IInv, LoopInv, GoneInv, Dispose, Handling
  <2>5. CASE pc'[t] = "fail"
    BY <2>2, <2>3, <2>5
  <2>6. CASE pc'[t] # "fail"
    <3>1. /\ pc' = [pc EXCEPT ![t] = "post"]
          /\ files' = files /\ place' = [place EXCEPT ![First(t)] = Gone]
      BY <2>1, <2>6 DEF IInv, TypeInv, ThreadsOK, Dispose, Goto, Catch, LeaveOnce
    <3>2. First(t)' = First(t) /\ pc'[t] = "post"
      BY <3>1 DEF First, IInv, TypeInv, ThreadsOK
    <3>3. place'[f] = Gone
      BY <2>4, <3>1 DEF IInv, TypeInv, FilesOK
    <3> QED BY <2>2, <2>3, <2>4, <3>1, <3>2, <3>3
  <2> QED BY <2>5, <2>6
<1> QED BY <1>1, <1>2, <1>3, <1>4 DEF LoopInv

\* The file at the head, which has left the server, is taken off the list.
LEMMA PostSingleFileEventLoop ==
  ASSUME IInv, NEW t \in Thread, PostSingleFileEvent(t)
  PROVE  LoopInv'
<1>1. AloneInv'
  BY Consts DEF IInv, TypeInv, ThreadsOK, LoopInv, AloneInv, Running, Polling, PostSingleFileEvent,
       Goto, NextDir, Catch, LeaveOnce, historyVars
<1>2. StageInv'
  BY Consts DEF IInv, TypeInv, ThreadsOK, LoopInv, FlagsOK, FilesOK, AloneInv, StageInv, Running,
       Polling, Handling, PostSingleFileEvent, Goto, NextDir, Catch, LeaveOnce, historyVars
<1>3. SeenInv'
  BY Consts DEF IInv, TypeInv, LoopInv, FilesOK, SeenInv, PostSingleFileEvent, NextDir, Catch,
       LeaveOnce, historyVars
<1>4. GoneInv'
  BY Consts DEF IInv, TypeInv, ThreadsOK, LoopInv, FilesOK, AloneInv, StageInv, GoneInv, Running,
       Handling, First, Polling, PostSingleFileEvent, Goto, NextDir, Catch, LeaveOnce, historyVars
<1> QED BY <1>1, <1>2, <1>3, <1>4 DEF LoopInv

\* The loop sleeps.
LEMMA SleepLoop ==
  ASSUME IInv, NEW t \in Thread, Sleep(t)
  PROVE  LoopInv'
<1>1. AloneInv'
  BY Consts DEF IInv, TypeInv, ThreadsOK, LoopInv, AloneInv, Running, Polling, Sleep, Goto,
       historyVars
<1>2. StageInv'
  BY Consts DEF IInv, TypeInv, ThreadsOK, LoopInv, FlagsOK, FilesOK, AloneInv, StageInv, Running,
       Polling, Handling, Sleep, Goto, loopVars, historyVars
<1>3. SeenInv'
  BY Consts DEF IInv, TypeInv, LoopInv, FilesOK, SeenInv, Sleep, loopVars, historyVars
<1>4. GoneInv'
  BY Consts DEF IInv, TypeInv, ThreadsOK, LoopInv, FilesOK, AloneInv, StageInv, GoneInv, Running,
       Handling, First, Polling, Sleep, Goto, loopVars, historyVars
<1> QED BY <1>1, <1>2, <1>3, <1>4 DEF LoopInv

\* run() ends.
LEMMA RunExitLoop ==
  ASSUME IInv, NEW t \in Thread, RunExit(t)
  PROVE  LoopInv'
<1>1. AloneInv'
  BY Consts DEF IInv, TypeInv, ThreadsOK, LoopInv, AloneInv, Running, Polling, RunExit, Goto
<1>2. StageInv'
  BY Consts DEF IInv, TypeInv, ThreadsOK, LoopInv, FlagsOK, FilesOK, AloneInv, StageInv, Running,
       Polling, Handling, RunExit, Goto, NoneGiven, loopVars
<1>3. SeenInv'
  BY Consts DEF IInv, TypeInv, LoopInv, FilesOK, SeenInv, RunExit, loopVars
<1>4. GoneInv'
  BY Consts DEF IInv, TypeInv, ThreadsOK, LoopInv, FilesOK, AloneInv, StageInv, GoneInv, Running,
       Handling, First, Polling, RunExit, Goto, loopVars
<1> QED BY <1>1, <1>2, <1>3, <1>4 DEF LoopInv

\* The application stops the poller in an event.
LEMMA EventStopLoop ==
  ASSUME IInv, NEW t \in Thread, EventStop(t)
  PROVE  LoopInv'
<1>1. AloneInv'
  BY Consts DEF IInv, TypeInv, LoopInv, AloneInv, Running, Polling, EventStop, Goto, historyVars
<1>2. StageInv'
  BY Consts DEF IInv, TypeInv, LoopInv, FlagsOK, FilesOK, AloneInv, StageInv, Running, Polling,
       Handling, EventStop, Goto, loopVars, historyVars
<1>3. SeenInv'
  BY Consts DEF IInv, TypeInv, LoopInv, FilesOK, SeenInv, EventStop, loopVars, historyVars
<1>4. GoneInv'
  BY Consts DEF IInv, TypeInv, LoopInv, FilesOK, AloneInv, StageInv, GoneInv, Running, Handling,
       First, Polling, EventStop, Goto, loopVars, historyVars
<1> QED BY <1>1, <1>2, <1>3, <1>4 DEF LoopInv

\* The options do not concern files that have been seen.
LEMMA UpdateOptionsLoop ==
  ASSUME IInv, UpdateOptions
  PROVE  LoopInv'
<1>1. AloneInv'
  BY Consts DEF IInv, TypeInv, LoopInv, AloneInv, Running, UpdateOptions, historyVars
<1>2. StageInv'
  BY Consts DEF IInv, TypeInv, LoopInv, FlagsOK, FilesOK, AloneInv, StageInv, Running,
       UpdateOptions, loopVars, historyVars
<1>3. SeenInv'
  BY Consts DEF IInv, TypeInv, LoopInv, FilesOK, SeenInv, UpdateOptions, loopVars, historyVars
<1>4. GoneInv'
  BY Consts DEF IInv, TypeInv, LoopInv, FilesOK, AloneInv, StageInv, GoneInv, Running, First,
       UpdateOptions, loopVars, historyVars
<1> QED BY <1>1, <1>2, <1>3, <1>4 DEF LoopInv

\* A file appears once, before it is listed.
LEMMA UploadLoop ==
  ASSUME IInv, Upload
  PROVE  LoopInv'
<1>1. AloneInv'
  BY Consts DEF IInv, TypeInv, LoopInv, AloneInv, Running, Upload, historyVars
<1>2. StageInv'
  BY Consts DEF IInv, TypeInv, LoopInv, FlagsOK, FilesOK, AloneInv, StageInv, Running, Upload,
       loopVars, historyVars
<1>3. SeenInv'
  BY Consts DEF IInv, TypeInv, LoopInv, FilesOK, SeenInv, Gone, Upload, loopVars, historyVars
<1>4. GoneInv'
  BY Consts DEF IInv, TypeInv, LoopInv, FilesOK, AloneInv, StageInv, SeenInv, GoneInv, Gone,
       Running, First, Upload, loopVars, historyVars
<1> QED BY <1>1, <1>2, <1>3, <1>4 DEF LoopInv

\* Nothing changes.
LEMMA StutterLoop ==
  ASSUME IInv, UNCHANGED vars
  PROVE  LoopInv'
<1>1. AloneInv'
  BY Consts DEF IInv, TypeInv, LoopInv, AloneInv, Running, vars, historyVars
<1>2. StageInv'
  BY Consts DEF IInv, TypeInv, LoopInv, FlagsOK, FilesOK, AloneInv, StageInv, Running, vars,
       loopVars, historyVars
<1>3. SeenInv'
  BY Consts DEF IInv, TypeInv, LoopInv, FilesOK, SeenInv, vars, loopVars, historyVars
<1>4. GoneInv'
  BY Consts DEF IInv, TypeInv, LoopInv, FilesOK, AloneInv, StageInv, GoneInv, Running, First, vars,
       loopVars, historyVars
<1> QED BY <1>1, <1>2, <1>3, <1>4 DEF LoopInv

\* Every step keeps the invariant of the loop.
LEMMA NextLoop == IInv /\ [Next]_vars => LoopInv'
<1> SUFFICES ASSUME IInv, [Next]_vars PROVE LoopInv'
  OBVIOUS
<1>1. ASSUME NEW t \in Thread, Method(t) PROVE LoopInv'
  BY <1>1, StartRunningLoop, StartLoop, StartThreadLoop, StartFailsLoop, StartReturnLoop,
       StopRefusedLoop, StopLoop, StopReturnLoop, StopNoWaitLoop, WaitStopLoop, StartInlineLoop,
       InlineIncLoop DEF Method
<1>2. ASSUME NEW t \in Thread, Run(t) PROVE LoopInv'
  BY <1>2, LoopLoop, SetupLoop, ListLoop, ListFailsLoop, FileEventLoop, RetrieveLoop,
       SingleFileEventLoop, DisposeLoop, PostSingleFileEventLoop, SleepLoop, RunExitLoop DEF Run
<1> QED BY <1>1, <1>2, CallLoop, EventStopLoop, UpdateOptionsLoop, UploadLoop, StutterLoop DEF Next

\* It holds at first.
LEMMA InitLoop == Init => LoopInv
BY DEF Init, LoopInv, AloneInv, StageInv, SeenInv, GoneInv, Running, Polling, Handling

\* It holds in every reachable state.
LEMMA AlwaysIInv == Spec => []IInv
<1>1. Init => IInv
  BY InitType, InitLoop DEF IInv
<1>2. IInv /\ [Next]_vars => IInv'
  BY NextType, NextLoop DEF IInv
<1> QED BY <1>1, <1>2, PTL DEF Spec

\* At most one thread polls until startInline() adds its own, however start(), stop()
\* and stopNoWait() are interleaved: start() starts a thread only when sc is 0.
THEOREM OneLoop == Spec => []OnePollLoop
<1>1. IInv => OnePollLoop
  <2> SUFFICES ASSUME IInv, alone PROVE Cardinality(Running) <= 1
    BY DEF OnePollLoop
  <2>1. CASE Running = {}
    BY <2>1, FS_EmptySet
  <2>2. ASSUME NEW t \in Running PROVE Cardinality(Running) <= 1
    <3>1. Running = {t}
      BY DEF IInv, LoopInv, AloneInv
    <3>2. Cardinality({t}) = 1
      BY FS_Singleton
    <3> QED BY <3>1, <3>2
  <2> QED BY <2>1, <2>2
<1> QED BY <1>1, AlwaysIInv, PTL

\* While a loop runs alone, singleFileEvent() returns at most once for a file that is
\* disposed of, whatever fails in between.
THEOREM FilesDeliveredOnce == Spec => []DeliveredOnce
<1>1. IInv => DeliveredOnce
  BY DEF IInv, LoopInv, GoneInv, DeliveredOnce
<1> QED BY <1>1, AlwaysIInv, PTL

\* While a loop runs alone, an error other than that of a new connection or of a sleep
\* ends polling only after a file of the directory has been given to the application.
THEOREM FailureAfterEvent == Spec => FailsAfterEvent
<1>1. ASSUME IInv, [Next]_vars, NEW t \in Thread, alone, pc[t] \notin {"setup", "sleep", "fail"},
             pc'[t] = "fail"
      PROVE  given'[t]
  <2>1. ASSUME NEW u \in Thread, Method(u) PROVE FALSE
    BY <1>1, <2>1 DEF IInv, TypeInv, ThreadsOK, Method, StartRunning, Start, StartThread,
         StartFails, StartReturn, StopRefused, Stop, StopReturn, StopNoWait, WaitStop, StartInline,
         InlineInc, Goto
  <2>2. ASSUME NEW u \in Thread,
               \/ Loop(u) \/ Setup(u) \/ List(u) \/ ListFails(u) \/ FileEvent(u)
               \/ Sleep(u) \/ RunExit(u)
        PROVE  FALSE
    BY <1>1, <2>2 DEF IInv, TypeInv, ThreadsOK, LoopInv, StageInv, Loop, Setup, List, ListFails,
         ErrorsRetried, FileEvent, Sleep, RunExit, Goto, Catch, LeaveOnce, NextDir
  <2>3. ASSUME NEW u \in Thread, Retrieve(u) \/ Dispose(u) \/ PostSingleFileEvent(u)
        PROVE  given'[t]
    BY <1>1, <2>3 DEF IInv, TypeInv, ThreadsOK, LoopInv, StageInv, Retrieve, Dispose,
         PostSingleFileEvent, Goto, Catch, LeaveOnce, NextDir, historyVars
  <2>4. ASSUME NEW u \in Thread, SingleFileEvent(u)
        PROVE  given'[t]
    BY <1>1, <2>4 DEF IInv, TypeInv, FlagsOK, ThreadsOK, SingleFileEvent, Goto, Catch, LeaveOnce
  <2>5. ASSUME NEW u \in Thread, Call(u) \/ EventStop(u) PROVE FALSE
    BY <1>1, <2>5 DEF IInv, TypeInv, ThreadsOK, Call, EventStop, Goto, Calls
  <2>6. ~(UpdateOptions \/ Upload \/ UNCHANGED vars)
    BY <1>1 DEF UpdateOptions, Upload, vars
  <2> QED BY <1>1, <2>1, <2>2, <2>3, <2>4, <2>5, <2>6 DEF Next, Run
<1>2. IInv /\ [Next]_vars =>
        [\A t \in Thread :
           /\ alone
           /\ pc[t] \notin {"setup", "sleep", "fail"}
           /\ pc'[t] = "fail"
           => given'[t]]_vars
  BY <1>1
<1> QED BY <1>2, AlwaysIInv, PTL DEF Spec, FailsAfterEvent

=============================================================================
