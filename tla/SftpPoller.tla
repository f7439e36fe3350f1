----------------------------- MODULE SftpPoller -----------------------------
(***************************************************************************)
(* One SftpPoller object: the threads that start and stop it, and the      *)
(* polling loop that finds remote files and gives them to the application. *)
(*                                                                         *)
(* The mutex m protects runflag and tid; the counter sc counts the threads *)
(* in run().  start() and stop() wait for sc to be zero with m held.       *)
(* start() counts its thread before there is one: when the thread cannot   *)
(* be created, the count stays.  The loop reads runflag without m.  What   *)
(* an error in the loop does depends on get_files alone: when it is set    *)
(* polling goes on after a delay, otherwise the exception leaves run() and *)
(* polling is over, with runflag still set.                                *)
(*                                                                         *)
(* A remote file is one value that appears at most once.  How a file is    *)
(* retrieved, the file masks and ages, the sleeping times, pollcnt and the *)
(* flag fatal, which nothing reads, are left out.                          *)
(***************************************************************************)
EXTENDS Naturals, FiniteSets

CONSTANTS
  Caller,       \* application threads
  Worker,       \* threads that start() can create
  NoThread,     \* the owner of m when it is free, and the tid never set
  File,         \* the remote files
  Dirs,         \* number of directories in path
  Disposes,     \* delete_remote_file or move_remote_file is set
  Inliner,      \* application threads that use startInline()
  EventStops,   \* singleFileEvent() may call stopNoWait()
  Updates       \* the application may call updateOptions()

ASSUME PollerAssumption ==
  /\ Caller \cap Worker = {}
  /\ NoThread \notin Caller \cup Worker
  /\ Inliner \subseteq Caller
  /\ Dirs \in Nat \ {0}
  /\ {Disposes, EventStops, Updates} \subseteq BOOLEAN

Thread == Caller \cup Worker

\* the place of a file that has been deleted or moved
Gone == Dirs + 1

VARIABLES
  owner,        \* the thread that holds m
  runflag,      \* polling is wanted
  tid,          \* the polling thread, never cleared
  made,         \* the thread that start() has created and not stored in tid yet
  sc,           \* threads counted as being in run()
  get_files,    \* errors are retried
  new_sftp,     \* a connection to be taken over is waiting
  pc,           \* where each thread is; see Stage
  dir,          \* the directory a polling thread is in
  files,        \* files listed in dir that have not been handled
  place,        \* the directory of each file: 0 before it appears, Gone afterwards
  lost,         \* history: a start() has counted a thread it could not create
  alone,        \* history: the last loop to begin was not one that startInline()
                \* has added to another
  deliveries,   \* history: singleFileEvent() calls that returned in that loop
  given         \* history: singleFileEvent() has been called for a file of the
                \* directory a polling thread is in

lockVars == <<owner, runflag, tid, made, sc>>
loopVars == <<get_files, dir, files>>
historyVars == <<lost, alone, deliveries, given>>
vars == <<lockVars, loopVars, place, new_sftp, pc, historyVars>>

\* an application thread in a call
Calls == {"start", "stop", "stopNoWait", "waitStop", "startInline"}
Waiting == {"startWait", "startTid", "stopWait", "inlineInc"}

\* a thread in run(); "fail" and "exit" are its on_exit block
Polling == {"loop", "setup", "list", "fileEvent", "retrieve", "single",
            "eventStop", "dispose", "post", "sleep", "exit", "fail"}

Stage == {"idle"} \cup Calls \cup Waiting \cup Polling

Running == {t \in Thread : pc[t] \in Polling}

\* The variables keep the values the code gives them.  sc, on which start() and
\* stop() wait, is the number of threads in run(), and for ever one more after a
\* start() whose thread could not be created.  A thread that startInline() has
\* not counted yet is not in run() yet.
TypeOK ==
  /\ owner \in Thread \cup {NoThread}
  /\ {runflag, get_files, new_sftp, lost, alone} \subseteq BOOLEAN
  /\ {tid, made} \subseteq Thread \cup {NoThread}
  /\ pc \in [Thread -> Stage]
  /\ sc = Cardinality(Running) + (IF lost THEN 1 ELSE 0)
  /\ dir \in [Thread -> 1..Dirs]
  /\ files \in [Thread -> SUBSET File]
  /\ place \in [File -> 0..Gone]
  /\ deliveries \in [File -> 0..2]
  /\ given \in [Thread -> BOOLEAN]

Init ==
  /\ owner = NoThread
  /\ runflag = FALSE
  /\ tid = NoThread
  /\ made = NoThread
  /\ sc = 0
  /\ get_files = FALSE
  /\ new_sftp = FALSE
  /\ pc = [t \in Thread |-> "idle"]
  /\ dir = [t \in Thread |-> 1]
  /\ files = [t \in Thread |-> {}]
  /\ place = [f \in File |-> 0]
  /\ lost = FALSE
  /\ alone = TRUE
  /\ deliveries = [f \in File |-> 0]
  /\ given = [t \in Thread |-> FALSE]

Goto(t, stage) == pc' = [pc EXCEPT ![t] = stage]

-----------------------------------------------------------------------------
(* The application's threads *)

\* a thread calls a method of the object
Call(t) ==
  /\ t \in Caller
  /\ pc[t] = "idle"
  /\ \E method \in Calls :
       /\ method = "startInline" => t \in Inliner
       /\ Goto(t, method)
  /\ UNCHANGED <<lockVars, loopVars, place, new_sftp, historyVars>>

Lock(t) ==
  /\ owner = NoThread
  /\ owner' = t

Unlock(t) ==
  /\ owner = t
  /\ owner' = NoThread

\* start() while polling is wanted returns tid at once
StartRunning(t) ==
  /\ pc[t] = "start"
  /\ owner = NoThread
  /\ runflag
  /\ Goto(t, "idle")
  /\ UNCHANGED <<lockVars, loopVars, place, new_sftp, historyVars>>

\* start() otherwise waits for the last thread to leave run(), with m held
Start(t) ==
  /\ pc[t] = "start"
  /\ Lock(t)
  /\ ~runflag
  /\ Goto(t, "startWait")
  /\ UNCHANGED <<runflag, tid, made, sc, loopVars, place, new_sftp, historyVars>>

\* fault: start() does not wait for the old thread
NotWaitedFor == TRUE

\* sc.waitForZero() in start()
OldLoopGone == sc = 0

\* fault: the new thread is not counted
NotCounted == UNCHANGED sc

\* sc.inc() in start(), before there is a thread
CountThread == sc' = sc + 1

\* The thread is created, and runs before its ID has been stored.
StartThread(t) ==
  /\ pc[t] = "startWait"
  /\ OldLoopGone
  /\ runflag' = TRUE
  /\ CountThread
  /\ \E w \in Worker :
       /\ pc[w] = "idle"
       /\ pc' = [pc EXCEPT ![t] = "startTid", ![w] = "loop"]
       /\ made' = w
  /\ alone' = TRUE
  /\ deliveries' = [f \in File |-> 0]
  /\ UNCHANGED <<owner, tid, loopVars, place, new_sftp, lost, given>>

\* "background" or start_thread raises an exception instead: the mutex is freed,
\* while the flag stays set and the count stays up
StartFails(t) ==
  /\ pc[t] = "startWait"
  /\ OldLoopGone
  /\ runflag' = TRUE
  /\ CountThread
  /\ lost' = TRUE
  /\ Unlock(t)
  /\ Goto(t, "idle")
  /\ UNCHANGED <<tid, made, loopVars, place, new_sftp, alone, deliveries,
                 given>>

StartReturn(t) ==
  /\ pc[t] = "startTid"
  /\ Unlock(t)
  /\ tid' = made
  /\ made' = NoThread
  /\ Goto(t, "idle")
  /\ UNCHANGED <<runflag, sc, loopVars, place, new_sftp, historyVars>>

\* stop() in the polling thread raises an exception, elsewhere it takes m
StopRefused(t) ==
  /\ pc[t] = "stop"
  /\ tid = t
  /\ sc > 0
  /\ Goto(t, "idle")
  /\ UNCHANGED <<lockVars, loopVars, place, new_sftp, historyVars>>

Stop(t) ==
  /\ pc[t] = "stop"
  /\ ~(tid = t /\ sc > 0)
  /\ Lock(t)
  /\ runflag' = FALSE
  /\ Goto(t, "stopWait")
  /\ UNCHANGED <<tid, made, sc, loopVars, place, new_sftp, historyVars>>

\* stop() waits with m held for the last thread to leave run()
StopReturn(t) ==
  /\ pc[t] = "stopWait"
  /\ sc = 0
  /\ Unlock(t)
  /\ Goto(t, "idle")
  /\ UNCHANGED <<runflag, tid, made, sc, loopVars, place, new_sftp,
                 historyVars>>

\* stopNoWait(), by the application or by singleFileEvent() in the loop
StopNoWait(t) ==
  /\ pc[t] \in {"stopNoWait", "eventStop"}
  /\ owner = NoThread
  /\ runflag' = FALSE
  /\ Goto(t, IF pc[t] = "eventStop" THEN "single" ELSE "idle")
  /\ UNCHANGED <<owner, tid, made, sc, loopVars, place, new_sftp, historyVars>>

\* waitStop() raises an exception if tid is its thread, polling or not, and
\* otherwise waits
WaitStop(t) ==
  /\ pc[t] = "waitStop"
  /\ tid = t \/ sc = 0
  /\ Goto(t, "idle")
  /\ UNCHANGED <<lockVars, loopVars, place, new_sftp, historyVars>>

\* startInline() takes the flag under m, or raises SFTPPOLLER-ERROR
StartInline(t) ==
  /\ pc[t] = "startInline"
  /\ owner = NoThread
  /\ \/ /\ runflag
        /\ Goto(t, "idle")
        /\ UNCHANGED <<runflag, tid>>
     \/ /\ ~runflag
        /\ runflag' = TRUE
        /\ tid' = t
        /\ Goto(t, "inlineInc")
  /\ UNCHANGED <<owner, made, sc, loopVars, place, new_sftp, historyVars>>

\* and counts its thread, which becomes the polling thread, without m, and though
\* another may be in run()
InlineInc(t) ==
  /\ pc[t] = "inlineInc"
  /\ sc' = sc + 1
  /\ Goto(t, "loop")
  /\ alone' = (Running = {})
  /\ deliveries' = [f \in File |-> 0]
  /\ UNCHANGED <<owner, runflag, tid, made, loopVars, place, new_sftp, lost, given>>

\* updateOptions() has connected a new client and leaves it for the loop
UpdateOptions ==
  /\ Updates
  /\ ~new_sftp
  /\ new_sftp' = TRUE
  /\ UNCHANGED <<lockVars, loopVars, place, pc, historyVars>>

-----------------------------------------------------------------------------
(* The polling loop *)

\* runOnce() is left, and its variables are gone
LeaveOnce(t, stage) ==
  /\ dir' = [dir EXCEPT ![t] = 1]
  /\ files' = [files EXCEPT ![t] = {}]
  /\ Goto(t, stage)

\* An exception in the loop: a delay before the next try, or the end.
Catch(t, retried) ==
  LeaveOnce(t, IF ~retried THEN "fail" ELSE IF runflag THEN "sleep" ELSE "loop")

\* history: no file of the directory has been given to the application
NoneGiven(t) == given' = [given EXCEPT ![t] = FALSE]

\* the head of the loop
Loop(t) ==
  /\ pc[t] = "loop"
  /\ Goto(t, IF ~runflag THEN "exit" ELSE IF new_sftp THEN "setup" ELSE "list")
  /\ NoneGiven(t)
  /\ new_sftp' = (new_sftp /\ ~runflag)
  /\ UNCHANGED <<lockVars, loopVars, place, lost, alone, deliveries>>

\* The new client is removed from new_sftp before setup() connects it and looks
\* at the directories; each of these may fail.
Setup(t) ==
  /\ pc[t] = "setup"
  /\ \/ Goto(t, "list") /\ UNCHANGED <<dir, files>>
     \/ Catch(t, get_files)
  /\ UNCHANGED <<lockVars, get_files, place, new_sftp, historyVars>>

\* fault: the statement is missing
ErrorsNotRetried(t) == UNCHANGED get_files

\* the first statement for every directory
ErrorsRetried(t) == get_files' = TRUE

\* where runOnce() goes when it has finished a directory
NextDir(t) ==
  IF dir[t] < Dirs
  THEN /\ dir' = [dir EXCEPT ![t] = @ + 1]
       /\ files' = [files EXCEPT ![t] = {}]
       /\ Goto(t, "list")
  ELSE LeaveOnce(t, IF runflag THEN "sleep" ELSE "loop")

\* runOnce() lists a directory with getFiles(); from its first statement on an
\* error is retried
ListFails(t) ==
  /\ pc[t] = "list"
  /\ ErrorsRetried(t)
  /\ Catch(t, get_files')
  /\ NoneGiven(t)
  /\ UNCHANGED <<lockVars, place, new_sftp, lost, alone, deliveries>>

List(t) ==
  /\ pc[t] = "list"
  /\ ErrorsRetried(t)
  /\ LET found == {f \in File : place[f] = dir[t]}
     IN  IF found = {}
         THEN NextDir(t)
         ELSE /\ files' = [files EXCEPT ![t] = found]
              /\ dir' = dir
              /\ Goto(t, "fileEvent")
  /\ NoneGiven(t)
  /\ UNCHANGED <<lockVars, place, new_sftp, lost, alone, deliveries>>

\* fileEvent() takes the files, refuses them, or raises an exception
FileEvent(t) ==
  /\ pc[t] = "fileEvent"
  /\ \/ Goto(t, "retrieve") /\ UNCHANGED <<dir, files>>
     \/ NextDir(t)
     \/ Catch(t, get_files)
  /\ UNCHANGED <<lockVars, get_files, place, new_sftp, historyVars>>

\* the file at the head of the list
First(t) == CHOOSE f \in files[t] : TRUE

\* fault: errors become fatal only after singleFileEvent() has returned
RetrieveStillRetried(t) ==
  /\ pc[t] = "retrieve"
  /\ \/ Goto(t, "single") /\ UNCHANGED <<dir, files>>
     \/ Catch(t, get_files)
  /\ UNCHANGED <<lockVars, get_files, place, new_sftp, historyVars>>

\* The file is retrieved; errors are fatal from here on.
Retrieve(t) ==
  /\ pc[t] = "retrieve"
  /\ \/ get_files' = FALSE /\ Goto(t, "single") /\ UNCHANGED <<dir, files>>
     \/ Catch(t, get_files) /\ UNCHANGED get_files
  /\ UNCHANGED <<lockVars, place, new_sftp, historyVars>>

\* singleFileEvent() may stop the poller from within
EventStop(t) ==
  /\ EventStops
  /\ pc[t] = "single"
  /\ runflag
  /\ Goto(t, "eventStop")
  /\ UNCHANGED <<lockVars, loopVars, place, new_sftp, historyVars>>

\* singleFileEvent() has the file: it returns, or raises an exception
SingleFileEvent(t) ==
  /\ pc[t] = "single"
  /\ \/ /\ deliveries' = [deliveries EXCEPT ![First(t)] =
                                     IF alone /\ @ < 2 THEN @ + 1 ELSE @]
        /\ Goto(t, "dispose")
        /\ UNCHANGED <<dir, files>>
     \/ Catch(t, get_files) /\ UNCHANGED deliveries
  /\ given' = [given EXCEPT ![t] = TRUE]
  /\ UNCHANGED <<lockVars, get_files, place, new_sftp, lost, alone>>

\* The remote file is deleted or moved away when the poller is to do that.
Dispose(t) ==
  /\ pc[t] = "dispose"
  /\ \/ /\ place' = IF Disposes THEN [place EXCEPT ![First(t)] = Gone] ELSE place
        /\ Goto(t, "post")
        /\ UNCHANGED <<dir, files>>
     \/ Disposes /\ Catch(t, get_files) /\ UNCHANGED place
  /\ UNCHANGED <<lockVars, get_files, new_sftp, historyVars>>

\* postSingleFileEvent(), and on to the next file or directory
PostSingleFileEvent(t) ==
  /\ pc[t] = "post"
  /\ \/ LET left == files[t] \ {First(t)}
        IN  IF left = {}
            THEN NextDir(t)
            ELSE /\ files' = [files EXCEPT ![t] = left]
                 /\ dir' = dir
                 /\ Goto(t, "retrieve")
     \/ Catch(t, get_files)
  /\ UNCHANGED <<lockVars, get_files, place, new_sftp, historyVars>>

\* The poll interval, or the delay after an error; an application that has set the
\* option sleep may raise an exception there.  One in the interval is an error of
\* the loop, which a delay may follow; one in the delay leaves run().
Sleep(t) ==
  /\ pc[t] = "sleep"
  /\ Goto(t, "loop") \/ Goto(t, "fail")
  /\ UNCHANGED <<lockVars, loopVars, place, new_sftp, historyVars>>

\* fault: an exception leaves run() without counting down
FailNotCounted(t) ==
  /\ pc[t] \in {"exit", "fail"}
  /\ sc' = IF pc[t] = "exit" THEN sc - 1 ELSE sc
  /\ Goto(t, "idle")
  /\ NoneGiven(t)
  /\ UNCHANGED <<owner, runflag, tid, made, loopVars, place, new_sftp, lost, alone,
                 deliveries>>

\* run() is left, normally or by an exception: its on_exit block counts down
RunExit(t) ==
  /\ pc[t] \in {"exit", "fail"}
  /\ sc' = sc - 1
  /\ Goto(t, "idle")
  /\ NoneGiven(t)
  /\ UNCHANGED <<owner, runflag, tid, made, loopVars, place, new_sftp, lost, alone,
                 deliveries>>

\* external: a file appears on the server
Upload ==
  /\ \E f \in File, d \in 1..Dirs :
       /\ place[f] = 0
       /\ place' = [place EXCEPT ![f] = d]
  /\ UNCHANGED <<lockVars, loopVars, new_sftp, pc, historyVars>>

-----------------------------------------------------------------------------

\* a step of run() that needs no lock
Run(t) ==
  \/ Loop(t) \/ Setup(t) \/ List(t) \/ ListFails(t) \/ FileEvent(t)
  \/ Retrieve(t) \/ SingleFileEvent(t) \/ Dispose(t)
  \/ PostSingleFileEvent(t) \/ Sleep(t) \/ RunExit(t)

\* a step of a call that has what it waits for
Method(t) ==
  \/ StartRunning(t) \/ Start(t) \/ StartThread(t) \/ StartFails(t) \/ StartReturn(t)
  \/ StopRefused(t) \/ Stop(t) \/ StopReturn(t) \/ StopNoWait(t)
  \/ WaitStop(t) \/ StartInline(t) \/ InlineInc(t)

Next ==
  \/ \E t \in Thread : Call(t) \/ Method(t) \/ Run(t) \/ EventStop(t)
  \/ UpdateOptions
  \/ Upload

Spec == Init /\ [][Next]_vars

\* The scheduler runs every thread that can run; SFTP requests, event methods
\* and sleeps come to an end.  The mutex is not assumed to be fair.
FairSpec ==
  /\ Spec
  /\ \A t \in Thread : WF_vars(Run(t) \/ Method(t))

-----------------------------------------------------------------------------
(* Properties *)

\* One thread at most is polling, until startInline() adds its own: start() after
\* stopNoWait() waits until the last loop has left run(), however many there are,
\* so that the new one does not share the SFTPClient, the directory and get_files.
OnePollLoop == alone => Cardinality(Running) <= 1

\* A file that is deleted or moved after processing is processed once, that is,
\* singleFileEvent() returns once for it while a loop runs alone: an error between
\* the event and the disposal of the file ends polling, and no error that is
\* retried can bring the file back.  Nothing is said of an event that raised an
\* exception.
DeliveredOnce == Disposes /\ alone => \A f \in File : deliveries[f] <= 1

\* When stop() returns, no thread is polling.
StopMeansStopped ==
  [][\A t \in Thread :
       pc[t] = "stopWait" /\ pc'[t] = "idle" => Running' = {}]_vars

\* An error ends polling only when a file of the directory that is being polled has
\* been given to the application, or in setting up a connection that replaces the
\* old one, or in sleeping: errors while a directory is listed and its first file
\* retrieved are retried, whatever an earlier directory, poll or run has left in
\* get_files.
FailsAfterEvent ==
  [][\A t \in Thread :
       /\ alone
       /\ pc[t] \notin {"setup", "sleep", "fail"}
       /\ pc'[t] = "fail"
       => given'[t]]_vars

\* a thread is in stop() and has the mutex
Stopping == \E t \in Thread : pc[t] = "stopWait"

\* stop() that has the mutex returns, unless a start() has counted a thread that it
\* could not create.
StopNeverHangs == Stopping /\ ~lost ~> ~Stopping

\* It does, but for a singleFileEvent() that has called stopNoWait() and waits for
\* the mutex: the loop is left from any stage, by whatever error, and counted down.
StopReturns ==
  Stopping /\ ~lost ~> ~Stopping \/ \E t \in Thread : pc[t] = "eventStop"
=============================================================================
