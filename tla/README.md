# Verification of the Qore ssh2 module

This directory holds a TLA+ development for `module-ssh2`, the SSH2/SFTP client
module of the Qore language: specifications translated from the code under
`src/`, TLC configurations that check them on small instances, and TLAPS proofs.
`PROJECT.json` maps each definition to the lines it models and lists the runs, the
hazards, the findings and the theorems.

## 1. Inventory of the system

| Component | Source | State | Operations |
|---|---|---|---|
| SSH2Client | `src/SSH2Client.{cpp,h}` | lock `m`, socket, `ssh_session`, `session_fd_hold`, `connect_in_progress`, channel and listener sets, security settings | connect, disconnect, channel and listener opening, setters, `closeIo()` and descriptor holds for the I/O controller |
| SFTPClient | `src/SFTPClient.{cpp,h}` | the above and `sftp_session`, `sftppath`; one remote handle per call on the stack | about 30 blocking methods that connect implicitly; liveness check; get and put with streams |
| SftpPollOperation | `src/SftpPollOperation.{cpp,h}` | a stage, queue of authentication attempts, agent, provider candidates, remote handle, byte counts; `poll_op_in_progress` in the client | `continuePoll()`, `abort()`, destruction |
| SSH2Channel | `src/SSH2Channel.{cpp,h}` | pointer to the libssh2 channel, owned by the client's lock | read, readBlock, write, requests, close |
| SSH2Listener | `src/SSH2Listener.{cpp,h}` | pointer to the libssh2 listener | accept, cancel |
| SftpPoller | `qlib/SftpPoller.qm` | mutex, `runflag`, `tid`, counter `sc`, `get_files`, `fatal`, `new_sftp` | start, stop, stopNoWait, waitStop, startInline, updateOptions, the polling loop with its event methods |
| Host-key decision, `known_hosts` | `src/SSH2Client.cpp`, `src/ssh2-module.cpp` | a file shared by clients and processes, an external store, process-wide defaults | verify, trust on first use, addKnownHost, setters |
| Authentication plan | `src/SSH2Client.cpp`, `src/SftpPollOperation.cpp` | provider, order, fallback policy, agent, keys, password | `buildAuthPlan`, drivers in the blocking and in the poll path |
| Transfers | `src/SFTPClient.cpp`, `src/SSH2Client.cpp` | size, offset, buffer and counts of one call | getFile, getTextFile, retrieveFile, get, putFile, transferFile, put, scpGet, scpPut |
| Ssh2Connections, data providers, poller utilities, bindings | `qlib/*`, `src/QC_*.qpp` | configuration | forwarding |

How they interact. A channel, a listener and a poll operation each keep a pointer
to the client and take *its* lock for every method; the client in turn clears
their libssh2 pointers when it disconnects. An SFTPClient is an SSH2Client. The
async I/O controller of the Qore library holds and releases the descriptor and
calls `closeIo()` without the lock. Host-key stores, identity providers and
streams are Qore code called with the lock released. SftpPoller runs a thread
that calls an SFTPClient and the event methods of a subclass.

What is hard here, and so worth a model:

* *the lock is released in the middle of a method*, for callbacks (connect) and
  streams (get, put), with session pointers and handles on the stack;
* *`disconnectUnlocked()` is reached from everywhere*, failing waits included,
  and must leave no object pointing into the freed session;
* *a descriptor is closed by an actor that does not take the lock*;
* *the order of release*: agent, remote handle, SFTP session, session, descriptor;
* *a retrieval in a dozen stages* that can wait, fail, be retried once, aborted or
  destroyed at any of them;
* *start and stop of the poller* from several threads and from its own loop;
* *a file without a lock*, `known_hosts`, that every client reads, extends and writes
  back as a whole;
* *one authentication plan driven by two programs*, nested loops in connect and a
  queue in the poll operation;
* *sources that change while they are copied*, and writes that libssh2 sends ahead of
  the acknowledgements it reports.

What makes each part correct: a session, and all made from it, is used only while
it lives and only with an accepted host key (SSH2Client); everything is released
in order, the client is given back, and the file delivered is the file (poll
operation); no call uses another call's session or handle (SFTPClient); bytes are
neither lost, repeated nor mixed (SSH2Channel, transfers); one loop at a time, files
delivered once, stop is final and returns (SftpPoller); a key that was accepted binds
the connections that follow (host keys); both drivers ask the same questions and
offer the process user's identity only where the settings allow it (plan).

## 2. Modules

| Module | Models | Checked by |
|---|---|---|
| `SSH2Client` | one client object, its threads, the I/O controller | `SSH2Client.cfg`, `SSH2ClientAgent.cfg` |
| `SSH2ClientProofs` | theorems about `SSH2Client` | tlapm |
| `HostKey` | host-key decisions of several clients on one file and one store, and the defaults | `MCHostKey` with `HostKey.cfg` |
| `HostKeyProofs` | theorems about `HostKey` | tlapm |
| `AuthPlan` | the authentication plan and its two drivers | `AuthPlan.cfg` |
| `AuthPlanProofs` | theorems about `AuthPlan` | tlapm |
| `FileRetrieval` | abstract: what a non-blocking retrieval promises | refined by the next |
| `SftpPollOperation` | the retrieval as coded; INSTANCEs `FileRetrieval` | `SftpPollOperation.cfg`, `SftpPollShared.cfg`, `SftpPollHandle.cfg` |
| `SftpPollOperationProofs` | theorems about `SftpPollOperation`, the refinement among them | tlapm |
| `SFTPClient` | blocking methods, lock, handle, streams and callbacks | `MCSFTPClient` with `SFTPClient.cfg` |
| `SFTPClientProofs` | theorems about `SFTPClient` | tlapm |
| `Transfer` | the copying loops of the SFTP and scp methods, byte by byte | `Transfer.cfg` |
| `TransferProofs` | theorems about `Transfer` | tlapm |
| `SSH2Channel` | data transfer on a channel, byte by byte | `SSH2Channel.cfg` |
| `SSH2ChannelProofs` | theorems about `SSH2Channel` | tlapm |
| `SftpPoller` | start/stop protocol and polling loop | `SftpPoller.cfg`, `SftpPollerDeadlock.cfg` |
| `SftpPollerProofs` | theorems about `SftpPoller` | tlapm |

Each module describes one concern in detail and the others by their outcomes: a
host-key decision and an authentication attempt are choices in `SSH2Client` and
`SftpPollOperation`, and are computed in `HostKey` and `AuthPlan`; a transfer is a
number of requests in `SFTPClient`, and its bytes are in `Transfer`. `TypeOK` in each
module says what values its variables take.

The definitions marked "fault" next to an action are mutated forms of it: each
property is seen to fail when one of them takes the action's place.

### SSH2Client

Variables keep the names of the members. Connections are numbered by the
`connectINET()` call that made them; the number stands for the descriptor and the
session on it, so "belongs to a freed session" is a comparison of numbers.
`pc[t]` says where a thread is in a method. A step is the stretch of code between
two points where another actor matters: a network wait, a release of the lock,
the freeing of the session. A loop on EAGAIN is one step that succeeds, fails or
ends in `waitSocketUnlocked()` failing, which itself runs the three steps of
`disconnectUnlocked()` (`CloseObjects`, `FreeSession`, `CloseTransport`). The
actions of connect, in order: `Connect`, `CheckPreconditions`, `ConnectINET`,
`HoldSessionDescriptor`, `PrepareSession`, `Handshake`, `VerifyHostKey` and
`HostKeyDecision` (the store's answer, with the lock given up), `UserauthList`,
`AuthCall`/`AgentIdentity`/`ProviderCandidates`/`ProviderMaterial`, `FinishConnect`.
`verified` is a history variable: the session whose key was accepted.

### HostKey

Several clients, of one process or of several, with one `known_hosts` file and one
host-key store between them. A key is a type and a blob; an entry is for a plain host
name (port 0) or for `[host]:port`. `Construct` reads the process-wide defaults one at
a time, as the constructor does; `Set` and `SetDefault` are the setters. `Connect`
begins with the key the server presents; then `HostKey` and either `CheckKnownHosts`,
or `StoreVerified` and `StoreAccepted` with the lock released in between. Of the three
answers of the store that the client takes for a yes (`StoreSuccess`), "matched" and
"added" find or put the key on the store's record, and "accepted-session" records it
nowhere; verifyHostKey() may give the last one under any policy. Saving a key,
in connect and in `AddKnownHost`, is what the code does to the file: the entries are
read at once, and written back in two steps, `OpenFile`, which empties the file, and
`WriteFile` or, when it fails or the process ends, `WriteInterrupted`. History
variables say what the properties need: `steady` (the entries that were in a client's
file at connect and that no other client has removed since), `known` (what a file has
ever held), `disturbed` (files at which two clients were at work at once, or of which
a write was interrupted) and `asked` (the policy when connect was called).

### AuthPlan

`BuildAuthPlan` is `buildAuthPlanUnlocked()` as an operator on the settings and the
server's methods. The module first drives the plan as `sshConnectUnlocked()` does
(`TryProviderAuth`, `BlockingAttempt`, `BlockingFails`) and then as the AUTH stage of a
poll operation does (`ExpandProviderAttempt`, `StepAgentAuth`, `CheckAttempt`,
`AuthCall`, `PollFails`), with the same answers to the same questions: what a driver
asks of the provider, the agent, the sandbox and the server is recorded in `asked` and
`tried`, and `Asks` gives the second driver the answer the first one got as long as it
asks the same. So a difference between the two programs is a difference of two
sequences.

### Transfer

One call of one of the methods. A byte is its offset in the source, so that "in order"
is an equation; the source is a length that `Change` may alter at any time where
others can write to it. The variables are those of the loops: `size` (fsize, towrite),
`tot`, `total`, the buffer. `flight` is what libssh2 has sent of the buffer and not yet
reported: `libssh2_sftp_write()` may be called again only with the rest of the same
bytes, which is what the inner loops of issue #2633 are for. The read of nothing
differs from method to method (`ReadNothing`), as does what is counted.

### SftpPollOperation and FileRetrieval

One action per stage handler, with `CloseIntern` and its parts for the ways out
(abort, error, destruction) and `RetryAfterConnectionLoss` for the single retry
on an adopted session. `driver` tells whether the driving thread is outside,
inside, in a callback or closing. Between two `continuePoll()` calls the client
can be used by blocking methods (`BlockingMethod` while there is no operation,
`UseDuringPoll` in `SharedSpec` while there is one). `FileRetrieval` promises: an
operation begins only on a free client and reserves it as long as it runs; it
starts over at most once; it ends once, with the file or without it, and gives the
client back in the same step. The refinement `IsRetrieval` maps the dozen stages
to the phases idle, running, done and failed; an operation counts as running until
`closeIntern()` has finished.

### SFTPClient

All blocking methods have the same skeleton and share it here: lock, liveness
check or implicit connect, requests with a handle on the stack, waits that may
fail, the handle's closing, unlock. In two stages (`callback`, `stream`) a method
is in Qore code without the lock. The history variable `mine` remembers the session
a method works on, and -1 once calls have overlapped (`Overlap`): the properties
separate what the code guarantees a call nobody interferes with from what it does
not guarantee to overlapping ones.

### SSH2Channel

Bytes from the server are numbered in order of arrival; bytes written carry the
writing thread and their position. `b_sent` is a `size_t` of `Width` bits, because
`write()` adds negative codes to it. Request methods and `close()` make one libssh2
call repeatedly; only their failing wait, which closes the connection, changes
this module's state.

### SftpPoller

`runflag`, `tid`, `sc`, `get_files`, the mutex, the place of each file on the server and
the threads: callers, which run methods, and workers, which `start()` creates. A start
whose thread cannot be created (`StartFails`) leaves the flag set and the count up, for
good; the history variable `lost` says so. The polling loop is modelled from listing a
directory to disposing of each file, with an error possible at every step, the sleep of
the option `sleep` included. `Inliner`, `EventStops` and `Updates` add `startInline()`,
`stopNoWait()` in an event method and `updateOptions()`. `startInline()` does not wait for
a loop that is ending: the history variable `alone` tells loops that have the poller to
themselves from one that was added to another, and `deliveries` counts the
`singleFileEvent()` calls of such a loop that have returned. `given` says that
`singleFileEvent()` has been called, whether it returned or raised an exception, for a
file of the directory a thread is in.

## 3. Runs

Passing runs:

| Run | Shows |
|---|---|
| `client` | the descriptor libssh2 uses is held until the session is freed; registered channels and listeners are the live ones, on the current session; connect keeps its session through every unlocked callback; the asserts of the connect path hold; nothing is authenticated, connected or opened without an accepted host key; no setting changes under a connect; `connect_in_progress` is always reset |
| `poll` | every stage has its session and held descriptor; agent, candidates and handle are released, the agent before its session and so the handle, but in the read error that `poll_handle` shows; the blocking mode is restored; over a connection the operation has made, files are requested only after host-key acceptance and login; the operation refines `FileRetrieval`; a driven operation ends |
| `sftp` | on every path the handle is closed before the session and a method keeps its session, unless another call came in while the method was in Qore code; the object is at rest in blocking mode in every case |
| `channel` | bytes read are returned once and in order, blocks and writes are whole; read() returns, and readBlock() on a connection that is not broken |
| `poller` | one loop at a time unless `startInline()` adds one, each file processed once, stop is final, errors before the first event of a directory are retried, stop returns but in the two cases below |
| `hostkey` | entries are lost only when two clients are at work on the file at once or a write is interrupted; a key is accepted as new only if no entry for the server has been there throughout, whatever others do to the file; two first uses on one undisturbed file agree, and so do two clients whose keys the store has on record; the policy at connect decides what is done about an unknown key |
| `auth` | for all settings and methods: both drivers ask the same in the same order and end alike, with the login last; a session outlives a failure only after a provider's error; process identities come last and only if the fallback policy allows them; every key file is read right after the sandbox allowed it; both drivers end |
| `transfer` | the destination is a prefix of the source at all times, no byte beyond the size, nothing missing when a method returns, the count returned is what arrived and was acknowledged; a method returns unless the file it reads has become shorter than stat() said |

Runs that end in a violation each show one disagreement between the code and what
a comment or document of the repository says of it; the quotations are in
`PROJECT.json` under `findings`:

| Run | The behaviour TLC finds |
|---|---|
| `client_agent` | a failing wait frees the session before the agent made from it |
| `poll_shared` | a blocking SFTP method runs on the reserved client |
| `poll_handle` | an error in reading, on a connection that has ended, closes the connection before the remote file handle |
| `poller_deadlock` | `stop()` and `stopNoWait()` in an event method wait for each other |

The models also contain behaviours that disagree with a comment or a document and
that no run singles out:

* `tryProviderAuth()` leaves an unauthenticated session after a provider's error
  (`ProviderCandidates`, `ProviderMaterial` in `SSH2Client`), and the START stage of a
  poll operation adopts any session there is (`Start` in `SftpPollOperation`);
* START on a session whose socket `closeIo()` has closed fails and keeps the session;
* `sftpConnectUnlocked()` does not set `connect_in_progress`, so that a call can come in
  between a callback and the rest of the connect (`CallbackReturn` in `SFTPClient`);
* `write()` adds a negative code to `b_sent` after raising the exception (`WriteError`);
* `startInline()` after `stopNoWait()` can run next to the old loop; `start()` after a
  fatal error returns the ID of a thread that is gone, as `runflag` is still set;
  `waitStop()` raises in a thread whose `startInline()` has returned, where
  `qlib/SftpPoller.qm:863` says that it returns immediately if polling was not in progress;
  an error in `setup()` with a `get_files` left FALSE ends polling;
* an exception in `singleFileEvent()` ends polling (`SingleFileEvent` in `SftpPoller`, with
  `get_files` cleared before the call), where `qlib/SftpPoller.qm:1106` says "the error is
  logged and the polling operation is retried". `DeliveredOnce` says nothing of a file whose
  event raised an exception;
* after a `start()` whose thread could not be created, `stop()` and the destructor wait for
  ever with the mutex (`StartFails`), where `qlib/SftpPoller.qm:846` says that `stop()`
  returns immediately if polling was not in progress. `StopReturns` and `StopNeverHangs`
  except it;
* the host-key store may accept a key it has not recorded, from verifyHostKey() even under
  REJECT (`StoreVerified` in `HostKey`; excepted in `StoreBinds`);
* a method in a stream (get, put) loses its session, under its open remote handle, to
  another thread's disconnect() or failing liveness check (`Overlap` in `SFTPClient`; the
  properties speak of methods that no call has overlapped);
* readBlock() on a broken connection repeats the failing call with the lock held
  (`BlockError` in `SSH2Channel`, excepted in `ReadEnds`);
* getFile(), getTextFile(), retrieveFile() and get() on a file that has become shorter
  read nothing for ever (`ReadNothing` in `Transfer`, excepted in `TransferEnds`);
* scpGet() returns a short file without an exception when the channel ends early, and
  runs into its timeout when the EOF arrives between its test for EOF and its read
  (`ChannelEof`, `ReadNothing`);
* the policy of an SFTPClient can be changed while its connect is in the host-key
  store, as its connect does not set `connect_in_progress` (`MaySetPolicy` in `HostKey`;
  `PolicyHonoured` speaks of the other clients);
* addKnownHost() makes no use of its port other than in messages, and trust on first
  use saves the plain name, so that servers on different ports of a host share an entry
  (`NewEntry`).

### Bounds

* Two threads: the properties relate the thread in a method to *one* other that
  interferes; the lock makes a third wait.
* `MaxConn`, `MaxSession` of 2 or more, so that a freed session has a successor and
  a stale pointer differs from the current one; one channel and one listener suffice
  since the code treats each alone.
* `MaxSize` 2: one whole and one partial read. `MaxCand` 2: a candidate refused, then
  one accepted.
* `MaxData` 3 and `MaxSize` 2 in the channel: a block across two libssh2 calls followed
  by another call's byte. `Width` 3 and `MaxErr` 2: sums that wrap and sums that do not.
  `MaxWire` caps what a write that starts over can send.
* Two clients, two ports of one host, two keys of one type and one of another: a
  stored key that fits, one that does not and one of another kind, under either form
  of entry. `MaxConnect` 2: a first use and a later one, or two at once; `MaxSet` 2 for
  changes of settings, addKnownHost() included. One client is an SFTPClient.
* `MaxCandidate` 2 and `MaxIdentity` 1 in `AuthPlan`: a candidate refused, then another;
  an agent without, with one refused and with one accepted identity. The settings and
  their combinations are complete.
* `BufSize` 2 and `MaxLen` 5: two full blocks and a short one.
* Two files and two directories in the poller: an error in the second file or
  directory, with `get_files` as the first has left it. One caller uses `startInline()`, so
  that there can be two loops; one worker, as a second could only be started next to
  the first if `start()` did not wait, and is then started next to the inline loop.

`MaxConn` of `SFTPClient` is 3: a session lost, its successor, and one more.

For safety these bounds are those of the runs only: the theorems of section 4 hold for
every value of them. For the liveness properties they are what is checked.

In the run `poller` deadlock is not checked: an event method may call `stopNoWait()`
while `stop()` waits, which is what `poller_deadlock` is about, and `stop()` waits for ever
for a thread that could not be created. `StopReturns` excepts the two; `poller_deadlock`
checks it without the first exception.
`Symmetry` permutes the threads of `SFTPClient`, whose runs check invariants only.

### Fairness

* `SSH2Client`: weak fairness of the steps of the thread that holds the lock (all
  waits have timeouts); strong fairness of the return of a callback, which needs the
  lock back and competes for it with other threads' short calls.
* `SftpPollOperation`: the caller goes on driving; what it has begun under the lock
  goes on; strong fairness of a handler getting past its wait, as a server that
  never answers is what a caller's own timeout and `abort()` are for.
* `SSH2Channel`: weak fairness of each read method: libssh2 calls return and waits end
  by their timeout at the latest.
* `AuthPlan`: weak fairness of the driver's steps: calls to libssh2 and to Qore code
  return, and the caller of a poll operation goes on.
* `Transfer`: weak fairness of the method's own steps, and of libssh2 sending and
  acknowledging: a server that stops answering ends the wait by its timeout (`Fail`).
* `SftpPoller`: weak fairness of each thread; the mutex is not assumed to be fair.

## 4. Proofs

All proofs hold for every value of the constants that the module's named assumption
admits.

`SSH2ClientProofs` proves, for every set of threads, channels and listeners and every
bound, from `ClientAssumption` (the marker `NoThread` is no thread, the bounds are
naturals), the type invariant `TypeOK`, each invariant of the run `client` and its
action property: `TypeCorrect`, `DescriptorSafe`, `ObjectsSafe`, `ConnectSafe`,
`AssertionsHold`, `HostKeySafe` and `SettingsSafe`.

All follow from `Invariance`, `Spec => []IInv`. None of the properties is inductive
alone: that connect keeps its session across a callback depends on who may hold
the lock then, on `connect_in_progress` and on what a closing thread has already
torn down. `IInv` therefore joins to `TypeOK`

* `LockInv`: the lock is held by exactly the thread whose stage is in a method and
  not in a callback;
* `FlagInv`: the flag is set exactly while some thread is in connect, there is only
  one, and no other method uses the session meanwhile;
* `NoSessionInv`: when there is no session, and who may then still have a held
  descriptor or a recorded authentication;
* `SessionInv`: connect on its own session, and when the host key has been accepted;
* `FdInv`: the descriptor libssh2 was given is the one held, and the socket is open on
  no other while a session is built;
* `ObjectInv`: channels and listeners belong to the session, and there are none while
  one is built or freed.

`TransferProofs` proves, for every length of the source and every size of the buffer,
from `TransferAssumption` (the lengths are naturals and the buffer is not empty), the
type invariant and each invariant of the run `transfer`: `TypeCorrect`,
`DestinationInOrder`, `NoOverrun`, `NothingMissing` and `CountReturned`, all from
`AlwaysIInv`. That the destination is a prefix of the source does not follow from
itself: an acknowledgement that comes in parts makes the loop hand over the rest of
the buffer, and the bytes sent next are the right ones only if the buffer holds the
block that begins where the counts say and libssh2 has sent exactly the bytes behind
what it reported. `IInv` therefore joins to `TypeOK` and `InOrder`

* `Block`: the buffer holds consecutive bytes of the source;
* `BufferUse`: in which stages and methods the buffer is in use;
* `Placed`: the end of the destination, in terms of the place of the block, what of
  it was reported and what is in flight;
* `Counted`: what is counted is what arrived, less what is not yet reported;
* `Bounded`: a sized copy has read no further than its size;
* `AtEnd`: what is known of the counts before and behind the loop.

The lemmas about `Bytes` and `SubSeq` that these need (a part of a block, a block
that continues another) come first in the module.

`HostKeyProofs` proves, for every set of clients, servers, keys and files and every
bound, from `HostKeyAssumption` (servers, keys and entries are records; the markers for
no key, no file and the built-in default are none of these), the type invariant and each
invariant of the run `hostkey`: `TypeCorrect`, `EntriesKept`, `EntryBinds`,
`FirstUseAgrees`, `StoreAgrees` and `PolicyDecides`, all from `AlwaysIInv`. The properties
speak of accepted connections and of files nobody writes; whether they hold is decided
earlier, in the middle of connect and of a save. `IInv` therefore joins to `TypeOK`

* `StageInv`: which clients have a key, an accepted connection, a file;
* `PolicyInv`: up to the decision the policy is the one connect was called under, and a
  client about to accept an unknown key was not told to reject it;
* `StoreInv`: the store has one key of a type for a server, and has what it accepted;
* `SteadyInv`: what was steady is in the file until the file is read, and afterwards
  speaks against no key about to be accepted;
* `FileInv`: what an undisturbed file has ever held is in the file or, while it is
  written, in the context of the only client at work on it;
* `FirstInv`: a key about to be saved is in the context and meets no saved one
  (`SavedInv`, `ClashInv`), which makes `FirstUseBinds` inductive.

`SftpPollOperationProofs` proves, for every number of connections, candidates and reads,
from `PollAssumption` (the bounds are naturals), the type invariant, each invariant of
the run `poll` and the refinement: `TypeCorrect`, `SessionsOwned`, `AllReleased`,
`ModeRestored`, `TransferVerified` and `RefinesRetrieval`. What must be released, restored
or verified is decided a dozen stages before the property speaks of it, and the ways out
(error, `abort()`, destruction, the retry) leave from every stage. `IInv` therefore joins
to `TypeOK`

* `StateInv`: in which stages the driving thread can be in a callback or closing, and
  that the client is reserved exactly as long as the operation runs or is being closed;
* `TransportInv`: session, SFTP session, held descriptor and socket belong together,
  but for a connection without a session that `closeIntern()` is about to close;
* `SessionInv`: what each stage works on, in non-blocking mode, with the restoring noted;
* `HeldInv`: in which stages an agent, candidates or a handle can be held, the agent being
  one of the session and at the head of the queue; a handle may outlive its session only
  where a read error has disconnected and `closeIntern()` is about to close it;
* `ModeInv`: an SFTP session in non-blocking mode is one whose mode will be restored;
* `VerifiedInv`: a connection the operation made is verified, then authenticated, and a
  retry finds no session to adopt;
* `CountInv`: nothing has been read before the file is open.

For the refinement `PhaseTable` gives the abstract phase as a function of the reservation
and the state, `StepKinds` sorts the actions into five kinds (a beginning, the retry, an
end, the dropping of the object, and steps that change nothing the abstract specification
sees), and `RetrievalStep` matches each kind with an action of `FileRetrieval` or with a
stuttering step.

`SFTPClientProofs` proves, for every set of threads and number of connections, from
`SFTPAssumption` (the marker `NoThread` is no thread), the type invariant and each
invariant of the run `sftp`: `TypeCorrect`, `HandlesClosedFirst`, `MethodsKeepSession` and
`AtRest`. `IInv` joins to `TypeOK`

* `LockInv` and `HandleInv`: who has the lock and who can have a handle;
* `AloneInv`: a call not marked as overlapped is the only one there is, which is what
  keeps the steps of others away from
* `MineInv`: what such a call has found or made is still there;
* `ModeInv`: as long as an SFTP session is in non-blocking mode, some method is on its way
  to restore it. It speaks of all calls, overlapped or not, and gives `RestState`.

`SSH2ChannelProofs` proves, for every set of threads, any amount of data and any width of
`size_t`, from `ChannelAssumption` (a size and an error code together fit into the width),
the type invariant, the invariant and both action properties of the run `channel`:
`TypeCorrect`, `StreamsInOrder`, `BlocksWhole` and `WritesWhole`. That bytes are returned in
order is not inductive: bytes that a call has read and not yet returned can still be
returned, kept for a next libssh2 call or dropped by an exception. Since the lock is held
from the first to the last step of a call (`LockInv`), there is one such buffer, `Held`,
and `StreamInv` says that what was returned, followed by `Held`, is the stream but for the
lost bytes.
`BufferInv` and `WireInv` bound the buffer and say what a write has sent.

`SftpPollerProofs` proves, for every set of threads, directories and files and any use of
`startInline()`, from `PollerAssumption`, the type invariant, with `sc` the number of threads
in `run()` and one more after a start whose thread was lost, and the safety properties of
the run `poller`: `TypeCorrect`, `StoppedWhenStopped`, `OneLoop`, `FilesDeliveredOnce` and
`FailureAfterEvent`. The last three speak of a loop that is alone: `startInline()` after
`stopNoWait()` can run next to the old loop, which shares `get_files` with it and lists the
same files. `IInv` joins to the types and `CountInv`

* `AloneInv`: at most one thread is in `run()` as long as the loop is alone, since `start()`
  finds `sc` to be 0 first and `CountInv` makes that mean that no thread is in `run()`;
* `StageInv`: which stages have files at hand, and that an error can end polling only where
  a file of the directory has been given to the application;
* `SeenInv` and `GoneInv`: a processed file has been on the server, and is gone from it and
  from the list unless it is being disposed of, or polling has failed.

`AuthPlanProofs` proves, for every number of candidates and identities and every set of
method lists, from `AuthAssumption`, the type invariant and each invariant of the run
`auth`: `TypeCorrect`, `BothDriversAgree`, `ProcessIdentitiesGuarded` and
`KeysCheckedBeforeRead`, all from `Inductive`. The two drivers have different variables: the
one a plan and a sub-plan, the other a queue. `Todo` and `Log` say of either what is left to
do and what was asked, and `Drives` shows every step of either to be a `DriverStep` on
them, so that each invariant is proved once:

* `IdleInv`: what does not belong to the driver that runs is empty;
* `CheckInv`: while the flag `checked` is set, the last question asked was for access to the
  key file at the head;
* `FinalInv`: an answer that ends a driver is its last, and explains its result;
* `OrderInv`: the process user's identities are permitted and come last in what is left of
  the plan, whatever the provider has put in front of it;
* `AgreeInv`: there is a history of the places `connect()` was at that explains its
  questions, and the poll operation is, after n questions, at the n-th of them. That
  they asked the same so far is not inductive: it says nothing about what they ask next.

In all these modules the inductive step has one lemma per action (in `AuthPlanProofs` per
kind of step) and, under it, one step per part of `IInv` that the action can disturb.

Only model-checked: the liveness properties `ConnectEnds`, `OpEnds`, `ReadEnds`,
`StopReturns`, `DriversEnd` and `TransferEnds`, since fairness and ENABLED are outside the
prover, and the four runs that end in a violation. Every other property of a passing run
is a theorem.

## 5. Not modelled

* Settings that no decision depends on: user, banner, trace level, keepalive, method
  preferences, timeouts; `info()`. Each is an assignment or a query under the lock.
* File attributes, directory listings, paths and their normalisation, the text
  encoding of `getTextFile()`: they are data of one request, and the request is in
  `SFTPClient`.
* Initialisation and clean-up of libssh2 and of the module's namespaces, which happen
  once. The process-wide defaults are in `HostKey`.
* `runOnce()` of SftpPoller called from outside the loop, and `stop()` in an event method,
  which waits for itself in the short time before `start()` has stored `tid`.
* `abort()` and destruction of a poll operation while its driving thread is in a callback:
  they are modelled between two calls of `continuePoll()`.
* Qore bindings, connection and data-provider descriptions, poller utilities: they
  forward to the classes modelled here and keep configuration only.
* libssh2, QoreSocket, the I/O controller and the host-key store are external and
  appear as the outcomes the module handles.

## 6. Plan

Done: `SSH2Client`, `HostKey`, `AuthPlan`, `SftpPollOperation`/`FileRetrieval`, `SFTPClient`,
`Transfer`, `SSH2Channel` and `SftpPoller`, each with its proofs. Left:

1. `abort()` during a callback of a poll operation.
2. A composition of `SftpPollOperation` with several threads of `SFTPClient`.
