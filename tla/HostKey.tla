------------------------------- MODULE HostKey -------------------------------
(***************************************************************************)
(* Host key verification: how the clients of one user decide whether the   *)
(* key a server presents is to be trusted.                                 *)
(*                                                                         *)
(* A client takes its settings from the process-wide defaults when it is   *)
(* constructed, in three reads, and can be given settings of its own.      *)
(* connect() checks the key against the host-key store, if one is set, or  *)
(* the known_hosts file.  The store is asked without the client's lock.    *)
(* The file is read as a whole into a context, and an accepted key is      *)
(* saved by writing the whole context back.  The lock of a client does not *)
(* keep other clients, of this process or another one, from the file.      *)
(*                                                                         *)
(* libssh2_knownhost_writefile() opens the file for writing, which         *)
(* truncates it, and then writes the entries: two steps, with the process  *)
(* possibly ending, or the disk being full, in between.  A file that is    *)
(* not there is one without entries.                                       *)
(***************************************************************************)
EXTENDS Naturals, FiniteSets

CONSTANTS
  Client,      \* client objects, of one or several processes
  SFTP,        \* those that are SFTPClient objects
  Server,      \* the servers, as [host, port] records
  Key,         \* host keys, as [type, blob] records
  NoKey,       \* no server has presented a key
  Path,        \* known_hosts files
  AutoPath,    \* the file ~/.ssh/known_hosts
  NoFile,      \* no known_hosts file is configured
  Known,       \* entries the files may hold at first
  Environment, \* values of the QORE_SSH2_DEFAULT_ variables, see EnvDefaults
  MaxConnect,  \* bound: connect() calls in a behaviour
  MaxSet       \* bound: calls of setters and of addKnownHost() in a behaviour

KhAuto == "auto"

Policy == {"REJECT", "TOFU", "TOFU_SESSION"}

\* port 0 stands for an entry with the plain host name, which is good for every
\* port; any other for one written as [host]:port
Entry == [host : {s.host : s \in Server}, port : {0} \cup {s.port : s \in Server}, key : Key]

ASSUME HostKeyAssumption ==
  /\ \A s \in Server : s = [host |-> s.host, port |-> s.port] /\ s.port \in Nat \ {0}
  /\ \A k \in Key : k = [type |-> k.type, blob |-> k.blob]
  /\ NoKey \notin Key
  /\ SFTP \subseteq Client
  /\ AutoPath \in Path
  /\ NoFile \notin Path
  /\ KhAuto \notin Path \cup {NoFile}
  /\ Known \subseteq Entry
  /\ \A env \in Environment : env.known_hosts \in {"unset", ""} \cup Path
  /\ MaxConnect \in Nat
  /\ MaxSet \in Nat

VARIABLES
  defaults,         \* ssh2_defaults
  verify_host_key,
  host_key_policy,
  known_hosts_file,
  host_key_store,   \* a host-key store is set on the client
  pc,               \* where each client is; see Stage
  server,           \* sshhost and sshport of a client
  key,              \* the key the server of the current connection presented
  nh,               \* the known-hosts context of a client, entries to be written
  file,             \* the entries of each known_hosts file
  store,            \* external: what the host-key store has recorded
  how,              \* how the key of a connection was accepted; see How
  asked,            \* history: the policy when connect() was called
  steady,           \* history: entries that no other client has removed from the
                    \* client's file ever since
  known,            \* history: entries that each file has held
  disturbed,        \* history: files of which two clients have been at work, or
                    \* of which a write has been interrupted
  connects, sets    \* bounded counters

settingVars == <<verify_host_key, host_key_policy, known_hosts_file, host_key_store>>
connVars == <<key, nh, how, asked>>
fileVars == <<file, steady, known, disturbed>>
countVars == <<connects, sets>>
vars == <<defaults, settingVars, pc, server, connVars, fileVars, store, countVars>>

\* the three reads of the constructor
Constructing == {"verify", "policy", "known_hosts"}

\* connect() in a method of the host-key store, without the lock
Asking == {"verifyHostKey", "acceptHostKeyIfAbsent"}

\* between reading the file and having written it, in connect() and addKnownHost()
Saving == {"tofu", "add"}
Writing == {"tofuWrite", "addWrite"}

Stage == {"idle", "hostkey", "connected"} \cup Constructing \cup Asking \cup Saving \cup Writing

\* a key is accepted unseen, found in the file, saved there on first use, or
\* accepted for the session; verifyHostKey() of the store has it on record
\* ("store") or accepts it for the session, or acceptHostKeyIfAbsent() does
How == {"none", "off", "match", "tofu", "session",
        "store", "storeSession", "added", "addedSession"}

\* The variables keep the values the code gives them.
TypeOK ==
  /\ defaults \in [verify : BOOLEAN, policy : Policy, kh : Path \cup {NoFile, KhAuto}]
  /\ verify_host_key \in [Client -> BOOLEAN]
  /\ host_key_policy \in [Client -> Policy]
  /\ known_hosts_file \in [Client -> Path \cup {NoFile}]
  /\ host_key_store \in [Client -> BOOLEAN]
  /\ pc \in [Client -> Stage]
  /\ server \in [Client -> Server]
  /\ key \in [Client -> Key \cup {NoKey}]
  /\ nh \in [Client -> SUBSET Entry]
  /\ file \in [Path -> SUBSET Entry]
  /\ store \subseteq Server \X Key
  /\ how \in [Client -> How]
  /\ asked \in [Client -> Policy]
  /\ steady \in [Client -> SUBSET Entry]
  /\ known \in [Path -> SUBSET Entry]
  /\ disturbed \subseteq Path
  /\ connects \in 0..MaxConnect
  /\ sets \in 0..MaxSet

\* ssh2_init_host_key_defaults(): a variable that is not set, or that has a
\* value without a meaning, leaves the built-in default
EnvDefaults(env) ==
  [verify |-> env.verify # "off",
   policy |-> IF env.policy \in Policy THEN env.policy ELSE "TOFU",
   kh     |-> CASE env.known_hosts = "unset" -> KhAuto
                [] env.known_hosts = "" -> NoFile
                [] OTHER -> env.known_hosts]

Init ==
  /\ \E env \in Environment : defaults = EnvDefaults(env)
  /\ verify_host_key = [c \in Client |-> TRUE]
  /\ host_key_policy = [c \in Client |-> "TOFU"]
  /\ known_hosts_file = [c \in Client |-> NoFile]
  /\ host_key_store = [c \in Client |-> FALSE]
  /\ pc = [c \in Client |-> "verify"]
  /\ server \in [Client -> Server]
  /\ key = [c \in Client |-> NoKey]
  /\ nh = [c \in Client |-> {}]
  /\ file \in [Path -> {{}, Known}]
  /\ store = {}
  /\ how = [c \in Client |-> "none"]
  /\ asked = [c \in Client |-> "TOFU"]
  /\ steady = [c \in Client |-> {}]
  /\ known = file
  /\ disturbed = {}
  /\ connects = 0
  /\ sets = 0

Goto(c, stage) == pc' = [pc EXCEPT ![c] = stage]

-----------------------------------------------------------------------------
(* Defaults and settings. *)

\* ssh2_set_default_verify_host_key(), ..._host_key_policy(), ..._known_hosts();
\* a policy that does not exist is refused
SetDefault ==
  /\ sets < MaxSet
  /\ sets' = sets + 1
  /\ \/ \E v \in BOOLEAN : defaults' = [defaults EXCEPT !.verify = v]
     \/ \E p \in Policy : defaults' = [defaults EXCEPT !.policy = p]
     \/ \E f \in Path \cup {NoFile, KhAuto} : defaults' = [defaults EXCEPT !.kh = f]
  /\ UNCHANGED <<settingVars, pc, server, connVars, fileVars, store, connects>>

\* the file of a client made under the default d: ~/.ssh/known_hosts cannot be
\* found without a home directory or access to the file system
DefaultFile(d) ==
  CASE d = KhAuto -> {AutoPath, NoFile}
    [] OTHER -> {d}

\* the constructor reads the defaults one at a time
Construct(c) ==
  /\ \/ /\ pc[c] = "verify"
        /\ verify_host_key' = [verify_host_key EXCEPT ![c] = defaults.verify]
        /\ Goto(c, "policy")
        /\ UNCHANGED <<host_key_policy, known_hosts_file>>
     \/ /\ pc[c] = "policy"
        /\ host_key_policy' = [host_key_policy EXCEPT ![c] = defaults.policy]
        /\ Goto(c, "known_hosts")
        /\ UNCHANGED <<verify_host_key, known_hosts_file>>
     \/ /\ pc[c] = "known_hosts"
        /\ \E f \in DefaultFile(defaults.kh) :
             known_hosts_file' = [known_hosts_file EXCEPT ![c] = f]
        /\ Goto(c, "idle")
        /\ UNCHANGED <<verify_host_key, host_key_policy>>
  /\ UNCHANGED <<defaults, host_key_store, server, connVars, fileVars, store, countVars>>

\* fault: the policy can be changed in the middle of any connect()
PolicySetterUnguarded(c) == pc[c] \in {"idle", "connected"} \cup Asking

\* setHostKeyPolicy() is refused while connect_in_progress is set, and waits for
\* the lock otherwise; an SFTPClient connects without setting the flag
MaySetPolicy(c) ==
  pc[c] \in {"idle", "connected"} \cup (IF c \in SFTP THEN Asking ELSE {})

\* the setters of a client; those other than setHostKeyPolicy() are refused from
\* the beginning of connect() on
Set(c) ==
  /\ sets < MaxSet
  /\ sets' = sets + 1
  /\ \/ /\ MaySetPolicy(c)
        /\ \E p \in Policy : host_key_policy' = [host_key_policy EXCEPT ![c] = p]
        /\ UNCHANGED <<verify_host_key, known_hosts_file, host_key_store>>
     \/ /\ pc[c] = "idle"
        /\ \/ /\ verify_host_key' = [verify_host_key EXCEPT ![c] = ~@]
              /\ UNCHANGED <<known_hosts_file, host_key_store>>
           \/ /\ \E f \in Path \cup {NoFile} :
                   known_hosts_file' = [known_hosts_file EXCEPT ![c] = f]
              /\ UNCHANGED <<verify_host_key, host_key_store>>
           \/ /\ host_key_store' = [host_key_store EXCEPT ![c] = ~@]
              /\ UNCHANGED <<verify_host_key, known_hosts_file>>
        /\ UNCHANGED host_key_policy
  /\ UNCHANGED <<defaults, pc, server, connVars, fileVars, store, connects>>

-----------------------------------------------------------------------------
(* The known_hosts file, as libssh2 reads, checks and writes it. *)

\* external: the entries libssh2_knownhost_checkp() compares with: those for
\* [host]:port or the plain host name, of the type of the key
Candidates(entries, s, k) ==
  {e \in entries : e.host = s.host /\ e.port \in {0, s.port} /\ e.key.type = k.type}

\* fault: the port is not given, so that only plain names are found
CheckWithoutPort(entries, s, k) ==
  LET plain == {e \in Candidates(entries, s, k) : e.port = 0}
  IN CASE \E e \in plain : e.key = k -> "MATCH"
       [] plain = {} -> "NOTFOUND"
       [] OTHER -> "MISMATCH"

\* external: libssh2_knownhost_checkp()
Check(entries, s, k) ==
  CASE \E e \in Candidates(entries, s, k) : e.key = k -> "MATCH"
    [] Candidates(entries, s, k) = {} -> "NOTFOUND"
    [] OTHER -> "MISMATCH"

\* libssh2_knownhost_addc() is given the host name without the port
NewEntry(h, k) == [host |-> h, port |-> 0, key |-> k]

WritersOf(p) == {c \in Client : pc[c] \in Writing /\ known_hosts_file[c] = p}

\* clients that have read the file p and mean to replace it
UsersOf(p) == {c \in Client : pc[c] \in Saving \cup Writing /\ known_hosts_file[c] = p}

\* the client w has changed the file p, which has the entries es from now on
FileBecomes(w, p, es) ==
  /\ file' = [file EXCEPT ![p] = es]
  /\ known' = [known EXCEPT ![p] = @ \cup es]
  /\ steady' = [c \in Client |->
                  CASE pc'[c] = "idle" -> {}
                    [] pc'[c] # "idle" /\ c # w /\ known_hosts_file[c] = p -> steady[c] \cap es
                    [] OTHER -> steady[c]]

-----------------------------------------------------------------------------
(* connect() *)

\* the handshake is over: the server has presented a key
Connect(c) ==
  /\ pc[c] \in {"idle", "connected"}
  /\ connects < MaxConnect
  /\ connects' = connects + 1
  /\ \E k \in Key : key' = [key EXCEPT ![c] = k]
  /\ how' = [how EXCEPT ![c] = "none"]
  /\ asked' = [asked EXCEPT ![c] = host_key_policy[c]]
  /\ steady' = [steady EXCEPT ![c] = IF known_hosts_file[c] = NoFile THEN {}
                                     ELSE file[known_hosts_file[c]]]
  /\ Goto(c, "hostkey")
  /\ UNCHANGED <<defaults, settingVars, server, nh, file, known, disturbed, store, sets>>

\* the key is accepted; authentication follows
Accept(c, reason) ==
  /\ Goto(c, "connected")
  /\ how' = [how EXCEPT ![c] = reason]
  /\ nh' = [nh EXCEPT ![c] = {}]
  /\ UNCHANGED <<key, asked>>

\* the session is gone
Closed(c) ==
  /\ Goto(c, "idle")
  /\ how' = [how EXCEPT ![c] = "none"]
  /\ nh' = [nh EXCEPT ![c] = {}]
  /\ key' = [key EXCEPT ![c] = NoKey]
  /\ asked' = [asked EXCEPT ![c] = "TOFU"]

\* an exception is raised and the session disconnected
Refuse(c) ==
  /\ Closed(c)
  /\ steady' = [steady EXCEPT ![c] = {}]

\* verification is off, or the store decides, or the session has no host key
HostKey(c) ==
  /\ pc[c] = "hostkey"
  /\ \/ ~verify_host_key[c] /\ Accept(c, "off") /\ UNCHANGED steady
     \/ /\ verify_host_key[c] /\ host_key_store[c]
        /\ Goto(c, "verifyHostKey")
        /\ UNCHANGED <<connVars, steady>>
     \/ verify_host_key[c] /\ Refuse(c)
  /\ UNCHANGED <<defaults, settingVars, server, file, known, disturbed, store, countVars>>

\* fault: the file is not read into the context before it is written
SaveUnread(c, stage, entries) ==
  /\ nh' = [nh EXCEPT ![c] = entries \ file[known_hosts_file[c]]]
  /\ Goto(c, stage)
  /\ UNCHANGED <<key, how, asked>>

\* the context, as read from the file, with a key added to it, to be written back
Save(c, stage, entries) ==
  /\ nh' = [nh EXCEPT ![c] = entries]
  /\ Goto(c, stage)
  /\ UNCHANGED <<key, how, asked>>

\* verifyHostKeyUnlocked() without a store, up to the decision.  Without a file
\* the context is empty, and persistent trust on first use is refused.  Access to
\* the file may be denied, stat() or reading it may fail: all refuse the key.
CheckKnownHosts(c) ==
  LET p == known_hosts_file[c]
      entries == IF p = NoFile THEN {} ELSE file[p]
      check == Check(entries, server[c], key[c])
      unknown == check = "NOTFOUND" /\ host_key_policy[c] # "REJECT"
  IN
  /\ pc[c] = "hostkey"
  /\ verify_host_key[c] /\ ~host_key_store[c]
  /\ \/ Refuse(c)
     \/ /\ p # NoFile \/ host_key_policy[c] # "TOFU"
        /\ \/ check = "MATCH" /\ Accept(c, "match")
           \/ unknown /\ p = NoFile /\ Accept(c, "session")
           \/ unknown /\ p # NoFile /\ Save(c, "tofu", entries \cup {NewEntry(server[c].host, key[c])})
        /\ UNCHANGED steady
  /\ disturbed' = disturbed \cup {q \in {p} : q # NoFile /\ WritersOf(q) # {}}
  /\ UNCHANGED <<defaults, settingVars, server, file, known, store, countVars>>

-----------------------------------------------------------------------------
(* Saving a key: the end of verifyHostKeyUnlocked() and addKnownHost(). *)

\* fault: a key that could not be saved is accepted all the same
SaveFailureIgnored(c) == Accept(c, IF pc[c] \in {"tofu", "tofuWrite"} THEN "tofu" ELSE how[c])

\* the key could not be saved: connect() fails, while addKnownHost() leaves the
\* connection alone
SaveFailed(c) ==
  \/ pc[c] \in {"tofu", "tofuWrite"} /\ Closed(c)
  \/ pc[c] \in {"add", "addWrite"} /\ Accept(c, how[c])

\* access to the file is denied, or its directory cannot be made
SaveRefused(c) ==
  /\ pc[c] \in Saving
  /\ SaveFailed(c)
  /\ steady' = [steady EXCEPT ![c] = IF pc'[c] = "idle" THEN {} ELSE @]
  /\ UNCHANGED <<defaults, settingVars, server, file, known, disturbed, store, countVars>>

\* the file is opened for writing, which empties it; what another client has read
\* and means to write back is out of date from now on
OpenFile(c) ==
  LET p == known_hosts_file[c]
  IN
  /\ pc[c] \in Saving
  /\ Goto(c, IF pc[c] = "tofu" THEN "tofuWrite" ELSE "addWrite")
  /\ FileBecomes(c, p, {})
  /\ disturbed' = IF UsersOf(p) = {c} THEN disturbed ELSE disturbed \cup {p}
  /\ UNCHANGED <<defaults, settingVars, server, connVars, store, countVars>>

\* the entries are written, over what another client has written meanwhile
WriteFile(c) ==
  LET p == known_hosts_file[c]
  IN
  /\ pc[c] \in Writing
  /\ Accept(c, IF pc[c] = "tofuWrite" THEN "tofu" ELSE how[c])
  /\ \E rest \in SUBSET file[p] : FileBecomes(c, p, nh[c] \cup rest)
  /\ UNCHANGED <<defaults, settingVars, server, disturbed, store, countVars>>

\* the write fails: some of the entries are in the file, as they are when the
\* process ends there
WriteInterrupted(c) ==
  LET p == known_hosts_file[c]
  IN
  /\ pc[c] \in Writing
  /\ SaveFailed(c)
  /\ \E part \in SUBSET nh[c] : FileBecomes(c, p, part)
  /\ disturbed' = disturbed \cup {p}
  /\ UNCHANGED <<defaults, settingVars, server, store, countVars>>

\* addKnownHost(): the file is read again and the key added to the context under
\* the name that was given, or the name of the host
AddKnownHost(c) ==
  LET p == known_hosts_file[c]
  IN
  /\ pc[c] = "connected"
  /\ p # NoFile
  /\ sets < MaxSet
  /\ sets' = sets + 1
  /\ \E h \in {s.host : s \in Server} : Save(c, "add", file[p] \cup {NewEntry(h, key[c])})
  /\ disturbed' = IF WritersOf(p) # {} THEN disturbed \cup {p} ELSE disturbed
  /\ UNCHANGED <<defaults, settingVars, server, file, steady, known, store, connects>>

-----------------------------------------------------------------------------
(* The host-key store: verifyHostKeyWithStore(). *)

\* external: what the store knows of a server, for keys of one type
Recorded(s, k) == {r \in store : r[1] = s /\ r[2].type = k.type}

\* The decisions that ssh2_hostkey_decision_success() takes for a yes: "matched"
\* or "added", which a store gives for a key it has, or now puts, on record, and
\* "accepted-session", for which it records nothing and needs to have nothing.
StoreSuccess(c, onRecord, forSession) ==
  /\ \/ /\ Recorded(server[c], key[c]) \subseteq {<<server[c], key[c]>>}
        /\ store' = store \cup {<<server[c], key[c]>>}
        /\ Accept(c, onRecord)
     \/ Accept(c, forSession) /\ UNCHANGED store
  /\ UNCHANGED steady

\* verifyHostKey() has returned: yes, whatever the policy; an error; or unknown
StoreVerified(c) ==
  /\ pc[c] = "verifyHostKey"
  /\ \/ StoreSuccess(c, "store", "storeSession")
     \/ Refuse(c) /\ UNCHANGED store
     \/ /\ Recorded(server[c], key[c]) = {}
        /\ host_key_policy[c] # "REJECT"
        /\ Goto(c, "acceptHostKeyIfAbsent")
        /\ UNCHANGED <<connVars, steady, store>>
  /\ UNCHANGED <<defaults, settingVars, server, file, known, disturbed, countVars>>

\* fault: a key that was unknown is accepted without the store being asked again
StoreNotAsked(c) ==
  /\ pc[c] = "acceptHostKeyIfAbsent"
  /\ store' = store \cup {<<server[c], key[c]>>}
  /\ Accept(c, "added")
  /\ UNCHANGED <<defaults, settingVars, server, fileVars, countVars>>

\* acceptHostKeyIfAbsent() has returned: yes, with the key added or found to have
\* been added meanwhile or for the session, or an error
StoreAccepted(c) ==
  /\ pc[c] = "acceptHostKeyIfAbsent"
  /\ StoreSuccess(c, "added", "addedSession") \/ (Refuse(c) /\ UNCHANGED store)
  /\ UNCHANGED <<defaults, settingVars, server, file, known, disturbed, countVars>>

-----------------------------------------------------------------------------
Disconnect(c) ==
  /\ pc[c] = "connected"
  /\ Refuse(c)
  /\ UNCHANGED <<defaults, settingVars, server, file, known, disturbed, store, countVars>>

Next ==
  \/ SetDefault
  \/ \E c \in Client :
       \/ Construct(c) \/ Set(c)
       \/ Connect(c) \/ HostKey(c) \/ CheckKnownHosts(c)
       \/ SaveRefused(c) \/ OpenFile(c) \/ WriteFile(c) \/ WriteInterrupted(c)
       \/ AddKnownHost(c) \/ StoreVerified(c) \/ StoreAccepted(c) \/ Disconnect(c)

Spec == Init /\ [][Next]_vars

-----------------------------------------------------------------------------
(* Properties *)

\* An entry of a known_hosts file is lost only when two clients have been at
\* work on the file at once or a write was interrupted: a client that saves a
\* key keeps all entries it read, and leaves a file it could not read alone.
KnownKeysKept ==
  \A p \in Path : p \notin disturbed /\ WritersOf(p) = {} => known[p] \subseteq file[p]

\* Trust on first use never overrides what the file says: a key is accepted as
\* unknown only if no entry for the server, under its port or its plain name, has
\* been in the file from connect() on, whatever other clients did to the file, and
\* whatever failed.
SteadyEntryBinds ==
  \A c \in Client :
    how[c] \in {"tofu", "session"} => Candidates(steady[c], server[c], key[c]) = {}

\* Trust on first use binds: of two connections to servers of one host, both
\* accepted on first use with one undisturbed file, both have the same key, or
\* keys of different types.
FirstUseBinds ==
  \A c, d \in Client :
    /\ how[c] = "tofu" /\ how[d] = "tofu"
    /\ known_hosts_file[c] = known_hosts_file[d]
    /\ known_hosts_file[c] \notin disturbed
    /\ server[c].host = server[d].host
    /\ key[c].type = key[d].type
    => key[c] = key[d]

\* Two clients whose keys a host-key store has on record for one server, as it
\* told either of them by "matched" or "added", have the same key, or keys of
\* different types, in any interleaving of their calls: the second question,
\* acceptHostKeyIfAbsent(), closes the gap that the unlocked calls leave.  Keys
\* accepted for the session only are on no record, and may differ.
StoreBinds ==
  \A c, d \in Client :
    /\ {how[c], how[d]} \subseteq {"store", "added"}
    /\ server[c] = server[d]
    /\ key[c].type = key[d].type
    => key[c] = key[d]

\* What the client does about a key that is unknown follows the policy that was in
\* force when connect() was called: it saves the key, or has the store accept it
\* by acceptHostKeyIfAbsent(), only if that was not REJECT, and accepts it without
\* either only if that was TOFU_SESSION.  A yes from verifyHostKey() is the
\* store's own decision and is taken under every policy.
HonoursPolicy(c) ==
  /\ how[c] \in {"tofu", "added", "addedSession"} => asked[c] # "REJECT"
  /\ how[c] = "session" => asked[c] = "TOFU_SESSION"

\* That holds of SSH2Client objects: nobody can change the policy in the middle
\* of connect(), though the store is called without the lock.
PolicyHonoured == \A c \in Client \ SFTP : HonoursPolicy(c)
=============================================================================
