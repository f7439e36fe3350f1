---------------------------- MODULE HostKeyProofs ----------------------------
(***************************************************************************)
(* Proofs about HostKey, for any clients, servers, keys and files.         *)
(*                                                                         *)
(* The properties are about connections that have been accepted.  What     *)
(* makes them hold is what is known in the middle of connect() and of a    *)
(* save: IInv says of each stage what the client has then, and of each     *)
(* file what those who are about to write it mean to write.                *)
(***************************************************************************)
EXTENDS HostKey, TLAPS

InConnect == {"hostkey"} \cup Asking \cup {"tofu", "tofuWrite"}

IsUser(c, p) == pc[c] \in Saving \cup Writing /\ known_hosts_file[c] = p
IsWriter(c, p) == pc[c] \in Writing /\ known_hosts_file[c] = p

\* what a client has in each stage
StageInv ==
  \A c \in Client :
    /\ pc[c] \in InConnect \cup {"connected", "add", "addWrite"} => key[c] \in Key
    /\ how[c] # "none" => pc[c] \in {"connected", "add", "addWrite"}
    /\ pc[c] \in Saving \cup Writing => known_hosts_file[c] \in Path

\* the policy that connect() goes by is the one it was called under
PolicyInv ==
  \A c \in Client \ SFTP :
    /\ pc[c] \in {"hostkey", "verifyHostKey"} => asked[c] = host_key_policy[c]
    /\ pc[c] \in {"acceptHostKeyIfAbsent", "tofu", "tofuWrite"} => asked[c] # "REJECT"
    /\ HonoursPolicy(c)

\* the store has one key of a type for a server on record, and has those for which
\* it said so
StoreInv ==
  /\ \A r, q \in store : r[1] = q[1] /\ r[2].type = q[2].type => r[2] = q[2]
  /\ \A c \in Client : how[c] \in {"store", "added"} => <<server[c], key[c]>> \in store

\* no steady entry speaks against a key that is, or is about to be, accepted
SteadyInv ==
  \A c \in Client :
    /\ pc[c] = "hostkey" =>
         \A e \in steady[c] : known_hosts_file[c] \in Path /\ e \in file[known_hosts_file[c]]
    /\ pc[c] \in {"tofu", "tofuWrite"} \/ how[c] \in {"tofu", "session"} =>
         Candidates(steady[c], server[c], key[c]) = {}

\* of an undisturbed file, all that it ever held is in it or, while it is being
\* written, in the context of its only user
FileInv ==
  \A p \in Path : p \notin disturbed =>
    /\ (\A c \in Client : ~IsWriter(c, p)) => known[p] \subseteq file[p]
    /\ \A c \in Client : IsUser(c, p) => known[p] \subseteq nh[c]
    /\ \A c, d \in Client : IsWriter(c, p) /\ IsUser(d, p) => c = d

Clash(c, d) == server[c].host = server[d].host /\ key[c].type = key[d].type

\* a key about to be saved is in the context, one saved was in the file
SavedInv ==
  \A c \in Client :
    /\ pc[c] \in {"tofu", "tofuWrite"} => NewEntry(server[c].host, key[c]) \in nh[c]
    /\ how[c] = "tofu" =>
         /\ known_hosts_file[c] \in Path
         /\ known_hosts_file[c] \notin disturbed =>
              NewEntry(server[c].host, key[c]) \in known[known_hosts_file[c]]

\* a key about to be saved meets no other saved to the same file
ClashInv ==
  \A c, d \in Client :
    /\ pc[c] \in {"tofu", "tofuWrite"} /\ how[d] = "tofu"
    /\ known_hosts_file[c] = known_hosts_file[d]
    /\ known_hosts_file[c] \notin disturbed
    => ~Clash(c, d)

FirstInv == SavedInv /\ ClashInv /\ FirstUseBinds

IInv == TypeOK /\ StageInv /\ PolicyInv /\ StoreInv /\ SteadyInv /\ FileInv /\ FirstInv

-----------------------------------------------------------------------------
\* The bounds are numbers, ~/.ssh/known_hosts is a file and NoFile is none.
LEMMA Bounds == MaxConnect \in Nat /\ MaxSet \in Nat /\ AutoPath \in Path /\ NoFile \notin Path
BY HostKeyAssumption

\* An entry for a plain host name is an entry.
LEMMA NewEntryType ==
  ASSUME NEW h \in {s.host : s \in Server}, NEW k \in Key
  PROVE  NewEntry(h, k) \in Entry
BY DEF NewEntry, Entry

\* The invariant holds when no client has been constructed.
LEMMA InitIInv == Init => IInv
<1> SUFFICES ASSUME Init PROVE IInv
  OBVIOUS
<1>1. defaults \in [verify : BOOLEAN, policy : Policy, kh : Path \cup {NoFile, KhAuto}]
  <2>1. PICK env \in Environment : defaults = EnvDefaults(env)
    BY DEF Init
  <2>2. env.known_hosts \in {"unset", ""} \cup Path
    BY HostKeyAssumption
  <2> QED BY <2>1, <2>2 DEF EnvDefaults, Policy
<1>2. TypeOK
  <2>1. Known \in SUBSET Entry
    BY HostKeyAssumption
  <2>2. file \in [Path -> SUBSET Entry]
    BY <2>1 DEF Init
  <2> QED BY <1>1, <2>2, Bounds DEF Init, TypeOK, Policy, Stage, Constructing, How
<1>3. StageInv /\ PolicyInv /\ StoreInv /\ SteadyInv
  BY DEF Init, StageInv, PolicyInv, StoreInv, SteadyInv, InConnect, HonoursPolicy, Asking, Saving,
       Writing
<1>4. FileInv /\ FirstInv
  BY DEF Init, FileInv, FirstInv, SavedInv, ClashInv, IsUser, FirstUseBinds, Saving, Writing
<1> QED BY <1>2, <1>3, <1>4 DEF IInv

\* A step of a client that neither begins nor ends a save leaves files as they are.
LEMMA QuietFileInv ==
  ASSUME NEW c \in Client, TypeOK, FileInv,
         pc' = [pc EXCEPT ![c] = pc'[c]],
         pc[c] \notin Saving \cup Writing, pc'[c] \notin Saving \cup Writing,
         \A d \in Client : d # c => nh'[d] = nh[d],
         UNCHANGED <<known_hosts_file, file, known>>, disturbed \subseteq disturbed'
  PROVE  FileInv'
<1>1. ASSUME NEW d \in Client, NEW p
      PROVE  IsUser(d, p)' = IsUser(d, p) /\ IsWriter(d, p)' = IsWriter(d, p)
  <2>1. CASE d = c
    BY <2>1 DEF IsUser, IsWriter
  <2>2. CASE d # c
    <3>1. pc'[d] = pc[d]
      BY <2>2 DEF TypeOK
    <3> QED BY <3>1 DEF IsUser, IsWriter
  <2> QED BY <2>1, <2>2
<1>2. \A d \in Client, p \in Path : IsUser(d, p) => nh'[d] = nh[d]
  BY DEF IsUser
<1> QED BY <1>1, <1>2 DEF FileInv

\* A change of the defaults concerns clients made later.
LEMMA SetDefaultIInv ==
  ASSUME IInv, SetDefault
  PROVE  IInv'
<1>1. TypeOK'
  <2>1. sets' \in 0..MaxSet
    BY Bounds DEF IInv, TypeOK, SetDefault
  <2> QED BY <2>1 DEF IInv, TypeOK, SetDefault, settingVars, connVars, fileVars
<1>2. StageInv'
  BY DEF IInv, SetDefault, StageInv, settingVars, connVars
<1>3. PolicyInv'
  BY DEF IInv, SetDefault, PolicyInv, HonoursPolicy, settingVars, connVars
<1>4. StoreInv'
  BY DEF IInv, SetDefault, StoreInv, connVars
<1>5. SteadyInv'
  BY DEF IInv, SetDefault, SteadyInv, settingVars, connVars, fileVars
<1>6. FileInv'
  BY DEF IInv, SetDefault, FileInv, IsUser, IsWriter, settingVars, connVars, fileVars
<1>7. FirstInv'
  <2>1. SavedInv'
    BY DEF IInv, SetDefault, FirstInv, SavedInv, settingVars, connVars, fileVars
  <2>2. ClashInv'
    BY DEF IInv, SetDefault, FirstInv, ClashInv, Clash, settingVars, connVars, fileVars
  <2>3. FirstUseBinds'
    BY DEF IInv, SetDefault, FirstInv, FirstUseBinds, settingVars, connVars, fileVars
  <2> QED BY <2>1, <2>2, <2>3 DEF FirstInv
<1> QED BY <1>1, <1>2, <1>3, <1>4, <1>5, <1>6, <1>7 DEF IInv

\* A client under construction has no connection and no file in use.
LEMMA ConstructIInv ==
  ASSUME NEW c \in Client, IInv, Construct(c)
  PROVE  IInv'
<1>1. TypeOK'
  BY Bounds DEF IInv, TypeOK, Construct, Goto, DefaultFile, Stage, Constructing, connVars,
       fileVars, countVars
<1>2. StageInv'
  BY DEF IInv, Construct, Goto, TypeOK, StageInv, InConnect, Asking, Saving, Writing, connVars
<1>3. PolicyInv'
  BY DEF IInv, Construct, Goto, TypeOK, PolicyInv, HonoursPolicy, connVars
<1>4. StoreInv'
  BY DEF IInv, Construct, StoreInv, connVars
<1>5. SteadyInv'
  BY DEF IInv, Construct, Goto, TypeOK, SteadyInv, connVars, fileVars
<1>6. FileInv'
  <2>1. /\ \A d \in Client : d # c => pc'[d] = pc[d] /\ known_hosts_file'[d] = known_hosts_file[d]
        /\ pc[c] \in Constructing /\ pc'[c] \in Constructing \cup {"idle"}
    BY DEF IInv, TypeOK, Construct, Goto, Constructing
  <2>2. UNCHANGED <<nh, file, known, disturbed>>
    BY DEF Construct, connVars, fileVars
  <2>3. ASSUME NEW d \in Client, NEW p
        PROVE  IsUser(d, p)' = IsUser(d, p) /\ IsWriter(d, p)' = IsWriter(d, p)
    BY <2>1 DEF IsUser, IsWriter, Constructing, Saving, Writing
  <2> QED BY <2>2, <2>3 DEF IInv, FileInv
<1>7. FirstInv'
  <2>1. SavedInv'
    BY DEF IInv, Construct, Goto, TypeOK, StageInv, FirstInv, SavedInv, connVars, fileVars
  <2>2. ClashInv'
    BY DEF IInv, Construct, Goto, TypeOK, StageInv, FirstInv, ClashInv, Clash, connVars, fileVars
  <2>3. FirstUseBinds'
    <3>1. \A d \in Client : how[d] = "tofu" => known_hosts_file'[d] = known_hosts_file[d]
      BY DEF IInv, TypeOK, StageInv, Construct
    <3>2. UNCHANGED <<how, key, server, disturbed>>
      BY DEF Construct, connVars, fileVars
    <3> QED BY <3>1, <3>2 DEF IInv, FirstInv, FirstUseBinds
  <2> QED BY <2>1, <2>2, <2>3 DEF FirstInv
<1> QED BY <1>1, <1>2, <1>3, <1>4, <1>5, <1>6, <1>7 DEF IInv

\* The file of a client changes only while it is idle, and the policy of an
\* SSH2Client never in the middle of connect().
LEMMA SetIInv ==
  ASSUME NEW c \in Client, IInv, Set(c)
  PROVE  IInv'
<1>1. TypeOK'
  <2>1. sets' \in 0..MaxSet
    BY Bounds DEF IInv, TypeOK, Set
  <2>2. verify_host_key' \in [Client -> BOOLEAN] /\ host_key_store' \in [Client -> BOOLEAN]
    BY Zenon DEF IInv, TypeOK, Set
  <2> QED BY <2>1, <2>2 DEF IInv, TypeOK, Set, connVars, fileVars
<1>2. StageInv'
  BY DEF IInv, Set, TypeOK, StageInv, Saving, Writing, connVars
<1>3. PolicyInv'
  BY DEF IInv, Set, MaySetPolicy, TypeOK, PolicyInv, HonoursPolicy, connVars
<1>4. StoreInv'
  BY DEF IInv, Set, StoreInv, connVars
<1>5. SteadyInv'
  BY DEF IInv, Set, TypeOK, SteadyInv, connVars, fileVars
<1>6. FileInv'
  <2>1. \A d \in Client : known_hosts_file'[d] = known_hosts_file[d] \/ pc[d] = "idle"
    BY DEF IInv, TypeOK, Set
  <2>2. UNCHANGED <<pc, nh, file, known, disturbed>>
    BY DEF Set, connVars, fileVars
  <2>3. ASSUME NEW d \in Client, NEW p
        PROVE  IsUser(d, p)' = IsUser(d, p) /\ IsWriter(d, p)' = IsWriter(d, p)
    BY <2>1, <2>2 DEF IsUser, IsWriter, Saving, Writing
  <2> QED BY <2>2, <2>3 DEF IInv, FileInv
<1>7. FirstInv'
  <2>1. SavedInv'
    BY DEF IInv, Set, TypeOK, StageInv, FirstInv, SavedInv, connVars, fileVars
  <2>2. ClashInv'
    BY DEF IInv, Set, TypeOK, StageInv, FirstInv, ClashInv, Clash, connVars, fileVars
  <2>3. FirstUseBinds'
    BY DEF IInv, Set, TypeOK, StageInv, FirstInv, FirstUseBinds, connVars, fileVars
  <2> QED BY <2>1, <2>2, <2>3 DEF FirstInv
<1> QED BY <1>1, <1>2, <1>3, <1>4, <1>5, <1>6, <1>7 DEF IInv

\* connect() notes the policy and the entries of the file.
LEMMA ConnectIInv ==
  ASSUME NEW c \in Client, IInv, Connect(c)
  PROVE  IInv'
<1>1. TypeOK'
  <2>1. connects' \in 0..MaxConnect
    BY Bounds DEF IInv, TypeOK, Connect
  <2> QED BY <2>1 DEF IInv, TypeOK, Connect, Goto, How, Stage, settingVars
<1>2. StageInv'
  BY DEF IInv, Connect, Goto, TypeOK, StageInv, Saving, Writing, settingVars
<1>3. PolicyInv'
  BY DEF IInv, Connect, Goto, TypeOK, PolicyInv, HonoursPolicy, settingVars
<1>4. StoreInv'
  BY DEF IInv, Connect, TypeOK, StoreInv
<1>5. SteadyInv'
  BY DEF IInv, Connect, Goto, TypeOK, SteadyInv, settingVars
<1>6. FileInv'
  BY DEF IInv, Connect, Goto, FileInv, IsUser, IsWriter, Saving, Writing, settingVars
<1>7. FirstInv'
  <2>1. SavedInv'
    BY DEF IInv, Connect, Goto, TypeOK, FirstInv, SavedInv, settingVars
  <2>2. ClashInv'
    BY DEF IInv, Connect, Goto, TypeOK, FirstInv, ClashInv, Clash, settingVars
  <2>3. FirstUseBinds'
    BY DEF IInv, Connect, TypeOK, FirstInv, FirstUseBinds, settingVars
  <2> QED BY <2>1, <2>2, <2>3 DEF FirstInv
<1> QED BY <1>1, <1>2, <1>3, <1>4, <1>5, <1>6, <1>7 DEF IInv

\* A key accepted unseen makes no claim on the file or the store.
LEMMA HostKeyIInv ==
  ASSUME NEW c \in Client, IInv, HostKey(c)
  PROVE  IInv'
<1>1. TypeOK'
  BY DEF IInv, TypeOK, HostKey, Accept, Refuse, Closed, Goto, How, Stage, Policy, Asking,
       settingVars, connVars, countVars
<1>2. StageInv'
  BY DEF IInv, HostKey, Accept, Refuse, Closed, Goto, TypeOK, StageInv, InConnect, Asking, Saving,
       Writing, settingVars, connVars
<1>3. PolicyInv'
  BY DEF IInv, HostKey, Accept, Refuse, Closed, Goto, TypeOK, PolicyInv, HonoursPolicy,
       settingVars, connVars
<1>4. StoreInv'
  BY DEF IInv, HostKey, Accept, Refuse, Closed, TypeOK, StoreInv, connVars
<1>5. SteadyInv'
  BY DEF IInv, HostKey, Accept, Refuse, Closed, Goto, TypeOK, SteadyInv, settingVars, connVars
<1>6. FileInv'
  <2>1. /\ pc[c] \notin Saving \cup Writing /\ pc'[c] \in {"connected", "verifyHostKey", "idle"}
        /\ pc' = [pc EXCEPT ![c] = pc'[c]]
    BY DEF IInv, TypeOK, HostKey, Accept, Refuse, Closed, Goto, Saving, Writing
  <2>2. \A d \in Client : d # c => nh'[d] = nh[d]
    BY DEF IInv, TypeOK, HostKey, Accept, Refuse, Closed, connVars
  <2>3. UNCHANGED <<known_hosts_file, file, known, disturbed>>
    BY DEF HostKey, settingVars
  <2> QED BY <2>1, <2>2, <2>3, QuietFileInv DEF IInv, Saving, Writing
<1>7. FirstInv'
  <2>1. SavedInv'
    BY DEF IInv, HostKey, Accept, Refuse, Closed, Goto, TypeOK, FirstInv, SavedInv, settingVars,
         connVars
  <2>2. ClashInv'
    BY DEF IInv, HostKey, Accept, Refuse, Closed, Goto, TypeOK, FirstInv, ClashInv, Clash,
         settingVars, connVars
  <2>3. FirstUseBinds'
    BY DEF IInv, HostKey, Accept, Refuse, Closed, TypeOK, FirstInv, FirstUseBinds, settingVars,
         connVars
  <2> QED BY <2>1, <2>2, <2>3 DEF FirstInv
<1> QED BY <1>1, <1>2, <1>3, <1>4, <1>5, <1>6, <1>7 DEF IInv

\* A key to be saved has no candidate in the file that was read, hence none
\* among the steady entries and none saved by another client.
LEMMA CheckKnownHostsIInv ==
  ASSUME NEW c \in Client, IInv, CheckKnownHosts(c)
  PROVE  IInv'
<1> DEFINE p == known_hosts_file[c]
           Entries == IF p = NoFile THEN {} ELSE file[p]
<1>1. TypeOK'
  <2>1. server[c].host \in {s.host : s \in Server} /\ key[c] \in Key
    BY DEF IInv, TypeOK, StageInv, CheckKnownHosts, InConnect
  <2>2. NewEntry(server[c].host, key[c]) \in Entry
    BY <2>1, NewEntryType
  <2>3. nh' \in [Client -> SUBSET Entry]
    BY <2>2 DEF IInv, TypeOK, CheckKnownHosts, Save, Accept, Refuse, Closed
  <2>4. disturbed' \subseteq Path
    BY DEF IInv, TypeOK, CheckKnownHosts
  <2> QED BY <2>3, <2>4 DEF IInv, TypeOK, CheckKnownHosts, Save, Accept, Refuse, Closed, Goto,
       How, Stage, Policy, Saving, settingVars, countVars
<1>2. StageInv'
  BY DEF IInv, CheckKnownHosts, Accept, Refuse, Closed, Goto, Save, TypeOK, StageInv, InConnect,
       Asking, Saving, Writing, settingVars
<1>3. PolicyInv'
  BY DEF IInv, CheckKnownHosts, Accept, Refuse, Closed, Goto, Save, TypeOK, PolicyInv,
       HonoursPolicy, Policy, settingVars
<1>4. StoreInv'
  BY DEF IInv, CheckKnownHosts, Accept, Refuse, Closed, Save, TypeOK, StoreInv
<1>5. SteadyInv'
  <2>1. ASSUME pc'[c] \in {"tofu", "tofuWrite"} \/ how'[c] \in {"tofu", "session"}
        PROVE  /\ Candidates(Entries, server[c], key[c]) = {}
               /\ steady' = steady /\ key' = key
    BY <2>1 DEF IInv, TypeOK, CheckKnownHosts, Check, Accept, Refuse, Closed, Save, Goto
  <2>2. pc'[c] # "hostkey" /\ server' = server
    BY DEF IInv, TypeOK, CheckKnownHosts, Accept, Refuse, Closed, Save, Goto
  <2>3. steady[c] \subseteq Entries
    BY Bounds DEF IInv, SteadyInv, CheckKnownHosts
  <2>4. ASSUME pc'[c] \in {"tofu", "tofuWrite"} \/ how'[c] \in {"tofu", "session"}
        PROVE  Candidates(steady'[c], server'[c], key'[c]) = {}
    BY <2>1, <2>2, <2>3, <2>4 DEF Candidates
  <2>5. ASSUME NEW d \in Client, d # c
        PROVE  pc'[d] = pc[d] /\ how'[d] = how[d] /\ key'[d] = key[d] /\ steady'[d] = steady[d]
    BY <2>5 DEF IInv, TypeOK, CheckKnownHosts, Accept, Refuse, Closed, Save, Goto
  <2>6. UNCHANGED <<known_hosts_file, file>>
    BY DEF CheckKnownHosts, settingVars
  <2> QED BY <2>2, <2>4, <2>5, <2>6 DEF IInv, SteadyInv
<1>6. FileInv'
  <2>1. /\ pc[c] \notin Saving \cup Writing /\ pc'[c] \in {"connected", "idle", "tofu"}
        /\ pc' = [pc EXCEPT ![c] = pc'[c]]
    BY DEF IInv, TypeOK, CheckKnownHosts, Accept, Refuse, Closed, Save, Goto, Saving, Writing
  <2>2. \A d \in Client : d # c => nh'[d] = nh[d]
    BY DEF IInv, TypeOK, CheckKnownHosts, Accept, Refuse, Closed, Save
  <2>3. UNCHANGED <<known_hosts_file, file, known>> /\ disturbed \subseteq disturbed'
    BY DEF CheckKnownHosts, settingVars
  <2>4. CASE pc'[c] # "tofu"
    BY <2>1, <2>2, <2>3, <2>4, QuietFileInv DEF IInv, Saving, Writing
  <2>5. CASE pc'[c] = "tofu"
    <3>1. p \in Path /\ file[p] \subseteq nh'[c]
      BY <2>5 DEF IInv, TypeOK, CheckKnownHosts, Accept, Refuse, Closed, Save, Goto
    <3>2. p \notin disturbed' => \A d \in Client : ~IsWriter(d, p)
      BY <3>1, Bounds DEF CheckKnownHosts, WritersOf, IsWriter
    <3>3. \A d \in Client, q \in Path : IsWriter(d, q)' = IsWriter(d, q)
      BY <2>1, <2>3, <2>5 DEF IInv, TypeOK, IsWriter, Writing
    <3>4. \A d \in Client, q \in Path : d # c => IsUser(d, q)' = IsUser(d, q)
      BY <2>1, <2>3 DEF IInv, TypeOK, IsUser
    <3>5. \A q \in Path : IsUser(c, q)' => q = p
      BY <2>3 DEF IsUser
    <3> QED BY <2>2, <2>3, <3>1, <3>2, <3>3, <3>4, <3>5 DEF IInv, FileInv
  <2> QED BY <2>4, <2>5
<1>7. FirstInv'
  <2>1. SavedInv'
    BY DEF IInv, CheckKnownHosts, Accept, Refuse, Closed, Goto, Save, TypeOK, FirstInv, SavedInv,
         settingVars
  <2>2. ClashInv'
    <3>1. CASE pc'[c] = "tofu"
      <4>1. p \in Path /\ Candidates(file[p], server[c], key[c]) = {} /\ key' = key /\ how' = how
        BY <3>1 DEF IInv, TypeOK, CheckKnownHosts, Check, Accept, Refuse, Closed, Save, Goto
      <4>2. p \notin disturbed' => known[p] \subseteq file[p]
        BY <4>1, Bounds DEF IInv, FileInv, CheckKnownHosts, WritersOf, IsWriter
      <4>3. ASSUME NEW d \in Client, how[d] = "tofu", known_hosts_file[d] = p, p \notin disturbed'
            PROVE  ~Clash(c, d)
        <5>1. p \notin disturbed
          BY <4>3 DEF CheckKnownHosts
        <5>2. NewEntry(server[d].host, key[d]) \in file[p]
          BY <4>2, <4>3, <5>1 DEF IInv, FirstInv, SavedInv
        <5> QED BY <4>1, <5>2 DEF Candidates, NewEntry, Clash
      <4>4. \A d, e \in Client : Clash(d, e)' = Clash(d, e)
        BY <4>1 DEF Clash, CheckKnownHosts
      <4>5. \A d \in Client : d # c => pc'[d] = pc[d]
        BY <3>1 DEF IInv, TypeOK, CheckKnownHosts, Accept, Refuse, Closed, Save, Goto
      <4>6. known_hosts_file' = known_hosts_file /\ disturbed \subseteq disturbed'
        BY DEF CheckKnownHosts, settingVars
      <4> QED BY <4>1, <4>3, <4>4, <4>5, <4>6 DEF IInv, FirstInv, ClashInv
    <3>2. CASE pc'[c] # "tofu"
      BY <3>2 DEF IInv, TypeOK, FirstInv, ClashInv, Clash, CheckKnownHosts, Accept, Refuse,
           Closed, Save, Goto, settingVars
    <3> QED BY <3>1, <3>2
  <2>3. FirstUseBinds'
    BY DEF IInv, CheckKnownHosts, Accept, Refuse, Closed, Save, Check, WritersOf, TypeOK,
         FirstInv, FirstUseBinds, settingVars
  <2> QED BY <2>1, <2>2, <2>3 DEF FirstInv
<1> QED BY <1>1, <1>2, <1>3, <1>4, <1>5, <1>6, <1>7 DEF IInv

\* A client that cannot save leaves the file alone.
LEMMA SaveRefusedIInv ==
  ASSUME NEW c \in Client, IInv, SaveRefused(c)
  PROVE  IInv'
<1>1. TypeOK'
  BY DEF IInv, TypeOK, SaveRefused, SaveFailed, Accept, Closed, Goto, How, Stage, Policy,
       settingVars, countVars
<1>2. StageInv'
  BY DEF IInv, SaveRefused, SaveFailed, Accept, Closed, Goto, TypeOK, StageInv, InConnect, Asking,
       settingVars
<1>3. PolicyInv'
  BY DEF IInv, SaveRefused, SaveFailed, Accept, Closed, Goto, TypeOK, PolicyInv, HonoursPolicy,
       settingVars
<1>4. StoreInv'
  BY DEF IInv, SaveRefused, SaveFailed, Accept, Closed, TypeOK, StoreInv
<1>5. SteadyInv'
  BY DEF IInv, SaveRefused, SaveFailed, Accept, Closed, Goto, TypeOK, SteadyInv, settingVars
<1>6. FileInv'
  <2>1. /\ \A d \in Client : d # c => pc'[d] = pc[d] /\ nh'[d] = nh[d]
        /\ pc[c] \in Saving /\ pc'[c] \in {"idle", "connected"}
    BY DEF IInv, TypeOK, SaveRefused, SaveFailed, Accept, Closed, Goto
  <2>2. UNCHANGED <<known_hosts_file, file, known, disturbed>>
    BY DEF SaveRefused, settingVars
  <2>3. ASSUME NEW d \in Client, NEW p
        PROVE  /\ IsUser(d, p)' => IsUser(d, p) /\ nh'[d] = nh[d]
               /\ IsWriter(d, p)' = IsWriter(d, p)
    BY <2>1, <2>2 DEF IsUser, IsWriter, Saving, Writing
  <2> QED BY <2>2, <2>3 DEF IInv, FileInv
<1>7. FirstInv'
  <2>1. SavedInv'
    BY DEF IInv, SaveRefused, SaveFailed, Accept, Closed, Goto, TypeOK, FirstInv, SavedInv,
         settingVars
  <2>2. ClashInv'
    BY DEF IInv, SaveRefused, SaveFailed, Accept, Closed, Goto, TypeOK, FirstInv, ClashInv, Clash,
         settingVars
  <2>3. FirstUseBinds'
    BY DEF IInv, SaveRefused, SaveFailed, Accept, Closed, Goto, TypeOK, FirstInv, FirstUseBinds,
         settingVars
  <2> QED BY <2>1, <2>2, <2>3 DEF FirstInv
<1> QED BY <1>1, <1>2, <1>3, <1>4, <1>5, <1>6, <1>7 DEF IInv

\* The file is emptied by its only user, or is disturbed from now on.
LEMMA OpenFileIInv ==
  ASSUME NEW c \in Client, IInv, OpenFile(c)
  PROVE  IInv'
<1>1. TypeOK'
  BY DEF IInv, TypeOK, StageInv, OpenFile, Goto, FileBecomes, Stage, Writing, settingVars,
       connVars, countVars
<1>2. StageInv'
  BY DEF IInv, OpenFile, Goto, StageInv, InConnect, Saving, settingVars, connVars
<1>3. PolicyInv'
  BY DEF IInv, OpenFile, Goto, PolicyInv, HonoursPolicy, settingVars, connVars
<1>4. StoreInv'
  BY DEF IInv, OpenFile, StoreInv, connVars
<1>5. SteadyInv'
  BY DEF IInv, OpenFile, Goto, FileBecomes, SteadyInv, Candidates, Saving, settingVars, connVars
<1>6. FileInv'
  BY DEF IInv, OpenFile, Goto, FileBecomes, UsersOf, TypeOK, FileInv, IsUser, IsWriter, Writing,
       settingVars, connVars
<1>7. FirstInv'
  <2>1. SavedInv'
    BY DEF IInv, OpenFile, Goto, FileBecomes, FirstInv, SavedInv, settingVars, connVars
  <2>2. ClashInv'
    BY DEF IInv, OpenFile, Goto, FirstInv, ClashInv, Clash, settingVars, connVars
  <2>3. FirstUseBinds'
    BY DEF IInv, OpenFile, FirstInv, FirstUseBinds, settingVars, connVars
  <2> QED BY <2>1, <2>2, <2>3 DEF FirstInv
<1> QED BY <1>1, <1>2, <1>3, <1>4, <1>5, <1>6, <1>7 DEF IInv

\* The only user of a file writes back all that it ever held, and a new key
\* with it.
LEMMA WriteFileIInv ==
  ASSUME NEW c \in Client, IInv, WriteFile(c)
  PROVE  IInv'
<1>1. TypeOK'
  <2>1. known_hosts_file[c] \in Path
    BY DEF IInv, StageInv, WriteFile
  <2>2. /\ file' \in [Path -> SUBSET Entry] /\ known' \in [Path -> SUBSET Entry]
        /\ steady' \in [Client -> SUBSET Entry]
    BY <2>1 DEF IInv, TypeOK, WriteFile, FileBecomes
  <2>3. /\ pc' \in [Client -> Stage] /\ how' \in [Client -> How] /\ nh' \in [Client -> SUBSET Entry]
        /\ key' \in [Client -> Key \cup {NoKey}] /\ asked' \in [Client -> Policy]
    BY DEF IInv, TypeOK, WriteFile, Accept, Goto, Stage, How
  <2> QED BY <2>1, <2>2, <2>3 DEF IInv, TypeOK, WriteFile, settingVars, countVars
<1>2. StageInv'
  BY DEF IInv, WriteFile, Accept, Goto, TypeOK, StageInv, InConnect, Writing, settingVars
<1>3. PolicyInv'
  BY DEF IInv, WriteFile, Accept, Goto, PolicyInv, HonoursPolicy, settingVars
<1>4. StoreInv'
  BY DEF IInv, WriteFile, Accept, StoreInv
<1>5. SteadyInv'
  BY DEF IInv, WriteFile, Accept, Goto, FileBecomes, SteadyInv, Candidates, Writing, settingVars
<1>6. FileInv'
  BY DEF IInv, WriteFile, Accept, Goto, FileBecomes, TypeOK, StageInv, FileInv, IsUser, IsWriter,
       Saving, Writing, settingVars
<1>7. FirstInv'
  <2>1. SavedInv'
    BY DEF IInv, WriteFile, Accept, Goto, FileBecomes, TypeOK, StageInv, FirstInv, SavedInv,
         settingVars
  <2>2. ClashInv'
    <3>1. \A d \in Client : pc'[d] \in {"tofu", "tofuWrite"} => d # c /\ pc[d] = pc'[d]
      BY DEF IInv, TypeOK, WriteFile, Accept, Goto
    <3>2. \A d \in Client : d # c => how'[d] = how[d]
      BY DEF WriteFile, Accept
    <3>3. ASSUME NEW d \in Client, pc'[d] \in {"tofu", "tofuWrite"},
                 known_hosts_file[d] = known_hosts_file[c]
          PROVE  known_hosts_file[c] \in disturbed
      BY <3>1, <3>3 DEF IInv, StageInv, FileInv, IsUser, IsWriter, WriteFile, Saving, Writing
    <3>4. UNCHANGED <<server, key, known_hosts_file, disturbed>>
      BY DEF WriteFile, Accept, settingVars
    <3> QED BY <3>1, <3>2, <3>3, <3>4 DEF IInv, FirstInv, ClashInv, Clash
  <2>3. FirstUseBinds'
    <3>1. \A d \in Client : d # c => how'[d] = how[d]
      BY DEF WriteFile, Accept
    <3>2. UNCHANGED <<server, key, known_hosts_file, disturbed>>
      BY DEF WriteFile, Accept, settingVars
    <3>3. CASE pc[c] = "tofuWrite"
      <4>1. ASSUME NEW d \in Client, how[d] = "tofu", known_hosts_file[d] = known_hosts_file[c],
                   known_hosts_file[c] \notin disturbed
            PROVE  ~Clash(c, d)
        BY <3>3, <4>1 DEF IInv, FirstInv, ClashInv
      <4> QED BY <3>1, <3>2, <4>1 DEF IInv, FirstInv, FirstUseBinds, Clash
    <3>4. CASE pc[c] # "tofuWrite"
      <4>1. how' = how
        BY <3>4 DEF IInv, TypeOK, WriteFile, Accept
      <4> QED BY <3>2, <4>1 DEF IInv, FirstInv, FirstUseBinds
    <3> QED BY <3>3, <3>4
  <2> QED BY <2>1, <2>2, <2>3 DEF FirstInv
<1> QED BY <1>1, <1>2, <1>3, <1>4, <1>5, <1>6, <1>7 DEF IInv

\* A file whose writing was interrupted is disturbed.
LEMMA WriteInterruptedIInv ==
  ASSUME NEW c \in Client, IInv, WriteInterrupted(c)
  PROVE  IInv'
<1>1. TypeOK'
  <2>1. known_hosts_file[c] \in Path
    BY DEF IInv, StageInv, WriteInterrupted
  <2>2. /\ file' \in [Path -> SUBSET Entry] /\ known' \in [Path -> SUBSET Entry]
        /\ steady' \in [Client -> SUBSET Entry]
    BY <2>1 DEF IInv, TypeOK, WriteInterrupted, FileBecomes
  <2>3. /\ pc' \in [Client -> Stage] /\ how' \in [Client -> How] /\ nh' \in [Client -> SUBSET Entry]
        /\ key' \in [Client -> Key \cup {NoKey}] /\ asked' \in [Client -> Policy]
    BY DEF IInv, TypeOK, WriteInterrupted, SaveFailed, Closed, Accept, Goto, Stage, How, Policy
  <2> QED BY <2>1, <2>2, <2>3 DEF IInv, TypeOK, WriteInterrupted, settingVars, countVars
<1>2. StageInv'
  BY DEF IInv, WriteInterrupted, SaveFailed, Accept, Closed, Goto, TypeOK, StageInv, InConnect,
       Asking, settingVars
<1>3. PolicyInv'
  BY DEF IInv, WriteInterrupted, SaveFailed, Accept, Closed, Goto, TypeOK, PolicyInv,
       HonoursPolicy, settingVars
<1>4. StoreInv'
  BY DEF IInv, WriteInterrupted, SaveFailed, Accept, Closed, TypeOK, StoreInv
<1>5. SteadyInv'
  BY DEF IInv, WriteInterrupted, SaveFailed, Accept, Closed, Goto, FileBecomes, TypeOK, SteadyInv,
       Candidates, settingVars
<1>6. FileInv'
  <2>1. /\ known_hosts_file[c] \in Path /\ known_hosts_file' = known_hosts_file
        /\ disturbed' = disturbed \cup {known_hosts_file[c]}
    BY DEF IInv, StageInv, WriteInterrupted, settingVars
  <2>2. /\ \A d \in Client : d # c => pc'[d] = pc[d] /\ nh'[d] = nh[d]
        /\ pc'[c] \in {"idle", "connected"}
    BY DEF IInv, TypeOK, WriteInterrupted, SaveFailed, Accept, Closed, Goto
  <2>3. \A q \in Path : q # known_hosts_file[c] => file'[q] = file[q] /\ known'[q] = known[q]
    BY DEF WriteInterrupted, FileBecomes
  <2>4. ASSUME NEW d \in Client, NEW q \in Path, q # known_hosts_file[c]
        PROVE  IsUser(d, q)' = IsUser(d, q) /\ IsWriter(d, q)' = IsWriter(d, q)
    BY <2>1, <2>2, <2>4 DEF IsUser, IsWriter
  <2>5. \A d \in Client, q \in Path : q # known_hosts_file[c] /\ IsUser(d, q) => nh'[d] = nh[d]
    BY <2>2 DEF IsUser
  <2> QED BY <2>1, <2>3, <2>4, <2>5 DEF IInv, FileInv
<1>7. FirstInv'
  <2>1. SavedInv'
    BY DEF IInv, WriteInterrupted, SaveFailed, Accept, Closed, Goto, FileBecomes, TypeOK,
         FirstInv, SavedInv, settingVars
  <2>2. ClashInv'
    <3>1. \A d \in Client : pc'[d] \in {"tofu", "tofuWrite"} => d # c /\ pc[d] = pc'[d]
      BY DEF IInv, TypeOK, WriteInterrupted, SaveFailed, Accept, Closed, Goto
    <3>2. \A d \in Client :
            /\ how'[d] = "tofu" => how[d] = "tofu" /\ key'[d] = key[d]
            /\ d # c => key'[d] = key[d]
      BY DEF IInv, TypeOK, WriteInterrupted, SaveFailed, Accept, Closed
    <3>3. UNCHANGED <<server, known_hosts_file>> /\ disturbed \subseteq disturbed'
      BY DEF WriteInterrupted, settingVars
    <3> QED BY <3>1, <3>2, <3>3 DEF IInv, FirstInv, ClashInv, Clash
  <2>3. FirstUseBinds'
    <3>1. \A d \in Client : how'[d] = "tofu" => how[d] = "tofu" /\ key'[d] = key[d]
      BY DEF IInv, TypeOK, WriteInterrupted, SaveFailed, Accept, Closed
    <3>2. UNCHANGED <<server, known_hosts_file>> /\ disturbed \subseteq disturbed'
      BY DEF WriteInterrupted, settingVars
    <3> QED BY <3>1, <3>2 DEF IInv, FirstInv, FirstUseBinds
  <2> QED BY <2>1, <2>2, <2>3 DEF FirstInv
<1> QED BY <1>1, <1>2, <1>3, <1>4, <1>5, <1>6, <1>7 DEF IInv

\* addKnownHost() reads a file that nobody is writing, or disturbs it.
LEMMA AddKnownHostIInv ==
  ASSUME NEW c \in Client, IInv, AddKnownHost(c)
  PROVE  IInv'
<1>1. TypeOK'
  <2>1. key[c] \in Key
    BY DEF IInv, StageInv, AddKnownHost
  <2>2. sets' \in 0..MaxSet
    BY Bounds DEF IInv, TypeOK, AddKnownHost
  <2>3. known_hosts_file[c] \in Path
    BY DEF IInv, TypeOK, AddKnownHost
  <2>4. nh' \in [Client -> SUBSET Entry]
    BY <2>1, <2>3, NewEntryType DEF IInv, TypeOK, AddKnownHost, Save
  <2> QED BY <2>2, <2>3, <2>4 DEF IInv, TypeOK, AddKnownHost, Save, Goto, Stage, Saving, settingVars
<1>2. StageInv'
  BY DEF IInv, AddKnownHost, Save, Goto, TypeOK, StageInv, settingVars
<1>3. PolicyInv'
  BY DEF IInv, AddKnownHost, Save, Goto, PolicyInv, HonoursPolicy, settingVars
<1>4. StoreInv'
  BY DEF IInv, AddKnownHost, Save, StoreInv
<1>5. SteadyInv'
  BY DEF IInv, AddKnownHost, Save, Goto, SteadyInv, settingVars
<1>6. FileInv'
  BY DEF IInv, AddKnownHost, Save, Goto, WritersOf, TypeOK, FileInv, IsUser, IsWriter, Writing,
       settingVars
<1>7. FirstInv'
  <2>1. SavedInv'
    BY DEF IInv, AddKnownHost, Save, Goto, FirstInv, SavedInv, settingVars
  <2>2. ClashInv'
    BY DEF IInv, AddKnownHost, Save, Goto, FirstInv, ClashInv, Clash, settingVars
  <2>3. FirstUseBinds'
    BY DEF IInv, AddKnownHost, Save, FirstInv, FirstUseBinds, settingVars
  <2> QED BY <2>1, <2>2, <2>3 DEF FirstInv
<1> QED BY <1>1, <1>2, <1>3, <1>4, <1>5, <1>6, <1>7 DEF IInv

\* A store that says yes has, or puts, the key on record if it has no other of the
\* type for the server, or records nothing.
LEMMA StoreKeepsOne ==
  ASSUME NEW c \in Client, NEW onRecord, NEW forSession, StoreSuccess(c, onRecord, forSession),
         server[c] \in Server, key[c] \in Key, store \subseteq Server \X Key,
         \A r, q \in store : r[1] = q[1] /\ r[2].type = q[2].type => r[2] = q[2]
  PROVE  /\ store' \subseteq Server \X Key
         /\ \A r, q \in store' : r[1] = q[1] /\ r[2].type = q[2].type => r[2] = q[2]
<1>1. CASE UNCHANGED store
  BY <1>1
<1>2. CASE /\ store' = store \cup {<<server[c], key[c]>>}
           /\ Recorded(server[c], key[c]) \subseteq {<<server[c], key[c]>>}
  <2> DEFINE new == <<server[c], key[c]>>
  <2>1. \A r \in store : r[1] = new[1] /\ r[2].type = new[2].type => r = new
    BY <1>2 DEF Recorded
  <2> QED BY <1>2, <2>1
<1> QED BY <1>1, <1>2 DEF StoreSuccess

\* A key that verifyHostKey() has matched or added is in the store.
LEMMA StoreVerifiedIInv ==
  ASSUME NEW c \in Client, IInv, StoreVerified(c)
  PROVE  IInv'
<1>1. TypeOK'
  <2>1. store' \subseteq Server \X Key
    <3>1. server[c] \in Server /\ key[c] \in Key
      BY DEF IInv, TypeOK, StageInv, StoreVerified, InConnect, Asking
    <3> QED BY <3>1, StoreKeepsOne DEF IInv, TypeOK, StoreInv, StoreVerified
  <2>2. pc' \in [Client -> Stage] /\ how' \in [Client -> How]
    BY DEF IInv, TypeOK, StoreVerified, StoreSuccess, Accept, Refuse, Closed, Goto, Stage, How,
         Asking, connVars
  <2>3. nh' \in [Client -> SUBSET Entry] /\ steady' \in [Client -> SUBSET Entry]
    BY DEF IInv, TypeOK, StoreVerified, StoreSuccess, Accept, Refuse, Closed, connVars
  <2>4. key' \in [Client -> Key \cup {NoKey}] /\ asked' \in [Client -> Policy]
    BY DEF IInv, TypeOK, StoreVerified, StoreSuccess, Accept, Refuse, Closed, Policy, connVars
  <2> QED BY <2>1, <2>2, <2>3, <2>4 DEF IInv, TypeOK, StoreVerified, settingVars, countVars
<1>2. StageInv'
  BY DEF IInv, StoreVerified, StoreSuccess, Accept, Refuse, Closed, Goto, TypeOK, StageInv,
       InConnect, Asking, Saving, Writing, settingVars, connVars
<1>3. PolicyInv'
  BY DEF IInv, StoreVerified, StoreSuccess, Accept, Refuse, Closed, Goto, TypeOK, PolicyInv,
       HonoursPolicy, settingVars, connVars
<1>4. StoreInv'
  <2>1. server[c] \in Server /\ key[c] \in Key
    BY DEF IInv, TypeOK, StageInv, StoreVerified, InConnect, Asking
  <2>2. \A r, q \in store' : r[1] = q[1] /\ r[2].type = q[2].type => r[2] = q[2]
    BY <2>1, StoreKeepsOne DEF IInv, TypeOK, StoreInv, StoreVerified
  <2>3. \A d \in Client : how'[d] \in {"store", "added"} => <<server'[d], key'[d]>> \in store'
    BY DEF IInv, TypeOK, StoreInv, StoreVerified, StoreSuccess, Accept, Refuse, Closed, connVars
  <2> QED BY <2>2, <2>3 DEF StoreInv
<1>5. SteadyInv'
  BY DEF IInv, StoreVerified, StoreSuccess, Accept, Refuse, Closed, Goto, TypeOK, SteadyInv,
       settingVars, connVars
<1>6. FileInv'
  <2>1. /\ pc[c] \notin Saving \cup Writing /\ pc'[c] \in {"connected", "acceptHostKeyIfAbsent", "idle"}
        /\ pc' = [pc EXCEPT ![c] = pc'[c]]
    BY DEF IInv, TypeOK, StoreVerified, StoreSuccess, Accept, Refuse, Closed, Goto, Saving, Writing
  <2>2. \A d \in Client : d # c => nh'[d] = nh[d]
    BY DEF IInv, TypeOK, StoreVerified, StoreSuccess, Accept, Refuse, Closed, connVars
  <2>3. UNCHANGED <<known_hosts_file, file, known, disturbed>>
    BY DEF StoreVerified, settingVars
  <2> QED BY <2>1, <2>2, <2>3, QuietFileInv DEF IInv, Saving, Writing
<1>7. FirstInv'
  <2>1. SavedInv'
    BY DEF IInv, StoreVerified, StoreSuccess, Accept, Refuse, Closed, Goto, TypeOK, FirstInv,
         SavedInv, settingVars, connVars
  <2>2. ClashInv'
    BY DEF IInv, StoreVerified, StoreSuccess, Accept, Refuse, Closed, Goto, TypeOK, FirstInv,
         ClashInv, Clash, settingVars, connVars
  <2>3. FirstUseBinds'
    BY DEF IInv, StoreVerified, StoreSuccess, Accept, Refuse, Closed, TypeOK, FirstInv,
         FirstUseBinds, settingVars, connVars
  <2> QED BY <2>1, <2>2, <2>3 DEF FirstInv
<1> QED BY <1>1, <1>2, <1>3, <1>4, <1>5, <1>6, <1>7 DEF IInv

\* acceptHostKeyIfAbsent() is called under no other policy than a trusting one.
LEMMA StoreAcceptedIInv ==
  ASSUME NEW c \in Client, IInv, StoreAccepted(c)
  PROVE  IInv'
<1>1. TypeOK'
  <2>1. store' \subseteq Server \X Key
    <3>1. server[c] \in Server /\ key[c] \in Key
      BY DEF IInv, TypeOK, StageInv, StoreAccepted, InConnect, Asking
    <3> QED BY <3>1, StoreKeepsOne DEF IInv, TypeOK, StoreInv, StoreAccepted
  <2>2. pc' \in [Client -> Stage] /\ how' \in [Client -> How]
    BY DEF IInv, TypeOK, StoreAccepted, StoreSuccess, Accept, Refuse, Closed, Goto, Stage, How
  <2>3. nh' \in [Client -> SUBSET Entry] /\ steady' \in [Client -> SUBSET Entry]
    BY DEF IInv, TypeOK, StoreAccepted, StoreSuccess, Accept, Refuse, Closed
  <2>4. key' \in [Client -> Key \cup {NoKey}] /\ asked' \in [Client -> Policy]
    BY DEF IInv, TypeOK, StoreAccepted, StoreSuccess, Accept, Refuse, Closed, Policy
  <2> QED BY <2>1, <2>2, <2>3, <2>4 DEF IInv, TypeOK, StoreAccepted, settingVars, countVars
<1>2. StageInv'
  BY DEF IInv, StoreAccepted, StoreSuccess, Accept, Refuse, Closed, Goto, TypeOK, StageInv,
       InConnect, Asking, Saving, Writing, settingVars
<1>3. PolicyInv'
  BY DEF IInv, StoreAccepted, StoreSuccess, Accept, Refuse, Closed, Goto, TypeOK, PolicyInv,
       HonoursPolicy, settingVars
<1>4. StoreInv'
  <2>1. server[c] \in Server /\ key[c] \in Key
    BY DEF IInv, TypeOK, StageInv, StoreAccepted, InConnect, Asking
  <2>2. \A r, q \in store' : r[1] = q[1] /\ r[2].type = q[2].type => r[2] = q[2]
    BY <2>1, StoreKeepsOne DEF IInv, TypeOK, StoreInv, StoreAccepted
  <2>3. \A d \in Client : how'[d] \in {"store", "added"} => <<server'[d], key'[d]>> \in store'
    BY DEF IInv, TypeOK, StoreInv, StoreAccepted, StoreSuccess, Accept, Refuse, Closed, connVars
  <2> QED BY <2>2, <2>3 DEF StoreInv
<1>5. SteadyInv'
  BY DEF IInv, StoreAccepted, StoreSuccess, Accept, Refuse, Closed, Goto, TypeOK, SteadyInv,
       settingVars
<1>6. FileInv'
  <2>1. /\ pc[c] \notin Saving \cup Writing /\ pc'[c] \in {"connected", "idle"}
        /\ pc' = [pc EXCEPT ![c] = pc'[c]]
    BY DEF IInv, TypeOK, StoreAccepted, StoreSuccess, Accept, Refuse, Closed, Goto, Saving, Writing
  <2>2. \A d \in Client : d # c => nh'[d] = nh[d]
    BY DEF IInv, TypeOK, StoreAccepted, StoreSuccess, Accept, Refuse, Closed
  <2>3. UNCHANGED <<known_hosts_file, file, known, disturbed>>
    BY DEF StoreAccepted, settingVars
  <2> QED BY <2>1, <2>2, <2>3, QuietFileInv DEF IInv, Saving, Writing
<1>7. FirstInv'
  <2>1. SavedInv'
    BY DEF IInv, StoreAccepted, StoreSuccess, Accept, Refuse, Closed, Goto, TypeOK, FirstInv,
         SavedInv, settingVars
  <2>2. ClashInv'
    BY DEF IInv, StoreAccepted, StoreSuccess, Accept, Refuse, Closed, Goto, TypeOK, FirstInv,
         ClashInv, Clash, settingVars
  <2>3. FirstUseBinds'
    BY DEF IInv, StoreAccepted, StoreSuccess, Accept, Refuse, Closed, TypeOK, FirstInv,
         FirstUseBinds, settingVars
  <2> QED BY <2>1, <2>2, <2>3 DEF FirstInv
<1> QED BY <1>1, <1>2, <1>3, <1>4, <1>5, <1>6, <1>7 DEF IInv

\* A closed connection makes no claim.
LEMMA DisconnectIInv ==
  ASSUME NEW c \in Client, IInv, Disconnect(c)
  PROVE  IInv'
<1>1. TypeOK'
  BY DEF IInv, TypeOK, Disconnect, Refuse, Closed, Goto, How, Stage, Policy, settingVars, countVars
<1>2. StageInv'
  BY DEF IInv, Disconnect, Refuse, Closed, Goto, TypeOK, StageInv, InConnect, Asking, Saving,
       Writing, settingVars
<1>3. PolicyInv'
  BY DEF IInv, Disconnect, Refuse, Closed, Goto, TypeOK, PolicyInv, HonoursPolicy, settingVars
<1>4. StoreInv'
  BY DEF IInv, Disconnect, Refuse, Closed, TypeOK, StoreInv
<1>5. SteadyInv'
  BY DEF IInv, Disconnect, Refuse, Closed, Goto, TypeOK, SteadyInv, settingVars
<1>6. FileInv'
  <2>1. /\ pc[c] \notin Saving \cup Writing /\ pc'[c] \in {"idle"}
        /\ pc' = [pc EXCEPT ![c] = pc'[c]]
    BY DEF IInv, TypeOK, Disconnect, Refuse, Closed, Goto, Saving, Writing
  <2>2. \A d \in Client : d # c => nh'[d] = nh[d]
    BY DEF Disconnect, Refuse, Closed
  <2>3. UNCHANGED <<known_hosts_file, file, known, disturbed>>
    BY DEF Disconnect, settingVars
  <2> QED BY <2>1, <2>2, <2>3, QuietFileInv DEF IInv, Saving, Writing
<1>7. FirstInv'
  <2>1. SavedInv'
    BY DEF IInv, Disconnect, Refuse, Closed, Goto, TypeOK, FirstInv, SavedInv, settingVars
  <2>2. ClashInv'
    BY DEF IInv, Disconnect, Refuse, Closed, Goto, TypeOK, FirstInv, ClashInv, Clash, settingVars
  <2>3. FirstUseBinds'
    BY DEF IInv, Disconnect, Refuse, Closed, TypeOK, FirstInv, FirstUseBinds, settingVars
  <2> QED BY <2>1, <2>2, <2>3 DEF FirstInv
<1> QED BY <1>1, <1>2, <1>3, <1>4, <1>5, <1>6, <1>7 DEF IInv

\* Every step preserves the inductive invariant.
LEMMA NextIInv == IInv /\ [Next]_vars => IInv'
<1> SUFFICES ASSUME IInv, [Next]_vars PROVE IInv'
  OBVIOUS
<1>1. CASE UNCHANGED vars
  <2>1. TypeOK' /\ StageInv'
    BY <1>1 DEF vars, settingVars, connVars, fileVars, countVars, IInv, TypeOK, StageInv
  <2>2. PolicyInv' /\ StoreInv' /\ SteadyInv'
    BY <1>1 DEF vars, settingVars, connVars, fileVars, IInv, PolicyInv, HonoursPolicy,
         StoreInv, SteadyInv
  <2>3. FileInv' /\ FirstInv'
    BY <1>1 DEF vars, settingVars, connVars, fileVars, IInv, FileInv, IsUser, IsWriter,
         FirstInv, SavedInv, ClashInv, Clash, FirstUseBinds
  <2> QED BY <2>1, <2>2, <2>3 DEF IInv
<1>2. CASE Next
  BY <1>2, SetDefaultIInv, ConstructIInv, SetIInv, ConnectIInv, HostKeyIInv, CheckKnownHostsIInv,
     SaveRefusedIInv, OpenFileIInv, WriteFileIInv, WriteInterruptedIInv, AddKnownHostIInv,
     StoreVerifiedIInv, StoreAcceptedIInv, DisconnectIInv DEF Next
<1> QED BY <1>1, <1>2

\* The inductive invariant holds in every state of every behaviour.
LEMMA AlwaysIInv == Spec => []IInv
BY InitIInv, NextIInv, PTL DEF Spec

-----------------------------------------------------------------------------
\* The variables keep the values the code gives them.
THEOREM TypeCorrect == Spec => []TypeOK
<1>1. IInv => TypeOK
  BY DEF IInv
<1> QED BY <1>1, AlwaysIInv, PTL

\* However many clients share a known_hosts file, an entry is lost only when two
\* have been at work on it at once or a write was interrupted.
THEOREM EntriesKept == Spec => []KnownKeysKept
<1>1. IInv => KnownKeysKept
  BY DEF IInv, FileInv, KnownKeysKept, IsWriter, WritersOf
<1> QED BY <1>1, AlwaysIInv, PTL

\* verifyHostKeyUnlocked() never takes a key as unknown against an entry that
\* has been in the file from connect() on.
THEOREM EntryBinds == Spec => []SteadyEntryBinds
<1>1. IInv => SteadyEntryBinds
  BY DEF IInv, SteadyInv, SteadyEntryBinds
<1> QED BY <1>1, AlwaysIInv, PTL

\* Clients that trusted a host on first use with one undisturbed file agree on
\* its key.
THEOREM FirstUseAgrees == Spec => []FirstUseBinds
<1>1. IInv => FirstUseBinds
  BY DEF IInv, FirstInv
<1> QED BY <1>1, AlwaysIInv, PTL

\* Clients whose keys the host-key store has on record for one server agree on its
\* key, though the lock is released in and between the store's two calls.  A key
\* the store accepts for the session only is not among them.
THEOREM StoreAgrees == Spec => []StoreBinds
<1>1. IInv => StoreBinds
  <2> SUFFICES ASSUME IInv, NEW c \in Client, NEW d \in Client,
                      {how[c], how[d]} \subseteq {"store", "added"}, server[c] = server[d],
                      key[c].type = key[d].type
               PROVE  key[c] = key[d]
    BY DEF StoreBinds
  <2>1. <<server[c], key[c]>> \in store /\ <<server[d], key[d]>> \in store
    BY DEF IInv, StoreInv
  <2> QED BY <2>1 DEF IInv, StoreInv
<1> QED BY <1>1, AlwaysIInv, PTL

\* The policy in force when an SSH2Client was told to connect decides whether it
\* saves an unknown key, has the store accept it, or accepts it unsaved.  What
\* verifyHostKey() of a store accepts is not up to the policy.
THEOREM PolicyDecides == Spec => []PolicyHonoured
<1>1. IInv => PolicyHonoured
  BY DEF IInv, PolicyInv, PolicyHonoured
<1> QED BY <1>1, AlwaysIInv, PTL
=============================================================================
