------------------------------ MODULE AuthPlan ------------------------------
(***************************************************************************)
(* The authentication plan: the order in which a client tries identities,  *)
(* and the two pieces of code that carry the plan out.                     *)
(*                                                                         *)
(* buildAuthPlanUnlocked() makes the plan of the client's settings and of  *)
(* the methods the server offers.  connect() executes it with nested loops *)
(* over the plan, the candidates of an identity provider and what each of  *)
(* them is resolved to; a poll operation keeps a queue whose PROVIDER      *)
(* entry stays in front until there are no more candidates, and can wait   *)
(* and come back at every call.                                            *)
(*                                                                         *)
(* The model runs the first one, which records every question asked of the *)
(* server, the agent, the provider and the sandbox with the answer it got, *)
(* and then the second one, which gets the same answers to the same        *)
(* questions.  A wait that fails, a cancellation or an abort ends either   *)
(* of them anywhere.                                                       *)
(***************************************************************************)
EXTENDS Naturals, Sequences

CONSTANTS
  Userauthlist, \* the sets of methods that servers offer
  MaxIdentity,  \* bound: identities an agent offers
  MaxCandidate  \* bound: candidates an identity provider returns

Method == {"publickey", "password", "keyboard-interactive"}

ASSUME AuthAssumption ==
  Userauthlist \subseteq SUBSET Method /\ MaxIdentity \in Nat /\ MaxCandidate \in Nat

VARIABLES
  client_identity_provider,         \* a provider is set
  client_auth_order,
  client_identity_fallback_policy,
  use_agent,
  sshkeys,      \* "none", "auto": found by the constructor, "explicit": setKeys()
  sshkeys_data, \* there is a key set with setKeysFromData()
  sshpass,      \* there is a password
  auth_methods, \* what the server offers
  phase,        \* "setup", then "blocking" and "polling" with a "ready" between; "done"
  plan,         \* attempts connect() has still to make
  sub_plan,     \* what connect() has resolved the current candidate to
  auth_queue,   \* attempts the poll operation has still to make
  candidates,   \* the provider has returned its candidates
  index,        \* the next candidate
  identity,     \* identities of the agent tried on the current connection to it
  checked,      \* access to the key files of the attempt has been checked
  asked,        \* questions and answers of connect()
  tried,        \* questions and answers of the poll operation
  result,       \* what a driver ended with; see Result
  session       \* the session that a driver has left

settingVars == <<client_identity_provider, client_auth_order, client_identity_fallback_policy,
                 use_agent, sshkeys, sshkeys_data, sshpass>>
driverVars == <<plan, sub_plan, auth_queue, candidates, index, identity, checked>>
outcomeVars == <<asked, tried, result, session>>
vars == <<settingVars, auth_methods, phase, driverVars, outcomeVars>>

Kind == {"AGENT", "PROVIDER", "PUBKEY_FILE", "PUBKEY_MEMORY", "PASSWORD", "KEYBOARD_INTERACTIVE"}

\* where an identity comes from: the caller, the provider, or the process user
Source == {"explicit", "provider", "process"}

Attempt == [kind : Kind, from : Source]

Fallback == {"DISABLED", "AGENT", "DEFAULT_KEYS", "AGENT_AND_DEFAULT_KEYS"}

Driver == {"blocking", "polling"}

\* A question, the attempt it is about, with the number of the candidate or the
\* identity, and the answer.  That the candidates or identities have come to an
\* end is an answer too.
Answer(ask) ==
  CASE ask = "candidates" -> {"list", "error"}
    [] ask = "resolve" -> {"AGENT", "PUBKEY_FILE", "PUBKEY_MEMORY", "skipped", "error", "end"}
    [] ask = "identity" -> {"ok", "refused", "end"}
    [] ask = "access" -> {"allowed", "denied"}
    [] ask = "authenticate" -> {"ok", "refused"}

Ask == {"candidates", "resolve", "identity", "access", "authenticate"}

Question ==
  {q \in [ask : Ask, about : Attempt, i : Nat, answer : UNION {Answer(ask) : ask \in Ask}] :
     q.answer \in Answer(q.ask)}

\* not ended, ended with a login, without one, or by a wait or a cancellation
Result == {"none", "failed", "interrupted", "agent", "publickey", "password", "keyboard-interactive"}

\* The variables keep the values the code gives them.
TypeOK ==
  /\ client_identity_provider \in BOOLEAN
  /\ client_auth_order \in {"EXPLICIT_FIRST", "PROVIDER_FIRST"}
  /\ client_identity_fallback_policy \in Fallback
  /\ use_agent \in BOOLEAN
  /\ sshkeys \in {"none", "auto", "explicit"}
  /\ sshkeys_data \in BOOLEAN
  /\ sshpass \in BOOLEAN
  /\ auth_methods \subseteq Method
  /\ phase \in {"setup", "ready", "done"} \cup Driver
  /\ plan \in Seq(Attempt)
  /\ sub_plan \in Seq(Attempt)
  /\ auth_queue \in Seq(Attempt)
  /\ candidates \in BOOLEAN
  /\ index \in 0..MaxCandidate
  /\ identity \in 0..MaxIdentity
  /\ checked \in BOOLEAN
  /\ asked \in Seq(Question)
  /\ tried \in Seq(Question)
  /\ result \in [Driver -> Result]
  /\ session \in [Driver -> BOOLEAN]

\* the constructors; setKeysIntern() may find the keys of the process user
Init ==
  /\ client_identity_provider = FALSE
  /\ client_auth_order = "EXPLICIT_FIRST"
  /\ client_identity_fallback_policy = "DISABLED"
  /\ use_agent = TRUE
  /\ sshkeys \in {"none", "auto"}
  /\ sshkeys_data = FALSE
  /\ sshpass \in BOOLEAN
  /\ auth_methods = {}
  /\ phase = "setup"
  /\ plan = <<>> /\ sub_plan = <<>> /\ auth_queue = <<>>
  /\ candidates = FALSE
  /\ index = 0
  /\ identity = 0
  /\ checked = FALSE
  /\ asked = <<>> /\ tried = <<>>
  /\ result = [d \in Driver |-> "none"]
  /\ session = [d \in Driver |-> FALSE]

-----------------------------------------------------------------------------
(* The setters. *)

SetClientIdentityProvider ==
  /\ client_identity_provider' \in BOOLEAN
  /\ UNCHANGED <<client_auth_order, client_identity_fallback_policy, use_agent, sshkeys,
                 sshkeys_data, sshpass>>

SetClientAuthOrder ==
  /\ client_auth_order' \in {"EXPLICIT_FIRST", "PROVIDER_FIRST"}
  /\ UNCHANGED <<client_identity_provider, client_identity_fallback_policy, use_agent, sshkeys,
                 sshkeys_data, sshpass>>

SetClientIdentityFallbackPolicy ==
  /\ client_identity_fallback_policy' \in Fallback
  /\ UNCHANGED <<client_identity_provider, client_auth_order, use_agent, sshkeys, sshkeys_data,
                 sshpass>>

SetUseAgent ==
  /\ use_agent' \in BOOLEAN
  /\ UNCHANGED <<client_identity_provider, client_auth_order, client_identity_fallback_policy,
                 sshkeys, sshkeys_data, sshpass>>

\* with no key, or files that cannot be read, the client has no key files
SetKeys ==
  /\ sshkeys' \in {"none", "explicit"}
  /\ UNCHANGED <<client_identity_provider, client_auth_order, client_identity_fallback_policy,
                 use_agent, sshkeys_data, sshpass>>

\* the data may be empty
SetKeysFromData ==
  /\ sshkeys_data' \in BOOLEAN
  /\ UNCHANGED <<client_identity_provider, client_auth_order, client_identity_fallback_policy,
                 use_agent, sshkeys, sshpass>>

SetPassword ==
  /\ sshpass' \in BOOLEAN
  /\ UNCHANGED <<client_identity_provider, client_auth_order, client_identity_fallback_policy,
                 use_agent, sshkeys, sshkeys_data>>

Set ==
  /\ phase = "setup"
  /\ \/ SetClientIdentityProvider \/ SetClientAuthOrder \/ SetClientIdentityFallbackPolicy
     \/ SetUseAgent \/ SetKeys \/ SetKeysFromData \/ SetPassword
  /\ UNCHANGED <<auth_methods, phase, driverVars, outcomeVars>>

-----------------------------------------------------------------------------
(* The plan. *)

\* publicKeyAuthAvailableUnlocked()
PublicKey == "publickey" \in auth_methods

\* the process user's agent and default keys may be used
FallbackAgent ==
  ~client_identity_provider \/ client_identity_fallback_policy \in {"AGENT", "AGENT_AND_DEFAULT_KEYS"}

FallbackDefaultKeys ==
  \/ ~client_identity_provider
  \/ client_identity_fallback_policy \in {"DEFAULT_KEYS", "AGENT_AND_DEFAULT_KEYS"}

If(condition, kind, from) ==
  IF condition THEN <<[kind |-> kind, from |-> from]>> ELSE <<>>

\* fault: the agent is tried although the policy does not allow it
BuildAuthPlanAgentAlways(methods) ==
  If(client_identity_provider, "PROVIDER", "provider")
    \o If(use_agent /\ "publickey" \in methods, "AGENT", "process")

\* buildAuthPlanUnlocked()
BuildAuthPlan(methods) ==
  LET publickey == "publickey" \in methods
      provider == If(TRUE, "PROVIDER", "provider")
      agent == If(use_agent /\ FallbackAgent /\ publickey, "AGENT", "process")
      memory == If(publickey /\ sshkeys_data, "PUBKEY_MEMORY", "explicit")
      file == If(publickey /\ sshkeys = "explicit", "PUBKEY_FILE", "explicit")
      default == If(publickey /\ sshkeys = "auto" /\ FallbackDefaultKeys, "PUBKEY_FILE", "process")
  IN (IF ~client_identity_provider THEN agent \o memory \o file \o default
      ELSE IF client_auth_order = "PROVIDER_FIRST"
           THEN provider \o memory \o file \o agent \o default
           ELSE memory \o file \o provider \o agent \o default)
     \o If(sshpass /\ "password" \in methods, "PASSWORD", "explicit")
     \o If(sshpass /\ "keyboard-interactive" \in methods, "KEYBOARD_INTERACTIVE", "explicit")

AuthenticatedWith(attempt) ==
  CASE attempt.kind = "AGENT" -> "agent"
    [] attempt.kind = "PASSWORD" -> "password"
    [] attempt.kind = "KEYBOARD_INTERACTIVE" -> "keyboard-interactive"
    [] OTHER -> "publickey"

-----------------------------------------------------------------------------
(* What a driver does with the answers it gets. *)

\* the current driver asks; in the second run a question that was asked before at
\* the same place gets the answer it got then
Asks(ask, about, i, answer) ==
  LET question == [ask |-> ask, about |-> about, i |-> i, answer |-> answer]
      n == Len(tried) + 1
      before == n <= Len(asked) /\ asked[n] = [question EXCEPT !.answer = asked[n].answer]
  IN
  /\ \/ phase = "blocking" /\ asked' = Append(asked, question) /\ UNCHANGED tried
     \/ /\ phase = "polling"
        /\ before => asked[n].answer = answer
        /\ tried' = Append(tried, question)
        /\ UNCHANGED asked

\* the current driver is over, and all that belonged to the plan released
End(outcome, open) ==
  /\ result' = [result EXCEPT ![phase] = outcome]
  /\ session' = [session EXCEPT ![phase] = open]
  /\ phase' = IF phase = "blocking" /\ outcome # "interrupted" THEN "ready" ELSE "done"
  /\ plan' = <<>> /\ sub_plan' = <<>> /\ auth_queue' = <<>>
  /\ candidates' = FALSE
  /\ index' = 0
  /\ identity' = 0
  /\ checked' = FALSE

GoesOn == UNCHANGED <<phase, result, session>>

\* the answer to "resolve" as attempts
SubPlan(answer) ==
  If(answer \in {"AGENT", "PUBKEY_FILE", "PUBKEY_MEMORY"}, answer, "provider")

-----------------------------------------------------------------------------
(* connect() *)

\* userauth_list() has answered
SshConnect ==
  /\ phase = "setup"
  /\ phase' = "blocking"
  /\ \E methods \in Userauthlist : auth_methods' = methods /\ plan' = BuildAuthPlan(methods)
  /\ UNCHANGED <<settingVars, sub_plan, auth_queue, candidates, index, identity, checked, outcomeVars>>

\* the loops go on after an attempt that was refused
NextAttempt ==
  IF sub_plan # <<>> THEN sub_plan' = Tail(sub_plan) /\ UNCHANGED plan
                     ELSE plan' = Tail(plan) /\ UNCHANGED sub_plan

\* tryProviderAuth().  The session is left as it is after an error of the provider.
TryProviderAuth ==
  /\ phase = "blocking"
  /\ sub_plan = <<>> /\ plan # <<>> /\ Head(plan).kind = "PROVIDER"
  /\ \/ /\ ~PublicKey
        /\ plan' = Tail(plan)
        /\ GoesOn
        /\ UNCHANGED <<sub_plan, auth_queue, candidates, index, identity, checked, asked, tried>>
     \/ /\ PublicKey /\ ~candidates
        /\ \/ /\ Asks("candidates", Head(plan), 0, "error")
              /\ End("failed", TRUE)
           \/ /\ Asks("candidates", Head(plan), 0, "list")
              /\ candidates' = TRUE
              /\ GoesOn
              /\ UNCHANGED <<plan, sub_plan, auth_queue, index, identity, checked>>
     \/ /\ PublicKey /\ candidates
        /\ \/ /\ Asks("resolve", Head(plan), index, "end")
              /\ plan' = Tail(plan)
              /\ candidates' = FALSE
              /\ index' = 0
              /\ GoesOn
              /\ UNCHANGED <<sub_plan, auth_queue, identity, checked>>
           \/ /\ index < MaxCandidate
              /\ Asks("resolve", Head(plan), index, "error")
              /\ End("failed", TRUE)
           \/ /\ index < MaxCandidate
              /\ \E answer \in Answer("resolve") \ {"error", "end"} :
                   /\ Asks("resolve", Head(plan), index, answer)
                   /\ sub_plan' = SubPlan(answer)
              /\ index' = index + 1
              /\ GoesOn
              /\ UNCHANGED <<plan, auth_queue, candidates, identity, checked>>
  /\ UNCHANGED <<settingVars, auth_methods>>

\* fault: a key file is read without a check
RunAuthAttemptUnchecked(attempt) ==
  /\ attempt.kind # "PROVIDER"
  /\ Asks("authenticate", attempt, 0, "refused")
  /\ NextAttempt
  /\ GoesOn
  /\ UNCHANGED <<auth_queue, candidates, index, identity, checked>>

\* runAuthAttemptUnlocked() with checkAuthAttemptAccessUnlocked(), authCallUnlocked()
\* and, for an agent, tryAgentAuth()
RunAuthAttempt(attempt) ==
  \/ /\ attempt.kind = "AGENT"
     /\ \/ /\ Asks("identity", attempt, identity, "ok")
           /\ End("agent", TRUE)
        \/ /\ identity < MaxIdentity
           /\ Asks("identity", attempt, identity, "refused")
           /\ identity' = identity + 1
           /\ GoesOn
           /\ UNCHANGED <<plan, sub_plan, auth_queue, candidates, index, checked>>
        \/ /\ Asks("identity", attempt, identity, "end")
           /\ identity' = 0
           /\ NextAttempt
           /\ GoesOn
           /\ UNCHANGED <<auth_queue, candidates, index, checked>>
  \/ /\ attempt.kind = "PUBKEY_FILE" /\ ~checked
     /\ \/ /\ Asks("access", attempt, 0, "denied")
           /\ End("failed", FALSE)
        \/ /\ Asks("access", attempt, 0, "allowed")
           /\ checked' = TRUE
           /\ GoesOn
           /\ UNCHANGED <<plan, sub_plan, auth_queue, candidates, index, identity>>
  \/ /\ attempt.kind \notin {"PROVIDER", "AGENT"}
     /\ attempt.kind = "PUBKEY_FILE" => checked
     /\ \/ /\ Asks("authenticate", attempt, 0, "ok")
           /\ End(AuthenticatedWith(attempt), TRUE)
        \/ /\ Asks("authenticate", attempt, 0, "refused")
           /\ checked' = FALSE
           /\ NextAttempt
           /\ GoesOn
           /\ UNCHANGED <<auth_queue, candidates, index, identity>>

\* the loops of tryProviderAuth() and sshConnectUnlocked()
BlockingAttempt ==
  /\ phase = "blocking"
  /\ \/ sub_plan # <<>> /\ RunAuthAttempt(Head(sub_plan))
     \/ sub_plan = <<>> /\ plan # <<>> /\ RunAuthAttempt(Head(plan))
  /\ UNCHANGED <<settingVars, auth_methods>>

BlockingFails ==
  /\ phase = "blocking"
  /\ plan = <<>> /\ sub_plan = <<>>
  /\ End("failed", FALSE)
  /\ UNCHANGED <<settingVars, auth_methods, asked, tried>>

-----------------------------------------------------------------------------
(* The AUTHLIST and AUTH stages of a poll operation. *)

HandleAuthList ==
  /\ phase = "ready"
  /\ phase' = "polling"
  /\ auth_queue' = BuildAuthPlan(auth_methods)
  /\ UNCHANGED <<settingVars, auth_methods, plan, sub_plan, candidates, index, identity, checked,
                 outcomeVars>>

\* fault: the entry of the provider is taken off with its first candidate
ExpandProviderAttemptOnce ==
  /\ phase = "polling"
  /\ auth_queue # <<>> /\ Head(auth_queue).kind = "PROVIDER"
  /\ \E answer \in Answer("resolve") \ {"error", "end"} :
       /\ Asks("candidates", Head(auth_queue), 0, "list")
       /\ auth_queue' = SubPlan(answer) \o Tail(auth_queue)
  /\ GoesOn
  /\ UNCHANGED <<settingVars, auth_methods, plan, sub_plan, candidates, index, identity, checked>>

\* fault: the entry of the provider stays although there are no more candidates
ExpandProviderAttemptAgain ==
  /\ phase = "polling"
  /\ auth_queue # <<>> /\ Head(auth_queue).kind = "PROVIDER"
  /\ UNCHANGED <<settingVars, auth_methods, phase, driverVars, outcomeVars>>

\* expandProviderAttempt(): the entry stays until all candidates have been tried
ExpandProviderAttempt ==
  /\ phase = "polling"
  /\ auth_queue # <<>> /\ Head(auth_queue).kind = "PROVIDER"
  /\ \/ /\ ~PublicKey
        /\ auth_queue' = Tail(auth_queue)
        /\ GoesOn
        /\ UNCHANGED <<plan, sub_plan, candidates, index, identity, checked, asked, tried>>
     \/ /\ PublicKey /\ ~candidates
        /\ \/ /\ Asks("candidates", Head(auth_queue), 0, "error")
              /\ End("failed", FALSE)
           \/ /\ Asks("candidates", Head(auth_queue), 0, "list")
              /\ candidates' = TRUE
              /\ GoesOn
              /\ UNCHANGED <<plan, sub_plan, auth_queue, index, identity, checked>>
     \/ /\ PublicKey /\ candidates
        /\ \/ /\ Asks("resolve", Head(auth_queue), index, "end")
              /\ auth_queue' = Tail(auth_queue)
              /\ candidates' = FALSE
              /\ index' = 0
              /\ GoesOn
              /\ UNCHANGED <<plan, sub_plan, identity, checked>>
           \/ /\ index < MaxCandidate
              /\ Asks("resolve", Head(auth_queue), index, "error")
              /\ End("failed", FALSE)
           \/ /\ index < MaxCandidate
              /\ \E answer \in Answer("resolve") \ {"error", "end"} :
                   /\ Asks("resolve", Head(auth_queue), index, answer)
                   /\ auth_queue' = SubPlan(answer) \o auth_queue
              /\ index' = index + 1
              /\ GoesOn
              /\ UNCHANGED <<plan, sub_plan, candidates, identity, checked>>
  /\ UNCHANGED <<settingVars, auth_methods>>

\* stepAgentAuth(): one identity, or the end of them
StepAgentAuth ==
  /\ phase = "polling"
  /\ auth_queue # <<>> /\ Head(auth_queue).kind = "AGENT"
  /\ \/ /\ Asks("identity", Head(auth_queue), identity, "ok")
        /\ End("agent", TRUE)
     \/ /\ identity < MaxIdentity
        /\ Asks("identity", Head(auth_queue), identity, "refused")
        /\ identity' = identity + 1
        /\ GoesOn
        /\ UNCHANGED <<plan, sub_plan, auth_queue, candidates, index, checked>>
     \/ /\ Asks("identity", Head(auth_queue), identity, "end")
        /\ identity' = 0
        /\ auth_queue' = Tail(auth_queue)
        /\ GoesOn
        /\ UNCHANGED <<plan, sub_plan, candidates, index, checked>>
  /\ UNCHANGED <<settingVars, auth_methods>>

\* the first part of handleAuth() for the other attempts
CheckAttempt ==
  /\ phase = "polling"
  /\ auth_queue # <<>> /\ Head(auth_queue).kind = "PUBKEY_FILE" /\ ~checked
  /\ \/ /\ Asks("access", Head(auth_queue), 0, "denied")
        /\ End("failed", FALSE)
     \/ /\ Asks("access", Head(auth_queue), 0, "allowed")
        /\ checked' = TRUE
        /\ GoesOn
        /\ UNCHANGED <<plan, sub_plan, auth_queue, candidates, index, identity>>
  /\ UNCHANGED <<settingVars, auth_methods>>

\* ... and the second: the call, when it does not ask to be repeated
AuthCall ==
  /\ phase = "polling"
  /\ auth_queue # <<>> /\ Head(auth_queue).kind \notin {"PROVIDER", "AGENT"}
  /\ Head(auth_queue).kind = "PUBKEY_FILE" => checked
  /\ \/ /\ Asks("authenticate", Head(auth_queue), 0, "ok")
        /\ End(AuthenticatedWith(Head(auth_queue)), TRUE)
     \/ /\ Asks("authenticate", Head(auth_queue), 0, "refused")
        /\ auth_queue' = Tail(auth_queue)
        /\ checked' = FALSE
        /\ GoesOn
        /\ UNCHANGED <<plan, sub_plan, candidates, index, identity>>
  /\ UNCHANGED <<settingVars, auth_methods>>

PollFails ==
  /\ phase = "polling"
  /\ auth_queue = <<>>
  /\ End("failed", FALSE)
  /\ UNCHANGED <<settingVars, auth_methods, asked, tried>>

\* a wait of connect() fails, the thread is cancelled or the operation aborted
Interrupted ==
  /\ phase \in Driver
  /\ End("interrupted", FALSE)
  /\ UNCHANGED <<settingVars, auth_methods, asked, tried>>

Blocking == TryProviderAuth \/ BlockingAttempt \/ BlockingFails
Polling == HandleAuthList \/ ExpandProviderAttempt \/ StepAgentAuth \/ CheckAttempt \/ AuthCall \/ PollFails

Next == Set \/ SshConnect \/ Blocking \/ Polling \/ Interrupted

Spec == Init /\ [][Next]_vars /\ WF_vars(Blocking \/ Polling)

-----------------------------------------------------------------------------
(* Properties *)

LastOf(s) == s[Len(s)]

\* "The two paths cannot disagree about security decisions": the poll operation
\* asks what connect() asks, in the same order, and ends with the same result.
SameQuestions ==
  phase \in {"polling", "done"} /\ result["blocking"] # "interrupted" =>
    /\ Len(tried) <= Len(asked)
    /\ \A n \in 1..Len(tried) : tried[n] = asked[n]
    /\ result["polling"] \notin {"none", "interrupted"} =>
         tried = asked /\ result["polling"] = result["blocking"]

\* A login ends the plan: nothing is offered, and no key material asked for, after
\* it; a result other than a login means that nothing was accepted, and a session
\* is left behind only by an error of the provider.
LoginIsLast ==
  \A d \in Driver :
    LET s == IF d = "blocking" THEN asked ELSE tried
    IN /\ \A n \in 1..Len(s) : s[n].answer = "ok" => n = Len(s)
       /\ result[d] # "none" =>
            (result[d] \in {"failed", "interrupted"} <=> (s = <<>> \/ LastOf(s).answer # "ok"))
       /\ result[d] = "failed" /\ session[d] => LastOf(s).answer = "error"

\* Both drivers carry the plan out, and alike.
DriversAgree == SameQuestions /\ LoginIsLast

\* an identity is offered to the server in the n-th question
Offers(s, n) == s[n].ask \in {"identity", "authenticate"}

\* With an identity provider the process user's own identities, its agent and its
\* default keys, are offered only as the fallback policy allows, and only after
\* every candidate of the provider and every explicit key.
ProcessIdentityGuarded ==
  client_identity_provider =>
    \A s \in {asked, tried} : \A n \in 1..Len(s) :
      Offers(s, n) /\ s[n].about.from = "process" =>
        /\ IF s[n].about.kind = "AGENT" THEN FallbackAgent ELSE FallbackDefaultKeys
        /\ \A m \in (n + 1)..Len(s) :
             s[m].about.from = "process" \/ s[m].about.kind \in {"PASSWORD", "KEYBOARD_INTERACTIVE"}

\* "Enforce sandboxing restrictions before reading any key file": each key file
\* is read right after access to it was allowed, though a poll operation may come
\* back to the attempt any number of times.
CheckedBeforeRead ==
  \A s \in {asked, tried} : \A n \in 1..Len(s) :
    s[n].ask = "authenticate" /\ s[n].about.kind = "PUBKEY_FILE" =>
      /\ n > 1
      /\ s[n - 1] = [ask |-> "access", about |-> s[n].about, i |-> s[n].i, answer |-> "allowed"]

\* Both drivers come to an end, although the entry of the provider stays in the
\* queue of the poll operation.
DriversEnd == phase = "blocking" ~> phase = "done"
=============================================================================
