-------------------------- MODULE AuthPlanProofs --------------------------
(***************************************************************************)
(* Proofs about AuthPlan, for any fallback policy and any number of        *)
(* candidates and identities.                                              *)
(*                                                                         *)
(* connect() and the poll operation keep different variables: connect() a  *)
(* plan and what the provider has just supplied, the poll operation one    *)
(* queue.  Todo and Log say of either what it has still to do and what it  *)
(* has asked, and every step of either is shown to be a DriverStep on      *)
(* them.  The invariants are then proved of DriverStep alone.              *)
(*                                                                         *)
(* That the drivers agree needs the places connect() has been at: AgreeInv *)
(* says that there is a history of them that explains its questions, and   *)
(* that the poll operation, after n questions, is at the nth.              *)
(***************************************************************************)
EXTENDS AuthPlan, SequenceTheorems, TLAPS

\* what the current driver has still to do, and what it has asked so far
Todo == IF phase = "polling" THEN auth_queue ELSE sub_plan \o plan
Log  == IF phase = "polling" THEN tried ELSE asked

\* what decides about the next question of a driver
Place(todo, cand, i, id, chk) ==
  [todo |-> todo, candidates |-> cand, index |-> i, identity |-> id, checked |-> chk]

Here == Place(Todo, candidates, index, identity, checked)

\* the next question, and the number of the candidate or identity it is about
AskOf(c) ==
  LET kind == Head(c.todo).kind
  IN IF kind = "PROVIDER" THEN (IF c.candidates THEN "resolve" ELSE "candidates")
     ELSE IF kind = "AGENT" THEN "identity"
     ELSE IF kind = "PUBKEY_FILE" /\ ~c.checked THEN "access" ELSE "authenticate"

NumOf(c) ==
  IF AskOf(c) = "resolve" THEN c.index ELSE IF AskOf(c) = "identity" THEN c.identity ELSE 0

QuestionOf(c, a) == [ask |-> AskOf(c), about |-> Head(c.todo), i |-> NumOf(c), answer |-> a]

\* answers that end the driver, and what it ends with
Final == {"ok", "error", "denied"}

OutcomeOf(c, a) == IF a = "ok" THEN AuthenticatedWith(Head(c.todo)) ELSE "failed"

\* where the driver is after another answer
After(c, a) ==
  LET ask == AskOf(c)
  IN IF ask = "candidates" THEN Place(c.todo, TRUE, c.index, c.identity, c.checked)
     ELSE IF ask = "access" THEN Place(c.todo, c.candidates, c.index, c.identity, TRUE)
     ELSE IF ask = "authenticate" THEN Place(Tail(c.todo), c.candidates, c.index, c.identity, FALSE)
     ELSE IF ask = "identity"
          THEN IF a = "end" THEN Place(Tail(c.todo), c.candidates, c.index, 0, c.checked)
                            ELSE Place(c.todo, c.candidates, c.index, c.identity + 1, c.checked)
          ELSE IF a = "end" THEN Place(Tail(c.todo), FALSE, 0, c.identity, c.checked)
               ELSE Place(SubPlan(a) \o c.todo, c.candidates, c.index + 1, c.identity, c.checked)

\* a driver without a public key method drops the entry of the provider
Skips ==
  /\ ~PublicKey
  /\ Todo # <<>> /\ Head(Todo).kind = "PROVIDER"
  /\ Todo' = Tail(Todo)
  /\ GoesOn
  /\ UNCHANGED <<candidates, index, identity, checked, asked, tried>>

\* a driver asks a question
AsksNext ==
  /\ Todo # <<>>
  /\ Head(Todo).kind = "PROVIDER" => PublicKey
  /\ \E a \in Answer(AskOf(Here)) :
       /\ Asks(AskOf(Here), Head(Todo), NumOf(Here), a)
       /\ \/ /\ a \in Final
             /\ \E open \in BOOLEAN :
                  End(OutcomeOf(Here, a), open) /\ (open => a \in {"ok", "error"})
          \/ a \notin Final /\ GoesOn /\ Here' = After(Here, a)

\* a driver ends with nothing left to do, or is interrupted
Stops ==
  /\ \E outcome \in {"failed", "interrupted"} :
       (outcome = "failed" => Todo = <<>>) /\ End(outcome, FALSE)
  /\ UNCHANGED <<asked, tried>>

DriverStep ==
  /\ phase \in Driver
  /\ Skips \/ AsksNext \/ Stops
  /\ UNCHANGED <<settingVars, auth_methods>>

\* what does not belong to the driver that runs is empty
IdleInv ==
  /\ phase # "polling" => auth_queue = <<>>
  /\ phase # "blocking" => plan = <<>> /\ sub_plan = <<>>
  /\ phase \notin Driver => ~candidates /\ index = 0 /\ identity = 0 /\ ~checked
  /\ phase = "setup" => asked = <<>>
  /\ phase \in {"setup", "blocking", "ready"} => tried = <<>>
  /\ result["blocking"] = "none" <=> phase \in {"setup", "blocking"}
  /\ phase \in {"setup", "blocking", "ready", "polling"} => result["polling"] = "none"
  /\ phase \in {"ready", "polling"} => result["blocking"] # "interrupted"
  /\ phase = "done" /\ result["polling"] = "none" => tried = <<>>

-----------------------------------------------------------------------------
\* An entry that may be left out is a plan.
LEMMA IfType ==
  ASSUME NEW condition, NEW kind \in Kind, NEW from \in Source
  PROVE  If(condition, kind, from) \in Seq(Attempt)
<1>1. <<[kind |-> kind, from |-> from]>> \in Seq(Attempt)
  BY DEF Attempt
<1>2. CASE condition
  BY <1>1, <1>2, Zenon DEF If
<1>3. CASE ~condition
  BY <1>3 DEF If
<1> QED BY <1>2, <1>3

\* What the provider supplies is a plan.
LEMMA SubPlanType == ASSUME NEW answer PROVE SubPlan(answer) \in Seq(Attempt)
<1>1. CASE answer \in {"AGENT", "PUBKEY_FILE", "PUBKEY_MEMORY"}
  BY <1>1, IfType DEF SubPlan, Kind, Source
<1>2. CASE answer \notin {"AGENT", "PUBKEY_FILE", "PUBKEY_MEMORY"}
  BY <1>2 DEF SubPlan, If
<1> QED BY <1>1, <1>2

\* Two plans are a plan.
LEMMA ConcatType ==
  ASSUME NEW s \in Seq(Attempt), NEW r \in Seq(Attempt)
  PROVE  s \o r \in Seq(Attempt)
OBVIOUS

\* The head and the rest of two plans one after the other.
LEMMA Pieces ==
  ASSUME NEW s \in Seq(Attempt), NEW r \in Seq(Attempt)
  PROVE  /\ s = <<>> => s \o r = r
         /\ s # <<>> => /\ s \o r # <<>> /\ Head(s \o r) = Head(s)
                        /\ Tail(s \o r) = Tail(s) \o r
         /\ s # <<>> => Head(s) \in Attempt /\ Tail(s) \in Seq(Attempt)
<1>1. s = <<>> => s \o r = r
  BY ConcatProperties
<1>2. ASSUME s # <<>> PROVE s \o r # <<>> /\ Head(s \o r) = Head(s)
  BY <1>2, ConcatProperties, HeadTailProperties, EmptySeq
<1>3. ASSUME s # <<>> PROVE Tail(s \o r) = Tail(s) \o r
  BY <1>3
<1>4. s # <<>> => Head(s) \in Attempt /\ Tail(s) \in Seq(Attempt)
  OBVIOUS
<1> QED BY <1>1, <1>2, <1>3, <1>4

\* buildAuthPlan() builds a plan.
LEMMA PlanType == ASSUME NEW methods PROVE BuildAuthPlan(methods) \in Seq(Attempt)
<1> DEFINE publickey == "publickey" \in methods
           provider == If(TRUE, "PROVIDER", "provider")
           agent == If(use_agent /\ FallbackAgent /\ publickey, "AGENT", "process")
           memory == If(publickey /\ sshkeys_data, "PUBKEY_MEMORY", "explicit")
           file == If(publickey /\ sshkeys = "explicit", "PUBKEY_FILE", "explicit")
           default == If(publickey /\ sshkeys = "auto" /\ FallbackDefaultKeys, "PUBKEY_FILE", "process")
           password == If(sshpass /\ "password" \in methods, "PASSWORD", "explicit")
           interactive == If(sshpass /\ "keyboard-interactive" \in methods, "KEYBOARD_INTERACTIVE", "explicit")
<1>1. /\ provider \in Seq(Attempt) /\ agent \in Seq(Attempt) /\ memory \in Seq(Attempt)
      /\ file \in Seq(Attempt) /\ default \in Seq(Attempt) /\ password \in Seq(Attempt)
      /\ interactive \in Seq(Attempt)
  BY IfType, Zenon DEF Kind, Source
<1>2. BuildAuthPlan(methods) =
        (IF ~client_identity_provider THEN agent \o memory \o file \o default
         ELSE IF client_auth_order = "PROVIDER_FIRST"
              THEN provider \o memory \o file \o agent \o default
              ELSE memory \o file \o provider \o agent \o default) \o password \o interactive
  BY Zenon DEF BuildAuthPlan
<1> HIDE DEF publickey, provider, agent, memory, file, default, password, interactive
<1>3. /\ agent \o memory \o file \o default \in Seq(Attempt)
      /\ provider \o memory \o file \o agent \o default \in Seq(Attempt)
      /\ memory \o file \o provider \o agent \o default \in Seq(Attempt)
  BY ONLY <1>1, ConcatType, Zenon
<1>4. \A s \in Seq(Attempt) : s \o password \o interactive \in Seq(Attempt)
  BY ONLY <1>1, ConcatType, Zenon
<1> QED BY ONLY <1>2, <1>3, <1>4, Zenon

\* A question with one of its answers is a question of the log.
LEMMA QuestionType ==
  ASSUME NEW ask \in Ask, NEW about \in Attempt, NEW i \in Nat, NEW answer \in Answer(ask)
  PROVE  [ask |-> ask, about |-> about, i |-> i, answer |-> answer] \in Question
<1>1. answer \in UNION {Answer(a) : a \in Ask}
  BY Zenon
<1> QED BY <1>1 DEF Question

\* The logs keep their types when a question is asked.
LEMMA AsksType ==
  ASSUME TypeOK, NEW ask \in Ask, NEW about \in Attempt, NEW i \in Nat,
         NEW answer \in Answer(ask), Asks(ask, about, i, answer)
  PROVE  asked' \in Seq(Question) /\ tried' \in Seq(Question)
<1> DEFINE question == [ask |-> ask, about |-> about, i |-> i, answer |-> answer]
<1>1. question \in Question
  BY QuestionType
<1>2. /\ asked' = asked \/ asked' = Append(asked, question)
      /\ tried' = tried \/ tried' = Append(tried, question)
  BY Zenon DEF Asks
<1>3. asked \in Seq(Question) /\ tried \in Seq(Question)
  BY DEF TypeOK
<1> HIDE DEF question
<1>4. Append(asked, question) \in Seq(Question) /\ Append(tried, question) \in Seq(Question)
  BY <1>1, <1>3, AppendProperties
<1> QED BY ONLY <1>2, <1>3, <1>4, Zenon

\* the variables without the two logs
DriverType ==
  /\ phase \in {"setup", "ready", "done"} \cup Driver
  /\ plan \in Seq(Attempt)
  /\ sub_plan \in Seq(Attempt)
  /\ auth_queue \in Seq(Attempt)
  /\ candidates \in BOOLEAN
  /\ index \in 0..MaxCandidate
  /\ identity \in 0..MaxIdentity
  /\ checked \in BOOLEAN
  /\ result \in [Driver -> Result]
  /\ session \in [Driver -> BOOLEAN]

\* A driver that ends leaves its variables typed.
LEMMA EndType ==
  ASSUME TypeOK, NEW outcome \in Result, NEW open \in BOOLEAN, phase \in Driver,
         End(outcome, open)
  PROVE  DriverType'
<1>1. result' \in [Driver -> Result] /\ session' \in [Driver -> BOOLEAN]
  BY DEF TypeOK, End
<1>2. phase' \in {"setup", "ready", "done"} \cup Driver
  BY DEF End
<1>3. plan' \in Seq(Attempt) /\ sub_plan' \in Seq(Attempt) /\ auth_queue' \in Seq(Attempt)
  BY DEF End
<1>4. index' \in 0..MaxCandidate /\ identity' \in 0..MaxIdentity
  BY AuthAssumption DEF End
<1>5. candidates' \in BOOLEAN /\ checked' \in BOOLEAN
  BY Zenon DEF End
<1> QED BY <1>1, <1>2, <1>3, <1>4, <1>5, Zenon DEF DriverType

\* The types in parts: the logs, the variables of the drivers, the settings.
LEMMA WithType ==
  ASSUME TypeOK
  PROVE  (asked' \in Seq(Question) /\ tried' \in Seq(Question) /\ DriverType'
           /\ UNCHANGED <<settingVars, auth_methods>>) => TypeOK'
BY DEF TypeOK, DriverType, settingVars

\* What an attempt has authenticated with is a result.
LEMMA AuthenticatedType == ASSUME NEW attempt PROVE AuthenticatedWith(attempt) \in Result
BY DEF AuthenticatedWith, Result
-----------------------------------------------------------------------------
(* Every step of either driver is a DriverStep. *)

TypeInv == TypeOK /\ IdleInv

\* What connect() has to do is what the provider supplied, then its plan; what the
\* poll operation has to do is its queue.
LEMMA TodoOf ==
  ASSUME TypeInv
  PROVE  /\ Todo \in Seq(Attempt)
         /\ Todo # <<>> => Head(Todo) \in Attempt
         /\ phase = "polling" => Todo = auth_queue
         /\ phase = "blocking" =>
              /\ sub_plan # <<>> => /\ Todo # <<>> /\ Head(Todo) = Head(sub_plan)
                                    /\ Tail(Todo) = Tail(sub_plan) \o plan
              /\ sub_plan = <<>> => Todo = plan
<1>1. plan \in Seq(Attempt) /\ sub_plan \in Seq(Attempt) /\ auth_queue \in Seq(Attempt)
  BY DEF TypeInv, TypeOK
<1>2. sub_plan \o plan \in Seq(Attempt)
  BY <1>1, ConcatType
<1>3. Todo \in Seq(Attempt)
  BY <1>1, <1>2, Zenon DEF Todo
<1>4. phase = "polling" => Todo = auth_queue
  BY DEF Todo
<1>5. phase = "blocking" => Todo = sub_plan \o plan
  BY DEF Todo
<1>6. Todo # <<>> => Head(Todo) \in Attempt
  BY <1>3, Pieces
<1>7. ASSUME phase = "blocking", sub_plan # <<>>
      PROVE  Todo # <<>> /\ Head(Todo) = Head(sub_plan) /\ Tail(Todo) = Tail(sub_plan) \o plan
  <2>1. /\ sub_plan \o plan # <<>> /\ Head(sub_plan \o plan) = Head(sub_plan)
        /\ Tail(sub_plan \o plan) = Tail(sub_plan) \o plan
    BY <1>1, <1>7, Pieces
  <2> QED BY <1>5, <1>7, <2>1, Zenon
<1>8. ASSUME phase = "blocking", sub_plan = <<>> PROVE Todo = plan
  BY <1>1, <1>5, <1>8, Pieces, Zenon
<1> QED BY <1>3, <1>4, <1>6, <1>7, <1>8, Zenon

\* What connect() has to do after a step, by what the step does with its two plans.
LEMMA TodoThen ==
  ASSUME TypeInv, phase = "blocking", GoesOn
  PROVE  /\ UNCHANGED <<plan, sub_plan>> => Todo' = Todo
         /\ Todo # <<>> /\ NextAttempt => Todo' = Tail(Todo)
         /\ sub_plan = <<>> /\ plan # <<>> /\ plan' = Tail(plan) /\ UNCHANGED sub_plan
              => Todo' = Tail(Todo)
         /\ \A answer : sub_plan = <<>> /\ sub_plan' = SubPlan(answer) /\ UNCHANGED plan
                           => Todo' = SubPlan(answer) \o Todo
<1>1. plan \in Seq(Attempt) /\ sub_plan \in Seq(Attempt)
  BY DEF TypeInv, TypeOK
<1>2. Todo = sub_plan \o plan /\ Todo' = sub_plan' \o plan'
  BY DEF Todo, GoesOn
<1>3. sub_plan = <<>> => Todo = plan
  BY <1>1, <1>2, Pieces, Zenon
<1>4. plan # <<>> => Tail(plan) \in Seq(Attempt) /\ <<>> \o Tail(plan) = Tail(plan)
  BY <1>1, ConcatEmptySeq
<1>5. sub_plan = <<>> /\ plan # <<>> /\ plan' = Tail(plan) /\ UNCHANGED sub_plan => Todo' = Tail(Todo)
  BY <1>2, <1>3, <1>4, Zenon
<1>6. Todo # <<>> /\ NextAttempt => Todo' = Tail(Todo)
  <2>1. sub_plan # <<>> => Tail(Todo) = Tail(sub_plan) \o plan
    BY <1>1, <1>2, Pieces, Zenon
  <2> QED BY <1>2, <1>3, <1>5, <2>1, Zenon DEF NextAttempt
<1>7. UNCHANGED <<plan, sub_plan>> => Todo' = Todo
  BY <1>2
<1>8. \A answer : sub_plan = <<>> /\ sub_plan' = SubPlan(answer) /\ UNCHANGED plan
                     => Todo' = SubPlan(answer) \o Todo
  BY <1>2, <1>3, Zenon
<1> QED BY <1>5, <1>6, <1>7, <1>8, Zenon

\* a driver asks the question AskOf(Here) and does what the answer says
LEMMA AsksNextBy ==
  ASSUME Todo # <<>>, Head(Todo).kind = "PROVIDER" => PublicKey,
         NEW a \in Answer(AskOf(Here)), Asks(AskOf(Here), Head(Todo), NumOf(Here), a),
         \/ /\ a \in Final
            /\ \E open \in BOOLEAN : End(OutcomeOf(Here, a), open) /\ (open => a \in {"ok", "error"})
         \/ a \notin Final /\ GoesOn /\ Here' = After(Here, a)
  PROVE  AsksNext
BY Zenon DEF AsksNext

\* The answers to each question.
LEMMA AnswersTo ==
  /\ Answer("candidates") = {"list", "error"}
  /\ Answer("resolve") = {"AGENT", "PUBKEY_FILE", "PUBKEY_MEMORY", "skipped", "error", "end"}
  /\ Answer("identity") = {"ok", "refused", "end"}
  /\ Answer("access") = {"allowed", "denied"}
  /\ Answer("authenticate") = {"ok", "refused"}
<1>1. Answer("candidates") = {"list", "error"} BY DEF Answer
<1>2. Answer("resolve") = {"AGENT", "PUBKEY_FILE", "PUBKEY_MEMORY", "skipped", "error", "end"}
  BY DEF Answer
<1>3. Answer("identity") = {"ok", "refused", "end"} BY DEF Answer
<1>4. Answer("access") = {"allowed", "denied"} BY DEF Answer
<1>5. Answer("authenticate") = {"ok", "refused"} BY DEF Answer
<1> QED BY <1>1, <1>2, <1>3, <1>4, <1>5

\* The next question, by the entry at the head and how far the driver is with it.
LEMMA AskIs ==
  /\ AskOf(Here) \in Ask
  /\ Head(Todo).kind = "PROVIDER" /\ ~candidates => AskOf(Here) = "candidates" /\ NumOf(Here) = 0
  /\ Head(Todo).kind = "PROVIDER" /\ candidates => AskOf(Here) = "resolve" /\ NumOf(Here) = index
  /\ Head(Todo).kind = "AGENT" => AskOf(Here) = "identity" /\ NumOf(Here) = identity
  /\ Head(Todo).kind = "PUBKEY_FILE" /\ ~checked => AskOf(Here) = "access" /\ NumOf(Here) = 0
  /\ Head(Todo).kind \notin {"PROVIDER", "AGENT"} /\ (Head(Todo).kind = "PUBKEY_FILE" => checked)
       => AskOf(Here) = "authenticate" /\ NumOf(Here) = 0
BY DEF AskOf, NumOf, Here, Place, Ask

\* The provider is asked for its candidates, in either driver.
LEMMA CandidatesStep ==
  ASSUME Todo # <<>>, PublicKey, Head(Todo).kind = "PROVIDER", ~candidates,
         \/ \E open \in BOOLEAN : Asks("candidates", Head(Todo), 0, "error") /\ End("failed", open)
         \/ /\ Asks("candidates", Head(Todo), 0, "list")
            /\ candidates' = TRUE /\ GoesOn /\ Todo' = Todo
            /\ UNCHANGED <<index, identity, checked>>
  PROVE  AsksNext
<1>1. AskOf(Here) = "candidates" /\ NumOf(Here) = 0
  BY AskIs
<1>2. CASE \E open \in BOOLEAN : Asks("candidates", Head(Todo), 0, "error") /\ End("failed", open)
  <2>1. OutcomeOf(Here, "error") = "failed"
    BY DEF OutcomeOf
  <2>2. "error" \in Answer(AskOf(Here)) /\ "error" \in Final
    BY <1>1, AnswersTo DEF Final
  <2> QED BY <1>1, <1>2, <2>1, <2>2, AsksNextBy
<1>3. CASE /\ Asks("candidates", Head(Todo), 0, "list")
           /\ candidates' = TRUE /\ GoesOn /\ Todo' = Todo
           /\ UNCHANGED <<index, identity, checked>>
  <2>1. Here' = After(Here, "list")
    BY <1>1, <1>3 DEF Here, After, Place
  <2>2. "list" \in Answer(AskOf(Here)) /\ "list" \notin Final
    BY <1>1, AnswersTo DEF Final
  <2> QED BY <1>1, <1>3, <2>1, <2>2, AsksNextBy
<1> QED BY <1>2, <1>3

\* The provider is asked to resolve a candidate, in either driver.
LEMMA ResolveStep ==
  ASSUME Todo # <<>>, PublicKey, Head(Todo).kind = "PROVIDER", candidates,
         \/ \E open \in BOOLEAN : Asks("resolve", Head(Todo), index, "error") /\ End("failed", open)
         \/ /\ Asks("resolve", Head(Todo), index, "end")
            /\ candidates' = FALSE /\ index' = 0 /\ GoesOn /\ Todo' = Tail(Todo)
            /\ UNCHANGED <<identity, checked>>
         \/ /\ \E answer \in Answer("resolve") \ {"error", "end"} :
                 Asks("resolve", Head(Todo), index, answer) /\ Todo' = SubPlan(answer) \o Todo
            /\ index' = index + 1 /\ GoesOn /\ UNCHANGED <<candidates, identity, checked>>
  PROVE  AsksNext
<1>1. AskOf(Here) = "resolve" /\ NumOf(Here) = index
  BY AskIs
<1>2. CASE \E open \in BOOLEAN : Asks("resolve", Head(Todo), index, "error") /\ End("failed", open)
  <2>1. OutcomeOf(Here, "error") = "failed"
    BY DEF OutcomeOf
  <2>2. "error" \in Answer(AskOf(Here)) /\ "error" \in Final
    BY <1>1, AnswersTo DEF Final
  <2> QED BY <1>1, <1>2, <2>1, <2>2, AsksNextBy
<1>3. CASE /\ Asks("resolve", Head(Todo), index, "end")
           /\ candidates' = FALSE /\ index' = 0 /\ GoesOn /\ Todo' = Tail(Todo)
           /\ UNCHANGED <<identity, checked>>
  <2>1. Here' = After(Here, "end")
    BY <1>1, <1>3 DEF Here, After, Place
  <2>2. "end" \in Answer(AskOf(Here)) /\ "end" \notin Final
    BY <1>1, AnswersTo DEF Final
  <2> QED BY <1>1, <1>3, <2>1, <2>2, AsksNextBy
<1>4. CASE /\ \E answer \in Answer("resolve") \ {"error", "end"} :
                Asks("resolve", Head(Todo), index, answer) /\ Todo' = SubPlan(answer) \o Todo
           /\ index' = index + 1 /\ GoesOn /\ UNCHANGED <<candidates, identity, checked>>
  <2>0. PICK answer \in Answer("resolve") \ {"error", "end"} :
          Asks("resolve", Head(Todo), index, answer) /\ Todo' = SubPlan(answer) \o Todo
    BY <1>4
  <2>1. Here' = After(Here, answer)
    BY <1>1, <1>4, <2>0 DEF Here, After, Place
  <2>2. answer \in Answer(AskOf(Here)) /\ answer \notin Final
    BY <1>1, AnswersTo DEF Final
  <2> QED BY <1>1, <1>4, <2>0, <2>1, <2>2, AsksNextBy
<1> QED BY <1>2, <1>3, <1>4

\* The agent tries an identity, in either driver.
LEMMA IdentityStep ==
  ASSUME Todo # <<>>, Head(Todo).kind = "AGENT",
         \/ Asks("identity", Head(Todo), identity, "ok") /\ End("agent", TRUE)
         \/ /\ Asks("identity", Head(Todo), identity, "refused")
            /\ identity' = identity + 1 /\ GoesOn /\ Todo' = Todo
            /\ UNCHANGED <<candidates, index, checked>>
         \/ /\ Asks("identity", Head(Todo), identity, "end")
            /\ identity' = 0 /\ GoesOn /\ Todo' = Tail(Todo)
            /\ UNCHANGED <<candidates, index, checked>>
  PROVE  AsksNext
<1>1. AskOf(Here) = "identity" /\ NumOf(Here) = identity /\ Head(Todo).kind # "PROVIDER"
  BY AskIs
<1>2. CASE Asks("identity", Head(Todo), identity, "ok") /\ End("agent", TRUE)
  <2>1. OutcomeOf(Here, "ok") = "agent"
    BY DEF OutcomeOf, AuthenticatedWith, Here, Place
  <2>2. "ok" \in Answer(AskOf(Here)) /\ "ok" \in Final
    BY <1>1, AnswersTo DEF Final
  <2> QED BY <1>1, <1>2, <2>1, <2>2, AsksNextBy, Zenon
<1>3. CASE /\ Asks("identity", Head(Todo), identity, "refused")
           /\ identity' = identity + 1 /\ GoesOn /\ Todo' = Todo
           /\ UNCHANGED <<candidates, index, checked>>
  <2>1. Here' = After(Here, "refused")
    BY <1>1, <1>3 DEF Here, After, Place
  <2>2. "refused" \in Answer(AskOf(Here)) /\ "refused" \notin Final
    BY <1>1, AnswersTo DEF Final
  <2> QED BY <1>1, <1>3, <2>1, <2>2, AsksNextBy
<1>4. CASE /\ Asks("identity", Head(Todo), identity, "end")
           /\ identity' = 0 /\ GoesOn /\ Todo' = Tail(Todo)
           /\ UNCHANGED <<candidates, index, checked>>
  <2>1. Here' = After(Here, "end")
    BY <1>1, <1>4 DEF Here, After, Place
  <2>2. "end" \in Answer(AskOf(Here)) /\ "end" \notin Final
    BY <1>1, AnswersTo DEF Final
  <2> QED BY <1>1, <1>4, <2>1, <2>2, AsksNextBy
<1> QED BY <1>2, <1>3, <1>4

\* The sandbox is asked for access to a key file, in either driver.
LEMMA AccessStep ==
  ASSUME Todo # <<>>, Head(Todo).kind = "PUBKEY_FILE", ~checked,
         \/ Asks("access", Head(Todo), 0, "denied") /\ End("failed", FALSE)
         \/ /\ Asks("access", Head(Todo), 0, "allowed")
            /\ checked' = TRUE /\ GoesOn /\ Todo' = Todo
            /\ UNCHANGED <<candidates, index, identity>>
  PROVE  AsksNext
<1>1. AskOf(Here) = "access" /\ NumOf(Here) = 0 /\ Head(Todo).kind # "PROVIDER"
  BY AskIs
<1>2. CASE Asks("access", Head(Todo), 0, "denied") /\ End("failed", FALSE)
  <2>1. OutcomeOf(Here, "denied") = "failed"
    BY DEF OutcomeOf
  <2>2. "denied" \in Answer(AskOf(Here)) /\ "denied" \in Final
    BY <1>1, AnswersTo DEF Final
  <2> QED BY <1>1, <1>2, <2>1, <2>2, AsksNextBy, Zenon
<1>3. CASE /\ Asks("access", Head(Todo), 0, "allowed")
           /\ checked' = TRUE /\ GoesOn /\ Todo' = Todo
           /\ UNCHANGED <<candidates, index, identity>>
  <2>1. Here' = After(Here, "allowed")
    BY <1>1, <1>3 DEF Here, After, Place
  <2>2. "allowed" \in Answer(AskOf(Here)) /\ "allowed" \notin Final
    BY <1>1, AnswersTo DEF Final
  <2> QED BY <1>1, <1>3, <2>1, <2>2, AsksNextBy
<1> QED BY <1>2, <1>3

\* libssh2 is called to authenticate, in either driver.
LEMMA AuthenticateStep ==
  ASSUME Todo # <<>>, Head(Todo).kind \notin {"PROVIDER", "AGENT"},
         Head(Todo).kind = "PUBKEY_FILE" => checked,
         \/ Asks("authenticate", Head(Todo), 0, "ok") /\ End(AuthenticatedWith(Head(Todo)), TRUE)
         \/ /\ Asks("authenticate", Head(Todo), 0, "refused")
            /\ checked' = FALSE /\ GoesOn /\ Todo' = Tail(Todo)
            /\ UNCHANGED <<candidates, index, identity>>
  PROVE  AsksNext
<1>1. AskOf(Here) = "authenticate" /\ NumOf(Here) = 0 /\ Head(Todo).kind # "PROVIDER"
  BY AskIs
<1>2. CASE Asks("authenticate", Head(Todo), 0, "ok") /\ End(AuthenticatedWith(Head(Todo)), TRUE)
  <2>1. OutcomeOf(Here, "ok") = AuthenticatedWith(Head(Todo))
    BY DEF OutcomeOf, Here, Place
  <2>2. "ok" \in Answer(AskOf(Here)) /\ "ok" \in Final
    BY <1>1, AnswersTo DEF Final
  <2> QED BY <1>1, <1>2, <2>1, <2>2, AsksNextBy, Zenon
<1>3. CASE /\ Asks("authenticate", Head(Todo), 0, "refused")
           /\ checked' = FALSE /\ GoesOn /\ Todo' = Tail(Todo)
           /\ UNCHANGED <<candidates, index, identity>>
  <2>1. Here' = After(Here, "refused")
    BY <1>1, <1>3 DEF Here, After, Place
  <2>2. "refused" \in Answer(AskOf(Here)) /\ "refused" \notin Final
    BY <1>1, AnswersTo DEF Final
  <2> QED BY <1>1, <1>3, <2>1, <2>2, AsksNextBy
<1> QED BY <1>2, <1>3

\* An attempt of connect() asks the next question.
LEMMA RunStep ==
  ASSUME TypeInv, phase = "blocking", Todo # <<>>, RunAuthAttempt(Head(Todo))
  PROVE  AsksNext
<1>1. GoesOn /\ UNCHANGED <<plan, sub_plan>> => Todo' = Todo
  BY TodoThen, Zenon
<1>2. GoesOn /\ NextAttempt => Todo' = Tail(Todo)
  BY TodoThen, Zenon
<1>3. CASE Head(Todo).kind = "AGENT"
  BY <1>1, <1>2, <1>3, IdentityStep, Zenon DEF RunAuthAttempt
<1>4. CASE Head(Todo).kind = "PUBKEY_FILE" /\ ~checked
  BY <1>1, <1>2, <1>4, AccessStep, Zenon DEF RunAuthAttempt
<1>5. CASE Head(Todo).kind \notin {"PROVIDER", "AGENT"} /\ (Head(Todo).kind = "PUBKEY_FILE" => checked)
  BY <1>1, <1>2, <1>5, AuthenticateStep, Zenon DEF RunAuthAttempt
<1> QED BY <1>3, <1>4, <1>5, Zenon DEF RunAuthAttempt

\* tryProviderAuth() is a step of a driver.
LEMMA TryProviderAuthStep ==
  ASSUME TypeInv, TryProviderAuth
  PROVE  DriverStep
<1>1. /\ phase = "blocking" /\ phase \in Driver
      /\ Todo = plan /\ Todo # <<>> /\ Head(Todo).kind = "PROVIDER"
      /\ UNCHANGED <<settingVars, auth_methods>>
  BY TodoOf DEF TryProviderAuth, Driver
<1>2. CASE ~PublicKey
  <2>1. GoesOn /\ Todo' = Tail(Todo) /\ UNCHANGED <<candidates, index, identity, checked, asked, tried>>
    BY <1>1, <1>2, TodoThen DEF TryProviderAuth
  <2>2. Skips
    BY <1>1, <1>2, <2>1, Zenon DEF Skips
  <2> QED BY <1>1, <2>2 DEF DriverStep
<1>3. CASE PublicKey /\ ~candidates
  <2>1. AsksNext
    <3>1. GoesOn /\ UNCHANGED <<plan, sub_plan>> => Todo' = Todo
      BY <1>1, TodoThen, Zenon
    <3> QED BY <1>1, <1>3, <3>1, CandidatesStep, Zenon DEF TryProviderAuth
  <2> QED BY <1>1, <2>1 DEF DriverStep
<1>4. CASE PublicKey /\ candidates
  <2>1. AsksNext
    <3>1. GoesOn /\ plan' = Tail(plan) /\ UNCHANGED sub_plan => Todo' = Tail(Todo)
      BY <1>1, TodoThen, Zenon DEF TryProviderAuth
    <3>2. \A answer : GoesOn /\ sub_plan' = SubPlan(answer) /\ UNCHANGED plan
                        => Todo' = SubPlan(answer) \o Todo
      BY <1>1, TodoThen, Zenon DEF TryProviderAuth
    <3>3. \/ \E open \in BOOLEAN : Asks("resolve", Head(Todo), index, "error") /\ End("failed", open)
          \/ /\ Asks("resolve", Head(Todo), index, "end")
             /\ candidates' = FALSE /\ index' = 0 /\ GoesOn /\ Todo' = Tail(Todo)
             /\ UNCHANGED <<identity, checked>>
          \/ /\ \E answer \in Answer("resolve") \ {"error", "end"} :
                  Asks("resolve", Head(Todo), index, answer) /\ Todo' = SubPlan(answer) \o Todo
             /\ index' = index + 1 /\ GoesOn /\ UNCHANGED <<candidates, identity, checked>>
      BY <1>1, <1>4, <3>1, <3>2, Zenon DEF TryProviderAuth
    <3> QED BY <1>1, <1>4, <3>3, ResolveStep, Zenon
  <2> QED BY <1>1, <2>1 DEF DriverStep
<1> QED BY <1>2, <1>3, <1>4, Zenon

\* An attempt of connect() is a step of a driver.
LEMMA BlockingAttemptStep ==
  ASSUME TypeInv, BlockingAttempt
  PROVE  DriverStep
<1>1. phase = "blocking" /\ phase \in Driver /\ UNCHANGED <<settingVars, auth_methods>>
  BY DEF BlockingAttempt, Driver
<1>2. Todo # <<>> /\ RunAuthAttempt(Head(Todo))
  BY <1>1, TodoOf, Zenon DEF BlockingAttempt
<1>3. AsksNext
  BY <1>1, <1>2, RunStep, Zenon
<1> QED BY <1>1, <1>3 DEF DriverStep

\* A driver that has nothing left to do fails.
LEMMA FailsStep ==
  ASSUME TypeInv, BlockingFails \/ PollFails
  PROVE  DriverStep
<1>1. Todo = <<>> /\ phase \in Driver
  BY TodoOf DEF BlockingFails, PollFails, Driver
<1>2. Stops
  BY <1>1, Zenon DEF Stops, BlockingFails, PollFails
<1> QED BY <1>1, <1>2, Zenon DEF DriverStep, BlockingFails, PollFails

\* A driver that is interrupted stops.
LEMMA InterruptedStep ==
  ASSUME TypeInv, Interrupted
  PROVE  DriverStep
<1>1. Stops
  BY DEF Stops, Interrupted
<1> QED BY <1>1, Zenon DEF DriverStep, Interrupted

\* The poll operation treats the provider's entry as connect() does, though it keeps
\* what the provider supplied at the head of its one queue.
LEMMA ExpandProviderAttemptStep ==
  ASSUME TypeInv, ExpandProviderAttempt
  PROVE  DriverStep
<1>1. /\ phase = "polling" /\ phase \in Driver
      /\ Todo = auth_queue /\ Todo # <<>> /\ Head(Todo).kind = "PROVIDER"
      /\ UNCHANGED <<settingVars, auth_methods>>
  BY TodoOf DEF ExpandProviderAttempt, Driver
<1>0. GoesOn => Todo' = auth_queue'
  BY <1>1 DEF GoesOn, Todo
<1>2. CASE ~PublicKey
  <2>1. GoesOn /\ Todo' = Tail(Todo) /\ UNCHANGED <<candidates, index, identity, checked, asked, tried>>
    BY <1>0, <1>1, <1>2, Zenon DEF ExpandProviderAttempt
  <2>2. Skips
    BY <1>1, <1>2, <2>1, Zenon DEF Skips
  <2> QED BY <1>1, <2>2 DEF DriverStep
<1>3. CASE PublicKey /\ ~candidates
  <2>1. AsksNext
    BY <1>0, <1>1, <1>3, CandidatesStep, Zenon DEF ExpandProviderAttempt
  <2> QED BY <1>1, <2>1 DEF DriverStep
<1>4. CASE PublicKey /\ candidates
  <2>1. AsksNext
    <3>3. \/ \E open \in BOOLEAN : Asks("resolve", Head(Todo), index, "error") /\ End("failed", open)
          \/ /\ Asks("resolve", Head(Todo), index, "end")
             /\ candidates' = FALSE /\ index' = 0 /\ GoesOn /\ Todo' = Tail(Todo)
             /\ UNCHANGED <<identity, checked>>
          \/ /\ \E answer \in Answer("resolve") \ {"error", "end"} :
                  Asks("resolve", Head(Todo), index, answer) /\ Todo' = SubPlan(answer) \o Todo
             /\ index' = index + 1 /\ GoesOn /\ UNCHANGED <<candidates, identity, checked>>
      BY <1>0, <1>1, <1>4, Zenon DEF ExpandProviderAttempt
    <3> QED BY <1>1, <1>4, <3>3, ResolveStep, Zenon
  <2> QED BY <1>1, <2>1 DEF DriverStep
<1> QED BY <1>2, <1>3, <1>4, Zenon

\* The other attempts of the poll operation are steps of a driver.
LEMMA PollAttemptStep ==
  ASSUME TypeInv, StepAgentAuth \/ CheckAttempt \/ AuthCall
  PROVE  DriverStep
<1>1. /\ phase = "polling" /\ phase \in Driver
      /\ Todo = auth_queue /\ Todo # <<>>
      /\ UNCHANGED <<settingVars, auth_methods>>
  BY TodoOf DEF StepAgentAuth, CheckAttempt, AuthCall, Driver
<1>2. GoesOn => Todo' = auth_queue'
  BY <1>1 DEF GoesOn, Todo
<1>3. CASE StepAgentAuth
  <2>1. AsksNext
    BY <1>1, <1>2, <1>3, IdentityStep, Zenon DEF StepAgentAuth
  <2> QED BY <1>1, <2>1 DEF DriverStep
<1>4. CASE CheckAttempt
  <2>1. AsksNext
    BY <1>1, <1>2, <1>4, AccessStep, Zenon DEF CheckAttempt
  <2> QED BY <1>1, <2>1 DEF DriverStep
<1>5. CASE AuthCall
  <2>1. AsksNext
    BY <1>1, <1>2, <1>5, AuthenticateStep, Zenon DEF AuthCall
  <2> QED BY <1>1, <2>1 DEF DriverStep
<1> QED BY <1>3, <1>4, <1>5

\* Every step is one of a driver, or sets the client up, or starts a driver.
LEMMA Drives ==
  ASSUME TypeInv, [Next]_vars
  PROVE  Set \/ SshConnect \/ HandleAuthList \/ DriverStep \/ UNCHANGED vars
BY TryProviderAuthStep, BlockingAttemptStep, FailsStep, InterruptedStep, ExpandProviderAttemptStep,
   PollAttemptStep, Zenon DEF Next, Blocking, Polling

-----------------------------------------------------------------------------
(* The variables keep their types, and what no driver uses is empty. *)

\* The variables have their types at first.
LEMMA TypeInit == Init => TypeInv
<1> SUFFICES ASSUME Init PROVE TypeInv
  OBVIOUS
<1>1. TypeOK
  <2>1. index \in 0..MaxCandidate /\ identity \in 0..MaxIdentity
    BY AuthAssumption DEF Init
  <2>2. /\ plan \in Seq(Attempt) /\ sub_plan \in Seq(Attempt) /\ auth_queue \in Seq(Attempt)
        /\ asked \in Seq(Question) /\ tried \in Seq(Question)
    BY DEF Init
  <2>3. result \in [Driver -> Result] /\ session \in [Driver -> BOOLEAN]
    BY DEF Init, Result
  <2> QED BY <2>1, <2>2, <2>3, Zenon DEF Init, TypeOK, Fallback
<1>2. IdleInv
  BY DEF Init, IdleInv, Driver
<1> QED BY <1>1, <1>2 DEF TypeInv

\* A setting keeps the types.
LEMMA SetTypes == ASSUME TypeOK, Set PROVE TypeOK'
<1>1. /\ client_identity_provider' \in BOOLEAN
      /\ client_auth_order' \in {"EXPLICIT_FIRST", "PROVIDER_FIRST"}
      /\ client_identity_fallback_policy' \in Fallback
      /\ use_agent' \in BOOLEAN
      /\ sshkeys' \in {"none", "auto", "explicit"}
      /\ sshkeys_data' \in BOOLEAN
      /\ sshpass' \in BOOLEAN
  <2>1. CASE SetClientIdentityProvider BY <2>1, Zenon DEF TypeOK, SetClientIdentityProvider
  <2>2. CASE SetClientAuthOrder BY <2>2, Zenon DEF TypeOK, SetClientAuthOrder
  <2>3. CASE SetClientIdentityFallbackPolicy
    BY <2>3, Zenon DEF TypeOK, SetClientIdentityFallbackPolicy
  <2>4. CASE SetUseAgent BY <2>4, Zenon DEF TypeOK, SetUseAgent
  <2>5. CASE SetKeys BY <2>5, Zenon DEF TypeOK, SetKeys
  <2>6. CASE SetKeysFromData BY <2>6, Zenon DEF TypeOK, SetKeysFromData
  <2>7. CASE SetPassword BY <2>7, Zenon DEF TypeOK, SetPassword
  <2> QED BY <2>1, <2>2, <2>3, <2>4, <2>5, <2>6, <2>7, Zenon DEF Set
<1>2. UNCHANGED <<auth_methods, phase, plan, sub_plan, auth_queue, candidates, index, identity,
                  checked, asked, tried, result, session>>
  BY DEF Set, driverVars, outcomeVars
<1> QED BY <1>1, <1>2, Zenon DEF TypeOK

\* A driver that goes on keeps its types.
LEMMA StaysTyped ==
  ASSUME TypeOK, GoesOn,
         plan' \in Seq(Attempt), sub_plan' \in Seq(Attempt), auth_queue' \in Seq(Attempt),
         candidates' \in BOOLEAN, index' \in 0..MaxCandidate, identity' \in 0..MaxIdentity,
         checked' \in BOOLEAN
  PROVE  DriverType'
BY Zenon DEF TypeOK, GoesOn, DriverType

\* the next attempt is one of the same plan
LEMMA NextAttemptType ==
  ASSUME TypeOK, NextAttempt, plan # <<>> \/ sub_plan # <<>>
  PROVE  plan' \in Seq(Attempt) /\ sub_plan' \in Seq(Attempt)
<1>1. /\ plan \in Seq(Attempt) /\ sub_plan \in Seq(Attempt)
      /\ plan # <<>> => Tail(plan) \in Seq(Attempt)
      /\ sub_plan # <<>> => Tail(sub_plan) \in Seq(Attempt)
  BY DEF TypeOK
<1> QED BY <1>1, Zenon DEF NextAttempt

\* The counters stay within their bounds.
LEMMA NumberTypes ==
  ASSUME TypeOK
  PROVE  /\ index \in Nat /\ identity \in Nat /\ 0 \in Nat
         /\ 0 \in 0..MaxCandidate /\ 0 \in 0..MaxIdentity
         /\ index < MaxCandidate => index + 1 \in 0..MaxCandidate
         /\ identity < MaxIdentity => identity + 1 \in 0..MaxIdentity
BY AuthAssumption DEF TypeOK

\* one of the questions has been asked, and the answer has one of its values
SomethingAsked ==
  \E ask \in Ask, about \in Attempt, i \in Nat : \E answer \in Answer(ask) : Asks(ask, about, i, answer)

\* The logs keep their types when any question is asked.
LEMMA AskedTypes ==
  ASSUME TypeOK, SomethingAsked
  PROVE  asked' \in Seq(Question) /\ tried' \in Seq(Question)
BY AsksType, Zenon DEF SomethingAsked

\* The questions the drivers ask, each with its answers.
LEMMA AnAsk ==
  ASSUME NEW about \in Attempt, NEW i \in Nat
  PROVE  /\ \A a \in {"list", "error"} : Asks("candidates", about, i, a) => SomethingAsked
         /\ \A a \in Answer("resolve") : Asks("resolve", about, i, a) => SomethingAsked
         /\ Asks("resolve", about, i, "error") \/ Asks("resolve", about, i, "end") => SomethingAsked
         /\ \A a \in {"ok", "refused", "end"} : Asks("identity", about, i, a) => SomethingAsked
         /\ \A a \in {"allowed", "denied"} : Asks("access", about, i, a) => SomethingAsked
         /\ \A a \in {"ok", "refused"} : Asks("authenticate", about, i, a) => SomethingAsked
<1>1. /\ \A a \in Answer("candidates") : Asks("candidates", about, i, a) => SomethingAsked
      /\ \A a \in Answer("resolve") : Asks("resolve", about, i, a) => SomethingAsked
      /\ \A a \in Answer("identity") : Asks("identity", about, i, a) => SomethingAsked
      /\ \A a \in Answer("access") : Asks("access", about, i, a) => SomethingAsked
      /\ \A a \in Answer("authenticate") : Asks("authenticate", about, i, a) => SomethingAsked
  BY Zenon DEF SomethingAsked, Ask
<1>2. "error" \in Answer("resolve") /\ "end" \in Answer("resolve")
  BY AnswersTo
<1> QED BY <1>1, <1>2, AnswersTo, Zenon

\* The results that drivers end with.
LEMMA EndTyped ==
  ASSUME TypeOK, phase \in Driver, NEW open \in BOOLEAN
  PROVE  /\ \A outcome \in {"failed", "interrupted", "agent"} : End(outcome, open) => DriverType'
         /\ \A attempt : End(AuthenticatedWith(attempt), open) => DriverType'
<1>1. {"failed", "interrupted", "agent"} \subseteq Result
  BY DEF Result
<1> QED BY <1>1, EndType, AuthenticatedType, Zenon

\* tryProviderAuth() keeps the types.
LEMMA TryProviderAuthTypes == ASSUME TypeOK, TryProviderAuth PROVE TypeOK'
<1>1. /\ phase \in Driver /\ plan # <<>> /\ plan \in Seq(Attempt) /\ sub_plan \in Seq(Attempt)
      /\ auth_queue \in Seq(Attempt) /\ candidates \in BOOLEAN /\ index \in 0..MaxCandidate
      /\ identity \in 0..MaxIdentity /\ checked \in BOOLEAN
  BY DEF TypeOK, TryProviderAuth, Driver
<1>2. Head(plan) \in Attempt /\ Tail(plan) \in Seq(Attempt)
  BY <1>1
<1>3. UNCHANGED <<asked, tried>> \/ SomethingAsked
  BY <1>2, AnAsk, NumberTypes, Zenon DEF TryProviderAuth
<1>4. asked' \in Seq(Question) /\ tried' \in Seq(Question)
  BY <1>3, AskedTypes, Zenon DEF TypeOK
<1>5. DriverType'
  <2>1. CASE End("failed", TRUE)
    BY <1>1, <2>1, EndTyped, Zenon
  <2>2. ASSUME ~End("failed", TRUE)
        PROVE  /\ GoesOn
               /\ plan' = plan \/ plan' = Tail(plan)
               /\ sub_plan' = sub_plan \/ \E answer : sub_plan' = SubPlan(answer)
               /\ auth_queue' = auth_queue
               /\ candidates' = candidates \/ candidates' = TRUE \/ candidates' = FALSE
               /\ index' = index \/ index' = 0 \/ (index < MaxCandidate /\ index' = index + 1)
               /\ identity' = identity
               /\ checked' = checked
    BY <2>2, Zenon DEF TryProviderAuth
  <2>3. ASSUME ~End("failed", TRUE)
        PROVE  plan' \in Seq(Attempt) /\ sub_plan' \in Seq(Attempt) /\ index' \in 0..MaxCandidate
    BY <1>1, <1>2, <2>2, <2>3, SubPlanType, NumberTypes, Zenon
  <2> QED BY <1>1, <2>1, <2>2, <2>3, StaysTyped, Zenon
<1> QED BY <1>4, <1>5, WithType, Zenon DEF TryProviderAuth

\* An attempt of connect() keeps the types.
LEMMA BlockingAttemptTypes == ASSUME TypeOK, BlockingAttempt PROVE TypeOK'
<1>1. /\ phase \in Driver /\ plan \in Seq(Attempt) /\ sub_plan \in Seq(Attempt)
      /\ auth_queue \in Seq(Attempt) /\ candidates \in BOOLEAN /\ index \in 0..MaxCandidate
      /\ identity \in 0..MaxIdentity /\ checked \in BOOLEAN
      /\ plan # <<>> \/ sub_plan # <<>>
  BY DEF TypeOK, BlockingAttempt, Driver
<1>2. (plan # <<>> => Head(plan) \in Attempt) /\ (sub_plan # <<>> => Head(sub_plan) \in Attempt)
  BY <1>1
<1>3. PICK attempt \in Attempt : RunAuthAttempt(attempt)
  BY <1>2, Zenon DEF BlockingAttempt
<1>4. SomethingAsked
  BY AnAsk, <1>3, NumberTypes, Zenon DEF RunAuthAttempt
<1>5. asked' \in Seq(Question) /\ tried' \in Seq(Question)
  BY <1>4, AskedTypes, Zenon
<1>6. DriverType'
  <2> DEFINE ends == \/ End("failed", FALSE) \/ End("agent", TRUE)
                     \/ End(AuthenticatedWith(attempt), TRUE)
  <2>1. CASE ends
    BY <1>1, <2>1, EndTyped, Zenon
  <2>2. ASSUME ~ends
        PROVE  /\ GoesOn
               /\ UNCHANGED <<plan, sub_plan>> \/ NextAttempt
               /\ UNCHANGED <<auth_queue, candidates, index>>
               /\ identity' = identity \/ identity' = 0 \/ (identity < MaxIdentity /\ identity' = identity + 1)
               /\ checked' = checked \/ checked' = TRUE \/ checked' = FALSE
    BY <1>3, <2>2, Zenon DEF RunAuthAttempt
  <2>3. ASSUME ~ends
        PROVE  /\ plan' \in Seq(Attempt) /\ sub_plan' \in Seq(Attempt)
               /\ auth_queue' \in Seq(Attempt) /\ candidates' \in BOOLEAN
               /\ index' \in 0..MaxCandidate
               /\ identity' \in 0..MaxIdentity
    BY <1>1, <2>2, <2>3, NextAttemptType, NumberTypes, Zenon
  <2> QED BY <1>1, <2>1, <2>2, <2>3, StaysTyped, Zenon
<1> QED BY <1>5, <1>6, WithType, Zenon DEF BlockingAttempt

\* The end of a driver keeps the types.
LEMMA EndsTypes == ASSUME TypeOK, BlockingFails \/ PollFails \/ Interrupted PROVE TypeOK'
<1>1. phase \in Driver /\ UNCHANGED <<settingVars, auth_methods, asked, tried>>
  BY DEF BlockingFails, PollFails, Interrupted, Driver
<1>2. DriverType'
  BY <1>1, EndTyped, Zenon DEF BlockingFails, PollFails, Interrupted
<1> QED BY <1>1, <1>2, WithType, Zenon DEF TypeOK

\* expandProviderAttempt() keeps the types.
LEMMA ExpandProviderAttemptTypes == ASSUME TypeOK, ExpandProviderAttempt PROVE TypeOK'
<1>1. /\ phase \in Driver /\ auth_queue # <<>> /\ plan \in Seq(Attempt) /\ sub_plan \in Seq(Attempt)
      /\ auth_queue \in Seq(Attempt) /\ candidates \in BOOLEAN /\ index \in 0..MaxCandidate
      /\ identity \in 0..MaxIdentity /\ checked \in BOOLEAN
  BY DEF TypeOK, ExpandProviderAttempt, Driver
<1>2. Head(auth_queue) \in Attempt /\ Tail(auth_queue) \in Seq(Attempt)
  BY <1>1
<1>3. UNCHANGED <<asked, tried>> \/ SomethingAsked
  BY <1>2, AnAsk, NumberTypes, Zenon DEF ExpandProviderAttempt
<1>4. asked' \in Seq(Question) /\ tried' \in Seq(Question)
  BY <1>3, AskedTypes, Zenon DEF TypeOK
<1>5. DriverType'
  <2>1. CASE End("failed", FALSE)
    BY <1>1, <2>1, EndTyped, Zenon
  <2>2. ASSUME ~End("failed", FALSE)
        PROVE  /\ GoesOn
               /\ \/ auth_queue' = auth_queue \/ auth_queue' = Tail(auth_queue)
                  \/ \E answer : auth_queue' = SubPlan(answer) \o auth_queue
               /\ UNCHANGED <<plan, sub_plan>>
               /\ candidates' = candidates \/ candidates' = TRUE \/ candidates' = FALSE
               /\ index' = index \/ index' = 0 \/ (index < MaxCandidate /\ index' = index + 1)
               /\ identity' = identity
               /\ checked' = checked
    BY <2>2, Zenon DEF ExpandProviderAttempt
  <2>3. ASSUME ~End("failed", FALSE)
        PROVE  auth_queue' \in Seq(Attempt) /\ index' \in 0..MaxCandidate
    <3>1. \A answer : SubPlan(answer) \o auth_queue \in Seq(Attempt)
      BY <1>1, SubPlanType, ConcatType
    <3>2. auth_queue' \in Seq(Attempt)
      BY <1>1, <1>2, <2>2, <2>3, <3>1, Zenon
    <3>3. index' \in 0..MaxCandidate
      BY <1>1, <2>2, <2>3, NumberTypes, Zenon
    <3> QED BY <3>2, <3>3
  <2> QED BY <1>1, <2>1, <2>2, <2>3, StaysTyped, Zenon
<1> QED BY <1>4, <1>5, WithType, Zenon DEF ExpandProviderAttempt

\* The other attempts of the poll operation keep the types.
LEMMA PollAttemptTypes == ASSUME TypeOK, StepAgentAuth \/ CheckAttempt \/ AuthCall PROVE TypeOK'
<1>1. /\ phase \in Driver /\ auth_queue # <<>> /\ plan \in Seq(Attempt) /\ sub_plan \in Seq(Attempt)
      /\ auth_queue \in Seq(Attempt) /\ candidates \in BOOLEAN /\ index \in 0..MaxCandidate
      /\ identity \in 0..MaxIdentity /\ checked \in BOOLEAN
      /\ UNCHANGED <<settingVars, auth_methods>>
  BY DEF TypeOK, StepAgentAuth, CheckAttempt, AuthCall, Driver
<1>2. Head(auth_queue) \in Attempt /\ Tail(auth_queue) \in Seq(Attempt)
  BY <1>1
<1>3. SomethingAsked
  <2>1. StepAgentAuth => SomethingAsked
    BY <1>2, AnAsk, NumberTypes, Zenon DEF StepAgentAuth
  <2>2. CheckAttempt => SomethingAsked
    BY <1>2, AnAsk, NumberTypes, Zenon DEF CheckAttempt
  <2>3. AuthCall => SomethingAsked
    BY <1>2, AnAsk, NumberTypes, Zenon DEF AuthCall
  <2> QED BY <2>1, <2>2, <2>3
<1>4. asked' \in Seq(Question) /\ tried' \in Seq(Question)
  BY <1>3, AskedTypes, Zenon
<1>5. DriverType'
  <2> DEFINE ends == \/ End("failed", FALSE) \/ End("agent", TRUE)
                     \/ \E attempt : End(AuthenticatedWith(attempt), TRUE)
             stays == /\ GoesOn /\ UNCHANGED <<plan, sub_plan, candidates, index>>
                      /\ auth_queue' = auth_queue \/ auth_queue' = Tail(auth_queue)
                      /\ \/ identity' = identity \/ identity' = 0
                         \/ identity < MaxIdentity /\ identity' = identity + 1
                      /\ checked' = checked \/ checked' = TRUE \/ checked' = FALSE
  <2>1. CASE ends
    BY <1>1, <2>1, EndTyped, Zenon
  <2>2. CASE stays
    <3>1. auth_queue' \in Seq(Attempt) /\ identity' \in 0..MaxIdentity
      BY <1>1, <1>2, <2>2, NumberTypes, Zenon
    <3> QED BY <1>1, <2>2, <3>1, StaysTyped, Zenon
  <2>3. StepAgentAuth => ends \/ stays
    BY Zenon DEF StepAgentAuth
  <2>4. CheckAttempt => ends \/ stays
    BY Zenon DEF CheckAttempt
  <2>5. AuthCall => ends \/ stays
    BY Zenon DEF AuthCall
  <2> QED BY <2>1, <2>2, <2>3, <2>4, <2>5, Zenon
<1> QED BY <1>1, <1>4, <1>5, WithType, Zenon

\* The start of connect() keeps the types.
LEMMA SshConnectTypes == ASSUME TypeOK, SshConnect PROVE TypeOK'
<1>1. PICK methods \in Userauthlist : auth_methods' = methods /\ plan' = BuildAuthPlan(methods)
  BY DEF SshConnect
<1>2. auth_methods' \subseteq Method /\ plan' \in Seq(Attempt)
  BY <1>1, AuthAssumption, PlanType, Zenon
<1>3. phase' \in {"setup", "ready", "done"} \cup Driver
  BY DEF SshConnect, Driver
<1> QED BY <1>2, <1>3, Zenon DEF TypeOK, SshConnect, settingVars, outcomeVars

\* The start of the poll operation's authentication keeps the types.
LEMMA HandleAuthListTypes == ASSUME TypeOK, HandleAuthList PROVE TypeOK'
<1>1. auth_queue' \in Seq(Attempt)
  BY PlanType, Zenon DEF HandleAuthList
<1>2. phase' \in {"setup", "ready", "done"} \cup Driver
  BY DEF HandleAuthList, Driver
<1> QED BY <1>1, <1>2, Zenon DEF TypeOK, HandleAuthList, settingVars, outcomeVars

\* Every step keeps the types.
LEMMA TypeStep == TypeOK /\ [Next]_vars => TypeOK'
<1>1. TypeOK /\ UNCHANGED vars => TypeOK'
  BY Zenon DEF TypeOK, vars, settingVars, driverVars, outcomeVars
<1> QED BY <1>1, SetTypes, SshConnectTypes, TryProviderAuthTypes, BlockingAttemptTypes, EndsTypes,
           HandleAuthListTypes, ExpandProviderAttemptTypes, PollAttemptTypes, Zenon
        DEF Next, Blocking, Polling

\* the queue of the other driver stays as it is
LEMMA OthersIdle ==
  ASSUME phase \in Driver, Next
  PROVE  \/ plan' = <<>> /\ sub_plan' = <<>> /\ auth_queue' = <<>>
         \/ /\ phase' = phase
            /\ phase = "blocking" => UNCHANGED auth_queue
            /\ phase = "polling" => UNCHANGED <<plan, sub_plan>>
<1> DEFINE ends == plan' = <<>> /\ sub_plan' = <<>> /\ auth_queue' = <<>>
           stays == phase = "blocking" /\ phase' = phase /\ UNCHANGED auth_queue
           polls == phase = "polling" /\ phase' = phase /\ UNCHANGED <<plan, sub_plan>>
<1>1. \A outcome, open : End(outcome, open) => ends
  BY Zenon DEF End
<1>2. GoesOn => phase' = phase
  BY DEF GoesOn
<1> HIDE DEF ends
<1>3. TryProviderAuth => ends \/ stays
  BY <1>1, <1>2, Zenon DEF TryProviderAuth
<1>4. BlockingAttempt => ends \/ stays
  <2>1. \A attempt : RunAuthAttempt(attempt) => ends \/ (GoesOn /\ UNCHANGED auth_queue)
    BY <1>1, Zenon DEF RunAuthAttempt
  <2> QED BY <1>2, <2>1, Zenon DEF BlockingAttempt
<1>5. BlockingFails \/ PollFails \/ Interrupted => ends
  BY <1>1, Zenon DEF BlockingFails, PollFails, Interrupted
<1>6. ExpandProviderAttempt => ends \/ polls
  BY <1>1, <1>2, Zenon DEF ExpandProviderAttempt
<1>7. StepAgentAuth => ends \/ polls
  BY <1>1, <1>2, Zenon DEF StepAgentAuth
<1>8. CheckAttempt => ends \/ polls
  BY <1>1, <1>2, Zenon DEF CheckAttempt
<1>9. AuthCall => ends \/ polls
  BY <1>1, <1>2, Zenon DEF AuthCall
<1>10. ~Set /\ ~SshConnect /\ ~HandleAuthList
  BY DEF Set, SshConnect, HandleAuthList, Driver
<1>11. ends \/ stays \/ polls
  BY <1>3, <1>4, <1>5, <1>6, <1>7, <1>8, <1>9, <1>10, Zenon DEF Next, Blocking, Polling
<1>12. ~(phase = "blocking" /\ phase = "polling")
  OBVIOUS
<1> QED BY <1>11, <1>12, Zenon DEF ends

\* a question is added to the log of the driver that asks it
LEMMA LogGrows ==
  ASSUME NEW ask, NEW about, NEW i, NEW a, Asks(ask, about, i, a), phase \in Driver
  PROVE  LET q == [ask |-> ask, about |-> about, i |-> i, answer |-> a]
         IN /\ phase = "blocking" => asked' = Append(asked, q) /\ tried' = tried
            /\ phase = "polling" => asked' = asked /\ tried' = Append(tried, q)
BY DEF Asks

\* what a driver has to do after an answer that does not end it
LEMMA AfterIs ==
  ASSUME NEW a, Here' = After(Here, a)
  PROVE  /\ AskOf(Here) = "candidates" =>
              Todo' = Todo /\ candidates' = TRUE /\ UNCHANGED <<index, identity, checked>>
         /\ AskOf(Here) = "access" =>
              Todo' = Todo /\ checked' = TRUE /\ UNCHANGED <<candidates, index, identity>>
         /\ AskOf(Here) = "authenticate" =>
              Todo' = Tail(Todo) /\ checked' = FALSE /\ UNCHANGED <<candidates, index, identity>>
         /\ AskOf(Here) = "identity" =>
              /\ UNCHANGED <<candidates, index, checked>>
              /\ a = "end" => Todo' = Tail(Todo) /\ identity' = 0
              /\ a # "end" => Todo' = Todo /\ identity' = identity + 1
         /\ AskOf(Here) = "resolve" =>
              /\ UNCHANGED <<identity, checked>>
              /\ a = "end" => Todo' = Tail(Todo) /\ candidates' = FALSE /\ index' = 0
              /\ a # "end" => /\ Todo' = SubPlan(a) \o Todo /\ index' = index + 1
                              /\ UNCHANGED candidates
<1>1. /\ Here.todo = Todo /\ Here.candidates = candidates /\ Here.index = index
      /\ Here.identity = identity /\ Here.checked = checked
      /\ Here' = Place(Todo', candidates', index', identity', checked')
  BY DEF Here, Place
<1>2. \A t, c, i, d, k : Here' = Place(t, c, i, d, k) =>
        Todo' = t /\ candidates' = c /\ index' = i /\ identity' = d /\ checked' = k
  BY <1>1 DEF Place
<1>3. CASE AskOf(Here) = "candidates" BY <1>1, <1>2, <1>3 DEF After
<1>4. CASE AskOf(Here) = "access" BY <1>1, <1>2, <1>4 DEF After
<1>5. CASE AskOf(Here) = "authenticate" BY <1>1, <1>2, <1>5 DEF After
<1>6. CASE AskOf(Here) = "identity" BY <1>1, <1>2, <1>6 DEF After
<1>7. CASE AskOf(Here) = "resolve" BY <1>1, <1>2, <1>7 DEF After
<1> QED BY <1>3, <1>4, <1>5, <1>6, <1>7, Zenon

\* Every step leaves empty what belongs to no driver that runs.
LEMMA IdleStep ==
  ASSUME TypeInv, [Next]_vars
  PROVE  IdleInv'
<1>1. CASE Set
  BY <1>1 DEF Set, TypeInv, IdleInv, driverVars, outcomeVars
<1>2. CASE SshConnect
  BY <1>2 DEF SshConnect, TypeInv, IdleInv, driverVars, outcomeVars, Driver
<1>3. CASE HandleAuthList
  BY <1>3 DEF HandleAuthList, TypeInv, IdleInv, driverVars, outcomeVars, Driver
<1>4. CASE UNCHANGED vars
  BY <1>4, Zenon DEF vars, TypeInv, IdleInv, driverVars, outcomeVars
<1>5. CASE DriverStep
  <2>1. phase \in Driver /\ result \in [Driver -> Result]
    BY <1>5 DEF DriverStep, TypeInv, TypeOK
  <2>2. ASSUME phase' = phase, UNCHANGED result, phase = "blocking" => UNCHANGED tried PROVE IdleInv'
    <3>1. \/ plan' = <<>> /\ sub_plan' = <<>> /\ auth_queue' = <<>>
          \/ /\ phase = "blocking" => UNCHANGED auth_queue
             /\ phase = "polling" => UNCHANGED <<plan, sub_plan>>
      <4>1. phase' # phase \/ UNCHANGED vars \/ Next OBVIOUS
      <4> QED BY <2>1, <2>2, <4>1, OthersIdle, Zenon DEF vars, driverVars
    <3> QED BY <2>1, <2>2, <3>1 DEF TypeInv, IdleInv, Driver
  <2>3. ASSUME NEW outcome \in Result \ {"none"}, NEW open, End(outcome, open),
               phase = "blocking" => UNCHANGED tried
        PROVE  IdleInv'
    BY <2>1, <2>3 DEF TypeInv, IdleInv, Driver, End, Result
  <2>4. CASE Skips
    BY <2>2, <2>4 DEF Skips, GoesOn
  <2>5. CASE AsksNext
    <3>1. PICK a \in Answer(AskOf(Here)) :
             /\ Asks(AskOf(Here), Head(Todo), NumOf(Here), a)
             /\ \/ \E open \in BOOLEAN : End(OutcomeOf(Here, a), open)
                \/ GoesOn /\ Here' = After(Here, a)
      BY <2>5, Zenon DEF AsksNext
    <3>2. phase = "blocking" => UNCHANGED tried
      BY <2>1, <3>1, LogGrows, Zenon
    <3>3. OutcomeOf(Here, a) \in Result \ {"none"}
      BY DEF OutcomeOf, AuthenticatedWith, Result
    <3> QED BY <2>2, <2>3, <3>1, <3>2, <3>3, Zenon DEF GoesOn
  <2>6. CASE Stops
    BY <2>3, <2>6 DEF Stops, Result
  <2> QED BY <1>5, <2>4, <2>5, <2>6 DEF DriverStep
<1> QED BY <1>1, <1>2, <1>3, <1>4, <1>5, Drives

\* The variables keep the values the code gives them.
THEOREM TypeCorrect == Spec => []TypeOK
<1>1. TypeInv /\ [Next]_vars => TypeInv'
  BY TypeStep, IdleStep DEF TypeInv
<1>2. TypeInv => TypeOK
  BY DEF TypeInv
<1> QED BY TypeInit, <1>1, <1>2, PTL DEF Spec

-----------------------------------------------------------------------------
(* Key files are read after a check. *)

CheckedLog(s) ==
  \A n \in 1..Len(s) :
    s[n].ask = "authenticate" /\ s[n].about.kind = "PUBKEY_FILE" =>
      /\ n > 1
      /\ s[n - 1] = [ask |-> "access", about |-> s[n].about, i |-> s[n].i, answer |-> "allowed"]

\* while the flag is set, the last question asked was for access to the key file
\* at the head
CheckInv ==
  /\ CheckedLog(asked) /\ CheckedLog(tried)
  /\ phase \in Driver /\ checked =>
       /\ Todo # <<>> /\ Head(Todo).kind = "PUBKEY_FILE"
       /\ Log # <<>>
       /\ LastOf(Log) = [ask |-> "access", about |-> Head(Todo), i |-> 0, answer |-> "allowed"]

\* A key file asked about after access to it was allowed keeps the log in order.
LEMMA CheckedAppend ==
  ASSUME NEW s \in Seq(Question), NEW ask, NEW about, NEW i, NEW a,
         [ask |-> ask, about |-> about, i |-> i, answer |-> a] \in Question,
         CheckedLog(s),
         ask = "authenticate" /\ about.kind = "PUBKEY_FILE" =>
           s # <<>> /\ LastOf(s) = [ask |-> "access", about |-> about, i |-> i, answer |-> "allowed"]
  PROVE  CheckedLog(Append(s, [ask |-> ask, about |-> about, i |-> i, answer |-> a]))
<1> DEFINE q == [ask |-> ask, about |-> about, i |-> i, answer |-> a]
           t == Append(s, q)
<1>1. q.ask = ask /\ q.about = about /\ q.i = i
  OBVIOUS
<1>2. Len(t) = Len(s) + 1 /\ t[Len(s) + 1] = q /\ Len(s) \in Nat
  BY AppendProperties
<1>3. \A n \in 1..Len(s) : t[n] = s[n]
  BY AppendProperties
<1>4. s # <<>> => Len(s) > 0
  BY EmptySeq, LenProperties
<1> HIDE DEF q, t
<1>5. ASSUME NEW n \in 1..Len(t), t[n].ask = "authenticate", t[n].about.kind = "PUBKEY_FILE"
      PROVE  n > 1 /\ t[n - 1] = [ask |-> "access", about |-> t[n].about, i |-> t[n].i, answer |-> "allowed"]
  <2>1. CASE n \in 1..Len(s)
    <3>1. n > 1 /\ s[n - 1] = [ask |-> "access", about |-> s[n].about, i |-> s[n].i, answer |-> "allowed"]
      BY <1>3, <1>5, <2>1 DEF CheckedLog
    <3>2. n - 1 \in 1..Len(s)
      BY <1>2, <2>1, <3>1
    <3> QED BY <1>3, <2>1, <3>1, <3>2, Zenon
  <2>2. CASE n = Len(s) + 1
    <3>1. t[n] = q /\ Len(s) > 0 /\ s[Len(s)] = [ask |-> "access", about |-> about, i |-> i, answer |-> "allowed"]
      BY <1>1, <1>2, <1>4, <1>5, <2>2 DEF LastOf
    <3>2. n > 1 /\ n - 1 = Len(s) /\ Len(s) \in 1..Len(s)
      BY <1>2, <2>2, <3>1
    <3> QED BY <1>1, <1>3, <3>1, <3>2, Zenon
  <2> QED BY <1>2, <2>1, <2>2
<1> QED BY <1>5 DEF CheckedLog, t, q

\* Nothing has been asked at first.
LEMMA CheckInit == Init => CheckInv
BY DEF Init, CheckInv, CheckedLog, Driver

\* A driver sets the flag only when it has just been allowed access to the key file
\* at the head, and drops it with that entry.
LEMMA CheckStep ==
  ASSUME TypeInv, TypeInv', CheckInv, [Next]_vars
  PROVE  CheckInv'
<1>1. CASE Set \/ SshConnect \/ HandleAuthList \/ UNCHANGED vars
  <2>1. UNCHANGED <<asked, tried>>
    BY <1>1 DEF Set, SshConnect, HandleAuthList, vars, outcomeVars
  <2>2. CASE Set \/ SshConnect \/ HandleAuthList
    <3>1. ~checked'
      BY <2>2 DEF Set, SshConnect, HandleAuthList, TypeInv, IdleInv, driverVars, Driver
    <3> QED BY <2>1, <3>1, Zenon DEF CheckInv
  <2>3. CASE UNCHANGED vars
    BY <2>3, Zenon DEF vars, driverVars, outcomeVars, CheckInv, Todo, Log
  <2> QED BY <1>1, <2>2, <2>3
<1>2. CASE DriverStep
  <2>1. /\ phase \in Driver /\ asked \in Seq(Question) /\ tried \in Seq(Question)
        /\ CheckedLog(asked) /\ CheckedLog(tried)
    BY <1>2 DEF DriverStep, TypeInv, TypeOK, CheckInv
  <2>2. CASE Skips
    <3>1. ~checked
      BY <2>1, <2>2 DEF Skips, CheckInv
    <3> QED BY <2>1, <2>2, <3>1, Zenon DEF Skips, CheckInv
  <2>3. CASE Stops
    BY <2>1, <2>3, Zenon DEF Stops, End, CheckInv
  <2>4. CASE AsksNext
    <3>1. PICK a \in Answer(AskOf(Here)) :
             /\ Asks(AskOf(Here), Head(Todo), NumOf(Here), a)
             /\ \/ a \in Final /\ \E open \in BOOLEAN : End(OutcomeOf(Here, a), open)
                \/ a \notin Final /\ GoesOn /\ Here' = After(Here, a)
      BY <2>4, Zenon DEF AsksNext
    <3> DEFINE q == [ask |-> AskOf(Here), about |-> Head(Todo), i |-> NumOf(Here), answer |-> a]
    <3>2. /\ phase = "blocking" => asked' = Append(asked, q) /\ tried' = tried
          /\ phase = "polling" => asked' = asked /\ tried' = Append(tried, q)
      BY <2>1, <3>1, LogGrows
    <3>3. Todo # <<>> /\ Head(Todo) \in Attempt
      BY <2>4, TodoOf DEF AsksNext
    <3>4. q \in Question
      BY <3>3, AskIs, QuestionType, NumberTypes DEF TypeInv, NumOf, Here, Place
    <3>5. AskOf(Here) = "authenticate" /\ Head(Todo).kind = "PUBKEY_FILE" =>
            /\ Log # <<>>
            /\ LastOf(Log) =
                 [ask |-> "access", about |-> Head(Todo), i |-> NumOf(Here), answer |-> "allowed"]
      <4>1. AskOf(Here) = "authenticate" /\ Head(Todo).kind = "PUBKEY_FILE" => checked /\ NumOf(Here) = 0
        BY DEF AskOf, NumOf, Here, Place
      <4> QED BY <2>1, <4>1, Zenon DEF CheckInv
    <3>6. CheckedLog(asked') /\ CheckedLog(tried')
      <4>1. CASE phase = "blocking"
        <5>1. Log = asked
          BY <4>1 DEF Log
        <5>2. CheckedLog(Append(asked, q))
          BY <2>1, <3>4, <3>5, <5>1, CheckedAppend
        <5> QED BY <2>1, <3>2, <4>1, <5>2, Zenon
      <4>2. CASE phase = "polling"
        <5>1. Log = tried
          BY <4>2 DEF Log
        <5>2. CheckedLog(Append(tried, q))
          BY <2>1, <3>4, <3>5, <5>1, CheckedAppend
        <5> QED BY <2>1, <3>2, <4>2, <5>2, Zenon
      <4> QED BY <2>1, <4>1, <4>2 DEF Driver
    <3>7. CASE \E open \in BOOLEAN : End(OutcomeOf(Here, a), open)
      BY <3>6, <3>7, Zenon DEF End, CheckInv
    <3>8. CASE a \notin Final /\ GoesOn /\ Here' = After(Here, a)
      <4>1. CASE AskOf(Here) = "access"
        <5>1. Todo' = Todo /\ a = "allowed" /\ NumOf(Here) = 0
          BY <3>8, <4>1, AfterIs, AnswersTo DEF Final, NumOf
        <5>2. Head(Todo).kind = "PUBKEY_FILE"
          BY <4>1 DEF AskOf, Here, Place
        <5>3. Log' # <<>> /\ LastOf(Log') = q
          <6>1. \A s \in Seq(Question) : Append(s, q) # <<>> /\ LastOf(Append(s, q)) = q
            BY <3>4, AppendProperties DEF LastOf
          <6>2. Log' = Append(asked, q) \/ Log' = Append(tried, q)
            BY <2>1, <3>2, <3>8 DEF Log, Driver, GoesOn
          <6> QED BY <2>1, <6>1, <6>2, Zenon
        <5> QED BY <3>3, <3>6, <4>1, <5>1, <5>2, <5>3, Zenon DEF CheckInv
      <4>2. CASE AskOf(Here) = "authenticate"
        <5>1. ~checked'
          BY <3>8, <4>2, AfterIs
        <5> QED BY <3>6, <5>1, Zenon DEF CheckInv
      <4>3. CASE AskOf(Here) \in {"candidates", "resolve", "identity"}
        <5>1. Head(Todo).kind # "PUBKEY_FILE"
          BY <4>3 DEF AskOf, Here, Place
        <5>2. checked' = checked
          BY <3>8, <4>3, AfterIs
        <5> QED BY <2>1, <3>6, <5>1, <5>2, Zenon DEF CheckInv
      <4> QED BY <4>1, <4>2, <4>3, AskIs DEF Ask
    <3> QED BY <3>1, <3>7, <3>8
  <2> QED BY <1>2, <2>2, <2>3, <2>4 DEF DriverStep
<1> QED BY <1>1, <1>2, Drives

-----------------------------------------------------------------------------
(* An answer that ends a driver is its last. *)

NoFinal(s) == \A n \in 1..Len(s) : s[n].answer \notin Final

FinalsLast(s) == \A n \in 1..Len(s) : s[n].answer \in Final => n = Len(s)

\* a driver that asked s has ended with r, and left its session open or not
EndedBy(r, open, s) ==
  r # "none" =>
    /\ r \in {"failed", "interrupted"} <=> (s = <<>> \/ LastOf(s).answer # "ok")
    /\ r = "failed" /\ open => s # <<>> /\ LastOf(s).answer = "error"

FinalInv ==
  /\ FinalsLast(asked) /\ FinalsLast(tried)
  /\ EndedBy(result["blocking"], session["blocking"], asked)
  /\ EndedBy(result["polling"], session["polling"], tried)
  /\ phase \in Driver => NoFinal(Log)

\* A log without a final answer may be given one more question.
LEMMA FinalAppend ==
  ASSUME NEW s \in Seq(Question), NEW q \in Question, NoFinal(s)
  PROVE  /\ FinalsLast(Append(s, q))
         /\ q.answer \notin Final => NoFinal(Append(s, q))
         /\ Append(s, q) # <<>> /\ LastOf(Append(s, q)) = q
<1>1. /\ Append(s, q) # <<>> /\ Len(Append(s, q)) = Len(s) + 1 /\ Len(s) \in Nat
      /\ Append(s, q)[Len(s) + 1] = q
      /\ \A n \in 1..Len(s) : Append(s, q)[n] = s[n]
  BY AppendProperties
<1>2. \A n \in 1..(Len(s) + 1) : n \in 1..Len(s) \/ n = Len(s) + 1
  BY <1>1
<1>3. FinalsLast(Append(s, q))
  BY <1>1, <1>2, Zenon DEF FinalsLast, NoFinal
<1>4. q.answer \notin Final => NoFinal(Append(s, q))
  BY <1>1, <1>2, Zenon DEF NoFinal
<1> QED BY <1>1, <1>3, <1>4, Zenon DEF LastOf

\* A log without a final answer has none last.
LEMMA NoFinalLast ==
  ASSUME NEW s \in Seq(Question), NoFinal(s)
  PROVE  FinalsLast(s) /\ (s = <<>> \/ LastOf(s).answer # "ok")
<1>1. s # <<>> => Len(s) \in 1..Len(s)
  BY EmptySeq, LenProperties
<1> QED BY <1>1, Zenon DEF NoFinal, FinalsLast, LastOf, Final

\* the end of a driver leaves the other one alone
LEMMA EndEffect ==
  ASSUME TypeInv, phase \in Driver, NEW outcome, NEW open, End(outcome, open)
  PROVE  /\ result'[phase] = outcome /\ session'[phase] = open
         /\ \A d \in Driver \ {phase} : result'[d] = result[d] /\ session'[d] = session[d]
         /\ phase' \notin Driver
<1>1. result \in [Driver -> Result] /\ session \in [Driver -> BOOLEAN]
  BY DEF TypeInv, TypeOK
<1>2. phase' \notin Driver
  BY DEF End, Driver
<1> QED BY <1>1, <1>2 DEF End

\* Nothing has been answered at first.
LEMMA FinalInit == Init => FinalInv
<1> SUFFICES ASSUME Init PROVE FinalInv
  OBVIOUS
<1>1. result["blocking"] = "none" /\ result["polling"] = "none" /\ phase \notin Driver
  BY DEF Init, Driver
<1>2. FinalsLast(<<>>)
  BY DEF FinalsLast
<1> QED BY <1>1, <1>2, Zenon DEF Init, FinalInv, EndedBy

\* A final answer ends the driver, with the result that goes with it.
LEMMA FinalStep ==
  ASSUME TypeInv, TypeInv', FinalInv, [Next]_vars
  PROVE  FinalInv'
<1>1. CASE Set \/ SshConnect \/ HandleAuthList \/ UNCHANGED vars
  <2>1. UNCHANGED <<asked, tried, result, session>>
    BY <1>1 DEF Set, SshConnect, HandleAuthList, vars, outcomeVars
  <2>2. phase' \in Driver => NoFinal(Log')
    <3>1. CASE Set
      BY <3>1 DEF Set, Driver
    <3>2. CASE SshConnect \/ HandleAuthList
      <4>1. Log' = <<>>
        BY <2>1, <3>2 DEF SshConnect, HandleAuthList, TypeInv, IdleInv, Log
      <4> QED BY <4>1 DEF NoFinal
    <3>3. CASE UNCHANGED vars
      BY <3>3, Zenon DEF vars, outcomeVars, FinalInv, Log
    <3> QED BY <1>1, <3>1, <3>2, <3>3
  <2> QED BY <2>1, <2>2, Zenon DEF FinalInv
<1>2. CASE DriverStep
  <2>1. /\ phase \in Driver /\ asked \in Seq(Question) /\ tried \in Seq(Question) /\ Log \in Seq(Question)
        /\ NoFinal(Log)
    BY <1>2 DEF DriverStep, TypeInv, TypeOK, FinalInv, Log
  <2>2. CASE Skips
    BY <2>2, Zenon DEF Skips, GoesOn, FinalInv, Log
  <2>3. CASE Stops
    <3>1. PICK outcome \in {"failed", "interrupted"} : End(outcome, FALSE)
      BY <2>3 DEF Stops
    <3>2. EndedBy(outcome, FALSE, Log)
      BY <2>1, <3>1, NoFinalLast, Zenon DEF EndedBy
    <3>3. UNCHANGED <<asked, tried>>
      BY <2>3 DEF Stops
    <3>4. CASE phase = "blocking"
      <4>1. result'["blocking"] = outcome /\ session'["blocking"] = FALSE
            /\ result'["polling"] = result["polling"] /\ session'["polling"] = session["polling"]
            /\ phase' \notin Driver
        BY <2>1, <3>1, <3>4, EndEffect DEF Driver
      <4>2. Log = asked
        BY <3>4 DEF Log
      <4> QED BY <3>2, <3>3, <4>1, <4>2, Zenon DEF FinalInv
    <3>5. CASE phase = "polling"
      <4>1. result'["polling"] = outcome /\ session'["polling"] = FALSE
            /\ result'["blocking"] = result["blocking"] /\ session'["blocking"] = session["blocking"]
            /\ phase' \notin Driver
        BY <2>1, <3>1, <3>5, EndEffect DEF Driver
      <4>2. Log = tried
        BY <3>5 DEF Log
      <4> QED BY <3>2, <3>3, <4>1, <4>2, Zenon DEF FinalInv
    <3> QED BY <2>1, <3>4, <3>5 DEF Driver
  <2>4. CASE AsksNext
    <3>1. PICK a \in Answer(AskOf(Here)) :
             /\ Asks(AskOf(Here), Head(Todo), NumOf(Here), a)
             /\ \/ /\ a \in Final
                   /\ \E open \in BOOLEAN : End(OutcomeOf(Here, a), open) /\ (open => a \in {"ok", "error"})
                \/ a \notin Final /\ GoesOn /\ Here' = After(Here, a)
      BY <2>4, Zenon DEF AsksNext
    <3> DEFINE q == [ask |-> AskOf(Here), about |-> Head(Todo), i |-> NumOf(Here), answer |-> a]
    <3>2. /\ phase = "blocking" => asked' = Append(asked, q) /\ tried' = tried
          /\ phase = "polling" => asked' = asked /\ tried' = Append(tried, q)
      BY <2>1, <3>1, LogGrows
    <3>3. Todo # <<>> /\ Head(Todo) \in Attempt
      BY <2>4, TodoOf DEF AsksNext
    <3>4. q \in Question /\ q.answer = a
      BY <3>3, AskIs, QuestionType, NumberTypes DEF TypeInv, NumOf, Here, Place
    <3> HIDE DEF q
    <3>5. /\ FinalsLast(Append(Log, q)) /\ (a \notin Final => NoFinal(Append(Log, q)))
          /\ Append(Log, q) # <<>> /\ LastOf(Append(Log, q)).answer = a
      BY <2>1, <3>4, FinalAppend
    <3>6. CASE /\ a \in Final
               /\ \E open \in BOOLEAN :
                    End(OutcomeOf(Here, a), open) /\ (open => a \in {"ok", "error"})
      <4>1. PICK open \in BOOLEAN : End(OutcomeOf(Here, a), open) /\ (open => a \in {"ok", "error"})
        BY <3>6
      <4>2. /\ OutcomeOf(Here, a) \in {"failed", "interrupted"} <=> a # "ok"
        BY DEF OutcomeOf, AuthenticatedWith
      <4>3. EndedBy(OutcomeOf(Here, a), open, Append(Log, q))
        BY <3>5, <4>1, <4>2, Zenon DEF EndedBy
      <4>4. CASE phase = "blocking"
        <5>1. result'["blocking"] = OutcomeOf(Here, a) /\ session'["blocking"] = open
              /\ result'["polling"] = result["polling"] /\ session'["polling"] = session["polling"]
              /\ phase' \notin Driver
          BY <2>1, <4>1, <4>4, EndEffect DEF Driver
        <5>2. Log = asked
          BY <4>4 DEF Log
        <5> QED BY <3>2, <3>5, <4>3, <4>4, <5>1, <5>2, Zenon DEF FinalInv
      <4>5. CASE phase = "polling"
        <5>1. result'["polling"] = OutcomeOf(Here, a) /\ session'["polling"] = open
              /\ result'["blocking"] = result["blocking"] /\ session'["blocking"] = session["blocking"]
              /\ phase' \notin Driver
          BY <2>1, <4>1, <4>5, EndEffect DEF Driver
        <5>2. Log = tried
          BY <4>5 DEF Log
        <5> QED BY <3>2, <3>5, <4>3, <4>5, <5>1, <5>2, Zenon DEF FinalInv
      <4> QED BY <2>1, <4>4, <4>5 DEF Driver
    <3>7. CASE a \notin Final /\ GoesOn /\ Here' = After(Here, a)
      <4>1. UNCHANGED <<phase, result, session>>
        BY <3>7 DEF GoesOn
      <4>2. CASE phase = "blocking"
        <5>1. Log = asked /\ Log' = Append(asked, q)
          BY <3>2, <4>1, <4>2 DEF Log
        <5>2. result["blocking"] = "none"
          BY <4>2 DEF TypeInv, IdleInv
        <5> QED BY <3>2, <3>5, <3>7, <4>1, <4>2, <5>1, <5>2, Zenon DEF FinalInv, EndedBy
      <4>3. CASE phase = "polling"
        <5>1. Log = tried /\ Log' = Append(tried, q)
          BY <3>2, <4>1, <4>3 DEF Log
        <5>2. result["polling"] = "none"
          BY <4>3 DEF TypeInv, IdleInv
        <5> QED BY <3>2, <3>5, <3>7, <4>1, <4>3, <5>1, <5>2, Zenon DEF FinalInv, EndedBy
      <4> QED BY <2>1, <4>2, <4>3 DEF Driver
    <3> QED BY <3>1, <3>6, <3>7
  <2> QED BY <1>2, <2>2, <2>3, <2>4 DEF DriverStep
<1> QED BY <1>1, <1>2, Drives

-----------------------------------------------------------------------------
(* The process user's identities come last, and as the policy allows. *)

\* attempts that may follow one with an identity of the process user
Late(e) == e.from = "process" \/ e.kind \in {"PASSWORD", "KEYBOARD_INTERACTIVE"}

\* the policy allows the attempt: agent and keys say what it allows
Permitted(e, agent, keys) ==
  e.from = "process" => /\ e.kind # "PROVIDER"
                        /\ IF e.kind = "AGENT" THEN agent ELSE keys

NoProcess(t) == \A n \in 1..Len(t) : t[n].from # "process"

AllLate(t) == \A n \in 1..Len(t) : Late(t[n])

AllPermitted(t, agent, keys) == \A n \in 1..Len(t) : Permitted(t[n], agent, keys)

\* nothing but late attempts follows one with an identity of the process user
Ordered(t, agent, keys) ==
  /\ AllPermitted(t, agent, keys)
  /\ \A n \in 1..Len(t) : t[n].from = "process" => \A m \in (n + 1)..Len(t) : Late(t[m])

OffersProcess(q) == q.ask \in {"identity", "authenticate"} /\ q.about.from = "process"

GuardedLog(s, agent, keys) ==
  \A n \in 1..Len(s) :
    OffersProcess(s[n]) =>
      /\ IF s[n].about.kind = "AGENT" THEN agent ELSE keys
      /\ \A m \in (n + 1)..Len(s) : Late(s[m].about)

HasOffered(s) == \E n \in 1..Len(s) : OffersProcess(s[n])

\* once an identity of the process user was offered, only late attempts are left
OrderInv ==
  client_identity_provider =>
    /\ GuardedLog(asked, FallbackAgent, FallbackDefaultKeys)
    /\ GuardedLog(tried, FallbackAgent, FallbackDefaultKeys)
    /\ phase \in Driver => /\ Ordered(Todo, FallbackAgent, FallbackDefaultKeys)
                           /\ HasOffered(Log) => AllLate(Todo)

\* An ordered plan stays so when its head is done with.
LEMMA TailOrdered ==
  ASSUME NEW t \in Seq(Attempt), t # <<>>, NEW agent, NEW keys, Ordered(t, agent, keys)
  PROVE  /\ Ordered(Tail(t), agent, keys)
         /\ AllLate(t) => AllLate(Tail(t))
         /\ Permitted(Head(t), agent, keys)
         /\ Head(t).from = "process" => AllLate(t)
         /\ AllLate(t) => Late(Head(t))
<1>1. /\ Len(t) \in Nat /\ Len(t) > 0 /\ Len(Tail(t)) = Len(t) - 1 /\ Head(t) = t[1]
      /\ \A n \in 1..Len(Tail(t)) : Tail(t)[n] = t[n + 1]
  BY HeadTailProperties, EmptySeq, LenProperties
<1>2. \A n \in 1..Len(Tail(t)) : n + 1 \in 1..Len(t)
  BY <1>1
<1>3. AllPermitted(Tail(t), agent, keys) /\ (AllLate(t) => AllLate(Tail(t)))
  BY <1>1, <1>2, Zenon DEF AllPermitted, AllLate, Ordered
<1>4. ASSUME NEW n \in 1..Len(Tail(t)), Tail(t)[n].from = "process", NEW m \in (n + 1)..Len(Tail(t))
      PROVE  Late(Tail(t)[m])
  <2>1. n + 1 \in 1..Len(t) /\ m + 1 \in ((n + 1) + 1)..Len(t) /\ m \in 1..Len(Tail(t))
    BY <1>1, <1>4
  <2>2. t[n + 1].from = "process" /\ Tail(t)[m] = t[m + 1]
    BY <1>1, <1>4, <2>1
  <2> QED BY <2>1, <2>2, Zenon DEF Ordered
<1>5. 1 \in 1..Len(t)
  BY <1>1
<1>6. Permitted(Head(t), agent, keys) /\ (AllLate(t) => Late(Head(t)))
  BY <1>1, <1>5, Zenon DEF Ordered, AllPermitted, AllLate
<1>7. ASSUME Head(t).from = "process", NEW n \in 1..Len(t) PROVE Late(t[n])
  <2>1. CASE n = 1
    BY <1>1, <1>7, <2>1, Zenon DEF Late
  <2>2. CASE n # 1
    <3>1. n \in (1 + 1)..Len(t)
      BY <1>1, <2>2
    <3> QED BY <1>1, <1>5, <1>7, <3>1, Zenon DEF Ordered
  <2> QED BY <2>1, <2>2
<1> QED BY <1>3, <1>4, <1>6, <1>7, Zenon DEF Ordered, AllLate

\* What is not of the process user may be put in front of an ordered plan.
LEMMA BeforeOrdered ==
  ASSUME NEW s \in Seq(Attempt), NEW t \in Seq(Attempt), NEW agent, NEW keys,
         NoProcess(s), Ordered(t, agent, keys)
  PROVE  Ordered(s \o t, agent, keys)
<1> DEFINE u == s \o t
<1>1. /\ Len(s) \in Nat /\ Len(t) \in Nat /\ Len(u) = Len(s) + Len(t)
      /\ \A n \in 1..Len(u) : u[n] = IF n <= Len(s) THEN s[n] ELSE t[n - Len(s)]
  BY ConcatProperties, LenProperties
<1> HIDE DEF u
<1>2. ASSUME NEW n \in 1..Len(u), u[n].from = "process"
      PROVE  n > Len(s) /\ n - Len(s) \in 1..Len(t) /\ u[n] = t[n - Len(s)]
  <2>1. n \notin 1..Len(s)
    <3>1. n \in 1..Len(s) => u[n] = s[n]
      BY <1>1
    <3> QED BY <1>2, <3>1, Zenon DEF NoProcess
  <2> QED BY <1>1, <2>1
<1>3. AllPermitted(u, agent, keys)
  BY <1>2, Zenon DEF Ordered, AllPermitted, Permitted
<1>4. ASSUME NEW n \in 1..Len(u), u[n].from = "process", NEW m \in (n + 1)..Len(u)
      PROVE  Late(u[m])
  <2>1. n > Len(s) /\ n - Len(s) \in 1..Len(t) /\ u[n] = t[n - Len(s)]
    BY <1>2, <1>4
  <2>2. m - Len(s) \in ((n - Len(s)) + 1)..Len(t) /\ u[m] = t[m - Len(s)]
    BY <1>1, <2>1
  <2> QED BY <1>4, <2>1, <2>2, Zenon DEF Ordered
<1> QED BY <1>3, <1>4 DEF Ordered, u

\* Late attempts may be put behind an ordered plan.
LEMMA OrderedBefore ==
  ASSUME NEW s \in Seq(Attempt), NEW t \in Seq(Attempt), NEW agent, NEW keys,
         Ordered(s, agent, keys), AllLate(t), AllPermitted(t, agent, keys)
  PROVE  Ordered(s \o t, agent, keys)
<1> DEFINE u == s \o t
<1>1. /\ Len(s) \in Nat /\ Len(t) \in Nat /\ Len(u) = Len(s) + Len(t)
      /\ \A n \in 1..Len(u) : u[n] = IF n <= Len(s) THEN s[n] ELSE t[n - Len(s)]
  BY ConcatProperties, LenProperties
<1> HIDE DEF u
<1>2. \A n \in 1..Len(u) : \/ n \in 1..Len(s) /\ u[n] = s[n]
                           \/ n - Len(s) \in 1..Len(t) /\ u[n] = t[n - Len(s)]
  BY <1>1
<1>3. AllPermitted(u, agent, keys)
  BY <1>2, Zenon DEF Ordered, AllPermitted
<1>4. ASSUME NEW n \in 1..Len(u), u[n].from = "process", NEW m \in (n + 1)..Len(u)
      PROVE  Late(u[m])
  <2>0. m \in 1..Len(u)
    BY <1>1
  <2>1. CASE m <= Len(s)
    <3>1. n \in 1..Len(s) /\ m \in (n + 1)..Len(s) /\ u[n] = s[n] /\ u[m] = s[m]
      BY <1>1, <2>0, <2>1
    <3> QED BY <1>4, <3>1, Zenon DEF Ordered
  <2>2. CASE ~(m <= Len(s))
    <3>1. m - Len(s) \in 1..Len(t) /\ u[m] = t[m - Len(s)]
      BY <1>1, <2>0, <2>2
    <3> QED BY <3>1, Zenon DEF AllLate
  <2> QED BY <2>1, <2>2
<1> QED BY <1>3, <1>4 DEF Ordered, u

\* a plan with at most one entry
LEMMA PieceIs ==
  ASSUME NEW t, NEW kind, NEW from, t = <<>> \/ t = <<[kind |-> kind, from |-> from]>>
  PROVE  \A n \in 1..Len(t) : t # <<>> /\ t[n].kind = kind /\ t[n].from = from
<1>1. CASE t = <<>>
  <2>1. 1..Len(t) = {}
    BY <1>1
  <2> QED BY <2>1
<1>2. CASE t = <<[kind |-> kind, from |-> from]>>
  <2>1. 1..Len(t) = {1} /\ t[1] = [kind |-> kind, from |-> from] /\ t # <<>>
    BY <1>2
  <2> QED BY <2>1
<1> QED BY <1>1, <1>2

\* Two plans without identities of the process user are one.
LEMMA NoProcessConcat ==
  ASSUME NEW s \in Seq(Attempt), NEW t \in Seq(Attempt), NoProcess(s), NoProcess(t)
  PROVE  NoProcess(s \o t)
<1>1. /\ Len(s) \in Nat /\ Len(t) \in Nat /\ Len(s \o t) = Len(s) + Len(t)
      /\ \A n \in 1..Len(s \o t) : (s \o t)[n] = IF n <= Len(s) THEN s[n] ELSE t[n - Len(s)]
  BY ConcatProperties, LenProperties
<1>2. \A n \in 1..Len(s \o t) : \/ n \in 1..Len(s) /\ (s \o t)[n] = s[n]
                                \/ n - Len(s) \in 1..Len(t) /\ (s \o t)[n] = t[n - Len(s)]
  BY <1>1
<1> QED BY <1>2, Zenon DEF NoProcess

\* With a provider, buildAuthPlan() puts identities of the process user behind all
\* others, and only those that the fallback policy allows.
LEMMA PlanOrdered ==
  ASSUME client_identity_provider, NEW methods
  PROVE  Ordered(BuildAuthPlan(methods), FallbackAgent, FallbackDefaultKeys)
<1> DEFINE publickey == "publickey" \in methods
           provider == If(TRUE, "PROVIDER", "provider")
           agent == If(use_agent /\ FallbackAgent /\ publickey, "AGENT", "process")
           memory == If(publickey /\ sshkeys_data, "PUBKEY_MEMORY", "explicit")
           file == If(publickey /\ sshkeys = "explicit", "PUBKEY_FILE", "explicit")
           default == If(publickey /\ sshkeys = "auto" /\ FallbackDefaultKeys, "PUBKEY_FILE", "process")
           password == If(sshpass /\ "password" \in methods, "PASSWORD", "explicit")
           interactive == If(sshpass /\ "keyboard-interactive" \in methods, "KEYBOARD_INTERACTIVE", "explicit")
           allowed(t) == AllLate(t) /\ AllPermitted(t, FallbackAgent, FallbackDefaultKeys)
           ordered(t) == Ordered(t, FallbackAgent, FallbackDefaultKeys)
<1>1. /\ provider \in Seq(Attempt) /\ agent \in Seq(Attempt) /\ memory \in Seq(Attempt)
      /\ file \in Seq(Attempt) /\ default \in Seq(Attempt) /\ password \in Seq(Attempt)
      /\ interactive \in Seq(Attempt)
  BY IfType, Zenon DEF Kind, Source
<1>2. NoProcess(provider) /\ NoProcess(memory) /\ NoProcess(file)
  <2>1. provider = <<>> \/ provider = <<[kind |-> "PROVIDER", from |-> "provider"]>>
    BY Zenon DEF If
  <2>2. memory = <<>> \/ memory = <<[kind |-> "PUBKEY_MEMORY", from |-> "explicit"]>>
    BY Zenon DEF If
  <2>3. file = <<>> \/ file = <<[kind |-> "PUBKEY_FILE", from |-> "explicit"]>>
    BY Zenon DEF If
  <2> HIDE DEF provider, memory, file
  <2>4. \A n \in 1..Len(provider) : provider[n].from = "provider"
    BY <2>1, PieceIs
  <2>5. \A n \in 1..Len(memory) : memory[n].from = "explicit"
    BY <2>2, PieceIs
  <2>6. \A n \in 1..Len(file) : file[n].from = "explicit"
    BY <2>3, PieceIs
  <2> QED BY <2>4, <2>5, <2>6 DEF NoProcess
<1>3. allowed(agent)
  <2>1. agent = <<>> \/ (FallbackAgent /\ agent = <<[kind |-> "AGENT", from |-> "process"]>>)
    BY Zenon DEF If
  <2> HIDE DEF agent
  <2>2. \A n \in 1..Len(agent) : agent # <<>> /\ agent[n].kind = "AGENT" /\ agent[n].from = "process"
    BY <2>1, PieceIs
  <2> QED BY <2>1, <2>2 DEF AllLate, AllPermitted, Late, Permitted
<1>4. allowed(default)
  <2>1. default = <<>> \/ (FallbackDefaultKeys /\ default = <<[kind |-> "PUBKEY_FILE", from |-> "process"]>>)
    BY Zenon DEF If
  <2> HIDE DEF default
  <2>2. \A n \in 1..Len(default) :
          default # <<>> /\ default[n].kind = "PUBKEY_FILE" /\ default[n].from = "process"
    BY <2>1, PieceIs
  <2> QED BY <2>1, <2>2 DEF AllLate, AllPermitted, Late, Permitted
<1>5. allowed(password)
  <2>1. password = <<>> \/ (password = <<[kind |-> "PASSWORD", from |-> "explicit"]>>)
    BY Zenon DEF If
  <2> HIDE DEF password
  <2>2. \A n \in 1..Len(password) :
          password # <<>> /\ password[n].kind = "PASSWORD" /\ password[n].from = "explicit"
    BY <2>1, PieceIs
  <2> QED BY <2>1, <2>2 DEF AllLate, AllPermitted, Late, Permitted
<1>6. allowed(interactive)
  <2>1. interactive = <<>> \/ (interactive = <<[kind |-> "KEYBOARD_INTERACTIVE", from |-> "explicit"]>>)
    BY Zenon DEF If
  <2> HIDE DEF interactive
  <2>2. \A n \in 1..Len(interactive) :
          /\ interactive # <<>> /\ interactive[n].kind = "KEYBOARD_INTERACTIVE"
          /\ interactive[n].from = "explicit"
    BY <2>1, PieceIs
  <2> QED BY <2>1, <2>2 DEF AllLate, AllPermitted, Late, Permitted
<1>7. BuildAuthPlan(methods) =
        (IF client_auth_order = "PROVIDER_FIRST"
         THEN provider \o memory \o file \o agent \o default
         ELSE memory \o file \o provider \o agent \o default) \o password \o interactive
  BY Zenon DEF BuildAuthPlan
<1>8. \A s \in Seq(Attempt) : NoProcess(s) => ordered(s)
  BY DEF NoProcess, Ordered, AllPermitted, Permitted
<1>9. \A s, t \in Seq(Attempt) : ordered(s) /\ allowed(t) => s \o t \in Seq(Attempt) /\ ordered(s \o t)
  BY OrderedBefore, ConcatType, Zenon
<1>10. \A s, t \in Seq(Attempt) : NoProcess(s) /\ NoProcess(t) => s \o t \in Seq(Attempt) /\ NoProcess(s \o t)
  BY NoProcessConcat, ConcatType, Zenon
<1> HIDE DEF publickey, provider, agent, memory, file, default, password, interactive, allowed, ordered
<1>11. /\ provider \o memory \o file \in Seq(Attempt) /\ ordered(provider \o memory \o file)
       /\ memory \o file \o provider \in Seq(Attempt) /\ ordered(memory \o file \o provider)
  BY ONLY <1>1, <1>2, <1>8, <1>10, Zenon
<1>12. \A s \in Seq(Attempt) : ordered(s) =>
         /\ s \o agent \o default \o password \o interactive \in Seq(Attempt)
         /\ ordered(s \o agent \o default \o password \o interactive)
  BY ONLY <1>1, <1>3, <1>4, <1>5, <1>6, <1>9, Zenon
<1>13. ordered(BuildAuthPlan(methods))
  BY ONLY <1>7, <1>11, <1>12, Zenon
<1> QED BY <1>13 DEF ordered

\* A permitted question, late if need be, keeps the log guarded.
LEMMA GuardedAppend ==
  ASSUME NEW s \in Seq(Question), NEW q \in Question, NEW agent, NEW keys,
         GuardedLog(s, agent, keys), Permitted(q.about, agent, keys),
         HasOffered(s) => Late(q.about)
  PROVE  /\ GuardedLog(Append(s, q), agent, keys)
         /\ HasOffered(Append(s, q)) => HasOffered(s) \/ OffersProcess(q)
<1> DEFINE t == Append(s, q)
<1>1. /\ Len(t) = Len(s) + 1 /\ Len(s) \in Nat /\ t[Len(s) + 1] = q
      /\ \A n \in 1..Len(s) : t[n] = s[n]
  BY AppendProperties
<1> HIDE DEF t
<1>2. \A n \in 1..Len(t) : (n \in 1..Len(s) /\ t[n] = s[n]) \/ (n = Len(s) + 1 /\ t[n] = q)
  <2> TAKE n \in 1..Len(t)
  <2>1. CASE n \in 1..Len(s) BY <1>1, <2>1, Zenon
  <2>2. CASE n = Len(s) + 1 BY <1>1, <2>2, Zenon
  <2> QED BY <1>1, <2>1, <2>2
<1>3. HasOffered(t) => HasOffered(s) \/ OffersProcess(q)
  BY <1>2, Zenon DEF HasOffered
<1>4. ASSUME NEW n \in 1..Len(t), OffersProcess(t[n])
      PROVE  IF t[n].about.kind = "AGENT" THEN agent ELSE keys
  BY <1>2, <1>4, Zenon DEF GuardedLog, OffersProcess, Permitted
<1>5. ASSUME NEW n \in 1..Len(t), OffersProcess(t[n]), NEW m \in (n + 1)..Len(t)
      PROVE  Late(t[m].about)
  <2>1. n \in 1..Len(s) /\ m \in 1..Len(t)
    BY <1>1
  <2>2. HasOffered(s) /\ OffersProcess(s[n])
    BY <1>1, <1>5, <2>1, Zenon DEF HasOffered
  <2>3. CASE m = Len(s) + 1
    BY <1>1, <2>2, <2>3, Zenon
  <2>4. CASE m # Len(s) + 1
    <3>1. m \in 1..Len(s) /\ m \in (n + 1)..Len(s)
      BY <1>1, <2>4
    <3> QED BY <1>1, <2>1, <2>2, <3>1, Zenon DEF GuardedLog
  <2> QED BY <2>3, <2>4
<1> QED BY <1>3, <1>4, <1>5 DEF GuardedLog, t

\* What the provider supplies is not of the process user.
LEMMA SubPlanProvided == ASSUME NEW answer PROVE NoProcess(SubPlan(answer))
<1>1. SubPlan(answer) = <<>> \/ SubPlan(answer) = <<[kind |-> answer, from |-> "provider"]>>
  BY Zenon DEF SubPlan, If
<1>2. \A n \in 1..Len(SubPlan(answer)) : SubPlan(answer)[n].from = "provider"
  BY <1>1, PieceIs
<1> QED BY <1>2 DEF NoProcess

\* An empty log offers nothing.
LEMMA EmptyLogs ==
  ASSUME NEW agent, NEW keys
  PROVE  GuardedLog(<<>>, agent, keys) /\ ~HasOffered(<<>>)
BY DEF GuardedLog, HasOffered

\* The order holds at first.
LEMMA OrderInit == Init => OrderInv
<1> SUFFICES ASSUME Init PROVE OrderInv
  OBVIOUS
<1>1. asked = <<>> /\ tried = <<>> /\ phase \notin Driver
  BY DEF Init, Driver
<1> QED BY <1>1, EmptyLogs, Zenon DEF OrderInv

\* The order is kept: a driver takes entries from the head, and puts there only what
\* the provider supplied, which is before any identity of the process user is offered.
LEMMA OrderStep ==
  ASSUME TypeInv, TypeInv', OrderInv, [Next]_vars
  PROVE  OrderInv'
<1>1. CASE Set
  <2>1. asked' = <<>> /\ tried' = <<>> /\ phase' \notin Driver
    BY <1>1 DEF Set, TypeInv, IdleInv, outcomeVars, Driver
  <2> QED BY <2>1, EmptyLogs, Zenon DEF OrderInv
<1>2. CASE UNCHANGED vars
  BY <1>2, Zenon DEF vars, settingVars, driverVars, outcomeVars, OrderInv, FallbackAgent,
     FallbackDefaultKeys, Todo, Log
<1>3. CASE SshConnect \/ HandleAuthList \/ DriverStep
  <2>1. UNCHANGED <<client_identity_provider, client_identity_fallback_policy>>
    BY <1>3 DEF SshConnect, HandleAuthList, DriverStep, settingVars
  <2>2. FallbackAgent' = FallbackAgent /\ FallbackDefaultKeys' = FallbackDefaultKeys
    BY <2>1 DEF FallbackAgent, FallbackDefaultKeys
  <2> DEFINE agent == FallbackAgent
             keys == FallbackDefaultKeys
  <2> HIDE DEF agent, keys
  <2>3. SUFFICES ASSUME client_identity_provider
                 PROVE  /\ GuardedLog(asked', agent, keys) /\ GuardedLog(tried', agent, keys)
                        /\ phase' \in Driver => /\ Ordered(Todo', agent, keys)
                                                /\ HasOffered(Log') => AllLate(Todo')
    BY <2>1, <2>2, Zenon DEF OrderInv, agent, keys
  <2>4. /\ GuardedLog(asked, agent, keys) /\ GuardedLog(tried, agent, keys)
        /\ phase \in Driver => Ordered(Todo, agent, keys) /\ (HasOffered(Log) => AllLate(Todo))
    BY <2>3, Zenon DEF OrderInv, agent, keys
  <2>5. CASE SshConnect \/ HandleAuthList
    <3>1. UNCHANGED <<asked, tried>> /\ Log' = <<>>
      BY <2>5 DEF SshConnect, HandleAuthList, TypeInv, IdleInv, Log, outcomeVars
    <3>2. \E methods : Todo' = BuildAuthPlan(methods)
      <4>1. CASE SshConnect
        <5>1. PICK methods : plan' = BuildAuthPlan(methods)
          BY <4>1, Zenon DEF SshConnect
        <5>2. Todo' = <<>> \o plan'
          BY <4>1 DEF SshConnect, TypeInv, IdleInv, Todo
        <5>3. Todo' = plan'
          BY <5>1, <5>2, PlanType, ConcatEmptySeq
        <5> QED BY <5>1, <5>3, Zenon
      <4>2. CASE HandleAuthList
        BY <4>2 DEF HandleAuthList, Todo
      <4> QED BY <2>5, <4>1, <4>2
    <3>3. Ordered(Todo', agent, keys)
      BY <2>3, <3>2, PlanOrdered, Zenon DEF agent, keys
    <3> QED BY <2>4, <3>1, <3>3, EmptyLogs, Zenon
  <2>6. CASE DriverStep
    <3>1. /\ phase \in Driver /\ asked \in Seq(Question) /\ tried \in Seq(Question)
          /\ Todo \in Seq(Attempt) /\ Log \in Seq(Question)
          /\ Ordered(Todo, agent, keys) /\ (HasOffered(Log) => AllLate(Todo))
          /\ GuardedLog(Log, agent, keys)
      BY <2>4, <2>6, TodoOf DEF DriverStep, TypeInv, TypeOK, Log
    <3>2. CASE Stops
      <4>1. UNCHANGED <<asked, tried>> /\ phase' \notin Driver
        BY <3>1, <3>2, EndEffect, Zenon DEF Stops
      <4> QED BY <2>4, <4>1, Zenon
    <3>3. CASE Skips
      <4>1. UNCHANGED <<asked, tried, phase>> /\ Todo # <<>> /\ Todo' = Tail(Todo) /\ Log' = Log
        BY <3>3 DEF Skips, GoesOn, Log
      <4> QED BY <2>4, <3>1, <4>1, TailOrdered, Zenon
    <3>4. CASE AsksNext
      <4>1. PICK a \in Answer(AskOf(Here)) :
               /\ Asks(AskOf(Here), Head(Todo), NumOf(Here), a)
               /\ \/ a \in Final /\ \E open \in BOOLEAN : End(OutcomeOf(Here, a), open)
                  \/ a \notin Final /\ GoesOn /\ Here' = After(Here, a)
        BY <3>4, Zenon DEF AsksNext
      <4> DEFINE q == [ask |-> AskOf(Here), about |-> Head(Todo), i |-> NumOf(Here), answer |-> a]
      <4>2. /\ phase = "blocking" => asked' = Append(asked, q) /\ tried' = tried
            /\ phase = "polling" => asked' = asked /\ tried' = Append(tried, q)
        BY <3>1, <4>1, LogGrows
      <4>3. Todo # <<>> /\ Head(Todo) \in Attempt
        BY <3>4, TodoOf DEF AsksNext
      <4>4. q \in Question /\ q.about = Head(Todo) /\ q.ask = AskOf(Here)
        BY <4>3, AskIs, QuestionType, NumberTypes DEF TypeInv, NumOf, Here, Place
      <4> HIDE DEF q
      <4>5. /\ Permitted(Head(Todo), agent, keys)
            /\ Head(Todo).from = "process" => AllLate(Todo)
            /\ AllLate(Todo) => Late(Head(Todo))
            /\ Ordered(Tail(Todo), agent, keys)
            /\ AllLate(Todo) => AllLate(Tail(Todo))
        BY <3>1, <4>3, TailOrdered
      <4>6. /\ GuardedLog(Append(Log, q), agent, keys)
            /\ HasOffered(Append(Log, q)) => HasOffered(Log) \/ OffersProcess(q)
        BY <3>1, <4>4, <4>5, GuardedAppend
      <4>7. GuardedLog(asked', agent, keys) /\ GuardedLog(tried', agent, keys)
        <5>1. (phase = "blocking" => Log = asked) /\ (phase = "polling" => Log = tried)
          BY DEF Log
        <5> QED BY <2>4, <3>1, <4>2, <4>6, <5>1, Zenon DEF Driver
      <4>8. CASE \E open \in BOOLEAN : End(OutcomeOf(Here, a), open)
        BY <3>1, <4>7, <4>8, EndEffect, Zenon
      <4>9. CASE a \notin Final /\ GoesOn /\ Here' = After(Here, a)
        <5>1. HasOffered(Log') => AllLate(Todo)
          <6>1. Log' = Append(Log, q)
            BY <3>1, <4>2, <4>9 DEF Log, Driver, GoesOn
          <6> QED BY <3>1, <4>4, <4>5, <4>6, <6>1, Zenon DEF OffersProcess
        <5>2. CASE Todo' = Todo
          BY <3>1, <4>7, <5>1, <5>2, Zenon
        <5>3. CASE Todo' = Tail(Todo)
          BY <4>5, <4>7, <5>1, <5>3, Zenon
        <5>4. CASE AskOf(Here) = "resolve" /\ Todo' = SubPlan(a) \o Todo
          <6>1. Ordered(Todo', agent, keys)
            BY <3>1, <5>4, SubPlanType, SubPlanProvided, BeforeOrdered
          <6>2. Head(Todo).kind = "PROVIDER"
            BY <5>4 DEF AskOf, Here, Place
          <6>3. ~Late(Head(Todo))
            BY <4>5, <6>2 DEF Permitted, Late
          <6> QED BY <4>5, <4>7, <5>1, <6>1, <6>3, Zenon
        <5>5. \/ Todo' = Todo \/ Todo' = Tail(Todo)
              \/ AskOf(Here) = "resolve" /\ Todo' = SubPlan(a) \o Todo
          <6>1. AskOf(Here) \in Ask
            BY AskIs
          <6> QED BY <4>9, <6>1, AfterIs, Zenon DEF Ask
        <5> QED BY <5>2, <5>3, <5>4, <5>5
      <4> QED BY <4>1, <4>8, <4>9
    <3> QED BY <2>6, <3>2, <3>3, <3>4 DEF DriverStep
  <2> QED BY <1>3, <2>5, <2>6
<1> QED BY <1>1, <1>2, <1>3, Drives

-----------------------------------------------------------------------------
(* Both drivers ask the same questions. *)

\* The plan without the entry of the provider that a driver drops first when the
\* server does not offer the public key method.
StartOf(methods) ==
  IF "publickey" \in methods THEN BuildAuthPlan(methods)
  ELSE If(sshpass /\ "password" \in methods, "PASSWORD", "explicit")
         \o If(sshpass /\ "keyboard-interactive" \in methods, "KEYBOARD_INTERACTIVE", "explicit")

Start == Place(StartOf(auth_methods), FALSE, 0, 0, FALSE)

NoProvider(t) == \A n \in 1..Len(t) : t[n].kind # "PROVIDER"

\* connect() asked the questions of log, and was at st[n] after the n-th
History(st, log, start) ==
  /\ st[0] = start
  /\ \A n \in 1..Len(log) :
       /\ st[n - 1].todo # <<>>
       /\ log[n] = QuestionOf(st[n - 1], log[n].answer)
       /\ log[n].answer \notin Final => st[n] = After(st[n - 1], log[n].answer)

\* a driver that is at here after n questions is at c, or has only to drop the entry
\* of the provider to be there
Position(c, n, here, methods) ==
  \/ here = c /\ ("publickey" \notin methods => NoProvider(here.todo))
  \/ /\ n = 0 /\ "publickey" \notin methods
     /\ here.todo # <<>> /\ Head(here.todo).kind = "PROVIDER" /\ NoProvider(Tail(here.todo))
     /\ Place(Tail(here.todo), here.candidates, here.index, here.identity, here.checked) = c

\* why connect() has ended with the result r
BlockingEnd(st, log, r) ==
  \/ /\ log # <<>> /\ LastOf(log).answer \in Final
     /\ r = OutcomeOf(st[Len(log) - 1], LastOf(log).answer)
  \/ NoFinal(log) /\ st[Len(log)].todo = <<>> /\ r = "failed"

\* the questions of s are the first ones of log
Follows(s, log) == Len(s) <= Len(log) /\ \A n \in 1..Len(s) : s[n] = log[n]

Agree(st) ==
  /\ History(st, asked, Start)
  /\ phase = "blocking" => Position(st[Len(asked)], Len(asked), Here, auth_methods)
  /\ phase \in {"ready", "polling"} => BlockingEnd(st, asked, result["blocking"])
  /\ phase = "polling" => /\ Follows(tried, asked)
                          /\ Position(st[Len(tried)], Len(tried), Here, auth_methods)

AgreeInv ==
  /\ SameQuestions
  /\ phase \in {"blocking", "ready", "polling"} => \E st : Agree(st)

\* A question and its answer add a place to the history.
LEMMA HistoryGrows ==
  ASSUME NEW log \in Seq(Question), NEW st, NEW start, History(st, log, start),
         NEW c, NEW a, c = st[Len(log)], c.todo # <<>>, QuestionOf(c, a) \in Question
  PROVE  \E st2 : /\ History(st2, Append(log, QuestionOf(c, a)), start)
                  /\ st2[Len(log)] = c /\ st2[Len(log) + 1] = After(c, a)
<1> DEFINE q == QuestionOf(c, a)
           d == After(c, a)
           new == Append(log, q)
           st2 == [k \in 0..(Len(log) + 1) |-> IF k <= Len(log) THEN st[k] ELSE d]
<1>0. q.answer = a
  BY DEF QuestionOf
<1>1. /\ Len(new) = Len(log) + 1 /\ Len(log) \in Nat /\ new[Len(log) + 1] = q
      /\ \A n \in 1..Len(log) : new[n] = log[n]
  BY AppendProperties
<1>2. /\ \A k \in 0..Len(log) : st2[k] = st[k]
      /\ st2[Len(log) + 1] = d /\ 0 \in 0..Len(log) /\ Len(log) \in 0..Len(log)
  BY <1>1
<1>3. st2[0] = start /\ st2[Len(log)] = c
  BY <1>2 DEF History
<1> HIDE DEF st2, new, q, d
<1>4. ASSUME NEW n \in 1..Len(new)
      PROVE  /\ st2[n - 1].todo # <<>>
             /\ new[n] = QuestionOf(st2[n - 1], new[n].answer)
             /\ new[n].answer \notin Final => st2[n] = After(st2[n - 1], new[n].answer)
  <2>1. CASE n \in 1..Len(log)
    <3>1. n - 1 \in 0..Len(log) /\ n \in 0..Len(log)
      BY <1>1, <2>1
    <3>2. st2[n - 1] = st[n - 1] /\ st2[n] = st[n] /\ new[n] = log[n]
      BY <1>1, <1>2, <2>1, <3>1
    <3> QED BY <2>1, <3>2, Zenon DEF History
  <2>2. CASE n = Len(log) + 1
    <3>1. n - 1 = Len(log)
      BY <1>1, <2>2
    <3>2. st2[n - 1] = c /\ st2[n] = d /\ new[n] = q /\ new[n].answer = a
      BY <1>0, <1>1, <1>2, <1>3, <2>2, <3>1
    <3> QED BY <3>2, Zenon DEF q, d
  <2> QED BY <1>1, <2>1, <2>2
<1>5. History(st2, new, start)
  BY <1>3, <1>4 DEF History
<1> QED BY <1>2, <1>3, <1>5, Zenon DEF new, q, d

\* Without a public key method both drivers drop the provider's entry, if it is there,
\* and then have the same plan, without any entry of a provider.
LEMMA PlanStarts ==
  ASSUME NEW methods
  PROVE  LET todo == BuildAuthPlan(methods) IN
         /\ StartOf(methods) \in Seq(Attempt)
         /\ "publickey" \in methods => todo = StartOf(methods)
         /\ "publickey" \notin methods =>
              /\ NoProvider(StartOf(methods))
              /\ \/ todo = StartOf(methods)
                 \/ todo # <<>> /\ Head(todo).kind = "PROVIDER" /\ Tail(todo) = StartOf(methods)
<1> DEFINE todo == BuildAuthPlan(methods)
           password == If(sshpass /\ "password" \in methods, "PASSWORD", "explicit")
           interactive == If(sshpass /\ "keyboard-interactive" \in methods, "KEYBOARD_INTERACTIVE", "explicit")
           provider == If(client_identity_provider, "PROVIDER", "provider")
           rest == password \o interactive
           start == StartOf(methods)
<1>1. CASE "publickey" \in methods
  <2>1. StartOf(methods) = todo
    BY <1>1, Zenon DEF StartOf
  <2> QED BY <1>1, <2>1, PlanType, Zenon
<1>2. CASE "publickey" \notin methods
  <2>1. start = rest
    BY <1>2, Zenon DEF StartOf
  <2>2. \A kind, from : If(FALSE, kind, from) = <<>>
    BY DEF If
  <2>3. <<>> \o <<>> = <<>>
    BY ConcatEmptySeq, EmptySeq
  <2>4. /\ password \in Seq(Attempt) /\ interactive \in Seq(Attempt) /\ provider \in Seq(Attempt)
        /\ If(TRUE, "PROVIDER", "provider") \in Seq(Attempt)
    BY IfType, Zenon DEF Kind, Source
  <2>5. todo = (provider \o password) \o interactive
    <3> DEFINE agent == If(use_agent /\ FallbackAgent /\ "publickey" \in methods, "AGENT", "process")
               memory == If("publickey" \in methods /\ sshkeys_data, "PUBKEY_MEMORY", "explicit")
               file == If("publickey" \in methods /\ sshkeys = "explicit", "PUBKEY_FILE", "explicit")
               default == If("publickey" \in methods /\ sshkeys = "auto" /\ FallbackDefaultKeys,
                             "PUBKEY_FILE", "process")
               entry == If(TRUE, "PROVIDER", "provider")
    <3>1. agent = <<>> /\ memory = <<>> /\ file = <<>> /\ default = <<>>
      BY <1>2, Zenon DEF If
    <3>2. provider = IF client_identity_provider THEN entry ELSE <<>>
      BY Zenon DEF If
    <3>3. todo =
            (IF ~client_identity_provider THEN agent \o memory \o file \o default
             ELSE IF client_auth_order = "PROVIDER_FIRST"
                  THEN entry \o memory \o file \o agent \o default
                  ELSE memory \o file \o entry \o agent \o default) \o password \o interactive
      BY Zenon DEF BuildAuthPlan
    <3>4. entry \o <<>> = entry /\ <<>> \o entry = entry
      BY <2>4, ConcatEmptySeq
    <3> HIDE DEF agent, memory, file, default, entry, provider, password, interactive, todo
    <3> QED BY ONLY <2>3, <3>1, <3>2, <3>3, <3>4, Zenon
  <2>6. NoProvider(rest) /\ rest \in Seq(Attempt)
    <3>1. password = <<>> \/ password = <<[kind |-> "PASSWORD", from |-> "explicit"]>>
      BY Zenon DEF If
    <3>2. interactive = <<>> \/ interactive = <<[kind |-> "KEYBOARD_INTERACTIVE", from |-> "explicit"]>>
      BY Zenon DEF If
    <3> HIDE DEF password, interactive
    <3>3. /\ \A n \in 1..Len(password) : password[n].kind = "PASSWORD"
          /\ \A n \in 1..Len(interactive) : interactive[n].kind = "KEYBOARD_INTERACTIVE"
      BY <3>1, <3>2, PieceIs
    <3>4. /\ Len(password) \in Nat /\ Len(interactive) \in Nat /\ rest \in Seq(Attempt)
          /\ Len(rest) = Len(password) + Len(interactive)
          /\ \A n \in 1..Len(rest) :
               rest[n] = IF n <= Len(password) THEN password[n] ELSE interactive[n - Len(password)]
      BY <2>4, ConcatProperties, LenProperties
    <3> HIDE DEF rest
    <3>5. ASSUME NEW n \in 1..Len(rest) PROVE rest[n].kind # "PROVIDER"
      <4>1. CASE n <= Len(password)
        <5>1. n \in 1..Len(password) /\ rest[n] = password[n]
          BY <3>4, <4>1
        <5> QED BY <3>3, <5>1
      <4>2. CASE ~(n <= Len(password))
        <5>1. n - Len(password) \in 1..Len(interactive) /\ rest[n] = interactive[n - Len(password)]
          BY <3>4, <4>2
        <5> QED BY <3>3, <5>1
      <4> QED BY <4>1, <4>2
    <3> QED BY <3>4, <3>5 DEF NoProvider
  <2>7. todo = provider \o rest
    BY <2>4, <2>5, ConcatAssociative
  <2>8. CASE client_identity_provider
    <3>1. provider = <<[kind |-> "PROVIDER", from |-> "provider"]>>
      BY <2>8, Zenon DEF If
    <3> HIDE DEF provider, rest, todo
    <3>2. provider # <<>> /\ Head(provider).kind = "PROVIDER" /\ Tail(provider) = <<>>
      BY <3>1
    <3>3. todo # <<>> /\ Head(todo) = Head(provider) /\ Tail(todo) = Tail(provider) \o rest
      BY <2>4, <2>6, <2>7, <3>2, Pieces
    <3>4. <<>> \o rest = rest
      BY <2>6, ConcatEmptySeq
    <3> QED BY <1>2, <2>1, <2>6, <3>2, <3>3, <3>4, Zenon DEF todo
  <2>9. CASE ~client_identity_provider
    <3>1. provider = <<>>
      BY <2>9, Zenon DEF If
    <3>2. todo = rest
      BY <2>6, <2>7, <3>1, ConcatEmptySeq
    <3> QED BY <1>2, <2>1, <2>6, <3>2, Zenon
  <2> QED BY <2>8, <2>9
<1> QED BY <1>1, <1>2

\* The plan is the same for both drivers while the settings stay.
LEMMA PlanStays ==
  ASSUME UNCHANGED settingVars
  PROVE  /\ BuildAuthPlan(auth_methods)' = BuildAuthPlan(auth_methods')
         /\ Start' = Place(StartOf(auth_methods'), FALSE, 0, 0, FALSE)
<1>1. UNCHANGED <<client_identity_provider, client_auth_order, client_identity_fallback_policy,
                  use_agent, sshkeys, sshkeys_data, sshpass>>
  BY DEF settingVars
<1>2. BuildAuthPlan(auth_methods)' = BuildAuthPlan(auth_methods')
  BY <1>1 DEF BuildAuthPlan, FallbackAgent, FallbackDefaultKeys
<1>3. StartOf(auth_methods)' = StartOf(auth_methods')
  BY <1>1, <1>2, Zenon DEF StartOf
<1> QED BY <1>2, <1>3, Zenon DEF Start

\* A plan without an entry of a provider has none at its head or in the rest.
LEMMA HeadNotProvider ==
  ASSUME NEW t \in Seq(Attempt), t # <<>>, NoProvider(t)
  PROVE  Head(t).kind # "PROVIDER" /\ NoProvider(Tail(t))
<1>1. /\ Len(t) \in Nat /\ Len(t) > 0 /\ Len(Tail(t)) = Len(t) - 1 /\ Head(t) = t[1]
      /\ \A n \in 1..Len(Tail(t)) : Tail(t)[n] = t[n + 1]
  BY HeadTailProperties, EmptySeq, LenProperties
<1>2. 1 \in 1..Len(t) /\ \A n \in 1..Len(Tail(t)) : n + 1 \in 1..Len(t)
  BY <1>1
<1> QED BY <1>1, <1>2, Zenon DEF NoProvider

\* The fields of the place a driver is at.
LEMMA HereFields ==
  /\ Here.todo = Todo /\ Here.candidates = candidates /\ Here.index = index
  /\ Here.identity = identity /\ Here.checked = checked
BY DEF Here, Place

\* a driver that has built its plan is at the start
LEMMA PositionStarts ==
  ASSUME NEW methods, NEW here,
         here = Place(BuildAuthPlan(methods), FALSE, 0, 0, FALSE)
  PROVE  Position(Place(StartOf(methods), FALSE, 0, 0, FALSE), 0, here, methods)
<1>1. /\ here.todo = BuildAuthPlan(methods) /\ here.candidates = FALSE /\ here.index = 0
      /\ here.identity = 0 /\ here.checked = FALSE
  BY DEF Place
<1>2. CASE "publickey" \in methods
  <2>1. BuildAuthPlan(methods) = StartOf(methods)
    BY <1>2, PlanStarts, Zenon
  <2> QED BY <1>2, <2>1, Zenon DEF Position
<1>3. CASE "publickey" \notin methods
  <2>1. /\ NoProvider(StartOf(methods))
        /\ \/ here.todo = StartOf(methods)
           \/ here.todo # <<>> /\ Head(here.todo).kind = "PROVIDER" /\ Tail(here.todo) = StartOf(methods)
    BY <1>1, <1>3, PlanStarts, Zenon
  <2> QED BY <1>1, <1>3, <2>1, Zenon DEF Position
<1> QED BY <1>2, <1>3

\* A driver that drops the provider's entry is where the history begins.
LEMMA PositionSkips ==
  ASSUME TypeInv, NEW c, NEW n, Position(c, n, Here, auth_methods), Skips, UNCHANGED auth_methods
  PROVE  Position(c, n, Here', auth_methods')
<1>1. /\ ~PublicKey /\ Todo # <<>> /\ Head(Todo).kind = "PROVIDER"
      /\ Todo' = Tail(Todo) /\ UNCHANGED <<candidates, index, identity, checked>>
      /\ Todo \in Seq(Attempt)
  BY TodoOf, Zenon DEF Skips
<1>2. ~NoProvider(Todo) /\ "publickey" \notin auth_methods
  BY <1>1, HeadNotProvider DEF PublicKey
<1>3. Place(Tail(Todo), candidates, index, identity, checked) = c /\ NoProvider(Tail(Todo))
  BY <1>2, HereFields, Zenon DEF Position
<1>4. Here' = c
  BY <1>1, <1>3, Zenon DEF Here
<1>5. Here'.todo = Todo'
  BY DEF Here, Place
<1> QED BY <1>1, <1>3, <1>4, <1>5, Zenon DEF Position

\* a driver that asks, or has nothing left to do, is where the history says
LEMMA PositionHere ==
  ASSUME NEW c, NEW n, Position(c, n, Here, auth_methods),
         Todo = <<>> \/ (Head(Todo).kind = "PROVIDER" => PublicKey)
  PROVE  Here = c /\ (~PublicKey => NoProvider(Todo))
BY HereFields, Zenon DEF Position, PublicKey

\* A driver that has asked is where the history goes on.
LEMMA PositionAsks ==
  ASSUME TypeInv, NEW a, Here' = After(Here, a),
         Todo # <<>>, Head(Todo).kind = "PROVIDER" => PublicKey,
         ~PublicKey => NoProvider(Todo), UNCHANGED auth_methods, NEW n
  PROVE  Position(Here', n, Here', auth_methods')
<1>1. ASSUME ~PublicKey PROVE NoProvider(Todo')
  <2>1. Todo \in Seq(Attempt) /\ NoProvider(Todo) /\ NoProvider(Tail(Todo)) /\ Head(Todo).kind # "PROVIDER"
    BY <1>1, TodoOf, HeadNotProvider
  <2>2. AskOf(Here) # "resolve" /\ AskOf(Here) \in Ask
    BY <2>1, AskIs DEF AskOf, Here, Place
  <2>3. Todo' = Todo \/ Todo' = Tail(Todo)
    BY <2>2, AfterIs, Zenon DEF Ask
  <2> QED BY <2>1, <2>3, Zenon
<1>2. Here'.todo = Todo'
  BY DEF Here, Place
<1> QED BY <1>1, <1>2, Zenon DEF Position, PublicKey

\* A log that follows another of its length is that log.
LEMMA FollowsAll ==
  ASSUME NEW s \in Seq(Question), NEW log \in Seq(Question), Follows(s, log), Len(s) = Len(log)
  PROVE  s = log
<1>1. \A n \in 1..Len(s) : s[n] = log[n]
  BY DEF Follows
<1> QED BY <1>1, SeqEqual

\* there is no answer that ends a driver where connect() has asked no more
LEMMA Replays ==
  ASSUME NEW s \in Seq(Question), NEW log \in Seq(Question), NEW st, NEW start, NEW r,
         History(st, log, start), BlockingEnd(st, log, r), Follows(s, log), NoFinal(s)
  PROVE  /\ st[Len(s)].todo # <<>> => Len(s) + 1 \in 1..Len(log) /\ (Len(s) + 1) - 1 = Len(s)
         /\ st[Len(s)].todo = <<>> => s = log /\ r = "failed"
<1>1. Len(s) \in Nat /\ Len(log) \in Nat /\ Len(s) <= Len(log)
  BY DEF Follows
<1>2. ASSUME Len(s) = Len(log) PROVE s = log /\ st[Len(s)].todo = <<>> /\ r = "failed"
  <2>1. s = log
    BY <1>2, FollowsAll
  <2>2. log # <<>> => Len(log) \in 1..Len(log)
    BY EmptySeq, LenProperties
  <2>3. ~(log # <<>> /\ LastOf(log).answer \in Final)
    BY <2>1, <2>2, Zenon DEF NoFinal, LastOf
  <2> QED BY <1>2, <2>1, <2>3, Zenon DEF BlockingEnd
<1>3. Len(s) # Len(log) => Len(s) + 1 \in 1..Len(log) /\ (Len(s) + 1) - 1 = Len(s)
  BY <1>1
<1>4. Len(s) + 1 \in 1..Len(log) /\ (Len(s) + 1) - 1 = Len(s) => st[Len(s)].todo # <<>>
  BY Zenon DEF History
<1> QED BY <1>2, <1>3, <1>4, Zenon

\* The drivers agree as long as neither has begun.
LEMMA AgreeInit == Init => AgreeInv
BY DEF Init, AgreeInv, SameQuestions

\* connect() begins its history.
LEMMA SshConnectAgrees ==
  ASSUME TypeInv, SshConnect
  PROVE  AgreeInv'
<1>1. /\ phase' = "blocking" /\ asked' = <<>> /\ UNCHANGED settingVars
      /\ sub_plan' = <<>> /\ candidates' = FALSE /\ index' = 0 /\ identity' = 0 /\ checked' = FALSE
  <2>1. phase = "setup" /\ UNCHANGED <<sub_plan, candidates, index, identity, checked, asked>>
    BY DEF SshConnect, outcomeVars
  <2>2. phase \notin Driver /\ phase # "blocking"
    BY <2>1 DEF Driver
  <2>3. asked = <<>> /\ sub_plan = <<>> /\ candidates = FALSE /\ index = 0 /\ identity = 0 /\ checked = FALSE
    <3>1. candidates \in BOOLEAN /\ checked \in BOOLEAN
      BY DEF TypeInv, TypeOK
    <3> QED BY <2>1, <2>2, <3>1 DEF TypeInv, IdleInv
  <2> QED BY <2>1, <2>3 DEF SshConnect
<1>2. plan' = BuildAuthPlan(auth_methods')
  BY DEF SshConnect
<1>3. Todo' = BuildAuthPlan(auth_methods')
  <2>1. Todo' = <<>> \o plan'
    BY <1>1 DEF Todo
  <2> QED BY <1>2, <2>1, PlanType, ConcatEmptySeq
<1>4. Here' = Place(BuildAuthPlan(auth_methods'), FALSE, 0, 0, FALSE)
  BY <1>1, <1>3, Zenon DEF Here
<1>5. Start' = Place(StartOf(auth_methods'), FALSE, 0, 0, FALSE)
  BY <1>1, PlanStays
<1>6. Position(Start', 0, Here', auth_methods')
  BY <1>4, <1>5, PositionStarts
<1>7. PICK st : st[0] = Start'
  <2>1. [k \in {0} |-> Start'][0] = Start'
    OBVIOUS
  <2> QED BY <2>1, Zenon
<1>8. Len(asked') = 0 /\ 1..Len(asked') = {}
  BY <1>1
<1>9. History(st, asked', Start')
  BY <1>7, <1>8 DEF History
<1>10. Agree(st)'
  BY <1>1, <1>6, <1>7, <1>8, <1>9 DEF Agree
<1>11. SameQuestions'
  BY <1>1 DEF SameQuestions
<1> QED BY <1>10, <1>11, Zenon DEF AgreeInv

\* The poll operation begins where connect() began.
LEMMA HandleAuthListAgrees ==
  ASSUME TypeInv, HandleAuthList, AgreeInv
  PROVE  AgreeInv'
<1>1. /\ phase = "ready" /\ phase' = "polling" /\ tried' = <<>>
      /\ UNCHANGED <<settingVars, auth_methods, asked, result>>
      /\ candidates' = FALSE /\ index' = 0 /\ identity' = 0 /\ checked' = FALSE
  <2>1. phase = "ready" /\ UNCHANGED <<candidates, index, identity, checked, asked, tried, result>>
    BY DEF HandleAuthList, outcomeVars
  <2>2. phase \notin Driver
    BY <2>1 DEF Driver
  <2>3. tried = <<>> /\ candidates = FALSE /\ index = 0 /\ identity = 0 /\ checked = FALSE
    <3>1. candidates \in BOOLEAN /\ checked \in BOOLEAN
      BY DEF TypeInv, TypeOK
    <3> QED BY <2>1, <2>2, <3>1 DEF TypeInv, IdleInv
  <2> QED BY <2>1, <2>3 DEF HandleAuthList
<1>2. Todo' = BuildAuthPlan(auth_methods')
  BY <1>1 DEF HandleAuthList, Todo
<1>3. Here' = Place(BuildAuthPlan(auth_methods'), FALSE, 0, 0, FALSE)
  BY <1>1, <1>2, Zenon DEF Here
<1>4. Start' = Place(StartOf(auth_methods'), FALSE, 0, 0, FALSE) /\ Start' = Start
  BY <1>1, PlanStays DEF Start
<1>5. Position(Start, 0, Here', auth_methods')
  BY <1>3, <1>4, PositionStarts
<1>6. PICK st : History(st, asked, Start) /\ BlockingEnd(st, asked, result["blocking"])
  BY <1>1, Zenon DEF AgreeInv, Agree
<1>7. Len(tried') = 0 /\ 1..Len(tried') = {} /\ Len(asked) \in Nat
  BY <1>1 DEF TypeInv, TypeOK
<1>8. Follows(tried', asked')
  BY <1>1, <1>7 DEF Follows
<1>9. st[0] = Start
  BY <1>6 DEF History
<1>10. Agree(st)'
  BY <1>1, <1>4, <1>5, <1>6, <1>7, <1>8, <1>9 DEF Agree
<1>11. SameQuestions'
  <2>1. result'["polling"] = "none"
    BY <1>1 DEF TypeInv, IdleInv
  <2> QED BY <1>8, <2>1 DEF SameQuestions, Follows
<1> QED BY <1>10, <1>11, Zenon DEF AgreeInv

\* A step of connect() makes its history longer.
LEMMA BlockingAgrees ==
  ASSUME TypeInv, FinalInv, AgreeInv, DriverStep, phase = "blocking"
  PROVE  AgreeInv'
<1>1. PICK st : History(st, asked, Start) /\ Position(st[Len(asked)], Len(asked), Here, auth_methods)
  BY Zenon DEF AgreeInv, Agree
<1>2. UNCHANGED <<settingVars, auth_methods>> /\ asked \in Seq(Question) /\ phase \in Driver
  BY DEF DriverStep, TypeInv, TypeOK
<1>3. Start' = Start
  BY <1>2, PlanStays DEF Start
<1>4. CASE Skips
  <2>1. UNCHANGED <<phase, asked>>
    BY <1>4 DEF Skips, GoesOn
  <2>2. Position(st[Len(asked)], Len(asked), Here', auth_methods')
    BY <1>1, <1>2, <1>4, PositionSkips
  <2>3. Agree(st)'
    BY <1>1, <1>3, <2>1, <2>2 DEF Agree
  <2> QED BY <2>1, <2>3 DEF AgreeInv, SameQuestions
<1>5. CASE Stops
  <2>1. PICK outcome \in {"failed", "interrupted"} :
           (outcome = "failed" => Todo = <<>>) /\ End(outcome, FALSE) /\ UNCHANGED <<asked, tried>>
    BY <1>5 DEF Stops
  <2>2. result'["blocking"] = outcome
    BY <1>2, <2>1, EndEffect
  <2>3. CASE outcome = "interrupted"
    <3>1. phase' = "done"
      BY <2>1, <2>3 DEF End
    <3> QED BY <2>2, <2>3, <3>1 DEF AgreeInv, SameQuestions
  <2>4. CASE outcome = "failed"
    <3>1. phase' = "ready"
      BY <2>1, <2>4 DEF End
    <3>2. Here = st[Len(asked)] /\ Todo = <<>>
      BY <1>1, <2>1, <2>4, PositionHere
    <3>3. st[Len(asked)].todo = <<>> /\ NoFinal(asked)
      <4>1. Log = asked
        BY DEF Log
      <4> QED BY <1>2, <3>2, <4>1, HereFields, Zenon DEF FinalInv
    <3>4. BlockingEnd(st, asked, result'["blocking"])
      BY <2>2, <2>4, <3>3, Zenon DEF BlockingEnd
    <3>5. Agree(st)'
      BY <1>1, <1>3, <2>1, <3>1, <3>4 DEF Agree
    <3> QED BY <3>1, <3>5 DEF AgreeInv, SameQuestions
  <2> QED BY <2>1, <2>3, <2>4
<1>6. CASE AsksNext
  <2>1. PICK a \in Answer(AskOf(Here)) :
           /\ Asks(AskOf(Here), Head(Todo), NumOf(Here), a)
           /\ \/ a \in Final /\ \E open \in BOOLEAN : End(OutcomeOf(Here, a), open)
              \/ a \notin Final /\ GoesOn /\ Here' = After(Here, a)
    BY <1>6, Zenon DEF AsksNext
  <2>2. Todo # <<>> /\ Head(Todo) \in Attempt /\ (Head(Todo).kind = "PROVIDER" => PublicKey)
    BY <1>6, TodoOf DEF AsksNext
  <2> DEFINE q == QuestionOf(Here, a)
  <2>3. q = [ask |-> AskOf(Here), about |-> Head(Todo), i |-> NumOf(Here), answer |-> a]
    BY HereFields, Zenon DEF QuestionOf
  <2>4. asked' = Append(asked, q)
    BY <1>2, <2>1, <2>3, LogGrows
  <2>5. q \in Question
    <3>1. NumOf(Here) \in Nat
      BY NumberTypes DEF TypeInv, NumOf, Here, Place
    <3>2. [ask |-> AskOf(Here), about |-> Head(Todo), i |-> NumOf(Here), answer |-> a] \in Question
      BY <2>2, <3>1, AskIs, QuestionType
    <3> QED BY <2>3, <3>2, Zenon
  <2>6. q.answer = a
    BY <2>3
  <2>7. Here = st[Len(asked)] /\ (~PublicKey => NoProvider(Todo)) /\ Here.todo # <<>>
    BY <1>1, <2>2, PositionHere, HereFields, Zenon
  <2>8. PICK st2 : /\ History(st2, Append(asked, q), Start)
                   /\ st2[Len(asked)] = Here /\ st2[Len(asked) + 1] = After(Here, a)
    <3>1. /\ History(st, asked, Start) /\ Here = st[Len(asked)] /\ Here.todo # <<>>
          /\ q \in Question /\ asked \in Seq(Question)
      BY <1>1, <1>2, <2>5, <2>7, Zenon
    <3> QED BY ONLY <3>1, HistoryGrows
  <2>9. Len(asked') = Len(asked) + 1 /\ Len(asked') - 1 = Len(asked) /\ asked' # <<>> /\ LastOf(asked') = q
    <3> HIDE DEF q
    <3> QED BY <1>2, <2>4, <2>5, AppendProperties, LenProperties DEF LastOf
  <2>10. CASE a \in Final /\ \E open \in BOOLEAN : End(OutcomeOf(Here, a), open)
    <3>1. result'["blocking"] = OutcomeOf(Here, a)
      BY <1>2, <2>10, EndEffect, Zenon
    <3>2. OutcomeOf(Here, a) # "interrupted"
      BY DEF OutcomeOf, AuthenticatedWith
    <3>3. phase' = "ready"
      BY <2>10, <3>2 DEF End
    <3>4. BlockingEnd(st2, asked', result'["blocking"])
      BY <2>6, <2>8, <2>9, <2>10, <3>1, Zenon DEF BlockingEnd
    <3>5. Agree(st2)'
      BY <1>3, <2>4, <2>8, <3>3, <3>4 DEF Agree
    <3> QED BY <3>3, <3>5 DEF AgreeInv, SameQuestions
  <2>11. CASE a \notin Final /\ GoesOn /\ Here' = After(Here, a)
    <3>1. phase' = "blocking"
      BY <2>11 DEF GoesOn
    <3>2. Position(Here', Len(asked'), Here', auth_methods')
      BY <1>2, <2>2, <2>7, <2>11, PositionAsks
    <3>3. Agree(st2)'
      BY <1>3, <2>4, <2>8, <2>9, <2>11, <3>1, <3>2 DEF Agree
    <3> QED BY <3>1, <3>3 DEF AgreeInv, SameQuestions
  <2> QED BY <2>1, <2>10, <2>11
<1> QED BY <1>4, <1>5, <1>6 DEF DriverStep

\* A step of the poll operation repeats a step of the history: it is at the place
\* connect() was at, asks what connect() asked, is given the same answer, and so goes
\* where connect() went.
LEMMA PollingAgrees ==
  ASSUME TypeInv, FinalInv, AgreeInv, DriverStep, phase = "polling"
  PROVE  AgreeInv'
<1>1. PICK st : /\ History(st, asked, Start) /\ BlockingEnd(st, asked, result["blocking"])
                /\ Follows(tried, asked) /\ Position(st[Len(tried)], Len(tried), Here, auth_methods)
  BY Zenon DEF AgreeInv, Agree
<1>2. /\ UNCHANGED <<settingVars, auth_methods>> /\ asked \in Seq(Question) /\ tried \in Seq(Question)
      /\ phase \in Driver
  BY DEF DriverStep, TypeInv, TypeOK
<1>3. Start' = Start
  BY <1>2, PlanStays DEF Start
<1>4. NoFinal(tried) /\ FinalsLast(asked)
  <2>1. Log = tried
    BY DEF Log
  <2> QED BY <1>2, <2>1, Zenon DEF FinalInv
<1>5. /\ st[Len(tried)].todo # <<>> => Len(tried) + 1 \in 1..Len(asked) /\ (Len(tried) + 1) - 1 = Len(tried)
      /\ st[Len(tried)].todo = <<>> => tried = asked /\ result["blocking"] = "failed"
  BY <1>1, <1>2, <1>4, Replays
<1>6. result["polling"] = "none"
  BY DEF TypeInv, IdleInv
<1>7. CASE Skips
  <2>1. UNCHANGED <<phase, asked, tried, result>>
    BY <1>7 DEF Skips, GoesOn
  <2>2. Position(st[Len(tried)], Len(tried), Here', auth_methods')
    BY <1>1, <1>2, <1>7, PositionSkips
  <2>3. Agree(st)'
    BY <1>1, <1>3, <2>1, <2>2 DEF Agree
  <2>4. SameQuestions'
    BY <1>1, <1>6, <2>1 DEF SameQuestions, Follows
  <2> QED BY <2>3, <2>4, Zenon DEF AgreeInv
<1>8. CASE Stops
  <2>1. PICK outcome \in {"failed", "interrupted"} :
           (outcome = "failed" => Todo = <<>>) /\ End(outcome, FALSE) /\ UNCHANGED <<asked, tried>>
    BY <1>8 DEF Stops
  <2>2. /\ result'["polling"] = outcome /\ result'["blocking"] = result["blocking"]
        /\ phase' = "done"
    <3>1. "blocking" \in Driver \ {phase}
      BY DEF Driver
    <3>2. phase' = "done"
      BY <2>1 DEF End
    <3> QED BY <1>2, <2>1, <3>1, <3>2, EndEffect
  <2>3. outcome = "failed" => tried = asked /\ result["blocking"] = "failed"
    <3>1. outcome = "failed" => Here = st[Len(tried)] /\ Todo = <<>>
      BY <1>1, <2>1, PositionHere
    <3> QED BY <1>5, <3>1, HereFields, Zenon
  <2>4. SameQuestions'
    BY <1>1, <2>1, <2>2, <2>3 DEF SameQuestions, Follows
  <2> QED BY <2>2, <2>4 DEF AgreeInv
<1>9. CASE AsksNext
  <2>1. PICK a \in Answer(AskOf(Here)) :
           /\ Asks(AskOf(Here), Head(Todo), NumOf(Here), a)
           /\ \/ a \in Final /\ \E open \in BOOLEAN : End(OutcomeOf(Here, a), open)
              \/ a \notin Final /\ GoesOn /\ Here' = After(Here, a)
    BY <1>9, Zenon DEF AsksNext
  <2>2. Todo # <<>> /\ Head(Todo) \in Attempt /\ (Head(Todo).kind = "PROVIDER" => PublicKey)
    BY <1>9, TodoOf DEF AsksNext
  <2>3. Here = st[Len(tried)] /\ (~PublicKey => NoProvider(Todo)) /\ Here.todo # <<>>
    BY <1>1, <2>2, PositionHere, HereFields, Zenon
  <2> DEFINE n == Len(tried) + 1
             q == QuestionOf(Here, a)
  <2>4. n \in 1..Len(asked) /\ n - 1 = Len(tried)
    BY <1>5, <2>3, Zenon
  <2>5. /\ asked[n] = QuestionOf(Here, asked[n].answer)
        /\ asked[n].answer \notin Final => st[n] = After(Here, asked[n].answer)
    BY <1>1, <2>3, <2>4, Zenon DEF History
  <2>6. q = [ask |-> AskOf(Here), about |-> Head(Todo), i |-> NumOf(Here), answer |-> a]
    BY HereFields, Zenon DEF QuestionOf
  <2>7. a = asked[n].answer
    <3> DEFINE x == asked[n].answer
               question == [ask |-> AskOf(Here), about |-> Head(Todo), i |-> NumOf(Here), answer |-> a]
    <3>1. [question EXCEPT !.answer = x]
            = [ask |-> AskOf(Here), about |-> Head(Todo), i |-> NumOf(Here), answer |-> x]
      OBVIOUS
    <3>2. QuestionOf(Here, x) = [ask |-> AskOf(Here), about |-> Head(Todo), i |-> NumOf(Here), answer |-> x]
      BY HereFields, Zenon DEF QuestionOf
    <3>3. n <= Len(asked) /\ asked[n] = [question EXCEPT !.answer = asked[n].answer]
      <4>1. n <= Len(asked)
        BY <1>2, <2>4
      <4> QED BY <2>5, <3>1, <3>2, <4>1, Zenon
    <3> QED BY <2>1, <3>3, Zenon DEF Asks
  <2>8. tried' = Append(tried, q) /\ asked' = asked
    BY <1>2, <2>1, <2>6, LogGrows
  <2>9. asked[n] = q /\ q.answer = a /\ q \in Question
    <3>1. asked[n] \in Question
      BY <1>2, <2>4
    <3> QED BY <2>5, <2>6, <2>7, <3>1
  <2> HIDE DEF q
  <2>10. /\ Len(tried') = n /\ tried' \in Seq(Question)
         /\ tried'[n] = q /\ \A m \in 1..Len(tried) : tried'[m] = tried[m]
    BY <1>2, <2>8, <2>9, AppendProperties
  <2>11. Follows(tried', asked)
    <3>1. n <= Len(asked)
      BY <1>2, <2>4
    <3>2. ASSUME NEW m \in 1..n PROVE tried'[m] = asked[m]
      <4>1. CASE m = n
        BY <2>9, <2>10, <4>1, Zenon
      <4>2. CASE m # n
        <5>1. m \in 1..Len(tried)
          BY <1>2, <4>2
        <5> QED BY <1>1, <2>10, <5>1 DEF Follows
      <4> QED BY <4>1, <4>2
    <3> QED BY <2>10, <3>1, <3>2, Zenon DEF Follows
  <2>12. CASE a \in Final /\ \E open \in BOOLEAN : End(OutcomeOf(Here, a), open)
    <3>1. /\ result'["polling"] = OutcomeOf(Here, a) /\ result'["blocking"] = result["blocking"]
          /\ phase' = "done"
      <4>1. "blocking" \in Driver \ {phase}
        BY DEF Driver
      <4>2. phase' = "done"
        BY <2>12 DEF End
      <4> QED BY <1>2, <2>12, <4>1, <4>2, EndEffect, Zenon
    <3>2. n = Len(asked)
      BY <1>4, <2>4, <2>9, <2>12, Zenon DEF FinalsLast
    <3>3. tried' = asked
      BY <1>2, <2>10, <2>11, <3>2, FollowsAll
    <3>4. result["blocking"] = OutcomeOf(Here, a)
      <4>1. ~NoFinal(asked)
        BY <2>4, <2>9, <2>12, Zenon DEF NoFinal
      <4>2. LastOf(asked).answer = a /\ st[Len(asked) - 1] = Here
        BY <2>3, <2>4, <2>9, <3>2, Zenon DEF LastOf
      <4> QED BY <1>1, <4>1, <4>2, Zenon DEF BlockingEnd
    <3>5. SameQuestions'
      BY <2>8, <2>11, <3>1, <3>3, <3>4 DEF SameQuestions, Follows
    <3> QED BY <3>1, <3>5 DEF AgreeInv
  <2>13. CASE a \notin Final /\ GoesOn /\ Here' = After(Here, a)
    <3>1. phase' = "polling" /\ UNCHANGED result
      BY <2>13 DEF GoesOn
    <3>2. Position(Here', n, Here', auth_methods')
      BY <1>2, <2>2, <2>3, <2>13, PositionAsks
    <3>3. st[n] = Here'
      BY <2>5, <2>7, <2>13, Zenon
    <3>4. Agree(st)'
      BY <1>1, <1>3, <2>8, <2>10, <2>11, <3>1, <3>2, <3>3 DEF Agree
    <3>5. SameQuestions'
      BY <1>6, <2>8, <2>11, <3>1 DEF SameQuestions, Follows
    <3> QED BY <3>4, <3>5, Zenon DEF AgreeInv
  <2> QED BY <2>1, <2>12, <2>13
<1> QED BY <1>7, <1>8, <1>9 DEF DriverStep

\* Every step keeps the agreement.
LEMMA AgreeStep ==
  ASSUME TypeInv, FinalInv, AgreeInv, [Next]_vars
  PROVE  AgreeInv'
<1>1. CASE Set
  <2>1. phase' = "setup"
    BY <1>1 DEF Set
  <2> QED BY <2>1 DEF AgreeInv, SameQuestions
<1>2. CASE UNCHANGED vars
  <2>1. UNCHANGED <<settingVars, auth_methods, phase, asked, tried, result>>
    BY <1>2 DEF vars, outcomeVars
  <2>2. Start' = Start
    BY <2>1, PlanStays DEF Start
  <2>3. Here' = Here
    BY <1>2, Zenon DEF vars, driverVars, Here, Todo
  <2>4. \A st : Agree(st) => Agree(st)'
    BY <2>1, <2>2, <2>3 DEF Agree
  <2>5. SameQuestions'
    BY <2>1, Zenon DEF AgreeInv, SameQuestions
  <2> QED BY <2>1, <2>4, <2>5, Zenon DEF AgreeInv
<1>3. CASE DriverStep
  <2>1. phase = "blocking" \/ phase = "polling"
    BY <1>3 DEF DriverStep, Driver
  <2> QED BY <1>3, <2>1, BlockingAgrees, PollingAgrees
<1> QED BY <1>1, <1>2, <1>3, SshConnectAgrees, HandleAuthListAgrees, Drives

-----------------------------------------------------------------------------
IInv == TypeInv /\ CheckInv /\ FinalInv /\ OrderInv /\ AgreeInv

\* The inductive invariant: what the two drivers have asked, and have still to ask,
\* on every path through sshConnectUnlocked() and the poll operation.
THEOREM Inductive == Spec => []IInv
<1>1. Init => IInv
  BY TypeInit, CheckInit, FinalInit, OrderInit, AgreeInit DEF IInv
<1>2. IInv /\ [Next]_vars => IInv'
  <2> SUFFICES ASSUME IInv, [Next]_vars PROVE IInv'
    OBVIOUS
  <2>1. TypeInv'
    BY TypeStep, IdleStep DEF IInv, TypeInv
  <2> QED BY <2>1, CheckStep, FinalStep, OrderStep, AgreeStep DEF IInv
<1> QED BY <1>1, <1>2, PTL DEF Spec

\* For the same settings, methods and answers the poll operation asks the questions
\* that connect() asks, in its order, and ends with its result, for plans, candidates
\* and identities of any number.
THEOREM BothDriversAgree == Spec => []DriversAgree
<1>1. IInv => DriversAgree
  <2> SUFFICES ASSUME IInv PROVE DriversAgree
    OBVIOUS
  <2>1. SameQuestions
    BY DEF IInv, AgreeInv
  <2>2. LoginIsLast
    <3> SUFFICES ASSUME NEW d \in Driver,
                        NEW s, s = IF d = "blocking" THEN asked ELSE tried
                 PROVE  /\ \A n \in 1..Len(s) : s[n].answer = "ok" => n = Len(s)
                        /\ result[d] # "none" =>
                             (result[d] \in {"failed", "interrupted"} <=> (s = <<>> \/ LastOf(s).answer # "ok"))
                        /\ result[d] = "failed" /\ session[d] => LastOf(s).answer = "error"
      BY Zenon DEF LoginIsLast
    <3>1. FinalsLast(s) /\ EndedBy(result[d], session[d], s)
      <4>1. CASE d = "blocking" BY <4>1, Zenon DEF IInv, FinalInv
      <4>2. CASE d = "polling"
        <5>1. s = tried
          BY <4>2
        <5> QED BY <4>2, <5>1, Zenon DEF IInv, FinalInv
      <4> QED BY <4>1, <4>2 DEF Driver
    <3>2. "ok" \in Final
      BY DEF Final
    <3> QED BY <3>1, <3>2, Zenon DEF FinalsLast, EndedBy
  <2> QED BY <2>1, <2>2 DEF DriversAgree
<1> QED BY <1>1, Inductive, PTL

\* With an identity provider, the agent and the key files of the process user are
\* offered only if the fallback policy allows them, and after everything of the
\* provider and of the client's own settings but passwords.
THEOREM ProcessIdentitiesGuarded == Spec => []ProcessIdentityGuarded
<1>1. IInv => ProcessIdentityGuarded
  <2> SUFFICES ASSUME IInv, client_identity_provider, NEW s \in {asked, tried}
               PROVE  \A n \in 1..Len(s) :
                        Offers(s, n) /\ s[n].about.from = "process" =>
                          /\ IF s[n].about.kind = "AGENT" THEN FallbackAgent ELSE FallbackDefaultKeys
                          /\ \A m \in (n + 1)..Len(s) :
                               s[m].about.from = "process" \/ s[m].about.kind \in {"PASSWORD", "KEYBOARD_INTERACTIVE"}
    BY Zenon DEF ProcessIdentityGuarded
  <2>1. GuardedLog(s, FallbackAgent, FallbackDefaultKeys)
    BY Zenon DEF IInv, OrderInv
  <2> QED BY <2>1, Zenon DEF GuardedLog, Offers, OffersProcess, Late
<1> QED BY <1>1, Inductive, PTL

\* No key file is read by libssh2 unless the question just before was the sandbox's
\* about this file, and the answer was to allow it.
THEOREM KeysCheckedBeforeRead == Spec => []CheckedBeforeRead
<1>1. IInv => CheckedBeforeRead
  BY Zenon DEF IInv, CheckInv, CheckedLog, CheckedBeforeRead
<1> QED BY <1>1, Inductive, PTL

=============================================================================
