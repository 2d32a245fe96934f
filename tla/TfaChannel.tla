----------------------------- MODULE TfaChannel -----------------------------
(***************************************************************************)
(* The bridge between a login that needs a two-factor code and the web     *)
(* page that collects it: `TfaChannel` in src/src/apple.rs, the callback   *)
(* of `open_session_web` that waits on it, and the two HTTP handlers       *)
(* (login_code and login_resend of src/src/web.rs) that answer it.         *)
(*                                                                         *)
(* Every call of the callback is one PROMPT with a tokio oneshot of its    *)
(* own.  The callback runs on the login's thread, the handlers on the      *)
(* threads of the web server, and they share only `tx` (a Mutex), `asking` *)
(* (an atomic) and `last_error` (a Mutex); the actions below are the       *)
(* stretches between two accesses to them.                                 *)
(***************************************************************************)
EXTENDS Naturals, Sequences

CONSTANTS
  Posters,      \* the HTTP requests that may carry an answer at the same time
  MaxPrompts    \* bound on the prompts of a behaviour (Apple's loop has its own)

ASSUME MaxPromptsAssumption == MaxPrompts \in Nat

Prompts == 1..MaxPrompts
NoPrompt == 0

Answers == {"code", "resend"}              \* TfaAnswer, without the digits
Results == {"none", "abort"} \union Answers \* what the callback hands to the login
CodeErrors == {"none", "wrong"}            \* why the code before was refused, if it was

\* Where the callback stands.  "expired" is the short stretch in which the
\* deadline has been seen and the receiver has not been dropped yet.
CallbackStates ==
  {"away", "created", "offered", "waiting", "expired", "answered", "hushed"}

\* The receiver's half of a oneshot: an answer in it was sent and not read.
RxStates == {"unborn", "open", "read", "dropped"} \union Answers

VARIABLES
  callback,   \* where the login's callback stands
  prompt,     \* the prompt of the current (or last) call, 0 before the first
  asking,     \* TfaChannel.asking
  lastError,  \* TfaChannel.last_error
  tx,         \* TfaChannel.tx: the prompt whose sender it holds, or NoPrompt
  rx,         \* each prompt's receiver
  poster,     \* each request: the sender it took, if any, and its answer
  \* history, read by the properties only
  reason,     \* the error each prompt was opened with
  replied,    \* for each prompt, the answers acknowledged with 200
  got         \* for each prompt, what the callback returned

loginVars == <<callback, prompt, asking, lastError, reason, got>>
tfaVars == <<callback, prompt, asking, lastError, tx, rx, poster, reason, replied, got>>

IdlePoster == [holds |-> NoPrompt, answer |-> "code"]

TfaInit ==
  /\ callback = "away"
  /\ prompt = NoPrompt
  /\ asking = FALSE
  /\ lastError = "none"
  /\ tx = NoPrompt
  /\ rx = [i \in Prompts |-> "unborn"]
  /\ poster = [p \in Posters |-> IdlePoster]
  /\ reason = [i \in Prompts |-> "none"]
  /\ replied = [i \in Prompts |-> <<>>]
  /\ got = [i \in Prompts |-> "none"]

-----------------------------------------------------------------------------
(* The callback, on the login's thread                                     *)

\* Mutation: the page is told before there is a sender to answer with.
OpenPromptAskingFirst(err) ==
  /\ callback = "away"
  /\ prompt < MaxPrompts
  /\ callback' = "created"
  /\ prompt' = prompt + 1
  /\ asking' = TRUE
  /\ rx' = [rx EXCEPT ![prompt + 1] = "open"]
  /\ lastError' = err
  /\ reason' = [reason EXCEPT ![prompt + 1] = err]
  /\ UNCHANGED <<tx, poster, replied, got>>

\* A oneshot of its own, and why the code before was refused.
OpenPrompt(err) ==
  /\ callback = "away"
  /\ prompt < MaxPrompts
  /\ callback' = "created"
  /\ prompt' = prompt + 1
  /\ rx' = [rx EXCEPT ![prompt + 1] = "open"]
  /\ lastError' = err
  /\ reason' = [reason EXCEPT ![prompt + 1] = err]
  /\ UNCHANGED <<asking, tx, poster, replied, got>>

OfferSender ==
  /\ callback = "created"
  /\ callback' = "offered"
  /\ tx' = prompt
  /\ UNCHANGED <<prompt, asking, lastError, rx, poster, reason, replied, got>>

RaiseAsking ==
  /\ callback = "offered"
  /\ callback' = "waiting"
  /\ asking' = TRUE
  /\ UNCHANGED <<prompt, lastError, tx, rx, poster, reason, replied, got>>

\* Mutation: the callback reads without waiting for the sender.
ReadAnswerUnsent ==
  /\ callback = "waiting"
  /\ callback' = "answered"
  /\ rx' = [rx EXCEPT ![prompt] = "read"]
  /\ got' = [got EXCEPT ![prompt] = rx[prompt]]
  /\ UNCHANGED <<prompt, asking, lastError, tx, poster, reason, replied>>

\* The await ends with what was sent.
ReadAnswer ==
  /\ callback = "waiting"
  /\ rx[prompt] \in Answers
  /\ callback' = "answered"
  /\ rx' = [rx EXCEPT ![prompt] = "read"]
  /\ got' = [got EXCEPT ![prompt] = rx[prompt]]
  /\ UNCHANGED <<prompt, asking, lastError, tx, poster, reason, replied>>

\* Mutation: no deadline.
ExpireNever == FALSE /\ UNCHANGED tfaVars

\* The poll finds the receiver empty and the 300 seconds gone.
Expire ==
  /\ callback = "waiting"
  /\ rx[prompt] = "open"
  /\ callback' = "expired"
  /\ UNCHANGED <<prompt, asking, lastError, tx, rx, poster, reason, replied, got>>

\* Then the Timeout future is dropped, and the receiver in it.
DropReceiver ==
  /\ callback = "expired"
  /\ callback' = "answered"
  /\ rx' = [rx EXCEPT ![prompt] = "dropped"]
  /\ got' = [got EXCEPT ![prompt] = "abort"]
  /\ UNCHANGED <<prompt, asking, lastError, tx, poster, reason, replied>>

LowerAsking ==
  /\ callback = "answered"
  /\ callback' = "hushed"
  /\ asking' = FALSE
  /\ UNCHANGED <<prompt, lastError, tx, rx, poster, reason, replied, got>>

\* Takes back the sender nobody used, and returns got[prompt] to the login.
ReturnFromCallback ==
  /\ callback = "hushed"
  /\ callback' = "away"
  /\ tx' = NoPrompt
  /\ UNCHANGED <<prompt, asking, lastError, rx, poster, reason, replied, got>>

\* The steps of a call that is under way.
CallbackStep ==
  \/ OfferSender
  \/ RaiseAsking
  \/ ReadAnswer
  \/ Expire
  \/ DropReceiver
  \/ LowerAsking
  \/ ReturnFromCallback

-----------------------------------------------------------------------------
(* answer(), on a web server's thread                                      *)

\* `self.tx.lock().unwrap().take()`.  Without a sender the request is refused
\* here: nothing changes, and it has no action.
TakeSender(p, ans) ==
  /\ poster[p].holds = NoPrompt
  /\ tx # NoPrompt
  /\ poster' = [poster EXCEPT ![p] = [holds |-> tx, answer |-> ans]]
  /\ tx' = NoPrompt
  /\ UNCHANGED <<callback, prompt, asking, lastError, rx, reason, replied, got>>

\* Mutation: a queue in place of the oneshot, whose sender serves again.
SendAnswerToQueue(p) ==
  LET i == poster[p].holds IN
  /\ i # NoPrompt
  /\ poster' = [poster EXCEPT ![p] = IdlePoster]
  /\ tx' = i
  /\ rx' = [rx EXCEPT ![i] = poster[p].answer]
  /\ replied' = [replied EXCEPT ![i] = Append(@, poster[p].answer)]
  /\ UNCHANGED <<callback, prompt, asking, lastError, reason, got>>

\* Mutation: 200 when there was a sender, whatever became of the answer.
SendAnswerUnchecked(p) ==
  LET i == poster[p].holds IN
  /\ i # NoPrompt
  /\ poster' = [poster EXCEPT ![p] = IdlePoster]
  /\ rx' = IF rx[i] = "open" THEN [rx EXCEPT ![i] = poster[p].answer] ELSE rx
  /\ replied' = [replied EXCEPT ![i] = Append(@, poster[p].answer)]
  /\ UNCHANGED <<callback, prompt, asking, lastError, tx, reason, got>>

\* `t.send(answer).is_ok()`: 200 when the receiver is still there, else 409.
SendAnswer(p) ==
  LET i == poster[p].holds IN
  /\ i # NoPrompt
  /\ poster' = [poster EXCEPT ![p] = IdlePoster]
  /\ IF rx[i] = "open"
     THEN /\ rx' = [rx EXCEPT ![i] = poster[p].answer]
          /\ replied' = [replied EXCEPT ![i] = Append(@, poster[p].answer)]
     ELSE UNCHANGED <<rx, replied>>
  /\ UNCHANGED <<callback, prompt, asking, lastError, tx, reason, got>>

PosterStep ==
  \E p \in Posters : SendAnswer(p) \/ \E ans \in Answers : TakeSender(p, ans)

-----------------------------------------------------------------------------
TfaNext ==
  \/ \E err \in CodeErrors : OpenPrompt(err)
  \/ CallbackStep
  \/ PosterStep

\* The deadline is a timer and the rest are a few instructions of a running
\* thread: a call that is under way goes on.
TfaSpec == TfaInit /\ [][TfaNext]_tfaVars /\ WF_tfaVars(CallbackStep)

-----------------------------------------------------------------------------
(* Properties                                                              *)

TfaTypeOK ==
  /\ callback \in CallbackStates
  /\ prompt \in 0..MaxPrompts
  /\ asking \in BOOLEAN
  /\ lastError \in CodeErrors
  /\ tx \in 0..MaxPrompts
  /\ rx \in [Prompts -> RxStates]
  /\ poster \in [Posters -> [holds : 0..MaxPrompts, answer : Answers]]
  /\ reason \in [Prompts -> CodeErrors]
  /\ replied \in [Prompts -> Seq(Answers)]
  /\ got \in [Prompts -> Results]

\* A prompt is answered once: of several requests that post a code or ask to
\* resend it, at most one is told that its answer was delivered.
AnsweredOnce == \A i \in Prompts : Len(replied[i]) <= 1

\* What the login goes on with is what somebody was told had been delivered:
\* no prompt is answered by nobody, or with another request's answer.
UsedWasAcknowledged ==
  \A i \in Prompts : got[i] \in Answers => replied[i] = <<got[i]>>

\* No sender outlives its call: an answer meant for one prompt can only be
\* delivered to that prompt, and between two calls nobody is asked anything.
NoStaleSender ==
  /\ tx # NoPrompt => tx = prompt /\ callback \notin {"away", "created"}
  /\ callback = "away" => ~asking

\* While the page shows the field for the code, either the answer can still be
\* delivered or one has already been taken: the user never faces a field that
\* could never have worked (the callback stores the sender first).
AskingIsAnswerable ==
  asking =>
    \/ tx = prompt
    \/ \E p \in Posters : poster[p].holds = prompt
    \/ rx[prompt] # "open"

\* The page shows beside the field the error of this prompt, not of another.
AskingShowsItsReason == asking => lastError = reason[prompt]

\* Whatever the requests do, a prompt ends: the user answers or the deadline
\* passes, and the login gets its answer.
PromptEnds == \A i \in Prompts : asking /\ prompt = i ~> got[i] # "none" /\ ~asking

\* Every step of the threads is a step of the abstract prompt, or none at all:
\* one question at a time, one acknowledged answer each, closed exactly once;
\* and with the callback's fairness every question is closed.
Letter(i) == IF replied[i] = <<>> THEN "none" ELSE replied[i][1]

Abstract == INSTANCE OneAnswer WITH
  MaxQuestions <- MaxPrompts,
  question <- prompt,
  letter <- [i \in Prompts |-> Letter(i)],
  outcome <- got

ImplementsOneAnswer == Abstract!Spec

\* Why these hold: what was acknowledged and returned for a prompt follows the
\* state of its receiver, ...
Consistent(receiver, acknowledged, result) ==
  /\ receiver \in {"unborn", "open"} => acknowledged = <<>> /\ result = "none"
  /\ receiver \in Answers => acknowledged = <<receiver>> /\ result = "none"
  /\ receiver = "read" => result \in Answers /\ acknowledged = <<result>>
  /\ receiver = "dropped" =>
       /\ result = "abort"
       /\ acknowledged = <<>> \/ \E ans \in Answers : acknowledged = <<ans>>

PromptHistory ==
  \A i \in Prompts :
    /\ Consistent(rx[i], replied[i], got[i])
    /\ i > prompt => rx[i] = "unborn"
    /\ i < prompt => rx[i] \in {"read", "dropped"}

\* ... and where the sender of the current one is while the callback runs.
CallbackHistory ==
  /\ asking <=> callback \in {"waiting", "expired", "answered"}
  /\ callback = "away" => prompt = NoPrompt \/ rx[prompt] \in {"read", "dropped"}
  /\ callback # "away" => prompt # NoPrompt /\ lastError = reason[prompt]
  /\ callback = "created" =>
       rx[prompt] = "open" /\ \A p \in Posters : poster[p].holds < prompt
  /\ callback \in {"offered", "waiting", "expired"} =>
       /\ rx[prompt] \in {"open"} \union Answers
       /\ rx[prompt] = "open" => tx = prompt \/ \E p \in Posters : poster[p].holds = prompt
  /\ callback \in {"answered", "hushed"} => rx[prompt] \in {"read", "dropped"}
  /\ tx # NoPrompt => tx = prompt /\ callback \notin {"away", "created"}
  /\ \A p \in Posters : poster[p].holds <= prompt

TfaInv == TfaTypeOK /\ PromptHistory /\ CallbackHistory

\* "Consegna la risposta al login in attesa" (apple.rs:96): an answer that was
\* acknowledged is the one the login gets.  The code does not keep this: see
\* Expire, which leaves the receiver open for a moment.
AcknowledgedIsUsed ==
  \A i \in Prompts :
    replied[i] # <<>> /\ got[i] # "none" => got[i] = replied[i][1]

=============================================================================
