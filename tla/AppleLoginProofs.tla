-------------------------- MODULE AppleLoginProofs --------------------------
(***************************************************************************)
(* What the sign-in keeps, for every number of rounds, of prompts and of   *)
(* requests that answer them.                                              *)
(***************************************************************************)
EXTENDS AppleLogin, TfaChannelProofs

-----------------------------------------------------------------------------
(* The inductive invariant                                                 *)

\* The callback runs while the loop waits for it; nobody but the page has prompts.
CallbackIsTheLoops ==
  IF caller = "page"
  THEN /\ loop # "callback" => callback = "away"
       /\ loop = "callback" => prompt \in Prompts
  ELSE prompt = NoPrompt /\ callback = "away"

\* The history is of the prompts so far, the latest only when it is over.
Stamps ==
  /\ NoPrompt \in firsts
  /\ firsts \union sendings \union refusals \subseteq 0..prompt
  /\ caller = "page" /\ loop = "callback" => prompt \notin firsts \union refusals

\* Owed: a sign-in has begun, or the code has been asked for again, since the last prompt.
Owed(i) == i \in firsts \/ (i \in Prompts /\ got[i] = "resend")

\* Wherever the loop could ask next, what it owes has been sent or refused.
SentBeforeAsking ==
  caller = "page" /\ loop = "loop" /\ state \in Asks =>
    (Owed(prompt) => prompt \in sendings \union refusals)

\* The error that the next question will show is the last answer's.
ErrorIsLast ==
  caller = "page" /\ loop \in {"first", "loop"} => (loginError = "wrong" <=> prompt \in refusals)

LoginInv ==
  /\ CallbackIsTheLoops
  /\ Stamps
  /\ SentBeforeAsking
  /\ ErrorIsLast
  /\ ResendIsSent
  /\ ReasonIsOfTheAnswerBefore

SignInInv == TfaInv /\ AppleTypeOK /\ LoginInv

-----------------------------------------------------------------------------
(* The steps                                                               *)

LEMMA SignInInit == Init => SignInInv
<1> SUFFICES ASSUME Init PROVE SignInInv
  OBVIOUS
<1>1. TfaInv
  BY TfaInitInv DEF Init
<1>2. AppleTypeOK
  BY AttemptsAssumption, MaxPromptsAssumption
  DEF Init, AppleTypeOK, LoginStates, Numbers, CodeErrors, Outcomes, NoPrompt
<1>3. prompt = NoPrompt /\ callback = "away" /\ 0 \in 0..0
  BY DEF Init, TfaInit
<1>4. CallbackIsTheLoops /\ Stamps /\ SentBeforeAsking /\ ErrorIsLast
  BY <1>3 DEF Init, CallbackIsTheLoops, Stamps, SentBeforeAsking, ErrorIsLast, Asks, NoPrompt
<1>5. ResendIsSent /\ ReasonIsOfTheAnswerBefore
  BY <1>3, MaxPromptsAssumption DEF ResendIsSent, ReasonIsOfTheAnswerBefore, Prompts, NoPrompt
<1>6. QED
  BY <1>1, <1>2, <1>4, <1>5 DEF SignInInv, LoginInv

\* What the loop does without the channel keeps the channel's part of the history, ...
LEMMA PastKept ==
  ASSUME SignInInv, UNCHANGED <<prompt, reason, got>>,
         firsts \subseteq firsts', firsts' \subseteq firsts \union {prompt},
         \A i \in Nat : i # prompt =>
           (i \in sendings' <=> i \in sendings) /\ (i \in refusals' <=> i \in refusals)
  PROVE  ResendIsSent' /\ ReasonIsOfTheAnswerBefore'
<1>1. prompt \in Nat /\ prompt \in 0..MaxPrompts
  BY MaxPromptsAssumption DEF SignInInv, TfaInv, TfaTypeOK
<1>2. ResendIsSent'
  BY <1>1, MaxPromptsAssumption DEF SignInInv, LoginInv, ResendIsSent
<1>3. ReasonIsOfTheAnswerBefore'
  BY <1>1, MaxPromptsAssumption DEF SignInInv, LoginInv, ReasonIsOfTheAnswerBefore, Prompts
<1>4. QED
  BY <1>2, <1>3

LEMMA ChannelKept ==
  ASSUME TfaInv, UNCHANGED tfaVars
  PROVE  TfaInv'
  BY TfaStepInv

\* ... and so for a round that does not ask: it ends with an error only where
\* it has been refused, and in a state that asks only with something sent.
LEMMA RoundStep ==
  ASSUME SignInInv, UNCHANGED <<tfaVars, caller, firsts>>, AppleTypeOK',
         loop # "callback", loop' # "callback",
         sendings' \in {sendings, sendings \union {prompt}},
         \/ refusals' = refusals /\ loginError' = loginError
         \/ refusals' = refusals \union {prompt} /\ loginError' = "wrong",
         loop' = "loop" => loop \in {"first", "loop"},
         loop' = "first" => loop = "first",
         loop' = "loop" /\ state' \in Asks => prompt \in sendings' \union refusals'
  PROVE  SignInInv'
<1>1. TfaInv'
  BY ChannelKept DEF SignInInv
<1>2. UNCHANGED <<callback, prompt, reason, got>>
  BY DEF tfaVars
<1>3. CallbackIsTheLoops'
  BY <1>2 DEF SignInInv, LoginInv, CallbackIsTheLoops
<1>4. Stamps'
  <2>1. prompt \in 0..prompt
    BY MaxPromptsAssumption DEF SignInInv, TfaInv, TfaTypeOK
  <2>2. QED
    BY <1>2, <2>1 DEF SignInInv, LoginInv, Stamps
<1>5. SentBeforeAsking'
  BY <1>2 DEF SentBeforeAsking
<1>6. ErrorIsLast'
  BY <1>2 DEF SignInInv, LoginInv, ErrorIsLast
<1>7. ResendIsSent' /\ ReasonIsOfTheAnswerBefore'
  BY <1>2, PastKept
<1>8. QED
  BY <1>1, <1>3, <1>4, <1>5, <1>6, <1>7 DEF SignInInv, LoginInv

LEMMA RoundTypes ==
  ASSUME SignInInv, NEW s, Round(s)
  PROVE  attempts' \in 0..MaxAttempts /\ loop = "loop" /\ state = s
  BY AttemptsAssumption DEF SignInInv, AppleTypeOK, Round

LEMMA PromptType ==
  ASSUME SignInInv
  PROVE  prompt \in 0..MaxPrompts
  BY DEF SignInInv, TfaInv, TfaTypeOK

LEMMA LoopSteps ==
  ASSUME SignInInv, LoopStep, ~ Ask
  PROVE  SignInInv'
<1> USE PromptType, MaxPromptsAssumption, AttemptsAssumption
<1>0. AppleTypeOK /\ SentBeforeAsking
  BY DEF SignInInv, LoginInv
<1>1. CASE TooManyAttempts
  <2>1. AppleTypeOK'
    BY <1>0, <1>1 DEF TooManyAttempts, Over, AppleTypeOK, Outcomes
  <2>2. QED
    BY <1>1, <2>1, RoundStep DEF TooManyAttempts, Over
<1>2. CASE Password
  <2>1. loop \in {"first", "loop"} /\ attempts' \in 0..MaxAttempts
    BY <1>0, <1>2, RoundTypes DEF Password, AppleTypeOK
  <2>2. AppleTypeOK'
    BY <1>0, <1>2, <2>1 DEF Password, Over, AppleTypeOK, Outcomes, LoginStates, Numbers
  <2>3. loop' \in {"loop", "over"} /\ (loop' = "loop" => state' \notin Asks)
    BY <1>2 DEF Password, Over, Asks, DeviceCode, SmsCode
  <2>4. QED
    BY <1>2, <2>1, <2>2, <2>3, RoundStep DEF Password
<1>3. CASE Succeed
  <2>1. AppleTypeOK' /\ loop = "loop"
    BY <1>0, <1>3, RoundTypes DEF Succeed, Over, AppleTypeOK, Outcomes
  <2>2. QED
    BY <1>3, <2>1, RoundStep DEF Succeed, Over
<1>4. CASE ExtraStep
  <2>1. attempts' \in 0..MaxAttempts /\ loop = "loop" /\ state = "NeedsExtraStep"
    BY <1>4, RoundTypes DEF ExtraStep
  <2>2. AppleTypeOK'
    BY <1>0, <1>4, <2>1 DEF ExtraStep, Over, AppleTypeOK, Outcomes, LoginStates
  <2>3. loop' \in {"loop", "over"} /\ state' \notin Asks
    BY <1>4, <2>1 DEF ExtraStep, Over, Asks, DeviceCode, SmsCode
  <2>4. QED
    BY <1>4, <2>1, <2>2, <2>3, RoundStep DEF ExtraStep
<1>5. CASE SendingFails
  <2>1. AppleTypeOK' /\ loop = "loop"
    BY <1>0, <1>5, RoundTypes DEF SendingFails, Over, AppleTypeOK, Outcomes
  <2>2. QED
    BY <1>5, <2>1, RoundStep DEF SendingFails, Over
<1>6. CASE SendToDevices
  <2>1. AppleTypeOK' /\ loop = "loop"
    BY <1>0, <1>6, RoundTypes DEF SendToDevices, AppleTypeOK, LoginStates, Asks
  <2>2. QED
    BY <1>6, <2>1, RoundStep DEF SendToDevices
<1>7. CASE SendSms
  <2>1. AppleTypeOK' /\ loop = "loop"
    BY <1>0, <1>7, RoundTypes DEF SendSms, AppleTypeOK, LoginStates, Asks
  <2>2. QED
    BY <1>7, <2>1, RoundStep DEF SendSms
<1>8. CASE SmsRefused
  <2>1. AppleTypeOK' /\ loop = "loop"
    BY <1>0, <1>8, RoundTypes DEF SmsRefused, AppleTypeOK, LoginStates, Asks, CodeErrors
  <2>2. QED
    BY <1>8, <2>1, RoundStep DEF SmsRefused
<1>9. QED
  BY <1>1, <1>2, <1>3, <1>4, <1>5, <1>6, <1>7, <1>8 DEF LoopStep

\* A question of the page is put after what it owes, with the last answer's error.
LEMMA AskStep ==
  ASSUME SignInInv, Ask
  PROVE  SignInInv'
<1> USE MaxPromptsAssumption DEF NoPrompt
<1>1. PICK s \in Asks : Round(s)
  BY DEF Ask
<1>2. attempts' \in 0..MaxAttempts /\ loop = "loop" /\ state \in Asks /\ loop' = "callback"
  BY <1>1, RoundTypes DEF Ask
<1>3. UNCHANGED <<caller, state, number, loginError, outcome, firsts, sendings, refusals>>
  BY DEF Ask
<1>4. AppleTypeOK'
  BY <1>2, <1>3 DEF SignInInv, AppleTypeOK
<1>5. prompt \in 0..MaxPrompts
  BY PromptType
<1>6. CASE caller = "page"
  <2>1. OpenPrompt(loginError) /\ loginError \in CodeErrors
    BY <1>6 DEF Ask, SignInInv, AppleTypeOK
  <2>2. TfaInv'
    BY <2>1, TfaStepInv DEF TfaNext, SignInInv
  <2>3. /\ prompt' = prompt + 1 /\ prompt + 1 \in Prompts
        /\ reason' = [reason EXCEPT ![prompt + 1] = loginError]
        /\ got' = got
    BY <1>5, <2>1 DEF OpenPrompt, Prompts
  <2>4. CallbackIsTheLoops'
    BY <1>2, <1>3, <1>6, <2>3 DEF CallbackIsTheLoops
  <2>5. Stamps /\ prompt + 1 \notin 0..prompt /\ 0..prompt \subseteq 0..(prompt + 1)
    BY <1>5 DEF SignInInv, LoginInv
  <2>6. Stamps'
    BY <1>3, <2>3, <2>5 DEF Stamps
  <2>7. SentBeforeAsking' /\ ErrorIsLast'
    BY <1>2 DEF SentBeforeAsking, ErrorIsLast
  <2>8. ResendIsSent'
    <3> SUFFICES ASSUME NEW i \in 0..MaxPrompts, i < prompt', i \in firsts \/ got[i] = "resend"
                 PROVE  i \in sendings \union refusals
      BY <1>3, <2>3 DEF ResendIsSent
    <3>1. CASE i < prompt
      BY <3>1 DEF SignInInv, LoginInv, ResendIsSent
    <3>2. CASE i = prompt
      <4>1. Owed(prompt)
        BY <2>5, <3>2, <1>5 DEF Owed, Stamps, Prompts
      <4>2. QED
        BY <1>2, <1>6, <3>2, <4>1 DEF SignInInv, LoginInv, SentBeforeAsking
    <3>3. QED
      BY <1>5, <2>3, <3>1, <3>2
  <2>9. ReasonIsOfTheAnswerBefore'
    <3> SUFFICES ASSUME NEW i \in Prompts, i <= prompt'
                 PROVE  reason'[i] = "wrong" <=> i - 1 \in refusals
      BY <1>3 DEF ReasonIsOfTheAnswerBefore
    <3>1. CASE i = prompt + 1
      <4>1. reason'[i] = loginError /\ i - 1 = prompt
        BY <1>5, <2>3, <3>1 DEF SignInInv, TfaInv, TfaTypeOK
      <4>2. QED
        BY <1>2, <1>6, <4>1 DEF SignInInv, LoginInv, ErrorIsLast
    <3>2. CASE i <= prompt
      <4>1. reason'[i] = reason[i]
        BY <1>5, <2>3, <3>2 DEF SignInInv, TfaInv, TfaTypeOK
      <4>2. QED
        BY <3>2, <4>1 DEF SignInInv, LoginInv, ReasonIsOfTheAnswerBefore
    <3>3. QED
      BY <1>5, <2>3, <3>1, <3>2 DEF Prompts
  <2>10. QED
    BY <1>4, <2>2, <2>4, <2>6, <2>7, <2>8, <2>9 DEF SignInInv, LoginInv
<1>7. CASE caller # "page"
  <2>1. UNCHANGED tfaVars
    BY <1>7 DEF Ask
  <2>2. TfaInv' /\ UNCHANGED <<callback, prompt, reason, got>>
    BY <2>1, ChannelKept DEF SignInInv, tfaVars
  <2>3. CallbackIsTheLoops' /\ Stamps' /\ SentBeforeAsking' /\ ErrorIsLast'
    BY <1>3, <1>7, <2>2
    DEF SignInInv, LoginInv, CallbackIsTheLoops, Stamps, SentBeforeAsking, ErrorIsLast
  <2>4. ResendIsSent' /\ ReasonIsOfTheAnswerBefore'
    BY <1>3, <2>2, PastKept
  <2>5. QED
    BY <1>4, <2>2, <2>3, <2>4 DEF SignInInv, LoginInv
<1>8. QED
  BY <1>6, <1>7

\* A response leaves the channel alone; the loop goes on with a refusal and its
\* error, or with neither, and then not to a question.
LEMMA ResponseStep ==
  ASSUME SignInInv, UNCHANGED <<tfaVars, caller, firsts, sendings>>, AppleTypeOK',
         loop = "callback", caller = "page" => callback = "away",
         loop' \in {"loop", "over"},
         \/ /\ refusals' = refusals
            /\ loginError' = "none"
            /\ loop' = "loop" => state' \notin Asks
         \/ refusals' = refusals \union {prompt} /\ loginError' = "wrong"
  PROVE  SignInInv'
<1>1. TfaInv' /\ UNCHANGED <<callback, prompt, reason, got>>
  BY ChannelKept DEF SignInInv, tfaVars
<1>2. CallbackIsTheLoops'
  BY <1>1 DEF SignInInv, LoginInv, CallbackIsTheLoops
<1>3. Stamps'
  <2>1. prompt \in 0..prompt
    BY PromptType
  <2>2. QED
    BY <1>1, <2>1 DEF SignInInv, LoginInv, Stamps
<1>4. SentBeforeAsking'
  BY <1>1 DEF SentBeforeAsking
<1>5. ErrorIsLast'
  BY <1>1 DEF SignInInv, LoginInv, Stamps, ErrorIsLast
<1>6. ResendIsSent' /\ ReasonIsOfTheAnswerBefore'
  BY <1>1, PastKept
<1>7. QED
  BY <1>1, <1>2, <1>3, <1>4, <1>5, <1>6 DEF SignInInv, LoginInv

LEMMA Responded ==
  ASSUME SignInInv, Response
  PROVE  SignInInv'
<1> USE PromptType, MaxPromptsAssumption
<1>0. AppleTypeOK
  BY DEF SignInInv
<1>1. ASSUME NEW response, Take(response), refusals' = refusals, number' \in Numbers,
             state' \in {"NeedsLogin", "NeedsSMS2FA", "NeedsDevice2FA"}
      PROVE  SignInInv'
  <2>1. AppleTypeOK'
    BY <1>0, <1>1 DEF Take, AppleTypeOK, LoginStates, CodeErrors
  <2>2. state' \notin Asks
    BY <1>1 DEF Asks, DeviceCode, SmsCode
  <2>3. QED
    BY <1>1, <2>1, <2>2, ResponseStep DEF Take, Given
<1>2. CASE CodeIsRight
  BY <1>0, <1>1, <1>2 DEF CodeIsRight, AppleTypeOK
<1>3. CASE CodeIsWrong
  <2>1. AppleTypeOK'
    BY <1>0, <1>3 DEF CodeIsWrong, AppleTypeOK, CodeErrors
  <2>2. loop = "callback" /\ (caller = "page" => callback = "away")
    BY <1>3 DEF CodeIsWrong, Given
  <2>3. QED
    BY <1>3, <2>1, <2>2, ResponseStep DEF CodeIsWrong
<1>4. CASE Resend
  BY <1>0, <1>1, <1>4 DEF Resend, AppleTypeOK
<1>5. CASE ToDevices
  BY <1>0, <1>1, <1>5 DEF ToDevices, AppleTypeOK
<1>6. CASE ToNumber
  BY <1>1, <1>6 DEF ToNumber, Numbers
<1>7. CASE ResponseFails
  <2>1. PICK response \in Responses :
          /\ Given(response)
          /\ IF GoesOn(state, response)
             THEN response \in Submissions \union {"sms"} /\ Over("failed")
             ELSE Over(IF response = "abort" THEN "canceled" ELSE "unanswerable")
    BY <1>7 DEF ResponseFails
  <2>2. loop' = "over" /\ outcome' \in Outcomes
    BY <2>1 DEF Over, Outcomes
  <2>3. AppleTypeOK'
    BY <1>0, <1>7, <2>2 DEF ResponseFails, AppleTypeOK, CodeErrors
  <2>4. QED
    BY <1>7, <2>1, <2>2, <2>3, ResponseStep DEF ResponseFails, Given
<1>8. QED
  BY <1>2, <1>3, <1>4, <1>5, <1>6, <1>7 DEF Response

\* The channel's error is cleared between two sign-ins, when nobody is asked.
LEMMA AgainStep ==
  ASSUME SignInInv, SignInAgain
  PROVE  SignInInv'
<1> USE MaxPromptsAssumption
<1>1. /\ callback = "away" /\ caller = "page" /\ prompt \in 0..MaxPrompts
      /\ UNCHANGED <<caller, callback, prompt, asking, tx, rx, poster, reason, replied, got>>
  BY PromptType DEF SignInAgain, SignInInv, LoginInv, CallbackIsTheLoops
<1>2. TfaInv'
  <2>1. TfaTypeOK'
    BY <1>1 DEF SignInAgain, SignInInv, TfaInv, TfaTypeOK, CodeErrors
  <2>2. PromptHistory'
    BY <1>1 DEF SignInInv, TfaInv, PromptHistory
  <2>3. CallbackHistory'
    BY <1>1 DEF SignInInv, TfaInv, CallbackHistory
  <2>4. QED
    BY <2>1, <2>2, <2>3 DEF TfaInv
<1>3. AppleTypeOK'
  BY <1>1, AttemptsAssumption
  DEF SignInAgain, SignInInv, AppleTypeOK, LoginStates, Numbers, CodeErrors, Outcomes
<1>4. CallbackIsTheLoops'
  BY <1>1 DEF SignInAgain, CallbackIsTheLoops
<1>5. Stamps'
  BY <1>1 DEF SignInAgain, SignInInv, LoginInv, Stamps
<1>6. SentBeforeAsking' /\ ErrorIsLast'
  BY <1>1 DEF SignInAgain, SentBeforeAsking, ErrorIsLast
<1>7. ResendIsSent' /\ ReasonIsOfTheAnswerBefore'
  BY <1>1, PastKept DEF SignInAgain
<1>8. QED
  BY <1>2, <1>3, <1>4, <1>5, <1>6, <1>7 DEF SignInInv, LoginInv

\* A call under way changes the result of the latest prompt only, while the loop waits.
LEMMA CallbackStepKept ==
  ASSUME SignInInv, CallbackStep, UNCHANGED appleVars
  PROVE  SignInInv'
<1> USE MaxPromptsAssumption
<1>1. TfaInv'
  BY TfaStepInv DEF TfaNext, SignInInv
<1>2. UNCHANGED <<caller, loop, state, number, attempts, loginError, outcome, firsts, sendings, refusals>>
  BY DEF appleVars
<1>3. /\ callback # "away"
      /\ UNCHANGED <<prompt, reason>>
      /\ got' = got \/ \E result : got' = [got EXCEPT ![prompt] = result]
  BY DEF CallbackStep, OfferSender, RaiseAsking, ReadAnswer, Expire, DropReceiver,
         LowerAsking, ReturnFromCallback
<1>4. caller = "page" /\ loop = "callback" /\ prompt \in Prompts
  BY <1>3 DEF SignInInv, LoginInv, CallbackIsTheLoops
<1>5. AppleTypeOK' /\ CallbackIsTheLoops' /\ Stamps' /\ SentBeforeAsking' /\ ErrorIsLast'
  BY <1>2, <1>3, <1>4
  DEF SignInInv, LoginInv, AppleTypeOK, CallbackIsTheLoops, Stamps, SentBeforeAsking, ErrorIsLast
<1>6. ResendIsSent'
  <2> SUFFICES ASSUME NEW i \in 0..MaxPrompts, i < prompt, i \in firsts \/ got'[i] = "resend"
               PROVE  i \in sendings \union refusals
    BY <1>2, <1>3 DEF ResendIsSent
  <2>1. i = 0 \/ (i \in Prompts /\ got'[i] = got[i])
    BY <1>3, <1>4 DEF SignInInv, TfaInv, TfaTypeOK, Prompts
  <2>2. 0 \in firsts
    BY DEF SignInInv, LoginInv, Stamps, NoPrompt
  <2>3. QED
    BY <2>1, <2>2 DEF SignInInv, LoginInv, ResendIsSent
<1>7. ReasonIsOfTheAnswerBefore'
  BY <1>2, <1>3 DEF SignInInv, LoginInv, ReasonIsOfTheAnswerBefore
<1>8. QED
  BY <1>1, <1>5, <1>6, <1>7 DEF SignInInv, LoginInv

LEMMA PosterStepKept ==
  ASSUME SignInInv, TfaInv', UNCHANGED appleVars, UNCHANGED <<callback, prompt, reason, got>>
  PROVE  SignInInv'
<1>1. UNCHANGED <<caller, loop, state, number, attempts, loginError, outcome, firsts, sendings, refusals>>
  BY DEF appleVars
<1>2. AppleTypeOK' /\ CallbackIsTheLoops' /\ Stamps' /\ SentBeforeAsking' /\ ErrorIsLast'
  BY <1>1
  DEF SignInInv, LoginInv, AppleTypeOK, CallbackIsTheLoops, Stamps, SentBeforeAsking, ErrorIsLast, Owed
<1>3. ResendIsSent' /\ ReasonIsOfTheAnswerBefore'
  BY <1>1, PastKept
<1>4. QED
  BY <1>2, <1>3 DEF SignInInv, LoginInv

LEMMA SignInStep == SignInInv /\ [Next]_vars => SignInInv'
<1> SUFFICES ASSUME SignInInv, [Next]_vars PROVE SignInInv'
  OBVIOUS
<1>1. CASE LoopStep
  BY <1>1, LoopSteps, AskStep
<1>2. CASE Response
  BY <1>2, Responded
<1>3. CASE SignInAgain
  BY <1>3, AgainStep
<1>4. CASE CallbackStep /\ UNCHANGED appleVars
  BY <1>4, CallbackStepKept
<1>5. CASE PosterStep /\ UNCHANGED appleVars
  <2>1. TfaInv'
    BY <1>5, TfaStepInv DEF TfaNext, SignInInv
  <2>2. UNCHANGED <<callback, prompt, reason, got>>
    BY <1>5 DEF PosterStep, SendAnswer, TakeSender
  <2>3. QED
    BY <1>5, <2>1, <2>2, PosterStepKept
<1>6. CASE UNCHANGED vars
  <2>1. UNCHANGED tfaVars /\ UNCHANGED appleVars
    BY <1>6 DEF vars
  <2>2. TfaInv' /\ UNCHANGED <<callback, prompt, reason, got>>
    BY <2>1, ChannelKept DEF SignInInv, tfaVars
  <2>3. QED
    BY <2>1, <2>2, PosterStepKept
<1>7. QED
  BY <1>1, <1>2, <1>3, <1>4, <1>5, <1>6 DEF Next

-----------------------------------------------------------------------------
(* The theorems                                                            *)

\* Every reachable state of a sign-in satisfies the inductive invariant.
THEOREM SignInInvHolds == Spec => []SignInInv
<1>1. QED
  BY SignInInit, SignInStep, PTL DEF Spec

\* The loop and the channel keep their types: a prompt more than the rounds
\* allow is never opened.
THEOREM SignInTypeCorrect == Spec => []TypeOK
<1>1. SignInInv => TypeOK
  BY DEF SignInInv, TfaInv, TypeOK
<1>2. QED
  BY <1>1, SignInInvHolds, PTL

\* Apple has sent a code, or said why not, before the first question of a
\* sign-in, and between a request to send it again and the next question
\* (login_impl's states and open_session_web's Resend).
THEOREM ResendIsSentHolds == Spec => []ResendIsSent
<1>1. SignInInv => ResendIsSent
  BY DEF SignInInv, LoginInv
<1>2. QED
  BY <1>1, SignInInvHolds, PTL

\* The page shows an error beside the field if and only if Apple refused the
\* answer to the question before (last_error of the account and of the channel).
THEOREM ReasonIsOfTheAnswerBeforeHolds == Spec => []ReasonIsOfTheAnswerBefore
<1>1. SignInInv => ReasonIsOfTheAnswerBefore
  BY DEF SignInInv, LoginInv
<1>2. QED
  BY <1>1, SignInInvHolds, PTL

\* With Apple's loop in place of any caller, as in the channel alone: at most one
\* request is told that its answer was delivered, ...
THEOREM SignInAnsweredOnce == Spec => []AnsweredOnce
<1>1. SignInInv => AnsweredOnce
  BY OneAcknowledged DEF SignInInv
<1>2. QED
  BY <1>1, SignInInvHolds, PTL

\* ... and the field is shown only when an answer can be delivered or has been taken.
THEOREM SignInAskingIsAnswerable == Spec => []AskingIsAnswerable
<1>1. SignInInv => AskingIsAnswerable
  BY DEF SignInInv, TfaInv, CallbackHistory, AskingIsAnswerable, Answers
<1>2. QED
  BY <1>1, SignInInvHolds, PTL

-----------------------------------------------------------------------------
(* The sign-in implements one abstract prompt                              *)

\* A step of the sign-in is one of the channel's, or is not seen from outside.
LEMMA StepOfTheChannel ==
  ASSUME SignInInv, [Next]_vars
  PROVE  [TfaNext]_tfaVars \/ UNCHANGED <<prompt, replied, got>>
<1>1. CASE LoopStep
  <2>1. CASE Ask /\ caller = "page"
    <3>1. OpenPrompt(loginError) /\ loginError \in CodeErrors
      BY <2>1 DEF Ask, SignInInv, AppleTypeOK
    <3>2. QED
      BY <3>1 DEF TfaNext
  <2>2. CASE ~(Ask /\ caller = "page")
    <3>1. UNCHANGED tfaVars
      BY <1>1, <2>2
      DEF LoopStep, TooManyAttempts, Password, Succeed, ExtraStep, SendingFails, SendToDevices,
          SendSms, SmsRefused, Ask
    <3>2. QED
      BY <3>1
  <2>3. QED
    BY <2>1, <2>2
<1>2. CASE Response
  <2>1. UNCHANGED tfaVars
    BY <1>2 DEF Response, CodeIsRight, CodeIsWrong, Resend, ToDevices, ToNumber, ResponseFails, Take
  <2>2. QED
    BY <2>1
<1>3. CASE SignInAgain
  BY <1>3 DEF SignInAgain
<1>4. CASE (CallbackStep \/ PosterStep) /\ UNCHANGED appleVars
  BY <1>4 DEF TfaNext
<1>5. CASE UNCHANGED vars
  BY <1>5 DEF vars
<1>6. QED
  BY <1>1, <1>2, <1>3, <1>4, <1>5 DEF Next

\* What is not seen from outside is a stutter.
LEMMA UnseenStep ==
  ASSUME UNCHANGED <<prompt, replied, got>>
  PROVE  UNCHANGED Abstract!vars
<1>1. Letters' = Letters
  BY DEF Letters, Letter
<1>2. QED
  BY <1>1 DEF Abstract!vars, Letters

\* Under Apple's loop, in which one sign-in follows another and the error beside
\* the field is cleared between them, the questions that open_session_web puts
\* are still those of the abstract prompt: each is put when the one before is
\* closed, acknowledges one answer at most, and is closed once, with that answer
\* or by giving up.
THEOREM SignInRefinesOneAnswer == Spec => Abstract!SafeSpec
<1>1. Init => Abstract!Init
  BY AbstractInit DEF Init
<1>2. SignInInv /\ [Next]_vars => [Abstract!Next]_Abstract!vars
  BY StepOfTheChannel, UnseenStep, AbstractStep DEF SignInInv
<1>3. QED
  BY <1>1, <1>2, SignInInvHolds, PTL DEF Spec, Abstract!SafeSpec

=============================================================================
