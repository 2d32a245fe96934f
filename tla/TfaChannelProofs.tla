-------------------------- MODULE TfaChannelProofs --------------------------
(***************************************************************************)
(* What TfaChannel keeps for every number of requests and of prompts.      *)
(***************************************************************************)
EXTENDS TfaChannel, TLAPS

\* The callback and the handlers start with no prompt.
LEMMA TfaInitInv == TfaInit => TfaInv
<1> SUFFICES ASSUME TfaInit PROVE TfaInv
  OBVIOUS
<1> USE MaxPromptsAssumption DEF TfaInit, Prompts, NoPrompt, IdlePoster
<1>1. TfaTypeOK
  <2>1. replied \in [Prompts -> Seq(Answers)]
    OBVIOUS
  <2>2. poster \in [Posters -> [holds : 0..MaxPrompts, answer : Answers]]
    BY DEF Answers
  <2>3. callback \in CallbackStates /\ prompt \in 0..MaxPrompts /\ tx \in 0..MaxPrompts
    BY DEF CallbackStates
  <2>4. asking \in BOOLEAN /\ lastError \in CodeErrors /\ reason \in [Prompts -> CodeErrors]
    BY DEF CodeErrors
  <2>5. rx \in [Prompts -> RxStates] /\ got \in [Prompts -> Results]
    BY DEF RxStates, Results
  <2>6. QED
    BY <2>1, <2>2, <2>3, <2>4, <2>5 DEF TfaTypeOK
<1>2. PromptHistory
  BY DEF PromptHistory, Consistent, Answers
<1>3. CallbackHistory
  BY DEF CallbackHistory
<1>4. QED
  BY <1>1, <1>2, <1>3 DEF TfaInv

-----------------------------------------------------------------------------
(* Every step of the callback keeps the invariant                          *)

\* A new prompt is opened only when the one before is over.
LEMMA OpenPromptInv ==
  ASSUME TfaInv, NEW err \in CodeErrors, OpenPrompt(err)
  PROVE  TfaInv'
<1> USE MaxPromptsAssumption DEF TfaInv, OpenPrompt, Prompts, NoPrompt
<1>1. TfaTypeOK'
  BY DEF TfaTypeOK, CallbackStates, RxStates
<1>2. prompt + 1 \in Prompts /\ rx[prompt + 1] = "unborn"
  BY DEF TfaTypeOK, PromptHistory
<1>3. PromptHistory'
  <2> SUFFICES ASSUME NEW i \in Prompts
               PROVE  /\ Consistent(rx'[i], replied[i], got[i])
                      /\ i > prompt' => rx'[i] = "unborn"
                      /\ i < prompt' => rx'[i] \in {"read", "dropped"}
    BY DEF PromptHistory
  <2>1. CASE i = prompt + 1
    <3>1. Consistent("unborn", replied[i], got[i])
      BY <1>2, <2>1 DEF PromptHistory
    <3>2. rx'[i] = "open"
      BY <1>2, <2>1 DEF TfaTypeOK
    <3>3. Consistent("open", replied[i], got[i])
      BY <3>1 DEF Consistent, Answers
    <3>4. QED
      BY <2>1, <3>2, <3>3 DEF TfaTypeOK
  <2>2. CASE i # prompt + 1
    <3>1. rx'[i] = rx[i]
      BY <2>2 DEF TfaTypeOK
    <3>2. i > prompt' => i > prompt
      BY DEF TfaTypeOK
    <3>3. i < prompt' => i < prompt \/ (i = prompt /\ rx[prompt] \in {"read", "dropped"})
      BY <2>2 DEF TfaTypeOK, CallbackHistory
    <3>4. QED
      BY <3>1, <3>2, <3>3 DEF PromptHistory
  <2>3. QED
    BY <2>1, <2>2
<1>4. CallbackHistory'
  <2>1. \A p \in Posters : poster'[p].holds < prompt' /\ poster'[p].holds <= prompt'
    BY DEF TfaTypeOK, CallbackHistory
  <2>2. rx'[prompt'] = "open" /\ reason'[prompt'] = err /\ prompt' # 0 /\ tx' = 0
    BY <1>2 DEF TfaTypeOK, CallbackHistory
  <2>3. QED
    BY <2>1, <2>2 DEF CallbackHistory
<1>5. QED
  BY <1>1, <1>3, <1>4

\* The sender offered is the one of the current prompt.
LEMMA OfferSenderInv ==
  ASSUME TfaInv, OfferSender
  PROVE  TfaInv'
<1> USE MaxPromptsAssumption DEF TfaInv, OfferSender, Prompts, NoPrompt
<1>1. TfaTypeOK'
  BY DEF TfaTypeOK, CallbackStates
<1>2. PromptHistory'
  BY DEF PromptHistory
<1>3. CallbackHistory'
  BY DEF TfaTypeOK, CallbackHistory
<1>4. QED
  BY <1>1, <1>2, <1>3

\* The page is told only once the sender is in place.
LEMMA RaiseAskingInv ==
  ASSUME TfaInv, RaiseAsking
  PROVE  TfaInv'
<1> USE MaxPromptsAssumption DEF TfaInv, RaiseAsking, Prompts, NoPrompt
<1>1. TfaTypeOK'
  BY DEF TfaTypeOK, CallbackStates
<1>2. PromptHistory'
  BY DEF PromptHistory
<1>3. CallbackHistory'
  BY DEF TfaTypeOK, CallbackHistory
<1>4. QED
  BY <1>1, <1>2, <1>3

\* The answer in the receiver is the acknowledged one, and the only one.
LEMMA ReadAnswerInv ==
  ASSUME TfaInv, ReadAnswer
  PROVE  TfaInv'
<1> USE MaxPromptsAssumption DEF TfaInv, ReadAnswer, Prompts, NoPrompt
<1>1. TfaTypeOK'
  BY DEF TfaTypeOK, CallbackStates, RxStates, Results
<1>2. prompt \in Prompts
  BY DEF TfaTypeOK, CallbackHistory
<1>3. PromptHistory'
  <2> SUFFICES ASSUME NEW i \in Prompts
               PROVE  /\ Consistent(rx'[i], replied[i], got'[i])
                      /\ i > prompt => rx'[i] = "unborn"
                      /\ i < prompt => rx'[i] \in {"read", "dropped"}
    BY DEF PromptHistory
  <2>1. CASE i = prompt
    <3>1. replied[i] = <<rx[i]>> /\ rx[i] \in Answers
      BY <2>1 DEF PromptHistory, Consistent
    <3>2. rx'[i] = "read" /\ got'[i] = rx[i]
      BY <1>2, <2>1 DEF TfaTypeOK
    <3>3. Consistent("read", replied[i], rx[i])
      BY <3>1 DEF Consistent, Answers
    <3>4. QED
      BY <1>2, <2>1, <3>2, <3>3
  <2>2. CASE i # prompt
    <3>1. rx'[i] = rx[i] /\ got'[i] = got[i]
      BY <2>2 DEF TfaTypeOK
    <3>2. QED
      BY <3>1 DEF PromptHistory
  <2>3. QED
    BY <2>1, <2>2
<1>4. CallbackHistory'
  <2>1. rx'[prompt] = "read"
    BY <1>2 DEF TfaTypeOK
  <2>2. QED
    BY <1>2, <2>1 DEF TfaTypeOK, CallbackHistory
<1>5. QED
  BY <1>1, <1>3, <1>4

\* A deadline seen changes nothing but what the callback does next.
LEMMA ExpireInv ==
  ASSUME TfaInv, Expire
  PROVE  TfaInv'
<1> USE MaxPromptsAssumption DEF TfaInv, Expire, Prompts, NoPrompt
<1>1. TfaTypeOK'
  BY DEF TfaTypeOK, CallbackStates
<1>2. PromptHistory'
  BY DEF PromptHistory
<1>3. CallbackHistory'
  BY DEF TfaTypeOK, CallbackHistory
<1>4. QED
  BY <1>1, <1>2, <1>3

\* An answer may have arrived since Expire: it is dropped with the receiver,
\* acknowledged or not.
LEMMA DropReceiverInv ==
  ASSUME TfaInv, DropReceiver
  PROVE  TfaInv'
<1> USE MaxPromptsAssumption DEF TfaInv, DropReceiver, Prompts, NoPrompt
<1>1. TfaTypeOK'
  BY DEF TfaTypeOK, CallbackStates, RxStates, Results
<1>2. prompt \in Prompts /\ rx[prompt] \in {"open"} \union Answers
  BY DEF TfaTypeOK, CallbackHistory
<1>3. PromptHistory'
  <2> SUFFICES ASSUME NEW i \in Prompts
               PROVE  /\ Consistent(rx'[i], replied[i], got'[i])
                      /\ i > prompt => rx'[i] = "unborn"
                      /\ i < prompt => rx'[i] \in {"read", "dropped"}
    BY DEF PromptHistory
  <2>1. CASE i = prompt
    <3>1. replied[i] = <<>> \/ \E ans \in Answers : replied[i] = <<ans>>
      BY <1>2, <2>1 DEF PromptHistory, Consistent
    <3>2. rx'[i] = "dropped" /\ got'[i] = "abort"
      BY <1>2, <2>1 DEF TfaTypeOK
    <3>3. Consistent("dropped", replied[i], "abort")
      BY <3>1 DEF Consistent, Answers
    <3>4. QED
      BY <1>2, <2>1, <3>2, <3>3
  <2>2. CASE i # prompt
    <3>1. rx'[i] = rx[i] /\ got'[i] = got[i]
      BY <2>2 DEF TfaTypeOK
    <3>2. QED
      BY <3>1 DEF PromptHistory
  <2>3. QED
    BY <2>1, <2>2
<1>4. CallbackHistory'
  <2>1. rx'[prompt] = "dropped"
    BY <1>2 DEF TfaTypeOK
  <2>2. QED
    BY <1>2, <2>1 DEF TfaTypeOK, CallbackHistory
<1>5. QED
  BY <1>1, <1>3, <1>4

\* The flag goes down after the answer was read or given up.
LEMMA LowerAskingInv ==
  ASSUME TfaInv, LowerAsking
  PROVE  TfaInv'
<1> USE MaxPromptsAssumption DEF TfaInv, LowerAsking, Prompts, NoPrompt
<1>1. TfaTypeOK'
  BY DEF TfaTypeOK, CallbackStates
<1>2. PromptHistory'
  BY DEF PromptHistory
<1>3. CallbackHistory'
  BY DEF TfaTypeOK, CallbackHistory
<1>4. QED
  BY <1>1, <1>2, <1>3

\* The sender nobody took is taken back before the login goes on.
LEMMA ReturnFromCallbackInv ==
  ASSUME TfaInv, ReturnFromCallback
  PROVE  TfaInv'
<1> USE MaxPromptsAssumption DEF TfaInv, ReturnFromCallback, Prompts, NoPrompt
<1>1. TfaTypeOK'
  BY DEF TfaTypeOK, CallbackStates
<1>2. PromptHistory'
  BY DEF PromptHistory
<1>3. CallbackHistory'
  BY DEF TfaTypeOK, CallbackHistory
<1>4. QED
  BY <1>1, <1>2, <1>3

-----------------------------------------------------------------------------
(* And so does every step of a request                                     *)

\* The sender moves from `tx` to the request's thread.
LEMMA TakeSenderInv ==
  ASSUME TfaInv, NEW p \in Posters, NEW ans \in Answers, TakeSender(p, ans)
  PROVE  TfaInv'
<1> USE MaxPromptsAssumption DEF TfaInv, TakeSender, Prompts, NoPrompt
<1>1. TfaTypeOK'
  BY DEF TfaTypeOK
<1>2. PromptHistory'
  BY DEF PromptHistory
<1>3. CallbackHistory'
  <2>1. tx = prompt /\ poster'[p].holds = prompt
    BY DEF TfaTypeOK, CallbackHistory
  <2>2. \A q \in Posters : poster'[q].holds <= prompt
    BY <2>1 DEF TfaTypeOK, CallbackHistory
  <2>3. QED
    BY <2>1, <2>2 DEF TfaTypeOK, CallbackHistory
<1>4. QED
  BY <1>1, <1>2, <1>3

\* The answer reaches the current prompt, the only one whose receiver may be
\* open, or nobody.
LEMMA SendAnswerInv ==
  ASSUME TfaInv, NEW p \in Posters, SendAnswer(p)
  PROVE  TfaInv'
<1> DEFINE i == poster[p].holds
           ans == poster[p].answer
<1> USE MaxPromptsAssumption DEF TfaInv, Prompts, NoPrompt
<1>1. i \in Prompts /\ ans \in Answers /\ i <= prompt /\ prompt \in Prompts
  BY DEF TfaTypeOK, CallbackHistory, SendAnswer
<1>2. poster' \in [Posters -> [holds : 0..MaxPrompts, answer : Answers]]
  BY DEF TfaTypeOK, SendAnswer, IdlePoster, Answers
<1>3. poster'[p].holds = 0 /\ \A q \in Posters \ {p} : poster'[q] = poster[q]
  BY DEF TfaTypeOK, SendAnswer, IdlePoster
<1>4. \A q \in Posters : poster'[q].holds <= prompt
  BY <1>1, <1>3 DEF CallbackHistory
<1>5. CASE rx[i] = "open"
  <2>1. i = prompt
    BY <1>1, <1>5 DEF PromptHistory
  <2>2. /\ rx' = [rx EXCEPT ![i] = ans]
        /\ replied' = [replied EXCEPT ![i] = Append(@, ans)]
    BY <1>5 DEF SendAnswer
  <2>3. replied[i] = <<>> /\ got[i] = "none"
    BY <1>1, <1>5 DEF PromptHistory, Consistent
  <2>4. Append(replied[i], ans) = <<ans>>
    BY <2>3
  <2>5. rx'[i] = ans /\ replied'[i] = <<ans>>
    BY <1>1, <2>2, <2>4 DEF TfaTypeOK
  <2>6. TfaTypeOK'
    <3>1. rx' \in [Prompts -> RxStates]
      BY <1>1, <2>2 DEF TfaTypeOK, RxStates
    <3>2. replied' \in [Prompts -> Seq(Answers)]
      BY <1>1, <2>2 DEF TfaTypeOK
    <3>3. QED
      BY <1>2, <3>1, <3>2 DEF TfaTypeOK, SendAnswer
  <2>7. PromptHistory'
    <3> SUFFICES ASSUME NEW j \in Prompts
                 PROVE  /\ Consistent(rx'[j], replied'[j], got[j])
                        /\ j > prompt => rx'[j] = "unborn"
                        /\ j < prompt => rx'[j] \in {"read", "dropped"}
      BY DEF PromptHistory, SendAnswer
    <3>1. CASE j = i
      <4>1. Consistent(ans, <<ans>>, "none")
        BY <1>1 DEF Consistent, Answers
      <4>2. QED
        BY <1>1, <2>1, <2>3, <2>5, <3>1, <4>1
    <3>2. CASE j # i
      <4>1. rx'[j] = rx[j] /\ replied'[j] = replied[j]
        BY <2>2, <3>2 DEF TfaTypeOK
      <4>2. QED
        BY <4>1 DEF PromptHistory
    <3>3. QED
      BY <3>1, <3>2
  <2>8. CallbackHistory'
    <3>1. callback \in {"created", "offered", "waiting", "expired"} /\ callback # "away"
      BY <1>1, <1>5, <2>1 DEF TfaTypeOK, CallbackStates, CallbackHistory, Answers
    <3>2. callback # "created"
      BY <1>1, <2>1 DEF CallbackHistory
    <3>3. QED
      BY <1>1, <1>4, <2>1, <2>5, <3>1, <3>2 DEF CallbackHistory, SendAnswer, Answers
  <2>9. QED
    BY <2>6, <2>7, <2>8
<1>6. CASE rx[i] # "open"
  <2>1. UNCHANGED <<rx, replied>>
    BY <1>6 DEF SendAnswer
  <2>2. TfaTypeOK'
    BY <1>2, <2>1 DEF TfaTypeOK, SendAnswer
  <2>3. PromptHistory'
    BY <2>1 DEF PromptHistory, SendAnswer
  <2>4. rx[prompt] = "open" /\ (\E q \in Posters : poster[q].holds = prompt)
          => \E q \in Posters : poster'[q].holds = prompt
    BY <1>3, <1>6
  <2>5. CallbackHistory'
    <3>1. callback = "created" => \A q \in Posters : poster'[q].holds < prompt
      BY <1>1, <1>3 DEF CallbackHistory
    <3>2. QED
      BY <1>1, <1>4, <2>1, <2>4, <3>1 DEF CallbackHistory, SendAnswer
  <2>6. QED
    BY <2>2, <2>3, <2>5
<1>7. QED
  BY <1>5, <1>6

-----------------------------------------------------------------------------
\* One step of anybody, a stutter included.
LEMMA TfaStepInv == TfaInv /\ [TfaNext]_tfaVars => TfaInv'
<1> SUFFICES ASSUME TfaInv, [TfaNext]_tfaVars PROVE TfaInv'
  OBVIOUS
<1>1. CASE \E err \in CodeErrors : OpenPrompt(err)
  BY <1>1, OpenPromptInv
<1>2. CASE CallbackStep
  BY <1>2, OfferSenderInv, RaiseAskingInv, ReadAnswerInv, ExpireInv,
     DropReceiverInv, LowerAskingInv, ReturnFromCallbackInv DEF CallbackStep
<1>3. CASE PosterStep
  BY <1>3, TakeSenderInv, SendAnswerInv DEF PosterStep
<1>4. CASE UNCHANGED tfaVars
  BY <1>4 DEF tfaVars, TfaInv, TfaTypeOK, PromptHistory, CallbackHistory
<1>5. QED
  BY <1>1, <1>2, <1>3, <1>4 DEF TfaNext

\* The inductive invariant holds in every behaviour: the history of a prompt
\* follows its receiver, and the sender is where the callback's state says.
THEOREM TfaInvHolds == TfaSpec => []TfaInv
<1>1. QED
  BY TfaInitInv, TfaStepInv, PTL DEF TfaSpec

\* The state of apple.rs's channel and of its requests stays well formed.
THEOREM TfaTypeCorrect == TfaSpec => []TfaTypeOK
<1>1. TfaInv => TfaTypeOK
  BY DEF TfaInv
<1>2. QED
  BY <1>1, TfaInvHolds, PTL

\* However many requests post an answer, one of them at most is acknowledged.
LEMMA OneAcknowledged == TfaInv => AnsweredOnce
<1> SUFFICES ASSUME TfaInv, NEW i \in Prompts PROVE Len(replied[i]) <= 1
  BY DEF AnsweredOnce
<1>1. replied[i] = <<>> \/ \E ans \in Results : replied[i] = <<ans>>
  BY DEF TfaInv, TfaTypeOK, PromptHistory, Consistent, RxStates, Results
<1>2. CASE replied[i] = <<>>
  BY <1>2
<1>3. ASSUME NEW ans \in Results, replied[i] = <<ans>> PROVE Len(replied[i]) <= 1
  BY <1>3
<1>4. QED
  BY <1>1, <1>2, <1>3

\* The same as a theorem of the channel alone.
THEOREM AnsweredOnceHolds == TfaSpec => []AnsweredOnce
<1>1. QED
  BY OneAcknowledged, TfaInvHolds, PTL

\* The login never goes on with an answer nobody was told it had.
THEOREM UsedWasAcknowledgedHolds == TfaSpec => []UsedWasAcknowledged
<1>1. TfaInv => UsedWasAcknowledged
  <2> SUFFICES ASSUME TfaInv, NEW i \in Prompts, got[i] \in Answers
               PROVE  replied[i] = <<got[i]>>
    BY DEF UsedWasAcknowledged
  <2>1. Consistent(rx[i], replied[i], got[i]) /\ rx[i] \in RxStates
    BY DEF TfaInv, TfaTypeOK, PromptHistory
  <2>2. rx[i] = "read"
    BY <2>1 DEF Consistent, RxStates, Answers
  <2>3. QED
    BY <2>1, <2>2 DEF Consistent
<1>2. QED
  BY <1>1, TfaInvHolds, PTL

\* An answer meant for one prompt is never delivered to another.
THEOREM NoStaleSenderHolds == TfaSpec => []NoStaleSender
<1>1. TfaInv => NoStaleSender
  BY DEF TfaInv, CallbackHistory, NoStaleSender
<1>2. QED
  BY <1>1, TfaInvHolds, PTL

\* The field for the code is shown only when an answer can be delivered, or
\* has been taken already.
THEOREM AskingIsAnswerableHolds == TfaSpec => []AskingIsAnswerable
<1>1. TfaInv => AskingIsAnswerable
  BY DEF TfaInv, CallbackHistory, AskingIsAnswerable, Answers
<1>2. QED
  BY <1>1, TfaInvHolds, PTL

\* The error shown beside the field is the one this prompt was opened with.
THEOREM AskingShowsItsReasonHolds == TfaSpec => []AskingShowsItsReason
<1>1. TfaInv => AskingShowsItsReason
  BY DEF TfaInv, CallbackHistory, AskingShowsItsReason
<1>2. QED
  BY <1>1, TfaInvHolds, PTL

-----------------------------------------------------------------------------
(* The threads implement one abstract prompt                               *)

Letters == [i \in Prompts |-> Letter(i)]

\* A prompt that is over has a result, so the next question may be put.
LEMMA ClosedHasOutcome ==
  ASSUME TfaInv, callback = "away", prompt # NoPrompt
  PROVE  prompt \in Prompts /\ got[prompt] # "none"
<1>1. prompt \in Prompts /\ rx[prompt] \in {"read", "dropped"}
  BY MaxPromptsAssumption DEF TfaInv, TfaTypeOK, CallbackHistory, Prompts, NoPrompt
<1>2. Consistent(rx[prompt], replied[prompt], got[prompt])
  BY <1>1 DEF TfaInv, PromptHistory
<1>3. QED
  BY <1>1, <1>2 DEF Consistent, Answers

\* A prompt whose receiver is not closed has no result yet, and its letter is
\* the answer that waits in the receiver.
LEMMA OpenHasNoOutcome ==
  ASSUME TfaInv, callback \in {"created", "offered", "waiting", "expired"}
  PROVE  /\ prompt \in Prompts
         /\ got[prompt] = "none"
         /\ rx[prompt] \in Answers => Letter(prompt) = rx[prompt]
         /\ rx[prompt] = "open" => Letter(prompt) = "none"
<1>1. prompt \in Prompts /\ rx[prompt] \in {"open"} \union Answers
  BY MaxPromptsAssumption DEF TfaInv, TfaTypeOK, CallbackHistory, Prompts, NoPrompt
<1>2. Consistent(rx[prompt], replied[prompt], got[prompt])
  BY <1>1 DEF TfaInv, PromptHistory
<1>3. got[prompt] = "none"
  BY <1>1, <1>2 DEF Consistent
<1>4. rx[prompt] = "open" => replied[prompt] = <<>>
  BY <1>2 DEF Consistent
<1>5. rx[prompt] \in Answers => replied[prompt] = <<rx[prompt]>>
  BY <1>2 DEF Consistent
<1>6. QED
  BY <1>1, <1>3, <1>4, <1>5 DEF Letter

\* No prompt is no question.
LEMMA AbstractInit == TfaInit => Abstract!Init
  BY DEF TfaInit, Abstract!Init, Abstract!Questions, Prompts, Letter, NoPrompt

\* Only two of the callback's steps and one of a request's are seen outside.
LEMMA AbstractStep == TfaInv /\ [TfaNext]_tfaVars => [Abstract!Next]_Abstract!vars
<1> SUFFICES ASSUME TfaInv, [TfaNext]_tfaVars PROVE [Abstract!Next]_Abstract!vars
  OBVIOUS
<1> USE DEF Abstract!Questions, Abstract!Open
<1>1. ASSUME NEW err \in CodeErrors, OpenPrompt(err) PROVE Abstract!Ask
  <2>1. prompt = NoPrompt \/ (prompt \in Prompts /\ got[prompt] # "none")
    BY <1>1, ClosedHasOutcome DEF OpenPrompt
  <2>2. Letters' = Letters
    BY <1>1 DEF OpenPrompt, Letters, Letter
  <2>3. QED
    BY <1>1, <2>1, <2>2, MaxPromptsAssumption
    DEF OpenPrompt, Abstract!Ask, Letters, NoPrompt, Prompts, TfaInv, TfaTypeOK
<1>2. ASSUME ReadAnswer PROVE Abstract!Use
  <2>1. Letters' = Letters
    BY <1>2 DEF ReadAnswer, Letters, Letter
  <2>2. prompt \in Prompts /\ got[prompt] = "none" /\ Letter(prompt) = rx[prompt]
    BY <1>2, OpenHasNoOutcome DEF ReadAnswer
  <2>3. QED
    BY <1>2, <2>1, <2>2 DEF ReadAnswer, Abstract!Use, Letters, Prompts, Answers
<1>3. ASSUME DropReceiver PROVE Abstract!GiveUp
  <2>1. Letters' = Letters
    BY <1>3 DEF DropReceiver, Letters, Letter
  <2>2. prompt \in Prompts /\ got[prompt] = "none"
    BY <1>3, OpenHasNoOutcome DEF DropReceiver
  <2>3. QED
    BY <1>3, <2>1, <2>2 DEF DropReceiver, Abstract!GiveUp, Letters, Prompts
<1>4. ASSUME OfferSender \/ RaiseAsking \/ Expire \/ LowerAsking \/ ReturnFromCallback
      PROVE  UNCHANGED <<prompt, replied, got>>
  BY <1>4 DEF OfferSender, RaiseAsking, Expire, LowerAsking, ReturnFromCallback
<1>5. ASSUME NEW p \in Posters, NEW ans \in Answers, TakeSender(p, ans)
      PROVE  UNCHANGED <<prompt, replied, got>>
  BY <1>5 DEF TakeSender
<1>6. ASSUME NEW p \in Posters, SendAnswer(p)
      PROVE  UNCHANGED <<prompt, replied, got>> \/ \E ans \in Answers : Abstract!Acknowledge(ans)
  <2> DEFINE i == poster[p].holds
             ans == poster[p].answer
  <2>1. CASE rx[i] # "open"
    BY <1>6, <2>1 DEF SendAnswer
  <2>2. CASE rx[i] = "open"
    <3>1. i \in Prompts /\ ans \in Answers /\ i <= prompt /\ prompt \in Prompts
      BY <1>6, MaxPromptsAssumption
      DEF SendAnswer, TfaInv, TfaTypeOK, CallbackHistory, Prompts, NoPrompt
    <3>2. i = prompt
      BY <2>2, <3>1 DEF TfaInv, PromptHistory, Prompts
    <3>3. callback \in {"created", "offered", "waiting", "expired"}
      BY <2>2, <3>1, <3>2
      DEF TfaInv, TfaTypeOK, CallbackStates, CallbackHistory, Prompts, NoPrompt
    <3>4. got[prompt] = "none" /\ Letter(prompt) = "none"
      BY <2>2, <3>2, <3>3, OpenHasNoOutcome
    <3>5. replied[prompt] = <<>>
      BY <2>2, <3>1, <3>2 DEF TfaInv, PromptHistory, Consistent
    <3>6. replied' = [replied EXCEPT ![prompt] = <<ans>>]
      BY <1>6, <2>2, <3>2, <3>5 DEF SendAnswer
    <3>7. Letters' = [Letters EXCEPT ![prompt] = ans]
      BY <3>1, <3>6 DEF Letters, Letter, TfaInv, TfaTypeOK
    <3>8. Abstract!Acknowledge(ans)
      BY <1>6, <3>1, <3>4, <3>7 DEF Abstract!Acknowledge, SendAnswer, Letters, Prompts
    <3>9. QED
      BY <3>1, <3>8
  <2>3. QED
    BY <2>1, <2>2
<1>7. ASSUME UNCHANGED <<prompt, replied, got>> PROVE UNCHANGED Abstract!vars
  <2>1. Letters' = Letters
    BY <1>7 DEF Letters, Letter
  <2>2. QED
    BY <1>7, <2>1 DEF Abstract!vars, Letters
<1>8. UNCHANGED tfaVars => UNCHANGED <<prompt, replied, got>>
  BY DEF tfaVars
<1>9. QED
  BY <1>1, <1>2, <1>3, <1>4, <1>5, <1>6, <1>7, <1>8
  DEF TfaNext, CallbackStep, PosterStep, Abstract!Next, Abstract!Answers, Answers

\* Whatever the number of requests and of prompts, every step of the threads is
\* a step of the abstract prompt: each question is put when the one before is
\* closed, acknowledges one answer at most, and is closed once, with that
\* answer or by giving up.  (That it is closed at all is left to TLC.)
THEOREM RefinesOneAnswer == TfaSpec => Abstract!SafeSpec
<1>1. QED
  BY AbstractInit, AbstractStep, TfaInvHolds, PTL DEF TfaSpec, Abstract!SafeSpec

=============================================================================
