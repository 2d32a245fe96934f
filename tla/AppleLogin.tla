----------------------------- MODULE AppleLogin -----------------------------
(***************************************************************************)
(* The sign-in to Apple: the loop of AppleAccount::login_impl (vendored    *)
(* apple_account.rs), which AltKeeper drives with the callbacks of         *)
(* open_session_web and open_session (src/src/apple.rs).                   *)
(*                                                                         *)
(* The CALLER is the web page, whose callback is a prompt of TfaChannel; a *)
(* run without a terminal; or the command line.  Apple answers as it       *)
(* pleases, but takes no empty code, which is all that a run without a     *)
(* terminal has to offer.                                                  *)
(***************************************************************************)
EXTENDS TfaChannel

CONSTANTS
  MaxAttempts,   \* rounds of the loop: 15 in the code
  Trusted,       \* the numbers of the account that can get an SMS
  FirstNumber    \* the number tried when Apple wants an SMS: 1 in the code

\* A code is asked for after a round that had it sent: the bound on the prompts
\* never stops the loop of a sign-in (SignInAgain leaves prompts enough).
ASSUME AttemptsAssumption == MaxAttempts \in Nat /\ MaxAttempts <= MaxPrompts + 1

Callers == {"page", "unattended", "terminal"}
Numbers == Trusted \union {FirstNumber}

DeviceCode == "NeedsDevice2FAVerification"
SmsCode == "NeedsSMS2FAVerification"
Asks == {DeviceCode, SmsCode, "NeedsUnknown2FA"}
LoginStates == Asks \union
  {"NeedsLogin", "NeedsDevice2FA", "NeedsSMS2FA", "NeedsExtraStep", "LoggedIn"}

\* SubmitCode is "submit", or "empty" when there is nothing in it.
Submissions == {"submit", "empty"}
Responses == Submissions \union {"resend", "devices", "sms", "abort"}
Outcomes == {"none", "ok", "failed", "canceled", "unanswerable", "attempts"}

VARIABLES
  caller,      \* who signs in
  loop,        \* where login_impl stands: first login, loop, callback, over
  state,       \* login_state, the id of an SMS state being `number`
  number,
  attempts,
  loginError,  \* last_error of the account
  outcome,     \* how the sign-in ended
  \* history, by the prompt after which it happened
  firsts,      \* a sign-in began
  sendings,    \* Apple sent a code
  refusals     \* Apple refused a code, or to send one

appleVars ==
  <<caller, loop, state, number, attempts, loginError, outcome, firsts, sendings, refusals>>
vars == <<tfaVars, appleVars>>

Init ==
  /\ TfaInit
  /\ caller \in Callers
  /\ loop = "first"
  /\ state = "NeedsLogin"
  /\ number = FirstNumber
  /\ attempts = 0
  /\ loginError = "none"
  /\ outcome = "none"
  /\ firsts = {NoPrompt}
  /\ sendings = {}
  /\ refusals = {}

-----------------------------------------------------------------------------
(* The loop                                                                *)

Over(why) == loop' = "over" /\ outcome' = why

\* Mutation: the rounds are not counted.
RoundUncounted(s) ==
  /\ loop = "loop"
  /\ state = s
  /\ UNCHANGED attempts

\* A round of the loop begins, in this state.
Round(s) ==
  /\ loop = "loop"
  /\ state = s
  /\ attempts < MaxAttempts
  /\ attempts' = attempts + 1

\* "Couldn't login after 15 attempts, aborting": whatever the state by now.
TooManyAttempts ==
  /\ loop = "loop"
  /\ attempts = MaxAttempts
  /\ Over("attempts")
  /\ UNCHANGED <<tfaVars, caller, state, number, attempts, loginError, firsts, sendings, refusals>>

\* login_inner, the first time and after a code: the password, and what Apple
\* wants beside it.
Password ==
  /\ \/ loop = "first" /\ UNCHANGED attempts
     \/ Round("NeedsLogin")
  /\ \/ /\ state' \in {"LoggedIn", "NeedsDevice2FA", "NeedsSMS2FA", "NeedsExtraStep"}
        /\ number' = IF state' = "NeedsSMS2FA" THEN FirstNumber ELSE number
        /\ loop' = "loop"
        /\ UNCHANGED outcome
     \/ Over("failed") /\ UNCHANGED <<state, number>>
  /\ UNCHANGED <<tfaVars, caller, loginError, firsts, sendings, refusals>>

\* "Successfully logged in": the round that finds it so.
Succeed ==
  /\ Round("LoggedIn")
  /\ Over("ok")
  /\ UNCHANGED <<tfaVars, caller, state, number, loginError, firsts, sendings, refusals>>

\* Another step is wanted: with a token (get_pet) it is passed over.
ExtraStep ==
  /\ Round("NeedsExtraStep")
  /\ \/ state' = "LoggedIn" /\ UNCHANGED <<loop, outcome>>
     \/ Over("failed") /\ UNCHANGED state
  /\ UNCHANGED <<tfaVars, caller, number, loginError, firsts, sendings, refusals>>

\* A request of the loop to Apple fails: the trusted numbers, or the sending.
SendingFails ==
  /\ Round("NeedsDevice2FA") \/ Round("NeedsSMS2FA")
  /\ Over("failed")
  /\ UNCHANGED <<tfaVars, caller, state, number, loginError, firsts, sendings, refusals>>

SendToDevices ==
  /\ Round("NeedsDevice2FA")
  /\ state' = DeviceCode
  /\ sendings' = sendings \union {prompt}
  /\ UNCHANGED <<tfaVars, caller, loop, number, loginError, outcome, firsts, refusals>>

SendSms ==
  /\ Round("NeedsSMS2FA")
  /\ state' = SmsCode
  /\ sendings' = sendings \union {prompt}
  /\ UNCHANGED <<tfaVars, caller, loop, number, loginError, outcome, firsts, refusals>>

\* -28248, -22979, -22981: no SMS to this number, or too many of them.
SmsRefused ==
  /\ Round("NeedsSMS2FA")
  /\ state' = "NeedsUnknown2FA"
  /\ loginError' = "wrong"
  /\ refusals' = refusals \union {prompt}
  /\ UNCHANGED <<tfaVars, caller, loop, number, outcome, firsts, sendings>>

\* The callback is called: the page's opens a prompt, with the last error.
Ask ==
  /\ \E s \in Asks : Round(s)
  /\ loop' = "callback"
  /\ IF caller = "page" THEN OpenPrompt(loginError) ELSE UNCHANGED tfaVars
  /\ UNCHANGED <<caller, state, number, loginError, outcome, firsts, sendings, refusals>>

-----------------------------------------------------------------------------
(* The responses                                                           *)

\* What the page's callback returns for an answer, ...
OfAnswer == [code |-> "submit", resend |-> "resend", abort |-> "abort"]

\* ... and what open_session's returns without and with a terminal: there "r" is
\* a resend only when the method is known, and any other line is a code.
Typed ==
  CASE caller = "unattended"     -> {"empty"}
    [] state = "NeedsUnknown2FA" -> Responses \ {"abort", "resend"}
    [] OTHER                     -> Responses \ {"abort"}

Given(response) ==
  /\ loop = "callback"
  /\ IF caller = "page" THEN callback = "away" /\ OfAnswer[got[prompt]] = response
                        ELSE response \in Typed

\* Mutation: the error shown with the question stays for the next one.
TakeKeepingError(response) ==
  /\ Given(response)
  /\ loop' = "loop"
  /\ UNCHANGED <<tfaVars, caller, attempts, loginError, outcome, firsts, sendings>>

\* The loop takes a response, and the error shown with the question is spent.
Take(response) ==
  /\ Given(response)
  /\ loop' = "loop"
  /\ loginError' = "none"
  /\ UNCHANGED <<tfaVars, caller, attempts, outcome, firsts, sendings>>

\* Without knowing the method neither a code nor a resend means anything.
GoesOn(s, response) ==
  response # "abort" /\ (s = "NeedsUnknown2FA" => response \notin Submissions \union {"resend"})

\* Apple takes the code, which is not an empty one: the password is sent again.
CodeIsRight ==
  /\ Take("submit")
  /\ GoesOn(state, "submit")
  /\ state' = "NeedsLogin"
  /\ UNCHANGED <<number, refusals>>

\* -21669: the same question again, with the reason.
CodeIsWrong ==
  /\ \E response \in Submissions : Given(response) /\ GoesOn(state, response)
  /\ loop' = "loop"
  /\ loginError' = "wrong"
  /\ refusals' = refusals \union {prompt}
  /\ UNCHANGED <<tfaVars, caller, state, number, attempts, outcome, firsts, sendings>>

\* Mutation: the question is put again, and nothing is sent.
ResendAsksAgain ==
  /\ Take("resend")
  /\ GoesOn(state, "resend")
  /\ UNCHANGED <<state, number, refusals>>

Resend ==
  /\ Take("resend")
  /\ GoesOn(state, "resend")
  /\ state' = IF state = SmsCode THEN "NeedsSMS2FA" ELSE "NeedsDevice2FA"
  /\ UNCHANGED <<number, refusals>>

ToDevices ==
  /\ Take("devices")
  /\ state' = "NeedsDevice2FA"
  /\ UNCHANGED <<number, refusals>>

\* select_number: one of the trusted numbers.
ToNumber ==
  /\ Take("sms")
  /\ number' \in Trusted
  /\ state' = "NeedsSMS2FA"
  /\ UNCHANGED refusals

\* Any other error Apple gives to a code, a number not in the list, a response
\* that leads nowhere, nobody answering in time.
ResponseFails ==
  /\ \E response \in Responses :
       /\ Given(response)
       /\ IF GoesOn(state, response)
          THEN response \in Submissions \union {"sms"} /\ Over("failed")
          ELSE Over(IF response = "abort" THEN "canceled" ELSE "unanswerable")
  /\ loginError' = "none"
  /\ UNCHANGED <<tfaVars, caller, state, number, attempts, firsts, sendings, refusals>>

\* The user signs in once more from the page: the handler clears the channel's
\* error, and the account is a new one.  Bound: as long as there are prompts enough.
SignInAgain ==
  /\ loop = "over"
  /\ caller = "page"
  /\ prompt + MaxAttempts <= MaxPrompts + 1
  /\ loop' = "first"
  /\ state' = "NeedsLogin"
  /\ number' = FirstNumber
  /\ attempts' = 0
  /\ loginError' = "none"
  /\ outcome' = "none"
  /\ firsts' = firsts \union {prompt}
  /\ sendings' = sendings \ {prompt}
  /\ refusals' = refusals \ {prompt}
  /\ lastError' = "none"
  /\ UNCHANGED <<caller, callback, prompt, asking, tx, rx, poster, reason, replied, got>>

-----------------------------------------------------------------------------
LoopStep ==
  \/ TooManyAttempts
  \/ Password
  \/ Succeed
  \/ ExtraStep
  \/ SendingFails
  \/ SendToDevices
  \/ SendSms
  \/ SmsRefused
  \/ Ask

Response ==
  \/ CodeIsRight
  \/ CodeIsWrong
  \/ Resend
  \/ ToDevices
  \/ ToNumber
  \/ ResponseFails

Next ==
  \/ LoopStep
  \/ Response
  \/ SignInAgain
  \/ CallbackStep /\ UNCHANGED appleVars
  \/ PosterStep /\ UNCHANGED appleVars

\* Apple answers each request (or refuses it), and the callback has its deadline;
\* a terminal has none.
Spec ==
  /\ Init /\ [][Next]_vars
  /\ WF_vars(LoopStep)
  /\ WF_vars(caller # "terminal" /\ Response)
  /\ WF_vars(CallbackStep /\ UNCHANGED appleVars)

-----------------------------------------------------------------------------
(* Properties                                                              *)

AppleTypeOK ==
  /\ caller \in Callers
  /\ loop \in {"first", "loop", "callback", "over"}
  /\ state \in LoginStates
  /\ number \in Numbers
  /\ attempts \in 0..MaxAttempts
  /\ loginError \in CodeErrors
  /\ outcome \in Outcomes
  /\ firsts \subseteq 0..MaxPrompts
  /\ sendings \subseteq 0..MaxPrompts
  /\ refusals \subseteq 0..MaxPrompts

TypeOK == TfaTypeOK /\ AppleTypeOK

\* Before a sign-in's first question, and between a request to send the code again and
\* the question after it, Apple has sent a code, or has said why it did not: the
\* user is never left waiting for a code that nobody sent.
ResendIsSent ==
  \A i \in 0..MaxPrompts :
    i < prompt /\ (i \in firsts \/ got[i] = "resend") => i \in sendings \union refusals

\* The page shows an error beside the field exactly when Apple refused the code
\* (or the SMS) just before: an old error is never shown again, and no refusal
\* is kept from the user.
ReasonIsOfTheAnswerBefore ==
  \A i \in Prompts : i <= prompt => (reason[i] = "wrong" <=> i - 1 \in refusals)

\* Apple may ask for ever, and the user may ask again for ever: the sign-in ends,
\* and gives its job's guard back.  (A terminal may be left alone for ever.)
SignInEnds == caller # "terminal" ~> loop = "over"

=============================================================================
