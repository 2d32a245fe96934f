------------------------------- MODULE WebJobs -------------------------------
(***************************************************************************)
(* The web interface (src/src/web.rs): its three jobs (check, renew,       *)
(* login), the `busy` flag that lets one of them run at a time, and what   *)
(* the page is told of them (snapshot, job, login).                        *)
(*                                                                         *)
(* A SLOT is one HTTP request that may start a job, together with the job  *)
(* thread it starts: handlers run in parallel on the server's threads,     *)
(* and every action is the stretch between two accesses to the shared      *)
(* state.  A login's two-factor prompts are the ones of TfaChannel, whose  *)
(* callback runs on the login's thread.                                    *)
(***************************************************************************)
EXTENDS TfaChannel

CONSTANTS
  Slots,         \* requests that may start a job
  Nobody,        \* the holder of a guard that nobody holds
  MaxJobLines,   \* lines the page keeps of a renewal (300 in the code)
  MaxFaults      \* bound on panics and failed thread spawns of a behaviour

ASSUME NobodyIsNoSlot == Nobody \notin Slots
ASSUME MaxJobLinesAssumption == MaxJobLines \in Nat \ {0}
ASSUME MaxFaultsAssumption == MaxFaults \in Nat

\* The requests, and the job each one starts: "poll" is the page's own GET
\* /api/state, which starts a check.
Requests == {"poll", "check", "renew", "login"}
JobOf == [poll |-> "check", check |-> "check", renew |-> "renew", login |-> "login"]
Jobs == {"check", "renew", "login"}    \* each with its view on the page

\* Before the guard; with the guard, in the handler; on the job's thread.
HandlerStates == {"granted", "clearing", "marked"}
ThreadStates ==
  {"working", "looking", "closing", "logging", "recheck",
   "prompting", "coded", "refused", "saved", "panicked", "done"}
SlotStates == {"idle", "asked"} \union HandlerStates \union ThreadStates

\* Where a job awaits or computes, and may panic.
MayPanic == {"working", "looking", "closing", "logging", "recheck", "coded", "refused", "saved"}

Verdicts == {"none", "ok", "failed"}

\* account.json: complete, or of no use to a renewal, which takes it neither when
\* it is not there, nor emptied by a write that then failed, nor without password.
Accounts == {"unusable", "complete"}

VARIABLES
  busy,       \* App.busy
  snapshot,   \* Inner.snapshot: checking, and checked_at, fresh for 60 seconds
  job,        \* Inner.job: running, ok, number of lines
  login,      \* Inner.login.phase ("" is "none")
  account,    \* account.json, which this program and others write
  renewLog,   \* the verdict of the last block for renew.log, or "lost"
  slot,       \* each slot: its state, its job and the renewal's verdict
  \* history, read by the guards of the bound and by the properties only
  faults,     \* panics and failed spawns so far
  orphans     \* views left "in progress" by a thread that was never spawned

webVars == <<busy, snapshot, job, login, account, renewLog, slot, faults, orphans>>
vars == <<tfaVars, webVars>>

IdleSlot == [at |-> "idle", kind |-> "check", ok |-> FALSE]

Init ==
  /\ TfaInit
  /\ busy = FALSE
  /\ snapshot = [checking |-> FALSE, fresh |-> FALSE]
  /\ job = [running |-> FALSE, ok |-> "none", lines |-> 0]
  /\ login = "none"
  /\ account \in Accounts
  /\ renewLog = "none"
  /\ slot = [r \in Slots |-> IdleSlot]
  /\ faults = 0
  /\ orphans = {}

Goto(r, state) == slot' = [slot EXCEPT ![r].at = state]

\* The BusyGuard lives in the handler, and then on the job's thread.
Holds(r) == slot[r].at \notin {"idle", "asked"}

-----------------------------------------------------------------------------
(* The handlers, up to the spawn                                           *)

\* What a handler decides before it asks for the guard: the page's poll wants
\* old data and nobody checking (read under the lock, which it then releases);
\* a renewal wants a complete account.
Admitted(request) ==
  CASE request = "poll"  -> ~snapshot.checking /\ ~snapshot.fresh
    [] request = "renew" -> account = "complete"
    [] OTHER            -> TRUE

Request(r, request) ==
  /\ slot[r].at = "idle"
  /\ Admitted(request)
  /\ slot' = [slot EXCEPT ![r] = [at |-> "asked", kind |-> JobOf[request], ok |-> FALSE]]
  /\ UNCHANGED <<tfaVars, busy, snapshot, job, login, account, renewLog, faults, orphans>>

\* Mutation: a load and a later store in place of the compare_exchange.
TryBusyWithoutExchange(r) ==
  /\ slot[r].at = "asked"
  /\ busy' = TRUE
  /\ Goto(r, "granted")
  /\ UNCHANGED <<tfaVars, snapshot, job, login, account, renewLog, faults, orphans>>

\* try_busy: the compare_exchange, or 409 (nothing, for the page's poll).
TryBusy(r) ==
  /\ slot[r].at = "asked"
  /\ busy' = TRUE
  /\ slot' = [slot EXCEPT ![r] = IF busy THEN IdleSlot ELSE [@ EXCEPT !.at = "granted"]]
  /\ UNCHANGED <<tfaVars, snapshot, job, login, account, renewLog, faults, orphans>>

\* The view of the job is set under the lock, before the thread exists.
MarkView(r) ==
  LET view == slot[r].kind IN
  /\ slot[r].at = "granted"
  /\ snapshot' = IF view = "check" THEN [snapshot EXCEPT !.checking = TRUE] ELSE snapshot
  /\ job' = IF view = "renew" THEN [running |-> TRUE, ok |-> "none", lines |-> 0] ELSE job
  /\ login' = IF view = "login" THEN "working" ELSE login
  /\ Goto(r, IF view = "login" THEN "clearing" ELSE "marked")
  /\ UNCHANGED <<tfaVars, busy, account, renewLog, faults, orphans>>

\* The login handler forgets the error of an earlier code.
ClearCodeError(r) ==
  /\ slot[r].at = "clearing"
  /\ lastError' = "none"
  /\ Goto(r, "marked")
  /\ UNCHANGED <<callback, prompt, asking, tx, rx, poster, reason, replied, got,
                 busy, snapshot, job, login, account, renewLog, faults, orphans>>

\* spawn_job: the view is the thread's from here on.
Spawn(r) ==
  /\ slot[r].at = "marked"
  /\ Goto(r, "working")
  /\ orphans' = orphans \ {slot[r].kind}
  /\ UNCHANGED <<tfaVars, busy, snapshot, job, login, account, renewLog, faults>>

\* The result of `spawn` is ignored.  When the system refuses the thread the
\* closure is dropped, and the guard with it: busy is over, the view is not.
SpawnFails(r) ==
  /\ slot[r].at = "marked"
  /\ faults < MaxFaults
  /\ faults' = faults + 1
  /\ busy' = FALSE
  /\ orphans' = orphans \union {slot[r].kind}
  /\ slot' = [slot EXCEPT ![r] = IdleSlot]
  /\ UNCHANGED <<tfaVars, snapshot, job, login, account, renewLog>>

-----------------------------------------------------------------------------
(* run_check, as a job of its own and at the end of a renewal              *)

\* Mutation: every job, not only a renewal, starts with an empty job view.
CheckBeginsAnew(r) ==
  /\ \/ slot[r].at = "working" /\ slot[r].kind = "check"
     \/ slot[r].at = "recheck"
  /\ snapshot' = [snapshot EXCEPT !.checking = TRUE]
  /\ job' = [running |-> FALSE, ok |-> "none", lines |-> 0]
  /\ orphans' = orphans \ {"check"}
  /\ Goto(r, "looking")
  /\ UNCHANGED <<tfaVars, busy, login, account, renewLog, faults>>

CheckBegins(r) ==
  /\ \/ slot[r].at = "working" /\ slot[r].kind = "check"
     \/ slot[r].at = "recheck"
  /\ snapshot' = [snapshot EXCEPT !.checking = TRUE]
  /\ orphans' = orphans \ {"check"}
  /\ Goto(r, "looking")
  /\ UNCHANGED <<tfaVars, busy, job, login, account, renewLog, faults>>

\* The phone answered, could not be reached, or 45 seconds went by: what the
\* page shows differs, what it is told of the job does not.
CheckEnds(r) ==
  /\ slot[r].at = "looking"
  /\ snapshot' = [checking |-> FALSE, fresh |-> TRUE]
  /\ Goto(r, "done")
  /\ UNCHANGED <<tfaVars, busy, job, login, account, renewLog, faults, orphans>>

-----------------------------------------------------------------------------
(* run_renew                                                               *)

\* push_line, which drops the first line of a full list.
Pushed == [job EXCEPT !.lines = IF @ < MaxJobLines THEN @ + 1 ELSE MaxJobLines]

RenewSays(r) ==
  /\ slot[r].at = "working" /\ slot[r].kind = "renew"
  /\ job' = Pushed
  /\ UNCHANGED <<tfaVars, busy, snapshot, login, account, renewLog, slot, faults, orphans>>

\* cmd_renew returns; an error adds its line before the view is closed.
RenewReturns(r, ok) ==
  /\ slot[r].at = "working" /\ slot[r].kind = "renew"
  /\ job' = IF ok THEN job ELSE Pushed
  /\ slot' = [slot EXCEPT ![r].at = "closing", ![r].ok = ok]
  /\ UNCHANGED <<tfaVars, busy, snapshot, login, account, renewLog, faults, orphans>>

Verdict(ok) == IF ok THEN "ok" ELSE "failed"

\* Mutation: only a renewal that failed is logged.
RenewClosesQuietly(r) ==
  /\ slot[r].at = "closing"
  /\ job' = [job EXCEPT !.running = FALSE, !.ok = Verdict(slot[r].ok)]
  /\ Goto(r, IF slot[r].ok THEN "recheck" ELSE "logging")
  /\ UNCHANGED <<tfaVars, busy, snapshot, login, account, renewLog, faults, orphans>>

RenewCloses(r) ==
  /\ slot[r].at = "closing"
  /\ job' = [job EXCEPT !.running = FALSE, !.ok = Verdict(slot[r].ok)]
  /\ Goto(r, "logging")
  /\ UNCHANGED <<tfaVars, busy, snapshot, login, account, renewLog, faults, orphans>>

\* append_log gives up in silence when the file does not open, and ignores what
\* it cannot write: the block is then missing, or has no result.
RenewLogs(r, written) ==
  /\ slot[r].at = "logging"
  /\ renewLog' = IF written THEN Verdict(slot[r].ok) ELSE "lost"
  /\ Goto(r, "recheck")
  /\ UNCHANGED <<tfaVars, busy, snapshot, job, login, account, faults, orphans>>

-----------------------------------------------------------------------------
(* run_login                                                               *)

\* A login at Apple that has no answer of Apple's yet, or has sent a code.
SigningIn(r) == slot[r].kind = "login" /\ slot[r].at \in {"working", "coded"}

\* Apple wants a code.  Any question may come with an error: of a refused code,
\* or of a code that could not be sent, the first one or one sent again.
LoginPrompts(r, err) ==
  /\ SigningIn(r)
  /\ OpenPrompt(err)
  /\ Goto(r, "prompting")
  /\ UNCHANGED <<busy, snapshot, job, login, account, renewLog, faults, orphans>>

\* Where the login goes with what the callback returned ("none" is not one).
AfterAnswer ==
  [code |-> "coded", resend |-> "working", abort |-> "refused", none |-> "refused"]

\* The callback goes on, and returns to the login: with a code to submit, a
\* new one to ask for, or nothing, which ends the login.
LoginAwaitsCode(r) ==
  /\ slot[r].at = "prompting"
  /\ CallbackStep
  /\ Goto(r, IF callback' # "away" THEN "prompting" ELSE AfterAnswer[got[prompt]])
  /\ UNCHANGED <<busy, snapshot, job, login, account, renewLog, faults, orphans>>

\* open_session_web and pick_team succeed, and the account is saved, with the
\* password or without.
LoginSaves(r, saved) ==
  /\ SigningIn(r)
  /\ account' = saved
  /\ Goto(r, "saved")
  /\ UNCHANGED <<tfaVars, busy, snapshot, job, login, renewLog, faults, orphans>>

\* save_account fails: it could not open the file, or not write the one it had
\* emptied, or not set the permissions of the one it had written.
LoginSaveFails(r, left) ==
  /\ SigningIn(r)
  /\ account' = left
  /\ Goto(r, "refused")
  /\ UNCHANGED <<tfaVars, busy, snapshot, job, login, renewLog, faults, orphans>>

\* `altkeeper login` in a terminal, another process, which knows no guard: it
\* saves the account in the same way, or fails to.
CommandLineLogin(left) ==
  /\ account' = left
  /\ UNCHANGED <<tfaVars, busy, snapshot, job, login, renewLog, slot, faults, orphans>>

\* The view of the login, and the phone's data are to be looked at again.
LoginEnds(r, phase) ==
  /\ \/ slot[r].at = "saved" /\ phase = "done"
     \/ (SigningIn(r) \/ slot[r].at = "refused") /\ phase = "failed"
  /\ login' = phase
  /\ snapshot' = [snapshot EXCEPT !.fresh = FALSE]
  /\ Goto(r, "done")
  /\ UNCHANGED <<tfaVars, busy, job, account, renewLog, faults, orphans>>

-----------------------------------------------------------------------------
(* The end of every job                                                    *)

Panics(r) ==
  /\ slot[r].at \in MayPanic
  /\ faults < MaxFaults
  /\ faults' = faults + 1
  /\ Goto(r, "panicked")
  /\ UNCHANGED <<tfaVars, busy, snapshot, job, login, account, renewLog, orphans>>

\* Mutation: the panic is reported as a phase of its own.
ReportPanicByName(r) ==
  /\ slot[r].at = "panicked"
  /\ snapshot' = [snapshot EXCEPT !.checking = FALSE]
  /\ job' = [running |-> FALSE, ok |-> "failed", lines |-> job.lines + 1]
  /\ login' = "panicked"
  /\ orphans' = {}
  /\ Goto(r, "done")
  /\ UNCHANGED <<tfaVars, busy, account, renewLog, faults>>

\* Mutation: the check's own flag is not among those a panic resets.
ReportPanicStillChecking(r) ==
  /\ slot[r].at = "panicked"
  /\ job' = [running |-> FALSE, ok |-> "failed", lines |-> job.lines + 1]
  /\ login' = IF login = "working" THEN "failed" ELSE login
  /\ orphans' = {}
  /\ Goto(r, "done")
  /\ UNCHANGED <<tfaVars, busy, snapshot, account, renewLog, faults>>

\* Mutation: the guard is dropped where the job returns, which a panic skips.
ReportPanicKeepsGuard(r) ==
  /\ slot[r].at = "panicked"
  /\ snapshot' = [snapshot EXCEPT !.checking = FALSE]
  /\ job' = [job EXCEPT !.running = FALSE, !.ok = "failed"]
  /\ login' = IF login = "working" THEN "failed" ELSE login
  /\ orphans' = {}
  /\ UNCHANGED <<tfaVars, busy, account, renewLog, slot, faults>>

\* After catch_unwind: every view is closed, whoever's job it was, and the
\* line is added without looking at the limit.
ReportPanic(r) ==
  /\ slot[r].at = "panicked"
  /\ snapshot' = [snapshot EXCEPT !.checking = FALSE]
  /\ job' = [running |-> FALSE, ok |-> "failed", lines |-> job.lines + 1]
  /\ login' = IF login = "working" THEN "failed" ELSE login
  /\ orphans' = {}
  /\ Goto(r, "done")
  /\ UNCHANGED <<tfaVars, busy, account, renewLog, faults>>

\* The guard is dropped with the thread's closure.
Release(r) ==
  /\ slot[r].at = "done"
  /\ busy' = FALSE
  /\ slot' = [slot EXCEPT ![r] = IdleSlot]
  /\ UNCHANGED <<tfaVars, snapshot, job, login, account, renewLog, faults, orphans>>

\* More than 60 seconds since the last check.
DataAge ==
  /\ snapshot.fresh
  /\ snapshot' = [snapshot EXCEPT !.fresh = FALSE]
  /\ UNCHANGED <<tfaVars, busy, job, login, account, renewLog, slot, faults, orphans>>

\* A request with the code, or one to resend it, touches the channel only.
CodeRequest == PosterStep /\ UNCHANGED webVars

-----------------------------------------------------------------------------
\* Steps that no answer of the phone or of Apple can hold up: a few
\* instructions of a running thread, the 45 seconds of a check and the 300
\* seconds of a prompt.  A renewal and Apple's sign-in have no deadline.
TimelySteps(r) ==
  \/ TryBusy(r) \/ MarkView(r) \/ ClearCodeError(r) \/ Spawn(r)
  \/ CheckBegins(r) \/ CheckEnds(r)
  \/ RenewCloses(r) \/ \E written \in BOOLEAN : RenewLogs(r, written)
  \/ LoginAwaitsCode(r)
  \/ slot[r].at = "saved" /\ LoginEnds(r, "done")
  \/ slot[r].at = "refused" /\ LoginEnds(r, "failed")
  \/ ReportPanic(r) \/ Release(r)

Next ==
  \/ \E r \in Slots :
       \/ \E request \in Requests : Request(r, request)
       \/ TryBusy(r)
       \/ MarkView(r)
       \/ ClearCodeError(r)
       \/ Spawn(r)
       \/ SpawnFails(r)
       \/ CheckBegins(r)
       \/ CheckEnds(r)
       \/ RenewSays(r)
       \/ \E ok \in BOOLEAN : RenewReturns(r, ok)
       \/ RenewCloses(r)
       \/ \E written \in BOOLEAN : RenewLogs(r, written)
       \/ \E err \in CodeErrors : LoginPrompts(r, err)
       \/ LoginAwaitsCode(r)
       \/ \E saved \in Accounts : LoginSaves(r, saved)
       \/ \E left \in Accounts : LoginSaveFails(r, left)
       \/ \E phase \in {"done", "failed"} : LoginEnds(r, phase)
       \/ Panics(r)
       \/ ReportPanic(r)
       \/ Release(r)
  \/ DataAge
  \/ CodeRequest
  \/ \E left \in Accounts : CommandLineLogin(left)

SafeSpec == Init /\ [][Next]_vars
Spec == SafeSpec /\ \A r \in Slots : WF_vars(TimelySteps(r))

-----------------------------------------------------------------------------
(* Properties                                                              *)

WebTypeOK ==
  /\ busy \in BOOLEAN
  /\ snapshot \in [checking : BOOLEAN, fresh : BOOLEAN]
  /\ job \in [running : BOOLEAN, ok : Verdicts, lines : Nat]
  /\ login \in {"none", "working", "done", "failed"}
  /\ account \in Accounts
  /\ renewLog \in Verdicts \union {"lost"}
  /\ slot \in [Slots -> [at : SlotStates, kind : Jobs, ok : BOOLEAN]]
  /\ faults \in Nat
  /\ orphans \subseteq Jobs

TypeOK == TfaTypeOK /\ WebTypeOK

\* However the requests interleave, one job at a time holds the guard, and the
\* flag says so: a guard is neither lost (busy for ever, every request refused
\* with 409) nor shared (two jobs on the phone, or two logins at Apple).
OneJobAtATime ==
  /\ \A r, q \in Slots : Holds(r) /\ Holds(q) => r = q
  /\ busy <=> \E r \in Slots : Holds(r)

\* The jobs share the guard as workers share a lock.
Holder == IF \E r \in Slots : Holds(r) THEN CHOOSE r \in Slots : Holds(r) ELSE Nobody

JobLock == INSTANCE WorkLock WITH Workers <- Slots, holder <- Holder

ImplementsWorkLock == JobLock!Spec

Doing(view) == \E r \in Slots : Holds(r) /\ slot[r].kind = view

\* Nothing is shown as in progress that nobody is doing, panics included; the
\* exception is the job whose thread the system refused (see SpawnFails).  A
\* renewal also looks at the phone, when it ends.
ProgressIsReal ==
  /\ snapshot.checking => Doing("check") \/ Doing("renew") \/ "check" \in orphans
  /\ job.running => Doing("renew") \/ "renew" \in orphans
  /\ login = "working" => Doing("login") \/ "login" \in orphans

\* The page shows the field for the code only within a login in progress: it
\* reads `asking` before the phase, and a login that is over must not leave it.
NeedsCodeOnlyInLogin ==
  asking => login = "working" /\ \E r \in Slots : slot[r].at = "prompting"

\* The error beside the field is the one of this prompt: no other login's
\* handler may clear it, and the one that waits cleared it before.
PageShowsPromptError == AskingShowsItsReason

\* Once nothing is running, a renewal the page reports as successful has had its
\* block written to renew.log as successful, unless the write itself failed,
\* which append_log does not report: the log never tells of that renewal as a
\* failure, or still of the one before it, because a panic or another job came
\* between the page's verdict and the block.
SuccessIsLogged == ~busy /\ job.ok = "ok" => renewLog \in {"ok", "lost"}

\* The page keeps at most MaxJobLines lines of a renewal, and one more for
\* each panic, which does not look at the limit.
LinesAreBounded == job.lines <= MaxJobLines + faults

\* A verdict on the page changes only when a new renewal starts or a job
\* panics (a check's or a login's too): a check or a login that ends well, or
\* badly, leaves the verdict of the renewal before it alone.
VerdictIsKept ==
  [][job.ok # "none" /\ job'.ok # job.ok =>
       \E r \in Slots :
         \/ slot[r].kind = "renew" /\ slot[r].at = "granted"
         \/ slot[r].at = "panicked"]_vars

\* Of the page's own jobs only a login changes the account, a failed one too, and
\* none does while a renewal of the page is using it.  Nothing keeps a login in
\* a terminal from doing so.
OnlyLoginsChangeTheAccount ==
  [][account' # account =>
       \/ ~Doing("renew") /\ Doing("login")
       \/ \E left \in Accounts : CommandLineLogin(left)]_vars

\* Where only the phone (in a renewal) or Apple (in a sign-in) can end the wait.
AwaitsOthers(r) == slot[r].kind \in {"renew", "login"} /\ slot[r].at \in {"working", "coded"}

\* The guard comes back: a check ends whatever the phone does, a wait for a
\* code ends, and so does a job that panicked.  Only the phone in the middle of
\* a renewal and Apple in the middle of a sign-in, where the code has no
\* deadline, can keep it.
GuardComesBack == \A r \in Slots : Holds(r) ~> ~Holds(r) \/ AwaitsOthers(r)

-----------------------------------------------------------------------------
(* Why they hold: the inductive invariant                                  *)

\* Which job a state of a slot belongs to.
KindsFit ==
  \A r \in Slots :
    /\ slot[r].at \in {"clearing", "prompting", "coded", "refused", "saved"} =>
         slot[r].kind = "login"
    /\ slot[r].at \in {"closing", "logging", "recheck"} => slot[r].kind = "renew"
    /\ slot[r].at = "looking" => slot[r].kind # "login"

\* The callback runs on the thread of the login that waits for it, and a login
\* shows that it works until it ends.
CallbackIsTheLogins ==
  /\ callback # "away" <=> \E r \in Slots : slot[r].at = "prompting"
  /\ \A r \in Slots :
       slot[r].kind = "login" /\ Holds(r)
         /\ slot[r].at \notin {"granted", "panicked", "done"} => login = "working"

\* Who keeps each view in progress.
Checks(r) ==
  /\ Holds(r) /\ slot[r].at # "done"
  /\ \/ slot[r].kind = "check"
     \/ slot[r].kind = "renew" /\ slot[r].at \in {"looking", "panicked"}
Renews(r) ==
  Holds(r) /\ slot[r].kind = "renew"
    /\ slot[r].at \notin {"logging", "recheck", "looking", "done"}
LogsIn(r) == Holds(r) /\ slot[r].kind = "login" /\ slot[r].at # "done"

ViewsAreKept ==
  /\ snapshot.checking => "check" \in orphans \/ \E r \in Slots : Checks(r)
  /\ job.running => "renew" \in orphans \/ \E r \in Slots : Renews(r)
  /\ login = "working" => "login" \in orphans \/ \E r \in Slots : LogsIn(r)

\* A renewal has no verdict before it closes, and afterwards its own; a success
\* is in the log, or on its way there, or its write failed.
VerdictIsOwn ==
  /\ \A r \in Slots : slot[r].kind = "renew" =>
       /\ slot[r].at \in {"marked", "working", "closing"} => job.ok = "none"
       /\ slot[r].at = "logging" => job.ok = Verdict(slot[r].ok)
  /\ job.ok = "ok" =>
       \/ renewLog \in {"ok", "lost"}
       \/ \E r \in Slots : slot[r].at \in {"logging", "panicked"}

LinesCount ==
  /\ LinesAreBounded
  /\ \A r \in Slots : slot[r].at = "panicked" => job.lines < MaxJobLines + faults

WebInv ==
  /\ TfaInv /\ WebTypeOK
  /\ OneJobAtATime /\ KindsFit /\ CallbackIsTheLogins
  /\ ViewsAreKept /\ VerdictIsOwn /\ LinesCount

\* "Segna il lavoro come finito quando viene lasciato" (web.rs:106): with the
\* guard gone nothing is shown as in progress.  The code does not keep this
\* when a thread cannot be spawned: see SpawnFails.
GuardGoneMeansFinished ==
  ~busy => ~snapshot.checking /\ ~job.running /\ login # "working"

=============================================================================
