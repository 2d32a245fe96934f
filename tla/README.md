# AltKeeper in TLA+

AltKeeper keeps the apps that AltStore sideloads on an iPhone alive without a
computer at hand: a small server at home renews the 7-day provisioning profiles
over Wi-Fi every evening, shows its state in a web page, and plays the AltServer
that AltStore itself looks for. This directory holds the specifications of its
concurrent and long-lived parts, the TLC models that check them, and the theorems
about them that TLAPS proves. Line numbers refer to the files under `src/`
(`web.rs` is `src/src/web.rs`, and so on).

    tlc -workers 2 -config MCWebJobs.cfg MCWebJobs.tla    # one run of the table below
    tlapm WebJobsProofs.tla                               # one module of proofs

## 1. The system

| Component | State it keeps | Operations | Interacts through | What is hard |
|---|---|---|---|---|
| **Web jobs** (`web.rs` 40-150, 336-600) | `busy`; the views `snapshot`, `job`, `login` under one mutex | `GET /api/state` (may start a check), `check`, `renew`, `login`; the job threads `run_check`, `run_renew`, `run_login` | the phone, `account.json`, `renew.log`, the two-factor channel | handlers and jobs in parallel; panics; threads refused; views and guard set at different moments |
| **Two-factor channel** (`apple.rs` 79-100, 222-257; `web.rs` 476-502) | `tx`, `asking`, `last_error`, one oneshot per prompt | the callback of the login, `login_code`, `login_resend` | the login's thread and the web server's threads | deadline of 300 s against a late answer; double posts; prompts in a row |
| **Sign-in** (`apple.rs` 120-260; vendored `apple_account.rs`) | the loop's state, its attempts, its last error | password, two-factor loop, resends and SMS, extra steps | Apple; the two-factor channel, a terminal, or nobody | refusals and resends, errors carried from round to round, loop bounds |
| **Anisette identity** (`apple.rs` 118; vendored `remote_v3`) | `state/anisette_state` | read, provision, truncate and write back, at every sign-in and every request of AltStore | Apple's and the anisette servers; four users in three processes | read-modify-write without a lock; truncate-then-write; crashes |
| **Account file** (`apple.rs` 40-78) | `account.json` | read, save | every job and cron | the same, and its agreement with the identity |
| **AltServer** (`altserver.rs`) | `WORK`, `ANISETTE_CACHE`, one state per connection | connect, frames of the protocol, anisette data, install/remove profiles, install/remove an app | AltStore's connections, the phone, Apple's servers | connections that stay open, locks, partial failures, panics, hang-ups |
| **Renewal** (`main.rs` 209-292; `profile.rs`; `examples/renew.sh`) | the profiles on the phone, `account.json` | `renew` by cron and by the web page | the phone, Apple | two processes with no common lock; decisions on what was read before a sign-in; several evenings of failures |
| **Phone search** (`phone.rs`) | the last good address | `connect_auto`: preferred, last, Bonjour, scan, Bonjour | the network | order and repetition of tries, 12 s each |
| **DNS-SD server** (`dnssd.rs`; `main.rs` start_dnssd) | the zone | query to reply, over UDP | a phone outside the home network, through its resolver | a chain of five questions whose names must agree; reverse names and subnets; capitals; the size of a datagram; loss and restarts |
| **Renewal log** (`web.rs`, `renew.sh`) | `renew.log` | append, parse for the history | page and cron | the format both must agree on |
| **Profile backup** (`main.rs` profile-remove/-restore) | files on disk | save, read back, remove; restore | the phone | a stop between the steps |
| Bonjour announcement, HTTP guard, page, command line, signing library | little or none | | | see `components` of PROJECT.json |

Who calls whom: the web page's jobs and cron both run `cmd_renew`; a web login
runs `open_session_web`, whose callback waits on the two-factor channel that the
web handlers answer, inside the loop of the signing library; AltStore, which may
have found the server through DNS-SD, talks to the AltServer, which uses the phone
and the anisette data by itself. The page's jobs are serialised by `busy`, the
AltServer's connections by `WORK`; nothing serialises the one with the other, nor
with cron, and they share the phone and the files in `state/`.

What makes each part correct: *web jobs* - one at a time, guard never lost, the
page shows neither work nobody does nor a verdict that is not the job's;
*two-factor channel* - an answer goes to the prompt it was taken for, once, the
requester is told the truth, and every prompt ends; *sign-in* - nobody waits for a
code that was not sent or sees an error that is not of their last answer, and it
ends; *files* - they parse, and the account that lets cron renew goes with an
identity that Apple trusts; *AltServer* - one operation on the phone at a time, no
lock held while a client is waited for, every success true; *renewal* - no app
expires before several spoilt evenings, nothing done needlessly, success means
renewed; *search* - a phone that keeps still is found, no address costs its 12 s
twice; *DNS-SD* - a phone of the clients' network finds the server, and its address
alone tells another nothing.

## 2. The modules

    OneAnswer, WorkLock                the abstract specifications
    TfaChannel   implements OneAnswer
      +- WebJobs      EXTENDS TfaChannel, implements WorkLock
      +- AppleLogin   EXTENDS TfaChannel, implements OneAnswer
    AltServer    implements WorkLock
    Renewal    PhoneSearch    SharedFiles    DnsSd
    XProofs      EXTENDS X (AppleLoginProofs also TfaChannelProofs, and
                 WebJobsProofs too: the channel's lemmas are used as they are)

| Module | Models | Actions and the code |
|---|---|---|
| `TfaChannel` | `TfaChannel`, the callback of `open_session_web`, `login_code`/`login_resend` | The callback is `OpenPrompt`, `OfferSender`, `RaiseAsking`, then `ReadAnswer` or `Expire` + `DropReceiver`, `LowerAsking`, `ReturnFromCallback`: one action per access to shared state, lines 230-245 in order. `answer()` is `TakeSender` (under the mutex) and `SendAnswer` (outside it). A request without a sender changes nothing (409). |
| `OneAnswer` | the promise of a prompt | ask, acknowledge one answer, use it or give up |
| `AppleLogin` | the loop of `login_impl`, driven by the page's callback, by `open_session` at a terminal, or by nobody | A pass of the loop is `Password`, `SendToDevices`, `SendSms`/`SmsRefused`, `SendingFails`, `ExtraStep`, `Succeed` or `Ask`, which counts an attempt (`Round`; but not the password before the loop) or is `TooManyAttempts`. What comes back is `CodeIsRight`, `CodeIsWrong`, `Resend`, `ToDevices`, `ToNumber` or `ResponseFails`. `SignInAgain` is the user's next try. |
| `WebJobs` | the handlers, `spawn_job` and the three jobs, composed with `TfaChannel` | A *slot* is a request and the thread it spawns: `Request` (what the handler reads), `TryBusy`, `MarkView`, `ClearCodeError`, `Spawn`/`SpawnFails`, the job's own steps, `Panics`/`ReportPanic` (catch_unwind), `Release` (the guard's drop). Of `account.json` it keeps what a renewal's admission looks at, complete or unusable: `LoginSaves`, `LoginSaveFails` (before the truncation, between it and the write, or after) and `CommandLineLogin`, a login in a terminal, which takes no guard. `RenewLogs` may fail to write, as `append_log` may, in silence. |
| `WorkLock` | a lock | acquired when free, released by its holder |
| `SharedFiles` | `state/anisette_state` and `account.json`, used by cron, the page, the command line and AltStore's requests | `Begin` (load_account); `ReadIdentity`, `Provision`/`ProvisionFails`, `TruncateIdentity`, `WriteIdentity`; `SignedIn`, `CodeIsTyped`, `SignInFails`; `PickTeam`/`PickTeamFails`, `TruncateAccount`, `FillAccount`; the faults `WriteFails` and `Crash`, of one actor and of a process with all its actors. |
| `AltServer` | the connections, `WORK`, `ANISETTE_CACHE`, what the phone keeps | Reading a frame picks any request (`ReadBadJson`, `ReadImmediate`, `ReadAnisetteRequest`, `ReadPhoneRequest`, `ReadPrepare`, `ReadApp`, `ReadBegin`, `RefuseApp`, `ReadEnds`); `LockCache` ... `Generated` are `anisette()`; `TakePhone` ... `PhoneDone`/`PhoneFails` the phone requests, with `Listed` (`copy_all` before a removal) and `NotifyProgress`/`Notified` (a frame of progress, begun and taken by the client); `Reply`, `Part`; `Die` a panicking thread. `OthersChange` is a renewal of cron or of the page, or `profile-remove`: another process or thread changes the phone's profiles without `WORK`. |
| `Renewal` | `cmd_renew` evening after evening, with `latest_by_bundle` and `days_left` | `Start`, `ReadPhone`/`NotConnected`, `NothingToRenew`/`SignIn`, `SignedIn`/`SignInFails`, `SkipWithoutAppId`/`RenewApp`/`RenewFails`, `AllRenewed`, `Finish`/`CheckFails`; the world is `AltStoreRenews`, `AltStoreRemoves` (also `profile-remove`) and `Tick`. |
| `PhoneSearch` | `connect_auto`, the two finders and `state/phone-addr` | `Begin`, then `TryFails`/`TrySucceeds` + `Save` for the known addresses, `ReadPort`, the rounds `Discover`, `Scan`, `Discover`, each followed by tries, and `NotFound`; `Stop` is a check whose 45 s are over, or the process; the world is `Move`. |
| `DnsSd` | `Zone::new`, `covers_reverse`, `answer`, `handle`, `build_reply` with names and sizes, and a phone that follows RFC 6763 through them, from the reverse name of its address or from a domain it searches | The server is the pure operators (`ZoneOf`, `CoversReverse`, `Records`, `Answer`, `Size`, `Fitting`, `Handle`) and one action, `Receive`. `Ask`, `Deliver` and `Expire` are the phone and its resolver, `Lose` the network, `Restart` the program started again elsewhere. |
| `MC*` | finite instances | constants and symmetry only (`SharedFiles` needs none: its constants are numbers) |
| `TfaChannelProofs`, `AppleLoginProofs`, `WebJobsProofs`, `SharedFilesProofs`, `AltServerProofs`, `RenewalProofs`, `PhoneSearchProofs`, `DnsSdProofs` | the theorems | one lemma per action or group of actions |

Operators named in a comment that begins "Mutation:" are wrong variants of the
definition after them, the sort of slip a change to the code might make. No
specification uses them: each one is put in place of the right definition to see
that a property notices.

Abstractions common to all: message texts, codes, bytes and log lines are left out
or are members of small sets; the phone and Apple answer or fail as they please;
every stretch of code between two accesses to shared state is one action. In
`DnsSd` a label keeps what the code tells apart: its text, its case, its length; what
may be configured there is `IsConfig`, what the code accepts, labels and names of any
length and an empty domain included; what DNS can carry of it is `Publishable`, which
the properties that need it name.

## 3. The runs

| Run | Instance | What it shows |
|---|---|---|
| `login` | a sign-in of 5 rounds, then others as long as 6 prompts last; 2 posters; fairness | The safety of the channel under Apple's loop, that the threads implement `OneAnswer`, that a resend is sent and an error is of the answer before, that every prompt and every sign-in ends. Five rounds fit a sending, a code refused, one sent again and one taken, and a loop that never gets there; two requests race for each prompt, and one of them may still hold the sender of a prompt that is over. The first number is not a trusted one, so an SMS may go astray. |
| `tfa_lost` | the channel alone, 3 posters, 1 prompt | Finding 1. |
| `web` | 2 slots, 1 poster, 1 prompt, 1 line, 1 fault; fairness | One job at a time and a truthful page through every interleaving, one panic or refused thread anywhere, and the guard comes back from whatever has a deadline; a success on the page is in the log, unless it could not be written. Two slots: every hazard listed is between two requests, and the lemmas of the proof speak of two slots at a time. A fault between jobs needs only one; `MaxJobLines` of 1 makes the list full at once. One prompt: prompts in a row are the matter of `login`. |
| `web_spawn` | the same | Finding 2. |
| `alt` | 2 connections, 1 bundle with 2 profiles; fairness | Exclusion, no lock held while waiting for a client's frame, true successes but for the profiles that others changed meanwhile, and the phone and the cache are handed on, unless their holder waits where the code has no deadline. Two connections without symmetry, which liveness forbids; that the safety holds of any number is proved. |
| `renewal` | 2 apps, 2 ticks a day, lifetime 3, threshold 1; symmetry | Success leaves nothing due behind, no needless sign-in or renewal, and an app that nobody takes away expires only after as many spoilt evenings in a row as the threshold; cron, page and AltStore, which renews and removes, interleaved (3.5 million states). A lifetime two days above the threshold is the least `DaysAssumption` allows. Two ticks make an evening different from the rest of a day, so that a day rounded down shows; the code's 7 days and 3 are covered by the proof. |
| `renewal_apart` | 2 apps, 1 tick a day, lifetime 4, threshold 2 | Finding 3. |
| `search` | 2 searches, 2 addresses (one of another port); fairness | No address twice, a steady phone is found, only our phone's address is remembered, every search ends. Two searches are enough to rewrite the file under each other; Bonjour answers with any addresses, so one that is not the phone's stands for every stranger. |
| `search_port` | 1 search, 4 addresses, another iPhone | Finding 4. |
| `dns` | 4 octets of 2 bits, networks of 0, 3, 4 and 7 bits, 4 phones and one that searches the domain, 2 endpoints, 1 restart, 2 messages in flight; fairness | With names that DNS can carry, a phone of the clients' network or one that searches the domain is never told that a name does not exist and finds the server in the end, whatever the capitals, but for a resolver that checks the case; one that asks for its own reverse name from elsewhere learns nothing; replies fit and are honest, for any names. The networks end before, in the middle of and after an octet; the phones ask with whole addresses and with networks' names; one domain is so long that the two records of the instance do not fit together, one is empty, and one host name makes a label above 63 bytes. |
| `files` | 3 identities, 4 jobs, 1 fault | Apart from jobs that hold the identity at the same time and writes cut short, the files parse and fit together. One fault, since what it spoils is excused from then on; three identities, one more than the replacement of a trusted one needs; four jobs, one of each actor or a sign-in and three after it. |
| `files_apart` | 2 identities, 3 jobs, no fault | Finding 5. |

TLC checks for deadlock (a state without a next step) except where the behaviours
of the model do stop: when the bounded prompts or jobs are used up (`login`, when a
sign-in is over, `tfa_lost`, `files`, `files_apart`) and when the phone has all the
records it wants and the restarts are over (`dns`). A job that waits for ever is a
matter of the liveness properties.

Bounds: `MaxPrompts` (calls of the callback in a behaviour), `MaxAttempts` (15 in
the code), `MaxFaults` (panics and refused threads; crashes and failed writes),
`MaxJobLines` (300 in the code), `MaxDevices` and `MaxStarts`, `MaxRestarts` and
`MaxInFlight`; in `Renewal` the spoilt evenings are counted up to `MinDays + 1`, an
expired profile stays at 0 ticks, and the two newest profiles of a bundle are kept,
since the newest alone counts and the second stands for all the old ones.

### Fairness

* `TfaChannel`: weak fairness of the callback's steps together. Its waits are a
  timer of 300 s, and the rest a few instructions of a running thread. No request
  is fair: nobody has to type a code.
* `AppleLogin`: weak fairness of the loop's steps (Apple answers a request or the
  connection breaks), of the responses except a terminal's, which reads its line
  without a deadline, and of the callback as above. `SignInEnds` therefore excepts
  the terminal; it relies on no fairness of the user or of what Apple answers.
* `WebJobs`: weak fairness, slot by slot, of `TimelySteps`: instructions, the 45 s
  of a check, the 300 s of a prompt. Not fair: a renewal and the sign-in at Apple,
  which have no deadline in the code. `GuardComesBack` excepts just these.
* `AltServer`: weak fairness of each connection's `TimelyStep` and of its client's
  steps, which the server's deadlines (120 s, 600 s) force. Not fair, because the code
  has no deadline there: a list of profiles, an installation or a removal that the phone
  never ends, a generation of anisette data that Apple's servers never end, and a frame
  of progress that the client never takes. `PhoneIsHandedOn` and `AnisetteIsAnswered`
  except exactly these. A free `WORK` goes to one of those that wait, nobody in
  particular, because a `std::sync::Mutex` has no queue: so `PhoneIsHandedOn`
  promises progress of the connections together and not of each. The cache's lock
  is a tokio mutex, first come first served, modelled as a queue: hence
  `AnisetteIsAnswered` for each.
* `PhoneSearch`: weak fairness of each search's steps: 12 s for a try, 4 s for a
  Bonjour round, 600 ms for the scan.
* `DnsSd`: weak fairness of asking and of records expiring (120 s), strong fairness
  of `Receive` and of `Deliver`: a network that may lose any datagram, but not every
  one of a question asked again and again.
* `Renewal` and `SharedFiles` have none: only safety is claimed.

### Findings

1. `tfa_lost`: an answer acknowledged with 200 in the moment between the expiry of
   the timer and the drop of the receiver is lost, and the login gives up.
2. `web_spawn`: a thread that the system refuses leaves its view "in progress"
   with the guard gone, until a job of that kind ends or some job panics.
3. `renewal_apart`: an app whose renewal keeps failing ends every run before the
   apps after it, and the margin of evenings that the README promises is gone for
   them too.
4. `search_port`: the scan of the local network looks at the port of the last
   address that worked, so a phone on the usual port may be passed by.
5. `files_apart`: a renewal that reads the identity while another job has it
   truncated takes a new device and stores it. Apple asks a code of it, and no
   renewal succeeds until somebody signs in, though nothing crashed.

### What else was noticed

* A panic of any job rewrites the verdict of the last renewal (`ReportPanic`), which
  `VerdictIsKept` therefore excepts. `now() - t` (`web.rs` 343) underflows when the
  clock is set back.
* Progress is sent to AltStore while `WORK` is held and a write has no deadline
  (`altserver.rs` 492), so a client that stops reading can hold it up (`NotifyProgress`
  and `Notified` are two steps, and the second may not come). The same holds of the
  phone (364, 391, 404, 495) and, with the cache's lock, of Apple's servers (321-328).
  `WORK` is not taken by the page's jobs or by cron: between a request's list and its
  reply they may change what the reply speaks of.
* `append_log` does not say that it failed: the page can show a success that
  `renew.log` does not have. A save of the account that fails after the truncation
  leaves an empty file, which the next renewal refuses.
* Sign-in: a correct code that comes back in the last of the rounds is lost
  (`TooManyAttempts` looks at the count before the state); the page's callback never
  looks at an unknown second factor, where a code means nothing, so such a sign-in
  ends with the first answer; `short_apple_error` calls it "the code did not arrive in
  time" also when the rounds were used up.
* A renewal has no deadline (`main.rs` 277, 280): one that hangs over the next
  evening is not in `Renewal`, which assumes that a run is over within its tick.
* DNS-SD: the question is echoed in small letters, though the comment at `dnssd.rs`
  248 wants it copied identically: a resolver that plays with capitals and looks at
  them in the reply drops them all, and `FindsTheServer` excepts it (`capitals` =
  "checked"); a host name of more than 53 bytes makes an instance label of more than 63,
  which `write_name` cuts, and the server then does not know the name it gave; the
  domain `.` leaves names that end in a dot, which no question matches; who asks for the
  domain instead of a reverse name is answered wherever it is, which is meant
  (88-91); a reply too long says "truncated", which sends a client to TCP, where
  nobody listens.

## 4. What is proved

For every set of requests, slots, connections, apps and addresses, and for every
bound. The assumptions are the modules' own: bounds natural, `MaxJobLines` and
`TicksPerDay` positive, `Nobody` neither a slot nor a connection, `None` no address,
the strangers' addresses addresses, a profile's lifetime more than a day above the
threshold (`MinDays + 1 < Lifetime`: 3 and 7 in the code), `MaxAttempts <= MaxPrompts
+ 1` (so that the bound on the prompts never stops the loop), and devices that are
numbers below the mark of a broken file. Those of `DnsSd` say what may be configured
(`PhonesAssumption`, `ConfigsAssumption`), and no more than the code sees to: a phone
asks with 1 to 4 octets; the clients' network has no more bits than an address, which
`parse_cidr` checks; the instance's label is longer than its `altkeeper-` (`instance_name`) and
the identifier has 8 characters at least. What the code does not check is
`Publishable`, the hypothesis of `NeverTurnedAway` and `FindsTheServer` and not an
assumption: labels of 1 to 63 bytes, names of 255 and 32 labels at most, an identifier
that its text record holds, and each record by itself, with the question, fits a
datagram. What happens without it is under "What else
was noticed".

**The channel** (`TfaChannelProofs`). None of its properties is inductive: that an
answer reaches its own prompt depends on where the senders of *earlier* prompts
are. `TfaInv` adds what is needed: `PromptHistory` relates, prompt by prompt, the
receiver's state to what was acknowledged and returned, and says that past prompts
are closed and future ones unborn; `CallbackHistory` says where the current sender
is at each place of the callback, and that when a prompt has just been created
every request in flight holds an older sender. One lemma per action gives
`TfaStepInv`; `TfaInvHolds` is `TfaSpec => []TfaInv`, and from it `TfaTypeCorrect`,
`AnsweredOnceHolds`, `UsedWasAcknowledgedHolds`, `NoStaleSenderHolds`,
`AskingIsAnswerableHolds`, `AskingShowsItsReasonHolds`. `RefinesOneAnswer` shows
each step to be one of `OneAnswer` or a stutter.

**The sign-in** (`AppleLoginProofs`). `SignInInv` contains `TfaInv`, since every step
of the loop leaves the channel alone or is one of its callback. `CallbackIsTheLoops`
says that the callback is away unless the loop waits in it. `SentBeforeAsking` is
`ResendIsSent` one question ahead: where the loop could ask next, what is owed since
the last prompt has been sent or refused. `ErrorIsLast` is the same for the reason
shown. `Stamps` keeps the history within the prompts so far. The loop's path from a
resend back to a question goes through up to three rounds, which is why the two
properties are not inductive by themselves. `SignInRefinesOneAnswer` shows that under
the loop, too, the prompts are `OneAnswer`'s: a step of the loop that opens a
question is one of the channel's, and every other step either is one of the callback
or leaves alone the prompts, replies and answers that `OneAnswer` sees (`StepOfTheChannel`, `UnseenStep`).

**The jobs** (`WebJobsProofs`). `WebInv` contains `TfaInv` and adds `KindsFit` (which
states each kind of job can be in), `CallbackIsTheLogins` (the callback is away unless
one slot waits in it), `ViewsAreKept` (which job keeps each view in progress: without
it `ProgressIsReal` is not inductive, because a job leaves its view before its guard),
`VerdictIsOwn` (the verdict between `closing` and the log, which may be lost) and `LinesCount` (room
for a line of a panic). From `WebInvHolds` follow the invariants of the run `web`,
the action properties `VerdictIsKept` and `OnlyLoginsChangeTheAccount` (within the
page's process: a login in a terminal is its exception), and
`ImplementsWorkLock`: the jobs refine `WorkLock`, with the slot that has the guard
as its holder. `GuardGoneOrRefusedHolds` is the other side of finding 2: as long as
no thread was refused, a page whose guard is gone shows nothing in progress.

**The files** (`SharedFilesProofs`). As long as the identity is not excused,
`IdentityInv` says: one actor at most is between reading the identity and having
written it (`OneHolder`); what it carries is what the file has, if anything
(`HolderAgrees`); a file that does not parse is being written (`BrokenIsHeld`); and
the device on disk, or on its way there, is the one of everybody who goes to Apple
and the only one that can be trusted (`OneDevice`). A second reader excuses the
identity in the very step in which it reads, so the four hold up to it. For the
account `OneFiller` plays the part of `OneHolder`, and `SavedIsTrusted` says that
somebody gave a code before a password was saved, which ties the two files together
in `RenewsAlone`. `OnlyOverlapsAskHolds` is the other side of finding 5: as long as the
identity is not excused, whatever crashes or fails besides, every renewal at Apple has a
trusted device. It needs that a renewal began on an account that a sign-in saved, so
that some device is trusted, and that Apple forgets none (`RenewalsTrust`).

**The AltServer** (`AltServerProofs`). `AltInv` is exclusion (`WORK` belongs to the
one connection on the phone, the cache's lock to the one with the cache, and the
queue holds each waiting connection once) with two parts more. `ConversationFits`
says at which places a connection has a request and a reply, so that the end of an
installation cannot be reported for another request. `EffectsFit` says that while a
connection uses the phone, what is no longer in its `todo` has been done, but for what
others changed without `WORK` (`others`): it is inductive only because of exclusion, since
another connection on the phone could undo it. Only `LockCache` and the step that joins the queue change
who waits; there the proof follows the positions of `Tail` and `Append`. From `AltInvHolds` follow every safety property of the
run `alt`, and `ImplementsWorkLockHolds`.

**The renewal** (`RenewalProofs`). `RunKnows` says that what a run read stays true
while it goes on: what was not due has enough left, unless it was removed (a run is over
within its tick: assumed), what is still to do was due unless somebody else changed it,
what has been done is new unless it was removed. `AwayInv` says that an app is off the
phone only when its newest profile was taken away. Success, the needless sign-in and the
needless renewal follow.
The margin of evenings is an invariant of its own, `MarginInv`: once an evening is
over, an app with `m` spoilt evenings behind it has `MinDays + 1 - m` days left,
less the hours since; before this evening's run, a day less than that. A good evening
restores it because what is not due has more than `MinDays` whole days, and that is
`DaysLeft` rounding down against `<=`: with either of them changed the proof stops
there. That the newest of a bundle's profiles exists, is among them and is not older
after a renewal rests on well-founded induction over what they have left
(`RenewalProofs` cites `WFMin`). `SeveralEveningsHolds` is for evenings counted for
all apps together (`CountApart = FALSE`); counted apart it is false, which is finding 3.

**The search** (`PhoneSearchProofs`). That a steady phone is found speaks of the
moment a search gives up; `SteadyPhoneIsAhead` says why: such a phone is never among
the tried addresses, and once the scan has seen it, it is among those still to try,
which are none when the search gives up. `KnownComesFirst` says that the rounds
begin at the first. `SearchInv` holds for any network, and from it the three
invariants of the run `search`.

**The DNS-SD server** (`DnsSdProofs`). The names of the zone depend on what was
configured and not on where the program was started, so `SearchInv` can speak of the
questions and replies in flight and of what the phone keeps across restarts. It has three
parts: for any configuration they have the form of questions and replies; with names that
DNS can carry and a phone that is served (`Led`), a question is for the name of its step,
as it is or in capitals, and its reply, unless it drops some, has a record that leads to
the name of the next step; a phone that is not served (`LeftOut`) asks its first question
only and gets no record. For that each question must
select the one record meant for it: the names are told apart by their lengths and
their first labels, small letters are what every name comes back as, and the record
fits. `ZoneReplied` says the same of any question about the zone's names, for `TypeOK`
(the limit of a datagram) and `RepliesAreHonest`: a reply has all its records or none.
`ReverseOfClients` stands apart from the messages: `covers_reverse` compares two numbers
after a division by a power of two, and the theorem says that this is "the first bits
agree", for octets of any number of bits. The powers of two and the sizes are recursive
functions, whose existence the prover is shown first (`Iteration`); induction over the
naturals is derived from `WFMin`, which takes no operator.

**Proved, and in no run of its own**: `OneJobAtATime`, `NeedsCodeOnlyInLogin`,
`PageShowsPromptError`, `LinesAreBounded`, `OnlyLoginsChangeTheAccount` of the jobs;
`UsedWasAcknowledged`, `NoStaleSender`, `AskingShowsItsReason` of the channel;
`PhoneIsExclusive`, `AnisetteIsExclusive`, `RemovedWhenDone` of the AltServer;
`OnlyOverlapsAsk` of the files; `GuardGoneMeansFinished` without a refused thread;
`ReverseOfClients`; and the refinement of `OneAnswer` by the sign-in without fairness.

**Only model-checked**: liveness (`PromptEnds`, `SignInEnds`, `GuardComesBack`,
`PhoneIsHandedOn`, `AnisetteIsAnswered`, `SearchEnds`, `FindsTheServer`, and the fair
half of `ImplementsOneAnswer`), which is beyond this prover. Every other property of the
passing runs is the conclusion of a theorem. No module has a recursive operator.

## 5. What is not modelled, and why

* Text formats, HTML, logging, command lines, the environment: no property is about
  them, and they keep no state.
* The HTTP guard (PIN, host and header checks) decides each request by itself.
* SRP, signing, the pairing and the phone's tunnels are libraries, seen only as
  succeeding or failing; of the signing library the sign-in's loop is modelled,
  because this program's callbacks run inside it.
* Malformed DNS messages (compression, lengths, other classes and opcodes): the server
  drops them or answers an error without looking at the zone.
* `ProfileBackup`: one actor, run by hand, which saves, reads back and removes in this
  order; the order is one line after the other. What it does to the phone's profiles
  beside the others is `OthersChange` and `AltStoreRemoves`.
* A run of `renew` that hangs from one evening to the next.
* `RenewLog`: an append and a parser of text. The verdict that the page takes from the
  last block is in `WebJobs`. Cron and the page append line by line without a lock:
  when two blocks overlap, `parse_history` gives the lines of both, result included,
  to the one that began later, and shows the other as failed.
* Bonjour's announcement and the server's identifier: one registration, and one file
  written once.
* `--dry-run` only prints. The AltServer's progress is reported as 50 and 100. The
  order of an installation's profiles is any order: the code stops at the first that
  fails, and no promise depends on which.

## 6. Plan

Done, each with its proofs: `TfaChannel`, `WebJobs`, `AltServer`,
`PhoneSearch`, `Renewal`, `AppleLogin`, `SharedFiles`, `DnsSd`. What is left, in this
order:

1. `PhoneSharing`: AltServer's `WORK`, the page's `busy` and cron's process on one
   phone; the comment of `altserver.rs:55` read as a promise of the whole program.
2. `ProfileBackup`: save, read back, remove, with a stop at any point.
3. `RenewLog`: blocks of two processes and `parse_history`.
