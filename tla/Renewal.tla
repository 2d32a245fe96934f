------------------------------- MODULE Renewal -------------------------------
(***************************************************************************)
(* The renewal of the provisioning profiles, evening after evening:        *)
(* cmd_renew (src/src/main.rs) with latest_by_bundle and days_left         *)
(* (src/src/profile.rs), run by cron every evening (src/examples) and by   *)
(* the web page at any time, while AltStore may renew or remove an app.    *)
(*                                                                         *)
(* Time goes in ticks, TicksPerDay to a day, the first of which is the     *)
(* evening.  A profile is the ticks it has left, 0 when it has expired.     *)
(* Each run reads the phone once, decides, and acts on what it read; cron  *)
(* and the page run in two processes, which share no lock.                 *)
(*                                                                         *)
(* Assumed, and not enforced by the code: a run is over within its tick.   *)
(* Its downloads and installations (main.rs:277, 280) have no deadline.    *)
(***************************************************************************)
EXTENDS Integers, FiniteSets

CONSTANTS
  Bundles,       \* the apps of the team that renews
  TicksPerDay,
  Lifetime,      \* days a new profile lasts: 7 for a free Apple ID
  MinDays,       \* the threshold: 3 for cron and for the web page
  CountApart     \* history: whether an app whose renewal fails spoils the
                 \* evening for itself alone

ASSUME TicksAssumption == TicksPerDay \in Nat \ {0}
ASSUME DaysAssumption == MinDays \in Nat /\ Lifetime \in Nat /\ MinDays + 1 < Lifetime
ASSUME CountApartAssumption == CountApart \in BOOLEAN

Runs == {"cron", "web"}
RunStates == {"idle", "connecting", "deciding", "signing", "renewing", "checking"}

New == Lifetime * TicksPerDay
Ticks == 0..New           \* a profile that expired longer ago stays at 0
MaxMisses == MinDays + 1  \* the count of spoilt evenings stops here
MaxKept == 2              \* of a bundle's profiles the two newest are kept:
                          \* an older one is never the one that counts

VARIABLES
  left,       \* for each bundle, the ticks its profiles of the team have left
  appIds,     \* bundles that Apple has an App ID for
  hour,       \* ticks since the last evening
  cronRan,    \* whether cron started this evening's run
  run,        \* each run: where it stands, --force, the bundles it found due
              \* and those still to do
  \* history, read by the properties only
  misses,     \* for each bundle, the evenings in a row that were spoilt
  others,     \* for each run, bundles renewed or removed by others since it read
  removed     \* bundles that lost their newest profile and were not renewed since

world == <<left, appIds, hour>>
history == <<misses, others, removed>>
vars == <<world, cronRan, run, history>>

\* What copy_all finds of a bundle (another team may have a profile of it, far
\* from expiring), and latest_by_bundle over our team's.
OnPhone(b) ==
  {[team |-> "ours", left |-> t] : t \in left[b]} \union {[team |-> "other", left |-> New]}

Ours(b) == {p \in OnPhone(b) : p.team = "ours"}

\* Of a bundle that is on the phone.
OnThePhone(b) == left[b] # {}

Newest(b) ==
  LET latest == CHOOSE p \in Ours(b) : \A q \in Ours(b) : q.left <= p.left
  IN latest.left

\* days_left: whole days, rounded down (below 0 for a profile that expired,
\* which is as due as with 0).
DaysLeft(ticks) == ticks \div TicksPerDay

IdleRun == [at |-> "idle", force |-> FALSE, due |-> {}, todo |-> {}]

Init ==
  /\ left \in [Bundles -> {{New}, {(MinDays + 1) * TicksPerDay}}]
  /\ appIds \in SUBSET Bundles
  /\ hour = 0
  /\ cronRan = FALSE
  /\ run = [w \in Runs |-> IdleRun]
  /\ misses = [b \in Bundles |-> 0]
  /\ others = [w \in Runs |-> {}]
  /\ removed = {}

\* One more spoilt evening for these bundles, up to MaxMisses.
Spoilt(bundles) ==
  [b \in Bundles |-> IF b \in bundles /\ misses[b] < MaxMisses THEN misses[b] + 1 ELSE misses[b]]

\* History: these runs have read the phone before the bundle was changed.
Told(runs, b) ==
  [w \in Runs |->
     IF w \in runs /\ run[w].at \notin {"idle", "connecting"} THEN others[w] \union {b}
                                                               ELSE others[w]]

\* The phone keeps the old profiles of the bundle beside the new one.
Kept(ticks) == {t \in ticks : Cardinality({u \in ticks : u > t}) < MaxKept}

\* Mutation: what is left of the old profiles is added to the new one's time.
AddOnTop(b) ==
  /\ left' = [left EXCEPT ![b] = Kept(@ \union {New} \union {New + t : t \in @})]
  /\ removed' = removed \ {b}

Add(b) ==
  /\ left' = [left EXCEPT ![b] = Kept(@ \union {New})]
  /\ removed' = removed \ {b}

-----------------------------------------------------------------------------
(* cmd_renew                                                               *)

\* The evening's run, or the page's "Renew expiring apps" and "Renew all".
Start(w, force) ==
  /\ run[w].at = "idle"
  /\ w = "cron" => hour = 0 /\ ~cronRan /\ ~force
  /\ cronRan' = (cronRan \/ w = "cron")
  /\ run' = [run EXCEPT ![w].at = "connecting", ![w].force = force]
  /\ UNCHANGED <<world, history>>

Goto(w, state) == run' = [run EXCEPT ![w].at = state]

\* The run returns.  An evening whose run fails is spoilt for every app, or
\* for the one app that made it fail when they are counted apart.
Return(w) ==
  /\ run' = [run EXCEPT ![w] = IdleRun]
  /\ others' = [others EXCEPT ![w] = {}]
  /\ UNCHANGED removed

Succeed(w) == Return(w) /\ misses' = [b \in Bundles |-> 0]

Fail(w, bundles) ==
  /\ Return(w)
  /\ misses' = IF w = "cron" THEN Spoilt(IF CountApart THEN bundles ELSE Bundles) ELSE misses

\* The phone is away from home, or its profiles cannot be read.
NotConnected(w) ==
  /\ run[w].at = "connecting"
  /\ Fail(w, Bundles)
  /\ UNCHANGED <<world, cronRan>>

\* Mutation: the threshold itself is not due.
DueBelow(force) ==
  {b \in Bundles : OnThePhone(b) /\ (force \/ DaysLeft(Newest(b)) < MinDays)}

\* Mutation: every profile counts, not the latest of its bundle.
DueOfAnyProfile(force) ==
  {b \in Bundles : OnThePhone(b) /\ (force \/ \E t \in left[b] : DaysLeft(t) <= MinDays)}

\* The newest profile of each bundle on the phone decides whether it is due.
Due(force) ==
  {b \in Bundles : OnThePhone(b) /\ (force \/ DaysLeft(Newest(b)) <= MinDays)}

ReadPhone(w) ==
  LET due == Due(run[w].force) IN
  /\ run[w].at = "connecting"
  /\ run' = [run EXCEPT ![w].at = "deciding", ![w].due = due, ![w].todo = due]
  /\ UNCHANGED <<world, cronRan, history>>

\* "Nothing to renew: skipping Apple sign-in."
NothingToRenew(w) ==
  /\ run[w].at = "deciding"
  /\ run[w].todo = {}
  /\ Succeed(w)
  /\ UNCHANGED <<world, cronRan>>

\* Mutation: the run signs in before it knows whether anything is due.
SignInAnyway(w) ==
  /\ run[w].at = "deciding"
  /\ Goto(w, "signing")
  /\ UNCHANGED <<world, cronRan, history>>

SignIn(w) ==
  /\ run[w].at = "deciding"
  /\ run[w].todo # {}
  /\ Goto(w, "signing")
  /\ UNCHANGED <<world, cronRan, history>>

\* Login, team or list of the App IDs: without one of them the run is over.
SignInFails(w) ==
  /\ run[w].at = "signing"
  /\ Fail(w, Bundles)
  /\ UNCHANGED <<world, cronRan>>

SignedIn(w) ==
  /\ run[w].at = "signing"
  /\ Goto(w, "renewing")
  /\ UNCHANGED <<world, cronRan, history>>

\* The due apps, one after the other; the order is the phone's.
SkipWithoutAppId(w, b) ==
  /\ run[w].at = "renewing"
  /\ b \in run[w].todo \ appIds
  /\ run' = [run EXCEPT ![w].todo = @ \ {b}]
  /\ UNCHANGED <<world, cronRan, history>>

RenewApp(w, b) ==
  /\ run[w].at = "renewing"
  /\ b \in run[w].todo \intersect appIds
  /\ Add(b)
  /\ run' = [run EXCEPT ![w].todo = @ \ {b}]
  /\ others' = Told(Runs \ {w}, b)
  /\ UNCHANGED <<appIds, hour, cronRan, misses>>

\* Mutation: an app whose renewal fails is passed over, as one without App ID.
RenewFailsAndGoesOn(w, b) ==
  /\ run[w].at = "renewing"
  /\ b \in run[w].todo \intersect appIds
  /\ run' = [run EXCEPT ![w].todo = @ \ {b}]
  /\ UNCHANGED <<world, cronRan, history>>

\* The first download or installation that fails ends the run: what was
\* renewed stays renewed, and the rest waits for the next evening.
RenewFails(w, b) ==
  /\ run[w].at = "renewing"
  /\ b \in run[w].todo \intersect appIds
  /\ Fail(w, {b})
  /\ UNCHANGED <<world, cronRan>>

AllRenewed(w) ==
  /\ run[w].at = "renewing"
  /\ run[w].todo = {}
  /\ Goto(w, "checking")
  /\ UNCHANGED <<world, cronRan, history>>

\* After a renewal the phone is read once more; a failure there fails the run.
Finish(w) ==
  /\ run[w].at = "checking"
  /\ Succeed(w)
  /\ UNCHANGED <<world, cronRan>>

CheckFails(w) ==
  /\ run[w].at = "checking"
  /\ run[w].due \intersect appIds # {}
  /\ Fail(w, {})
  /\ UNCHANGED <<world, cronRan>>

-----------------------------------------------------------------------------
(* The world around the runs                                               *)

\* AltStore, opened on the phone, renews an app with the AltServer's help.
AltStoreRenews(b) ==
  /\ Add(b)
  /\ others' = Told(Runs, b)
  /\ UNCHANGED <<appIds, hour, cronRan, run, misses>>

\* AltStore, removing an app, has its profiles removed; each may fail and stay
\* (nothing that counts has changed when the newest does), and profile-remove
\* takes one of them by hand (main.rs:299-336).
AltStoreRemoves(b) ==
  /\ OnThePhone(b)
  /\ \E kept \in SUBSET (left[b] \ {Newest(b)}) : left' = [left EXCEPT ![b] = kept]
  /\ removed' = removed \union {b}
  /\ others' = Told(Runs, b)
  /\ UNCHANGED <<appIds, hour, cronRan, run, misses>>

\* No run is under way when time goes on (see the head of the module).  An
\* evening on which the server is off is spoilt for all.
Tick ==
  /\ \A w \in Runs : run[w].at = "idle"
  /\ left' = [b \in Bundles |-> {IF t > 0 THEN t - 1 ELSE t : t \in left[b]}]
  /\ hour' = (hour + 1) % TicksPerDay
  /\ cronRan' = FALSE
  /\ misses' = IF hour = 0 /\ ~cronRan THEN Spoilt(Bundles) ELSE misses
  /\ UNCHANGED <<appIds, run, others, removed>>

Next ==
  \/ \E w \in Runs :
       \/ \E force \in BOOLEAN : Start(w, force)
       \/ NotConnected(w)
       \/ ReadPhone(w)
       \/ NothingToRenew(w)
       \/ SignIn(w)
       \/ SignInFails(w)
       \/ SignedIn(w)
       \/ \E b \in Bundles : SkipWithoutAppId(w, b) \/ RenewApp(w, b) \/ RenewFails(w, b)
       \/ AllRenewed(w)
       \/ Finish(w)
       \/ CheckFails(w)
  \/ \E b \in Bundles : AltStoreRenews(b) \/ AltStoreRemoves(b)
  \/ Tick

Spec == Init /\ [][Next]_vars

-----------------------------------------------------------------------------
(* Properties                                                              *)

TypeOK ==
  /\ left \in [Bundles -> SUBSET Ticks]
  /\ appIds \subseteq Bundles
  /\ hour \in 0..(TicksPerDay - 1)
  /\ cronRan \in BOOLEAN
  /\ run \in [Runs -> [at : RunStates, force : BOOLEAN,
                       due : SUBSET Bundles, todo : SUBSET Bundles]]
  /\ misses \in [Bundles -> 0..MaxMisses]
  /\ others \in [Runs -> SUBSET Bundles]
  /\ removed \subseteq Bundles

Expired(b) == OnThePhone(b) /\ Newest(b) = 0

IsDue(b) == OnThePhone(b) /\ DaysLeft(Newest(b)) <= MinDays

\* "You get several evenings of margin before an app expires" (README.md:169):
\* an app that Apple knows expires only after MinDays evenings in a row (3 for
\* cron) that were spoilt: the server off, or a run that failed.  Whatever the
\* page and AltStore do in between, but for taking the newest profile away.
SeveralEvenings == \A b \in appIds \ removed : Expired(b) => misses[b] >= MinDays

\* "If AltStore renewed recently, `renew` does nothing and does not even sign
\* in to Apple" (README.md:40-41): without --force a run signs in only if some
\* app is due, unless another one changed it since this run read the phone.
NoNeedlessSignIn ==
  [][\A w \in Runs :
       run[w].at # "signing" /\ run'[w].at = "signing" /\ ~run[w].force =>
         \E b \in Bundles : IsDue(b) \/ b \in others[w]]_vars

\* The same app by app: without --force no run renews an app whose newest
\* profile has more than MinDays days left, the old profiles on the phone
\* notwithstanding, unless another one changed it since this run read the phone.
RenewsOnlyDue ==
  [][\A w \in Runs, b \in Bundles :
       run[w].at = "renewing" /\ ~run[w].force /\ left'[b] # left[b] /\ run'[w] # run[w] =>
         IsDue(b) \/ b \in others[w]]_vars

\* A run that reports success has put a new profile on the phone for every app
\* it found due and that Apple knows, unless it was taken away again: exit code
\* 0 leaves nothing behind.
SuccessMeansRenewed ==
  \A w \in Runs :
    run[w].at = "checking" =>
      \A b \in (run[w].due \intersect appIds) \ removed : OnThePhone(b) /\ Newest(b) = New

\* "The iPhone must be on the home Wi-Fi at that time. [...] you get several
\* evenings of margin before an app expires" (README.md:168-169), app by app:
\* with the evenings counted apart, an app expires only if the phone, the
\* sign-in or this app's own renewal failed MinDays times.  The code does not
\* keep this: the first app whose renewal fails ends the run (RenewFails).
MarginOfEachApp == CountApart => SeveralEvenings

=============================================================================
