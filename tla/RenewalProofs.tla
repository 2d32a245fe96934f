---------------------------- MODULE RenewalProofs ----------------------------
(***************************************************************************)
(* What the evenings' renewals keep, for every set of apps, every lifetime *)
(* of a profile and every threshold below it.                              *)
(***************************************************************************)
EXTENDS Renewal, FiniteSetTheorems, WellFoundedInduction, TLAPS

-----------------------------------------------------------------------------
(* The inductive invariant                                                 *)

\* So many days, in ticks; a profile is due when it has less than this left.
Margin(days) == days * TicksPerDay
Enough == Margin(MinDays + 1)

\* Cron's run is over before the evening is.
CronInv == run["cron"].at # "idle" => hour = 0 /\ cronRan

\* A bundle without profiles has lost them.
AwayInv == \A b \in Bundles \ removed : OnThePhone(b)

\* What a run knows of the phone stays true while it goes on: what was not due
\* is not, what is still to do was due unless somebody else changed it, and
\* what has been done is new, but for what was removed.
RunKnows(w) ==
  /\ run[w].todo \subseteq run[w].due
  /\ run[w].at \in {"deciding", "signing"} => run[w].todo = run[w].due
  /\ run[w].at = "checking" => run[w].todo = {}
  /\ run[w].at \notin {"idle", "connecting"} =>
       \A b \in Bundles \ (run[w].due \union removed) : Newest(b) >= Enough
  /\ run[w].at \notin {"idle", "connecting"} /\ ~run[w].force =>
       \A b \in run[w].todo \ others[w] : OnThePhone(b) /\ Newest(b) < Enough
  /\ run[w].at \in {"renewing", "checking"} =>
       \A b \in (run[w].due \intersect appIds) \ (run[w].todo \union removed) : Newest(b) = New

RenewalInv == TypeOK /\ CronInv /\ AwayInv /\ \A w \in Runs : RunKnows(w)

\* Each evening that was not spoilt left every app enough; each spoilt one may
\* have taken a day of it.  Until the evening is over, one more day may go.
EveningIsOver == hour > 0 \/ (cronRan /\ run["cron"].at = "idle")

MarginLeft(b) ==
  misses[b] < MaxMisses =>
    IF EveningIsOver THEN Newest(b) >= Margin(MinDays + 1 - misses[b]) - hour
                     ELSE Newest(b) >= Margin(MinDays - misses[b])

MarginInv == ~CountApart => \A b \in appIds \ removed : MarginLeft(b)

-----------------------------------------------------------------------------
(* Days, ticks, and the newest profile                                     *)

LEMMA Margins ==
  /\ \A k \in Int : Margin(k) \in Int /\ Margin(k + 1) = Margin(k) + TicksPerDay
  /\ \A k \in Nat : Margin(k) >= 0
  /\ TicksPerDay \in Nat /\ TicksPerDay >= 1 /\ MinDays \in Nat
  /\ New \in Nat /\ Enough \in Nat /\ Enough < New
<1>1. TicksPerDay \in Nat /\ TicksPerDay >= 1 /\ MinDays \in Nat /\ Lifetime \in Nat
  BY TicksAssumption, DaysAssumption
<1>2. \A k \in Int : Margin(k) \in Int /\ Margin(k + 1) = Margin(k) + TicksPerDay
  BY <1>1 DEF Margin
<1>3. \A k \in Nat : Margin(k) >= 0
  BY <1>1 DEF Margin
<1>4. PICK more \in Nat : Lifetime = (MinDays + 1) + (more + 1)
  <2>1. Lifetime - MinDays - 2 \in Nat
    BY DaysAssumption
  <2>2. Lifetime = (MinDays + 1) + ((Lifetime - MinDays - 2) + 1)
    BY <1>1
  <2>3. QED
    BY <2>1, <2>2
<1>5. New = Enough + Margin(more) + TicksPerDay
  BY <1>1, <1>4 DEF New, Enough, Margin
<1>6. Enough \in Nat /\ Margin(more) \in Nat
  BY <1>1, <1>2, <1>3, <1>4 DEF Enough
<1>7. QED
  BY <1>1, <1>2, <1>3, <1>5, <1>6

\* days_left rounds down: MinDays days or less is less than Enough.
LEMMA DueIsNotEnough ==
  ASSUME NEW t \in Ticks
  PROVE  DaysLeft(t) <= MinDays <=> t < Enough
<1>1. t \in Int /\ TicksPerDay \in Nat /\ TicksPerDay >= 1 /\ MinDays \in Nat
  BY Margins DEF Ticks
<1> DEFINE d == t \div TicksPerDay
<1>2. d \in Int /\ Margin(d) <= t /\ t < Margin(d) + TicksPerDay
  BY <1>1 DEF Margin
<1>3. ASSUME d <= MinDays PROVE t < Enough
  <2>1. PICK k \in Nat : MinDays = d + k
    <3>1. MinDays - d \in Nat /\ MinDays = d + (MinDays - d)
      BY <1>1, <1>2, <1>3
    <3>2. QED
      BY <3>1
  <2> HIDE DEF d
  <2>2. Enough = Margin(d) + TicksPerDay + Margin(k)
    BY <1>1, <1>2, <2>1 DEF Enough, Margin
  <2>3. Margin(k) \in Int /\ Margin(k) >= 0 /\ Margin(d) \in Int
    BY <1>2, <2>1, Margins
  <2>4. QED
    BY <1>1, <1>2, <2>2, <2>3
<1>4. ASSUME d > MinDays PROVE t >= Enough
  <2>1. PICK k \in Nat : d = (MinDays + 1) + k
    <3>1. d - MinDays - 1 \in Nat /\ d = (MinDays + 1) + (d - MinDays - 1)
      BY <1>1, <1>2, <1>4
    <3>2. QED
      BY <3>1
  <2> HIDE DEF d
  <2>2. Margin(d) = Enough + Margin(k)
    BY <1>1, <2>1 DEF Enough, Margin
  <2>3. Margin(k) \in Int /\ Margin(k) >= 0 /\ Enough \in Int
    BY <2>1, Margins
  <2>4. QED
    BY <1>1, <1>2, <2>2, <2>3
<1>5. Enough \in Int /\ d = DaysLeft(t)
  BY Margins DEF DaysLeft
<1> HIDE DEF d
<1>6. QED
  BY <1>1, <1>2, <1>3, <1>4, <1>5

LEMMA HasGreatest ==
  ASSUME NEW S \in SUBSET Ticks, S # {}
  PROVE  \E m \in S : \A t \in S : t <= m
<1> DEFINE T == {New - t : t \in S}
           R == OpToRel(<, Nat)
<1>1. \A t \in Ticks : t \in Int /\ New - t \in Nat
  BY Margins DEF Ticks
<1>2. T \subseteq Nat /\ T # {}
  BY <1>1
<1>3. IsWellFoundedOn(R, Nat)
  BY NatLessThanWellFounded
<1>4. PICK x \in T : \A y \in T : ~ (<<y, x>> \in R)
  <2> HIDE DEF T, R
  <2>1. QED
    BY <1>2, <1>3, WFMin
<1>5. \A y \in T : ~ (y < x)
  BY <1>2, <1>4 DEF OpToRel
<1>6. PICK m \in S : x = New - m
  OBVIOUS
<1>7. ASSUME NEW t \in S PROVE t <= m
  <2>1. ~ (New - t < New - m)
    BY <1>5, <1>6
  <2>2. t \in Int /\ m \in Int /\ New \in Int
    BY <1>1, Margins
  <2>3. QED
    BY <2>1, <2>2
<1>8. QED
  BY <1>7

\* Our team's among all the profiles of a bundle, and latest_by_bundle's choice of them.
OursAmong(ticks) ==
  {p \in {[team |-> "ours", left |-> t] : t \in ticks} \union {[team |-> "other", left |-> New]} :
     p.team = "ours"}

LEMMA LatestExists ==
  ASSUME NEW S \in SUBSET Ticks, S # {}
  PROVE  /\ \A p \in OursAmong(S) : p.left \in S
         /\ \A t \in S : \E p \in OursAmong(S) : p.left = t
         /\ \E p \in OursAmong(S) : \A q \in OursAmong(S) : q.left <= p.left
<1> DEFINE ours == OursAmong(S)
<1> USE DEF OursAmong
<1>1. PICK m \in S : \A t \in S : t <= m
  BY HasGreatest
<1>2. \A t \in S : [team |-> "ours", left |-> t] \in ours
  OBVIOUS
<1>3. \A p \in ours : p.left \in S
  OBVIOUS
<1>4. \A q \in ours : q.left <= [team |-> "ours", left |-> m].left
  BY <1>1, <1>3
<1>5. QED
  BY <1>2, <1>3, <1>4

LEMMA NewestIsGreatest ==
  TypeOK => \A b \in Bundles : OnThePhone(b) =>
    Newest(b) \in left[b] /\ Newest(b) \in Ticks /\ \A t \in left[b] : t <= Newest(b)
<1> SUFFICES ASSUME TypeOK, NEW b \in Bundles, OnThePhone(b)
             PROVE  Newest(b) \in left[b] /\ Newest(b) \in Ticks /\ \A t \in left[b] : t <= Newest(b)
  OBVIOUS
<1>1. left[b] \in SUBSET Ticks /\ left[b] # {}
  BY DEF TypeOK, OnThePhone
<1>2. Ours(b) = OursAmong(left[b])
  BY DEF Ours, OnPhone, OursAmong
<1>3. /\ \A p \in Ours(b) : p.left \in left[b]
      /\ \A t \in left[b] : \E p \in Ours(b) : p.left = t
      /\ \E p \in Ours(b) : \A q \in Ours(b) : q.left <= p.left
  BY <1>1, <1>2, LatestExists
<1>4. QED
  BY <1>1, <1>3 DEF Newest

\* The same after a step.
LEMMA NewestIsGreatestNext ==
  TypeOK' => \A b \in Bundles : OnThePhone(b)' =>
    Newest(b)' \in left'[b] /\ Newest(b)' \in Ticks /\ \A t \in left'[b] : t <= Newest(b)'
<1> SUFFICES ASSUME TypeOK', NEW b \in Bundles, OnThePhone(b)'
             PROVE  Newest(b)' \in left'[b] /\ Newest(b)' \in Ticks /\ \A t \in left'[b] : t <= Newest(b)'
  OBVIOUS
<1>1. left'[b] \in SUBSET Ticks /\ left'[b] # {}
  BY DEF TypeOK, OnThePhone
<1>2. Ours(b)' = OursAmong(left'[b])
  BY DEF Ours, OnPhone, OursAmong
<1>3. /\ \A p \in Ours(b)' : p.left \in left'[b]
      /\ \A t \in left'[b] : \E p \in Ours(b)' : p.left = t
      /\ \E p \in Ours(b)' : \A q \in Ours(b)' : q.left <= p.left
  BY <1>1, <1>2, LatestExists
<1>4. QED
  BY <1>1, <1>3 DEF Newest

\* A renewal puts a new profile on the phone, and the others keep what they have.
LEMMA AddRaises ==
  ASSUME TypeOK, TypeOK', NEW b \in Bundles, Add(b)
  PROVE  /\ Newest(b)' = New /\ OnThePhone(b)'
         /\ \A c \in Bundles \ {b} : Newest(c)' = Newest(c) /\ (OnThePhone(c)' <=> OnThePhone(c))
<1>1. left'[b] = Kept(left[b] \union {New}) /\ \A c \in Bundles \ {b} : left'[c] = left[c]
  BY DEF Add, TypeOK
<1>2. \A t \in Ticks : t \in Int /\ t <= New
  BY Margins DEF Ticks
<1>3. left'[b] \subseteq Ticks
  BY DEF TypeOK
<1>4. New \in left'[b]
  <2>1. \A u \in left[b] \union {New} : ~ (u > New)
    BY <1>2, Margins DEF TypeOK
  <2>2. {u \in left[b] \union {New} : u > New} = {}
    BY <2>1
  <2>3. Cardinality({u \in left[b] \union {New} : u > New}) < MaxKept
    BY <2>2, FS_EmptySet DEF MaxKept
  <2>4. QED
    BY <1>1, <2>3 DEF Kept
<1>5. Newest(b)' \in Ticks /\ New <= Newest(b)' /\ OnThePhone(b)'
  BY <1>4, NewestIsGreatestNext DEF OnThePhone
<1>6. Newest(b)' = New
  <2>1. \A t \in Ticks : New <= t => t = New
    BY Margins DEF Ticks
  <2>2. QED
    BY <1>5, <2>1
<1>7. \A c \in Bundles \ {b} : Newest(c)' = Newest(c) /\ (OnThePhone(c)' <=> OnThePhone(c))
  BY <1>1 DEF Newest, Ours, OnPhone, OnThePhone
<1>8. QED
  BY <1>5, <1>6, <1>7

\* A removal changes nothing of the other bundles.
LEMMA RemovalSparesOthers ==
  ASSUME TypeOK, NEW b \in Bundles, AltStoreRemoves(b)
  PROVE  \A c \in Bundles \ {b} : Newest(c)' = Newest(c) /\ (OnThePhone(c)' <=> OnThePhone(c))
<1>1. \A c \in Bundles \ {b} : left'[c] = left[c]
  BY DEF AltStoreRemoves, TypeOK
<1>2. QED
  BY <1>1 DEF Newest, Ours, OnPhone, OnThePhone

LEMMA SameNewest ==
  ASSUME UNCHANGED left
  PROVE  \A b : Newest(b)' = Newest(b) /\ (OnThePhone(b)' <=> OnThePhone(b))
  BY DEF Newest, Ours, OnPhone, OnThePhone

\* A tick takes one tick at most.
LEMMA TickLowers ==
  ASSUME TypeOK, TypeOK', Tick, NEW b \in Bundles, OnThePhone(b)
  PROVE  Newest(b)' >= Newest(b) - 1 /\ OnThePhone(b)'
<1>1. Newest(b) \in left[b] /\ Newest(b) \in Ticks
  BY NewestIsGreatest
<1>2. PICK t \in left'[b] : t >= Newest(b) - 1
  <2> DEFINE lower(u) == IF u > 0 THEN u - 1 ELSE u
  <2>1. left'[b] = {lower(u) : u \in left[b]}
    BY DEF Tick
  <2>2. lower(Newest(b)) >= Newest(b) - 1
    BY <1>1, Margins DEF Ticks
  <2>3. QED
    BY <1>1, <2>1, <2>2
<1>3. OnThePhone(b)'
  BY <1>2 DEF OnThePhone
<1>4. t <= Newest(b)' /\ Newest(b)' \in Ticks /\ t \in Ticks
  BY <1>3, NewestIsGreatestNext DEF TypeOK
<1>5. QED
  BY <1>1, <1>2, <1>3, <1>4, Margins DEF Ticks

-----------------------------------------------------------------------------
(* The steps: types                                                        *)

RunRecords ==
  [at : RunStates, force : BOOLEAN, due : SUBSET Bundles, todo : SUBSET Bundles]

LEMMA AddTypes ==
  ASSUME TypeOK, NEW b \in Bundles, Add(b)
  PROVE  left' \in [Bundles -> SUBSET Ticks] /\ removed' \subseteq Bundles
<1> DEFINE all == left[b] \union {New}
<1>1. New \in Ticks /\ \A t \in Ticks : t \in Int /\ t <= New
  BY Margins DEF Ticks
<1>2. left[b] \in SUBSET Ticks
  BY DEF TypeOK
<1>3. Kept(all) \in SUBSET Ticks
  BY <1>1, <1>2 DEF Kept
<1>4. left' = [left EXCEPT ![b] = Kept(all)] /\ removed' = removed \ {b}
  BY DEF Add
<1> HIDE DEF all
<1>5. QED
  BY <1>3, <1>4 DEF TypeOK

LEMMA SpoiltTypes ==
  ASSUME TypeOK, NEW bundles
  PROVE  Spoilt(bundles) \in [Bundles -> 0..MaxMisses]
<1>1. MaxMisses \in Nat
  BY DaysAssumption DEF MaxMisses
<1>2. \A b \in Bundles : misses[b] \in 0..MaxMisses
  BY DEF TypeOK
<1>3. \A b \in Bundles : misses[b] < MaxMisses => misses[b] + 1 \in 0..MaxMisses
  BY <1>1, <1>2
<1>4. QED
  BY <1>2, <1>3 DEF Spoilt

\* A run's record after it has moved on.
LEMMA GotoTypes ==
  ASSUME TypeOK, NEW w \in Runs, NEW place \in RunStates, Goto(w, place)
  PROVE  run' \in [Runs -> RunRecords]
  BY DEF TypeOK, Goto, RunRecords

LEMMA ReturnTypes ==
  ASSUME TypeOK, NEW w \in Runs, Return(w)
  PROVE  /\ run' \in [Runs -> RunRecords]
         /\ others' \in [Runs -> SUBSET Bundles]
         /\ removed' \subseteq Bundles
<1>1. IdleRun \in RunRecords
  BY DEF IdleRun, RunStates, RunRecords
<1>2. QED
  BY <1>1 DEF TypeOK, Return, RunRecords

LEMMA FailTypes ==
  ASSUME TypeOK, NEW w \in Runs, NEW bundles, Fail(w, bundles), UNCHANGED <<world, cronRan>>
  PROVE  TypeOK'
  BY ReturnTypes, SpoiltTypes DEF Fail, TypeOK, world, RunRecords

LEMMA SucceedTypes ==
  ASSUME TypeOK, NEW w \in Runs, Succeed(w), UNCHANGED <<world, cronRan>>
  PROVE  TypeOK'
<1>1. 0 \in 0..MaxMisses
  BY DaysAssumption DEF MaxMisses
<1>2. QED
  BY <1>1, ReturnTypes DEF Succeed, TypeOK, world, RunRecords

LEMMA TypeStep == TypeOK /\ [Next]_vars => TypeOK'
<1> SUFFICES ASSUME TypeOK, [Next]_vars PROVE TypeOK'
  OBVIOUS
<1>1. ASSUME NEW w \in Runs, NEW force \in BOOLEAN, Start(w, force) PROVE TypeOK'
  <2> DEFINE new == [run[w] EXCEPT !.at = "connecting", !.force = force]
  <2>1. new \in RunRecords
    BY DEF TypeOK, RunStates, RunRecords
  <2>2. run' = [run EXCEPT ![w] = new]
    BY <1>1 DEF Start
  <2> HIDE DEF new
  <2>3. QED
    BY <1>1, <2>1, <2>2 DEF Start, TypeOK, world, history, RunRecords
<1>2. ASSUME NEW w \in Runs, NotConnected(w) PROVE TypeOK'
  BY <1>2, FailTypes DEF NotConnected
<1>3. ASSUME NEW w \in Runs, ReadPhone(w) PROVE TypeOK'
  <2> DEFINE due == Due(run[w].force)
             new == [run[w] EXCEPT !.at = "deciding", !.due = due, !.todo = due]
  <2>1. due \in SUBSET Bundles
    BY DEF Due
  <2>2. new \in RunRecords
    <3> HIDE DEF due
    <3>1. QED
      BY <2>1 DEF TypeOK, RunStates, RunRecords
  <2>3. run' = [run EXCEPT ![w] = new]
    BY <1>3 DEF ReadPhone
  <2> HIDE DEF new, due
  <2>4. QED
    BY <1>3, <2>2, <2>3 DEF ReadPhone, TypeOK, world, history, RunRecords
<1>4. ASSUME NEW w \in Runs, NothingToRenew(w) \/ Finish(w) PROVE TypeOK'
  BY <1>4, SucceedTypes DEF NothingToRenew, Finish
<1>5. ASSUME NEW w \in Runs, SignIn(w) \/ SignedIn(w) \/ AllRenewed(w) PROVE TypeOK'
  <2>1. PICK place \in RunStates : Goto(w, place)
    BY <1>5 DEF SignIn, SignedIn, AllRenewed, RunStates
  <2>2. UNCHANGED <<world, cronRan, history>>
    BY <1>5 DEF SignIn, SignedIn, AllRenewed
  <2>3. QED
    BY <2>1, <2>2, GotoTypes DEF TypeOK, world, history, RunRecords
<1>6. ASSUME NEW w \in Runs, SignInFails(w) \/ CheckFails(w) PROVE TypeOK'
  BY <1>6, FailTypes DEF SignInFails, CheckFails
<1>7. ASSUME NEW w \in Runs, NEW b \in Bundles, SkipWithoutAppId(w, b) PROVE TypeOK'
  BY <1>7 DEF SkipWithoutAppId, TypeOK, world, history
<1>8. ASSUME NEW w \in Runs, NEW b \in Bundles, RenewApp(w, b) PROVE TypeOK'
  <2>1. run' \in [Runs -> RunRecords]
    BY <1>8 DEF RenewApp, TypeOK, RunRecords
  <2>2. others' \in [Runs -> SUBSET Bundles]
    BY <1>8 DEF RenewApp, Told, TypeOK
  <2>3. QED
    BY <1>8, <2>1, <2>2, AddTypes DEF RenewApp, TypeOK, RunRecords
<1>9. ASSUME NEW w \in Runs, NEW b \in Bundles, RenewFails(w, b) PROVE TypeOK'
  BY <1>9, FailTypes DEF RenewFails
<1>10. ASSUME NEW b \in Bundles, AltStoreRenews(b) PROVE TypeOK'
  <2>1. others' \in [Runs -> SUBSET Bundles]
    BY <1>10 DEF AltStoreRenews, Told, TypeOK
  <2>2. QED
    BY <1>10, <2>1, AddTypes DEF AltStoreRenews, TypeOK
<1>11. CASE Tick
  <2>1. \A t \in Ticks : (IF t > 0 THEN t - 1 ELSE t) \in Ticks
    BY Margins DEF Ticks
  <2>2. left' \in [Bundles -> SUBSET Ticks]
    <3> DEFINE lower(ticks) == {IF t > 0 THEN t - 1 ELSE t : t \in ticks}
    <3>1. \A b \in Bundles : left[b] \in SUBSET Ticks
      BY DEF TypeOK
    <3>2. \A b \in Bundles : lower(left[b]) \in SUBSET Ticks
      BY <2>1, <3>1
    <3>3. left' = [b \in Bundles |-> lower(left[b])]
      BY <1>11 DEF Tick
    <3> HIDE DEF lower
    <3>4. QED
      BY <3>2, <3>3
  <2>3. hour' \in 0..(TicksPerDay - 1)
    BY <1>11, Margins DEF Tick, TypeOK
  <2>4. QED
    BY <1>11, <2>2, <2>3, SpoiltTypes DEF Tick, TypeOK
<1>12. CASE UNCHANGED vars
  BY <1>12 DEF TypeOK, vars, world, history
<1>13. ASSUME NEW b \in Bundles, AltStoreRemoves(b) PROVE TypeOK'
  <2>1. PICK kept \in SUBSET (left[b] \ {Newest(b)}) : left' = [left EXCEPT ![b] = kept]
    BY <1>13 DEF AltStoreRemoves
  <2>2. left' \in [Bundles -> SUBSET Ticks] /\ removed' \subseteq Bundles
    BY <1>13, <2>1 DEF AltStoreRemoves, TypeOK
  <2>3. others' \in [Runs -> SUBSET Bundles]
    BY <1>13 DEF AltStoreRemoves, Told, TypeOK
  <2>4. QED
    BY <1>13, <2>2, <2>3 DEF AltStoreRemoves, TypeOK
<1>14. QED
  BY <1>1, <1>2, <1>3, <1>4, <1>5, <1>6, <1>7, <1>8, <1>9, <1>10, <1>11, <1>12, <1>13 DEF Next

-----------------------------------------------------------------------------
(* The steps: what a run knows                                             *)

\* One run moves and the phone does not change: the other knows what it knew.
LEMMA OtherKnows ==
  ASSUME NEW w \in Runs, UNCHANGED <<left, appIds, removed>>, run'[w] = run[w], others'[w] = others[w],
         RunKnows(w)
  PROVE  RunKnows(w)'
  BY SameNewest DEF RunKnows

\* Nobody knows anything of an idle run.
LEMMA IdleKnows ==
  ASSUME NEW w \in Runs, run'[w] = IdleRun
  PROVE  RunKnows(w)'
  BY DEF RunKnows, IdleRun

LEMMA OneMoves ==
  ASSUME TypeOK, \A u \in Runs : RunKnows(u), NEW w \in Runs, UNCHANGED <<left, appIds, removed>>,
         NEW new, run' = [run EXCEPT ![w] = new],
         \A u \in Runs \ {w} : others'[u] = others[u], RunKnows(w)'
  PROVE  \A u \in Runs : RunKnows(u)'
<1> SUFFICES ASSUME NEW u \in Runs, u # w PROVE RunKnows(u)'
  OBVIOUS
<1>1. run'[u] = run[u] /\ others'[u] = others[u]
  BY DEF TypeOK
<1>2. QED
  BY <1>1, OtherKnows

LEMMA ReturnKnows ==
  ASSUME TypeOK, \A u \in Runs : RunKnows(u), NEW w \in Runs, UNCHANGED <<left, appIds>>, Return(w)
  PROVE  \A u \in Runs : RunKnows(u)'
<1>1. run'[w] = IdleRun
  BY DEF TypeOK, Return
<1>2. \A u \in Runs \ {w} : others'[u] = others[u]
  BY DEF TypeOK, Return
<1>3. QED
  BY <1>1, <1>2, IdleKnows, OneMoves DEF Return

LEMMA GotoKnows ==
  ASSUME TypeOK, \A u \in Runs : RunKnows(u), NEW w \in Runs, UNCHANGED <<left, appIds, others, removed>>,
         NEW place, Goto(w, place),
         \/ run[w].at = "deciding" /\ place = "signing"
         \/ run[w].at = "signing" /\ place = "renewing"
         \/ run[w].at = "renewing" /\ place = "checking" /\ run[w].todo = {}
  PROVE  \A u \in Runs : RunKnows(u)'
<1> DEFINE new == [run[w] EXCEPT !.at = place]
<1>1. run' = [run EXCEPT ![w] = new]
  BY DEF Goto
<1>2. run'[w] = new /\ new.at = place
      /\ new.force = run[w].force /\ new.due = run[w].due /\ new.todo = run[w].todo
  BY <1>1 DEF TypeOK
<1> HIDE DEF new
<1>3. RunKnows(w)'
  BY <1>2, SameNewest DEF RunKnows
<1>4. QED
  BY <1>1, <1>3, OneMoves

\* Reading the phone: what is not due has enough, what is due has not, or is forced.
LEMMA ReadKnows ==
  ASSUME TypeOK, AwayInv, \A u \in Runs : RunKnows(u), NEW w \in Runs, ReadPhone(w)
  PROVE  \A u \in Runs : RunKnows(u)'
<1> DEFINE due == Due(run[w].force)
           new == [run[w] EXCEPT !.at = "deciding", !.due = due, !.todo = due]
<1>1. run' = [run EXCEPT ![w] = new] /\ UNCHANGED <<left, appIds, others, removed>>
  BY DEF ReadPhone, world, history
<1>2. run'[w] = new /\ new.at = "deciding" /\ new.force = run[w].force
      /\ new.due = due /\ new.todo = due
  BY <1>1 DEF TypeOK
<1>3. \A b \in Bundles : OnThePhone(b) => Newest(b) \in Ticks
  BY NewestIsGreatest
<1>4. \A b \in Bundles : OnThePhone(b) => (DaysLeft(Newest(b)) <= MinDays <=> Newest(b) < Enough)
  BY <1>3, DueIsNotEnough
<1>5. \A b \in Bundles : OnThePhone(b) => Newest(b) < Enough \/ Newest(b) >= Enough
  BY <1>3, Margins DEF Ticks
<1>6. /\ \A b \in Bundles \ (due \union removed) : Newest(b) >= Enough
      /\ ~run[w].force => \A b \in due : OnThePhone(b) /\ Newest(b) < Enough
      /\ due \subseteq Bundles
  BY <1>4, <1>5 DEF Due, AwayInv
<1> HIDE DEF new, due
<1>7. RunKnows(w)'
  BY <1>1, <1>2, <1>6, SameNewest DEF RunKnows
<1>8. QED
  BY <1>1, <1>7, OneMoves

\* An app without App ID is passed over: none of those Apple knows is lost.
LEMMA SkipKnows ==
  ASSUME TypeOK, \A u \in Runs : RunKnows(u), NEW w \in Runs, NEW b \in Bundles, SkipWithoutAppId(w, b)
  PROVE  \A u \in Runs : RunKnows(u)'
<1> DEFINE new == [run[w] EXCEPT !.todo = @ \ {b}]
<1>1. run' = [run EXCEPT ![w] = new] /\ UNCHANGED <<left, appIds, others, removed>>
  BY DEF SkipWithoutAppId, world, history
<1>2. run'[w] = new /\ new.at = "renewing" /\ new.force = run[w].force
      /\ new.due = run[w].due /\ new.todo = run[w].todo \ {b} /\ b \notin appIds
      /\ run[w].at = "renewing"
  BY <1>1 DEF TypeOK, SkipWithoutAppId
<1> HIDE DEF new
<1>3. RunKnows(w)'
  BY <1>1, <1>2, SameNewest DEF RunKnows
<1>4. QED
  BY <1>1, <1>3, OneMoves

\* A renewal, whoever makes it: those who have read the phone are told of it,
\* or have had it to do and have done it.
LEMMA AddKnows ==
  ASSUME TypeOK, TypeOK', NEW u \in Runs, RunKnows(u), NEW b \in Bundles, Add(b), UNCHANGED appIds,
         \/ /\ run'[u] = run[u]
            /\ others'[u] = IF run[u].at \notin {"idle", "connecting"} THEN others[u] \union {b}
                                                                       ELSE others[u]
         \/ /\ run[u].at = "renewing"
            /\ run'[u] = [run[u] EXCEPT !.todo = @ \ {b}]
            /\ others'[u] = others[u]
  PROVE  RunKnows(u)'
<1>1. /\ Newest(b)' = New
      /\ \A c \in Bundles \ {b} : Newest(c)' = Newest(c) /\ (OnThePhone(c)' <=> OnThePhone(c))
      /\ removed' = removed \ {b}
  BY AddRaises DEF Add
<1>2. New >= Enough
  BY Margins
<1>3. /\ run'[u].at = run[u].at /\ run'[u].force = run[u].force /\ run'[u].due = run[u].due
      /\ \/ run'[u].todo = run[u].todo
         \/ run[u].at = "renewing" /\ run'[u].todo = run[u].todo \ {b}
      /\ others[u] \subseteq others'[u]
      /\ run[u].at \notin {"idle", "connecting"} => b \in others'[u] \/ b \notin run'[u].todo
  BY DEF TypeOK
<1>4. run[u].due \subseteq Bundles /\ run[u].todo \subseteq Bundles
  BY DEF TypeOK
<1>5. QED
  BY <1>1, <1>2, <1>3, <1>4 DEF RunKnows

\* A removal: those who have read the phone are told of it, and it excuses the rest.
LEMMA RemovalKnows ==
  ASSUME TypeOK, NEW u \in Runs, RunKnows(u), NEW b \in Bundles, AltStoreRemoves(b)
  PROVE  RunKnows(u)'
<1>1. /\ \A c \in Bundles \ {b} : Newest(c)' = Newest(c) /\ (OnThePhone(c)' <=> OnThePhone(c))
      /\ removed' = removed \union {b} /\ run' = run /\ appIds' = appIds
  BY RemovalSparesOthers DEF AltStoreRemoves
<1>2. /\ others[u] \subseteq others'[u]
      /\ run[u].at \notin {"idle", "connecting"} => b \in others'[u]
  BY DEF AltStoreRemoves, Told, TypeOK
<1>3. run[u].due \subseteq Bundles /\ run[u].todo \subseteq Bundles
  BY DEF TypeOK
<1>4. QED
  BY <1>1, <1>2, <1>3 DEF RunKnows

LEMMA KnowStep ==
  RenewalInv /\ TypeOK' /\ [Next]_vars => \A u \in Runs : RunKnows(u)'
<1> SUFFICES ASSUME RenewalInv, TypeOK', [Next]_vars
             PROVE  \A u \in Runs : RunKnows(u)'
  OBVIOUS
<1>0. TypeOK /\ AwayInv /\ \A u \in Runs : RunKnows(u)
  BY DEF RenewalInv
<1>1. ASSUME NEW w \in Runs, NEW force \in BOOLEAN, Start(w, force)
      PROVE  \A u \in Runs : RunKnows(u)'
  <2> DEFINE new == [run[w] EXCEPT !.at = "connecting", !.force = force]
  <2>1. run' = [run EXCEPT ![w] = new] /\ UNCHANGED <<left, appIds, others, removed>>
    BY <1>1 DEF Start, world, history
  <2>2. run'[w] = new /\ new.at = "connecting" /\ new.todo = run[w].todo /\ new.due = run[w].due
    BY <1>0, <2>1 DEF TypeOK
  <2> HIDE DEF new
  <2>3. RunKnows(w)'
    BY <1>0, <2>2 DEF RunKnows
  <2>4. QED
    BY <1>0, <2>1, <2>3, OneMoves
<1>2. ASSUME NEW w \in Runs, Return(w), UNCHANGED <<world, cronRan>>
      PROVE  \A u \in Runs : RunKnows(u)'
  BY <1>0, <1>2, ReturnKnows DEF world, Return
<1>3. ASSUME NEW w \in Runs, ReadPhone(w) PROVE \A u \in Runs : RunKnows(u)'
  BY <1>0, <1>3, ReadKnows
<1>4. ASSUME NEW w \in Runs, SignIn(w) \/ SignedIn(w) \/ AllRenewed(w)
      PROVE  \A u \in Runs : RunKnows(u)'
  BY <1>0, <1>4, GotoKnows DEF SignIn, SignedIn, AllRenewed, world, history
<1>5. ASSUME NEW w \in Runs, NEW b \in Bundles, SkipWithoutAppId(w, b)
      PROVE  \A u \in Runs : RunKnows(u)'
  BY <1>0, <1>5, SkipKnows
<1>6. ASSUME NEW w \in Runs, NEW b \in Bundles, RenewApp(w, b), NEW u \in Runs
      PROVE  RunKnows(u)'
  <2>1. CASE u = w
    <3>1. run[u].at = "renewing" /\ run'[u] = [run[u] EXCEPT !.todo = @ \ {b}] /\ others'[u] = others[u]
      BY <1>0, <1>6, <2>1 DEF RenewApp, Told, TypeOK
    <3>2. QED
      BY <1>0, <1>6, <3>1, AddKnows DEF RenewApp
  <2>2. CASE u # w
    <3>1. run'[u] = run[u]
          /\ others'[u] = IF run[u].at \notin {"idle", "connecting"} THEN others[u] \union {b}
                                                                     ELSE others[u]
      BY <1>0, <1>6, <2>2 DEF RenewApp, Told, TypeOK
    <3>2. QED
      BY <1>0, <1>6, <3>1, AddKnows DEF RenewApp
  <2>3. QED
    BY <2>1, <2>2
<1>7. ASSUME NEW b \in Bundles, AltStoreRenews(b), NEW u \in Runs
      PROVE  RunKnows(u)'
  <2>1. run'[u] = run[u]
        /\ others'[u] = IF run[u].at \notin {"idle", "connecting"} THEN others[u] \union {b}
                                                                   ELSE others[u]
    BY <1>0, <1>7 DEF AltStoreRenews, Told, TypeOK
  <2>2. QED
    BY <1>0, <1>7, <2>1, AddKnows DEF AltStoreRenews
<1>8. ASSUME Tick, NEW u \in Runs PROVE RunKnows(u)'
  <2>1. run[u].at = "idle" /\ run'[u] = run[u]
    BY <1>8 DEF Tick
  <2>2. QED
    BY <1>0, <2>1 DEF RunKnows
<1>9. CASE UNCHANGED vars
  BY <1>0, <1>9, OtherKnows DEF vars, world, history
<1>10. ASSUME NEW b \in Bundles, AltStoreRemoves(b), NEW u \in Runs PROVE RunKnows(u)'
  BY <1>0, <1>10, RemovalKnows
<1>11. QED
  BY <1>1, <1>2, <1>3, <1>4, <1>5, <1>6, <1>7, <1>8, <1>9, <1>10
  DEF Next, NotConnected, NothingToRenew, SignInFails, RenewFails, Finish, CheckFails, Fail, Succeed

-----------------------------------------------------------------------------
(* The invariant of the runs                                               *)

LEMMA RenewalInit == Init => RenewalInv
<1> SUFFICES ASSUME Init PROVE RenewalInv
  OBVIOUS
<1>1. New \in Ticks /\ (MinDays + 1) * TicksPerDay \in Ticks
  BY Margins DEF Ticks, Enough, Margin
<1>2. 0 \in 0..MaxMisses /\ 0 \in 0..(TicksPerDay - 1)
  BY Margins DEF MaxMisses
<1>3. IdleRun \in RunRecords
  BY DEF IdleRun, RunRecords, RunStates
<1>4. TypeOK
  <2>1. left \in [Bundles -> SUBSET Ticks] /\ removed \subseteq Bundles
    BY <1>1 DEF Init
  <2>2. run \in [Runs -> RunRecords] /\ others \in [Runs -> SUBSET Bundles]
    BY <1>3 DEF Init
  <2>3. misses \in [Bundles -> 0..MaxMisses] /\ hour \in 0..(TicksPerDay - 1)
    BY <1>2 DEF Init
  <2>4. QED
    BY <2>1, <2>2, <2>3 DEF Init, TypeOK, RunRecords
<1>5. \A w \in Runs : run[w].at = "idle" /\ run[w].todo = {} /\ run[w].due = {}
  BY DEF Init, IdleRun
<1>6. CronInv /\ \A w \in Runs : RunKnows(w)
  BY <1>5 DEF CronInv, RunKnows, Runs
<1>7. AwayInv
  BY DEF Init, AwayInv, OnThePhone
<1>8. QED
  BY <1>4, <1>6, <1>7 DEF RenewalInv

\* A bundle loses its last profile only by a removal.
LEMMA AwayStep ==
  RenewalInv /\ TypeOK' /\ [Next]_vars => AwayInv'
<1> SUFFICES ASSUME RenewalInv, TypeOK', [Next]_vars PROVE AwayInv'
  OBVIOUS
<1>0. TypeOK /\ AwayInv
  BY DEF RenewalInv
<1>1. ASSUME UNCHANGED <<left, removed>> PROVE AwayInv'
  BY <1>0, <1>1 DEF AwayInv, OnThePhone
<1>2. ASSUME NEW b \in Bundles, Add(b) PROVE AwayInv'
  <2>1. OnThePhone(b)' /\ \A c \in Bundles \ {b} : OnThePhone(c)' <=> OnThePhone(c)
    BY <1>0, <1>2, AddRaises
  <2>2. QED
    BY <1>0, <1>2, <2>1 DEF AwayInv, Add
<1>3. ASSUME NEW b \in Bundles, AltStoreRemoves(b) PROVE AwayInv'
  <2>1. \A c \in Bundles \ {b} : OnThePhone(c)' <=> OnThePhone(c)
    BY <1>0, <1>3, RemovalSparesOthers
  <2>2. QED
    BY <1>0, <1>3, <2>1 DEF AwayInv, AltStoreRemoves
<1>4. CASE Tick
  <2>1. \A c \in Bundles : OnThePhone(c) => OnThePhone(c)'
    BY <1>0, <1>4, TickLowers
  <2>2. QED
    BY <1>0, <1>4, <2>1 DEF AwayInv, Tick
<1>5. QED
  BY <1>1, <1>2, <1>3, <1>4
  DEF Next, Start, NotConnected, ReadPhone, NothingToRenew, SignIn, SignInFails, SignedIn,
    SkipWithoutAppId, RenewApp, RenewFails, AllRenewed, Finish, CheckFails, AltStoreRenews,
    Fail, Succeed, Return, vars, world, history

LEMMA CronStep ==
  RenewalInv /\ [Next]_vars => CronInv'
<1> SUFFICES ASSUME RenewalInv, [Next]_vars PROVE CronInv'
  OBVIOUS
<1>0. TypeOK /\ CronInv
  BY DEF RenewalInv
<1>1. ASSUME NEW w \in Runs, NEW force \in BOOLEAN, Start(w, force) PROVE CronInv'
  BY <1>0, <1>1 DEF Start, CronInv, TypeOK, world, Runs
<1>2. ASSUME NEW w \in Runs, NEW new, run' = [run EXCEPT ![w] = new],
             new.at = "idle" \/ run[w].at # "idle", UNCHANGED <<hour, cronRan>>
      PROVE  CronInv'
  BY <1>0, <1>2 DEF CronInv, TypeOK, Runs
<1>3. ASSUME NEW w \in Runs, Return(w), UNCHANGED <<hour, cronRan>> PROVE CronInv'
  <2>1. IdleRun.at = "idle"
    BY DEF IdleRun
  <2>2. QED
    BY <1>2, <1>3, <2>1 DEF Return
<1>4. ASSUME UNCHANGED <<run, hour, cronRan>> PROVE CronInv'
  BY <1>0, <1>4 DEF CronInv
<1>5. CASE Tick
  BY <1>5 DEF Tick, CronInv, Runs
<1>6. ASSUME NEW w \in Runs, NotConnected(w) \/ NothingToRenew(w) \/ SignInFails(w) \/ Finish(w)
                               \/ CheckFails(w) \/ \E b \in Bundles : RenewFails(w, b)
      PROVE  CronInv'
  BY <1>3, <1>6 DEF NotConnected, NothingToRenew, SignInFails, Finish, CheckFails, RenewFails,
                    Fail, Succeed, world
<1>7. ASSUME NEW w \in Runs, ReadPhone(w) \/ SignIn(w) \/ SignedIn(w) \/ AllRenewed(w)
                               \/ \E b \in Bundles : SkipWithoutAppId(w, b) \/ RenewApp(w, b)
      PROVE  CronInv'
  <2>1. run[w].at # "idle" /\ UNCHANGED <<hour, cronRan>>
    BY <1>7 DEF ReadPhone, SignIn, SignedIn, AllRenewed, SkipWithoutAppId, RenewApp, world
  <2>2. \E new : run' = [run EXCEPT ![w] = new]
    BY <1>7 DEF ReadPhone, SignIn, SignedIn, AllRenewed, SkipWithoutAppId, RenewApp, Goto
  <2>3. QED
    BY <1>2, <2>1, <2>2
<1>8. QED
  BY <1>1, <1>4, <1>5, <1>6, <1>7 DEF Next, AltStoreRenews, AltStoreRemoves, vars, world

LEMMA RenewalStep == RenewalInv /\ [Next]_vars => RenewalInv'
<1> SUFFICES ASSUME RenewalInv, [Next]_vars PROVE RenewalInv'
  OBVIOUS
<1>1. TypeOK'
  BY TypeStep DEF RenewalInv
<1>2. CronInv' /\ AwayInv' /\ \A w \in Runs : RunKnows(w)'
  BY <1>1, CronStep, AwayStep, KnowStep
<1>3. QED
  BY <1>1, <1>2 DEF RenewalInv

-----------------------------------------------------------------------------
(* The margin, evening by evening                                          *)

\* What the bundle has and what it should have, as numbers.
LEMMA Numbers ==
  ASSUME TypeOK, NEW b \in Bundles
  PROVE  /\ OnThePhone(b) => Newest(b) \in Int /\ Newest(b) <= New
         /\ hour \in Nat /\ hour < TicksPerDay
         /\ misses[b] \in Nat /\ misses[b] <= MaxMisses
         /\ Margin(MinDays + 1 - misses[b]) \in Int
         /\ Margin(MinDays - misses[b]) \in Int
         /\ Margin(MinDays + 1 - misses[b]) = Margin(MinDays - misses[b]) + TicksPerDay
<1>1. OnThePhone(b) => Newest(b) \in Ticks
  BY NewestIsGreatest
<1>2. misses[b] \in 0..MaxMisses /\ hour \in 0..(TicksPerDay - 1) /\ MaxMisses \in Nat
  BY Margins DEF TypeOK, MaxMisses
<1>3. MinDays - misses[b] \in Int /\ MinDays + 1 - misses[b] = (MinDays - misses[b]) + 1
  BY <1>2, Margins
<1>4. QED
  BY <1>1, <1>2, <1>3, Margins DEF Ticks

\* A new profile has more than any margin.
LEMMA NewIsEnough ==
  ASSUME TypeOK, NEW b \in Bundles
  PROVE  Margin(MinDays + 1 - misses[b]) <= New /\ Margin(MinDays - misses[b]) <= New
<1>1. misses[b] \in Nat /\ MinDays + 1 - misses[b] \in Int /\ MinDays + 1 \in Int
  BY Numbers, Margins
<1>2. Enough = Margin(MinDays + 1 - misses[b]) + Margin(misses[b])
  BY <1>1, Margins DEF Enough, Margin
<1>3. Margin(misses[b]) >= 0 /\ Margin(misses[b]) \in Int
  BY <1>1, Margins
<1>4. QED
  BY <1>2, <1>3, Numbers, Margins

\* A step that neither ends an evening nor counts one takes nothing from an app.
LEMMA NothingTaken ==
  ASSUME RenewalInv, RenewalInv', MarginInv, UNCHANGED <<appIds, hour, misses>>,
         EveningIsOver' <=> EveningIsOver,
         \A b \in Bundles \ removed' :
           \/ b \notin removed /\ Newest(b)' >= Newest(b)
           \/ Newest(b)' = New
  PROVE  MarginInv'
<1> SUFFICES ASSUME ~CountApart, NEW b \in appIds \ removed', misses[b] < MaxMisses
             PROVE  IF EveningIsOver' THEN Newest(b)' >= Margin(MinDays + 1 - misses[b]) - hour
                                      ELSE Newest(b)' >= Margin(MinDays - misses[b])
  BY DEF MarginInv, MarginLeft, Margin
<1>1. b \in Bundles /\ TypeOK /\ TypeOK' /\ OnThePhone(b)'
  BY DEF RenewalInv, AwayInv, TypeOK
<1>2. Newest(b)' \in Int
  BY <1>1, NewestIsGreatestNext, Margins DEF Ticks
<1>3. CASE b \notin removed /\ Newest(b)' >= Newest(b)
  <2>1. OnThePhone(b) /\ MarginLeft(b)
    BY <1>1, <1>3 DEF RenewalInv, AwayInv, MarginInv
  <2>2. QED
    BY <1>1, <1>2, <1>3, <2>1, Numbers DEF MarginLeft
<1>4. CASE Newest(b)' = New
  <2>1. Margin(MinDays + 1 - misses[b]) <= New /\ Margin(MinDays - misses[b]) <= New
    BY <1>1, NewIsEnough
  <2>2. QED
    BY <1>1, <1>4, <2>1, Numbers, Margins
<1>5. QED
  BY <1>1, <1>3, <1>4

\* A run of the page that fails, and the first steps of any, count no evening.
LEMMA SameEvening ==
  ASSUME RenewalInv, RenewalInv', MarginInv, UNCHANGED <<appIds, hour, misses>>,
         EveningIsOver' <=> EveningIsOver, UNCHANGED <<left, removed>>
  PROVE  MarginInv'
<1>1. \A b \in Bundles \ removed : Newest(b) \in Int /\ Newest(b)' = Newest(b)
  BY SameNewest, Numbers DEF RenewalInv, AwayInv
<1>2. \A b \in Bundles \ removed' : b \notin removed /\ Newest(b)' >= Newest(b)
  BY <1>1
<1>3. QED
  BY <1>2, NothingTaken

\* Cron's run fails: the evening is over, and counts for every app.
LEMMA CronFails ==
  ASSUME RenewalInv, RenewalInv', MarginInv, NEW bundles, Fail("cron", bundles),
         run["cron"].at # "idle", UNCHANGED <<world, cronRan>>
  PROVE  MarginInv'
<1> SUFFICES ASSUME ~CountApart, NEW b \in appIds \ removed PROVE MarginLeft(b)'
  BY DEF MarginInv, world, Fail, Return
<1>1. b \in Bundles /\ TypeOK /\ OnThePhone(b)
  BY DEF RenewalInv, AwayInv, TypeOK
<1>2. hour = 0 /\ cronRan /\ ~EveningIsOver /\ MarginLeft(b)
  BY DEF RenewalInv, CronInv, EveningIsOver, MarginInv
<1>3. /\ Newest(b)' = Newest(b)
      /\ misses'[b] = IF misses[b] < MaxMisses THEN misses[b] + 1 ELSE misses[b]
      /\ hour' = 0
  BY <1>1, <1>2, SameNewest DEF Fail, Spoilt, world
<1>4. EveningIsOver'
  BY <1>1, <1>2 DEF EveningIsOver, Fail, Return, IdleRun, world, Runs, TypeOK
<1>5. CASE misses[b] < MaxMisses
  <2>1. Newest(b) >= Margin(MinDays - misses[b])
    BY <1>2, <1>5 DEF MarginLeft
  <2>2. MinDays + 1 - misses'[b] = MinDays - misses[b]
    BY <1>1, <1>3, <1>5, Numbers, Margins
  <2>3. Newest(b)' >= Margin(MinDays + 1 - misses'[b]) - hour'
    BY <1>1, <1>3, <2>1, <2>2, Numbers
  <2>4. QED
    BY <1>4, <2>3 DEF MarginLeft, Margin
<1>6. CASE ~ (misses[b] < MaxMisses)
  BY <1>3, <1>6 DEF MarginLeft, MaxMisses
<1>7. QED
  BY <1>5, <1>6

\* A run succeeds: every app that Apple knows has enough again.
LEMMA Succeeds ==
  ASSUME RenewalInv, RenewalInv', NEW w \in Runs, Succeed(w), UNCHANGED <<world, cronRan>>,
         (run[w].at = "deciding" /\ run[w].todo = {}) \/ run[w].at = "checking"
  PROVE  MarginInv'
<1> SUFFICES ASSUME NEW b \in appIds \ removed PROVE MarginLeft(b)'
  BY DEF MarginInv, world, Succeed, Return
<1>1. b \in Bundles /\ TypeOK /\ RunKnows(w) /\ OnThePhone(b)
  BY DEF RenewalInv, AwayInv, TypeOK
<1>2. Newest(b) >= Enough
  <2>1. CASE b \in run[w].due
    BY <1>1, <2>1, Margins DEF RunKnows
  <2>2. CASE b \notin run[w].due
    BY <1>1, <2>2 DEF RunKnows
  <2>3. QED
    BY <2>1, <2>2
<1>3. Newest(b)' = Newest(b) /\ misses'[b] = 0 /\ hour' = hour
  BY <1>1, SameNewest DEF Succeed, world
<1>4. MinDays \in Int /\ MinDays + 1 - misses'[b] = MinDays + 1 /\ MinDays - misses'[b] = MinDays
  BY <1>3, Margins
<1>5. Enough = Margin(MinDays) + TicksPerDay /\ Margin(MinDays) \in Int
  BY <1>4, Margins DEF Enough
<1>6. /\ Newest(b)' >= Margin(MinDays + 1 - misses'[b]) - hour'
      /\ Newest(b)' >= Margin(MinDays - misses'[b])
  BY <1>1, <1>2, <1>3, <1>4, <1>5, Numbers, Margins DEF Enough
<1>7. QED
  BY <1>6 DEF MarginLeft, Margin

\* Time goes on: a tick is taken, and an evening without cron is spoilt.
LEMMA TimeGoesOn ==
  ASSUME RenewalInv, RenewalInv', MarginInv, Tick
  PROVE  MarginInv'
<1> SUFFICES ASSUME ~CountApart, NEW b \in appIds \ removed PROVE MarginLeft(b)'
  BY DEF MarginInv, Tick
<1>1. b \in Bundles /\ TypeOK /\ TypeOK' /\ MarginLeft(b) /\ OnThePhone(b)
  BY DEF RenewalInv, AwayInv, TypeOK, MarginInv
<1>2. EveningIsOver <=> hour > 0 \/ cronRan
  BY DEF EveningIsOver, Tick, Runs
<1>3. hour' = IF hour + 1 < TicksPerDay THEN hour + 1 ELSE 0
  <2>1. hour \in Nat /\ hour < TicksPerDay /\ TicksPerDay \in Nat /\ TicksPerDay >= 1
    BY <1>1, Numbers, Margins
  <2>2. hour + 1 < TicksPerDay => (hour + 1) % TicksPerDay = hour + 1
    BY <2>1
  <2>3. hour + 1 = TicksPerDay => (hour + 1) % TicksPerDay = 0
    BY <2>1
  <2>4. hour + 1 < TicksPerDay \/ hour + 1 = TicksPerDay
    BY <2>1
  <2>5. QED
    BY <2>1, <2>2, <2>3, <2>4 DEF Tick
<1>4. EveningIsOver' <=> hour' > 0
  BY DEF EveningIsOver, Tick
<1>5. Newest(b)' >= Newest(b) - 1 /\ Newest(b)' \in Int
  BY <1>1, TickLowers, NewestIsGreatestNext, Margins DEF Ticks
<1> DEFINE high == Margin(MinDays + 1 - misses[b])
           low == Margin(MinDays - misses[b])
<1>6. /\ high \in Int /\ low \in Int /\ high = low + TicksPerDay
      /\ hour \in Nat /\ hour < TicksPerDay /\ Newest(b) \in Int
      /\ misses[b] \in Nat /\ MaxMisses \in Nat /\ MinDays \in Nat /\ TicksPerDay \in Nat
  BY <1>1, Numbers, Margins DEF MaxMisses
<1>7. CASE EveningIsOver
  <2>1. misses'[b] = misses[b]
    BY <1>2, <1>6, <1>7 DEF Tick
  <2>2. misses[b] < MaxMisses => Newest(b) >= high - hour
    BY <1>1, <1>7 DEF MarginLeft
  <2> HIDE DEF high, low
  <2>3. misses[b] < MaxMisses =>
          IF EveningIsOver' THEN Newest(b)' >= high - hour' ELSE Newest(b)' >= low
    BY <1>3, <1>4, <1>5, <1>6, <2>2
  <2>4. QED
    BY <2>1, <2>3 DEF MarginLeft, Margin, high, low
<1>8. CASE ~EveningIsOver
  <2>1. misses'[b] = IF misses[b] < MaxMisses THEN misses[b] + 1 ELSE misses[b]
    BY <1>1, <1>2, <1>6, <1>8 DEF Tick, Spoilt
  <2>2. misses[b] < MaxMisses => Newest(b) >= low
    BY <1>1, <1>8 DEF MarginLeft
  <2>3. hour = 0
    BY <1>2, <1>6, <1>8
  <2>4. CASE misses[b] < MaxMisses
    <3>1. MinDays + 1 - misses'[b] = MinDays - misses[b]
          /\ MinDays - misses'[b] = MinDays - misses[b] - 1
      BY <1>6, <2>1, <2>4
    <3>2. Margin(MinDays + 1 - misses'[b]) = low
      BY <3>1
    <3>3. Margin(MinDays - misses'[b]) = low - TicksPerDay
      <4>1. MinDays - misses[b] - 1 \in Int /\ (MinDays - misses[b] - 1) + 1 = MinDays - misses[b]
        BY <1>6
      <4>2. QED
        BY <1>6, <3>1, <4>1, Margins
    <3> HIDE DEF high, low
    <3>4. IF EveningIsOver' THEN Newest(b)' >= low - hour' ELSE Newest(b)' >= low - TicksPerDay
      BY <1>3, <1>4, <1>5, <1>6, <2>2, <2>3, <2>4
    <3>5. QED
      BY <3>2, <3>3, <3>4 DEF MarginLeft, Margin
  <2>5. CASE ~ (misses[b] < MaxMisses)
    BY <2>1, <2>5 DEF MarginLeft, MaxMisses
  <2>6. QED
    BY <2>4, <2>5
<1>9. QED
  BY <1>7, <1>8

LEMMA MarginStep ==
  RenewalInv /\ MarginInv /\ [Next]_vars => MarginInv'
<1> SUFFICES ASSUME RenewalInv, MarginInv, [Next]_vars PROVE MarginInv'
  OBVIOUS
<1>0. RenewalInv' /\ TypeOK /\ TypeOK' /\ CronInv
  BY RenewalStep DEF RenewalInv
<1>1. ASSUME NEW w \in Runs, NEW force \in BOOLEAN, Start(w, force) PROVE MarginInv'
  <2>1. EveningIsOver' <=> EveningIsOver
    <3>1. CASE w = "cron"
      BY <1>0, <1>1, <3>1, Margins DEF Start, EveningIsOver, TypeOK, world, Runs
    <3>2. CASE w # "cron"
      BY <1>0, <1>1, <3>2 DEF Start, EveningIsOver, TypeOK, world, Runs
    <3>3. QED
      BY <3>1, <3>2
  <2>2. QED
    BY <1>0, <1>1, <2>1, SameEvening DEF Start, world, history
<1>2. ASSUME NEW w \in Runs, NEW bundles, Fail(w, bundles), run[w].at # "idle",
             UNCHANGED <<world, cronRan>>
      PROVE  MarginInv'
  <2>1. CASE w = "cron"
    BY <1>0, <1>2, <2>1, CronFails
  <2>2. CASE w # "cron"
    <3>1. EveningIsOver' <=> EveningIsOver
      BY <1>0, <1>2, <2>2 DEF Fail, Return, EveningIsOver, TypeOK, world, Runs
    <3>2. QED
      BY <1>0, <1>2, <2>2, <3>1, SameEvening DEF Fail, Return, world
  <2>3. QED
    BY <2>1, <2>2
<1>3. ASSUME NEW w \in Runs, run'[w].at # "idle", run[w].at # "idle",
             \A u \in Runs \ {w} : run'[u] = run[u], UNCHANGED <<hour, cronRan>>
      PROVE  EveningIsOver' <=> EveningIsOver
  BY <1>0, <1>3 DEF EveningIsOver, TypeOK, Runs
<1>4. ASSUME NEW w \in Runs, ReadPhone(w) \/ SignIn(w) \/ SignedIn(w) \/ AllRenewed(w)
                               \/ \E b \in Bundles : SkipWithoutAppId(w, b)
      PROVE  MarginInv'
  <2>1. run[w].at # "idle" /\ UNCHANGED <<world, cronRan, history>>
    BY <1>4 DEF ReadPhone, SignIn, SignedIn, AllRenewed, SkipWithoutAppId
  <2>2. run'[w].at # "idle" /\ \A u \in Runs \ {w} : run'[u] = run[u]
    <3>1. CASE ReadPhone(w)
      BY <1>0, <3>1 DEF ReadPhone, TypeOK
    <3>2. CASE SignIn(w) \/ SignedIn(w) \/ AllRenewed(w)
      BY <1>0, <3>2 DEF SignIn, SignedIn, AllRenewed, Goto, TypeOK
    <3>3. CASE \E b \in Bundles : SkipWithoutAppId(w, b)
      BY <1>0, <3>3 DEF SkipWithoutAppId, TypeOK
    <3>4. QED
      BY <1>4, <3>1, <3>2, <3>3
  <2>3. EveningIsOver' <=> EveningIsOver
    BY <1>3, <2>1, <2>2 DEF world
  <2>4. QED
    BY <1>0, <2>1, <2>3, SameEvening DEF world, history
<1>5. ASSUME NEW b \in Bundles, Add(b), UNCHANGED <<appIds, hour, misses>>,
             EveningIsOver' <=> EveningIsOver
      PROVE  MarginInv'
  <2>1. /\ Newest(b)' = New /\ \A c \in Bundles \ {b} : Newest(c)' = Newest(c)
        /\ removed' = removed \ {b}
    BY <1>0, <1>5, AddRaises DEF Add
  <2>2. \A c \in Bundles \ removed : Newest(c) \in Int
    BY <1>0, Numbers DEF RenewalInv, AwayInv
  <2>3. \A c \in Bundles \ removed' :
          (c \notin removed /\ Newest(c)' >= Newest(c)) \/ Newest(c)' = New
    BY <2>1, <2>2
  <2>4. QED
    BY <1>0, <1>5, <2>3, NothingTaken
<1>6. ASSUME NEW w \in Runs, NEW b \in Bundles, RenewApp(w, b) PROVE MarginInv'
  <2>1. run[w].at # "idle" /\ run'[w].at # "idle" /\ \A u \in Runs \ {w} : run'[u] = run[u]
    BY <1>0, <1>6 DEF RenewApp, TypeOK
  <2>2. EveningIsOver' <=> EveningIsOver
    BY <1>3, <1>6, <2>1 DEF RenewApp
  <2>3. QED
    BY <1>5, <1>6, <2>2 DEF RenewApp
<1>7. ASSUME NEW b \in Bundles, AltStoreRenews(b) PROVE MarginInv'
  BY <1>5, <1>7 DEF AltStoreRenews, EveningIsOver
<1>8. ASSUME NEW w \in Runs, NothingToRenew(w) \/ Finish(w) PROVE MarginInv'
  BY <1>0, <1>8, Succeeds DEF NothingToRenew, Finish
<1>9. ASSUME NEW w \in Runs, NotConnected(w) \/ SignInFails(w) \/ CheckFails(w)
                               \/ \E b \in Bundles : RenewFails(w, b)
      PROVE  MarginInv'
  BY <1>2, <1>9 DEF NotConnected, SignInFails, CheckFails, RenewFails
<1>10. CASE Tick
  BY <1>0, <1>10, TimeGoesOn
<1>11. CASE UNCHANGED vars
  <2>1. UNCHANGED <<left, appIds, hour, misses, removed>> /\ (EveningIsOver' <=> EveningIsOver)
    BY <1>11 DEF vars, world, history, EveningIsOver
  <2>2. QED
    BY <1>0, <2>1, SameEvening
<1>12. ASSUME NEW b \in Bundles, AltStoreRemoves(b) PROVE MarginInv'
  <2>1. /\ \A c \in Bundles \ {b} : Newest(c)' = Newest(c)
        /\ removed' = removed \union {b}
    BY <1>0, <1>12, RemovalSparesOthers DEF AltStoreRemoves
  <2>2. \A c \in Bundles \ removed : Newest(c) \in Int
    BY <1>0, Numbers DEF RenewalInv, AwayInv
  <2>3. \A c \in Bundles \ removed' : c \notin removed /\ Newest(c)' >= Newest(c)
    BY <2>1, <2>2
  <2>4. UNCHANGED <<appIds, hour, misses>> /\ (EveningIsOver' <=> EveningIsOver)
    BY <1>12 DEF AltStoreRemoves, EveningIsOver
  <2>5. QED
    BY <1>0, <2>3, <2>4, NothingTaken
<1>13. QED
  BY <1>1, <1>4, <1>6, <1>7, <1>8, <1>9, <1>10, <1>11, <1>12 DEF Next

LEMMA MarginInit == Init => MarginInv
<1> SUFFICES ASSUME Init, NEW b \in appIds PROVE MarginLeft(b)
  BY DEF MarginInv
<1>1. RenewalInv /\ TypeOK /\ b \in Bundles /\ OnThePhone(b)
  BY RenewalInit DEF RenewalInv, AwayInv, TypeOK, Init
<1>2. misses[b] = 0 /\ hour = 0 /\ ~cronRan /\ left[b] \in {{New}, {Enough}}
  BY <1>1 DEF Init, Enough, Margin
<1>3. Newest(b) \in {New, Enough}
  BY <1>1, <1>2, NewestIsGreatest
<1>4. MinDays - misses[b] = MinDays /\ MinDays \in Int
  BY <1>2, Margins
<1>5. Newest(b) >= Margin(MinDays)
  BY <1>3, <1>4, Margins DEF Enough
<1>6. ~EveningIsOver
  BY <1>2 DEF EveningIsOver
<1>7. QED
  BY <1>4, <1>5, <1>6 DEF MarginLeft

-----------------------------------------------------------------------------
(* The theorems                                                            *)

\* Every reachable state satisfies the invariant of the runs, ...
THEOREM RenewalInvHolds == Spec => []RenewalInv
<1>1. QED
  BY RenewalInit, RenewalStep, PTL DEF Spec

\* ... and the margin of the evenings.
THEOREM MarginInvHolds == Spec => []MarginInv
<1>1. QED
  BY MarginInit, MarginStep, RenewalInvHolds, PTL DEF Spec

\* The profiles, the clock and the runs keep their types.
THEOREM RenewalTypeCorrect == Spec => []TypeOK
<1>1. RenewalInv => TypeOK
  BY DEF RenewalInv
<1>2. QED
  BY <1>1, RenewalInvHolds, PTL

\* cmd_renew's success means that every app it found due and that Apple knows
\* has a new profile, whatever others renewed meanwhile, or lost its newest one
\* by a removal meanwhile.
THEOREM SuccessMeansRenewedHolds == Spec => []SuccessMeansRenewed
<1>1. RenewalInv => SuccessMeansRenewed
  BY DEF RenewalInv, AwayInv, RunKnows, SuccessMeansRenewed, TypeOK
<1>2. QED
  BY <1>1, RenewalInvHolds, PTL

\* "You get several evenings of margin before an app expires" (README.md:169):
\* with evenings counted for all apps together, an app that Apple knows has
\* expired only after MinDays spoilt evenings in a row, or after losing its newest
\* profile, for every threshold, lifetime and number of apps.
THEOREM SeveralEveningsHolds ==
  ASSUME CountApart = FALSE
  PROVE  Spec => []SeveralEvenings
<1>1. RenewalInv /\ MarginInv => SeveralEvenings
  <2> SUFFICES ASSUME RenewalInv, MarginInv, NEW b \in appIds \ removed, Expired(b),
                      ~ (misses[b] >= MinDays)
               PROVE  FALSE
    BY DEF SeveralEvenings
  <2>1. b \in Bundles /\ TypeOK /\ MarginLeft(b) /\ OnThePhone(b)
    BY DEF RenewalInv, TypeOK, MarginInv, Expired
  <2>2. Newest(b) \in Int /\ Newest(b) <= 0 /\ misses[b] \in Nat /\ misses[b] < MinDays
        /\ MinDays \in Nat /\ hour \in Nat /\ hour < TicksPerDay
    BY <2>1, Numbers, Margins DEF Expired
  <2>3. PICK k \in Nat : MinDays - misses[b] = k + 1
    <3>1. MinDays - misses[b] - 1 \in Nat
      BY <2>2
    <3>2. MinDays - misses[b] = (MinDays - misses[b] - 1) + 1
      BY <2>2
    <3>3. QED
      BY <3>1, <3>2
  <2>4. Margin(MinDays - misses[b]) = Margin(k) + TicksPerDay /\ Margin(k) >= 0 /\ Margin(k) \in Int
    BY <2>3, Margins
  <2>5. Newest(b) >= Margin(MinDays - misses[b])
    <3>1. misses[b] < MaxMisses
      BY <2>2 DEF MaxMisses
    <3>2. CASE EveningIsOver
      <4>1. Newest(b) >= Margin(MinDays + 1 - misses[b]) - hour
        BY <2>1, <3>1, <3>2 DEF MarginLeft
      <4>2. Margin(MinDays + 1 - misses[b]) = Margin(MinDays - misses[b]) + TicksPerDay
            /\ Margin(MinDays - misses[b]) \in Int /\ Margin(MinDays + 1 - misses[b]) \in Int
        BY <2>1, Numbers
      <4>3. QED
        BY <2>2, <4>1, <4>2, Margins
    <3>3. CASE ~EveningIsOver
      BY <2>1, <3>1, <3>3 DEF MarginLeft
    <3>4. QED
      BY <3>2, <3>3
  <2>6. QED
    BY <2>2, <2>4, <2>5, Margins
<1>2. QED
  BY <1>1, RenewalInvHolds, MarginInvHolds, PTL

\* "If AltStore renewed recently, `renew` does nothing and does not even sign
\* in to Apple" (README.md:40-41).
THEOREM NoNeedlessSignInHolds == Spec => NoNeedlessSignIn
<1> DEFINE Needed ==
      \A w \in Runs :
        run[w].at # "signing" /\ run'[w].at = "signing" /\ ~run[w].force =>
          \E b \in Bundles : IsDue(b) \/ b \in others[w]
<1>1. RenewalInv /\ [Next]_vars => Needed
  <2> SUFFICES ASSUME RenewalInv, [Next]_vars, NEW w \in Runs,
                      run[w].at # "signing", run'[w].at = "signing", ~run[w].force
               PROVE  \E b \in Bundles : IsDue(b) \/ b \in others[w]
    OBVIOUS
  <2>1. TypeOK /\ RunKnows(w)
    BY DEF RenewalInv
  <2>2. SignIn(w)
    <3>1. ASSUME NEW u \in Runs, Return(u) PROVE FALSE
      BY <2>1, <3>1 DEF Return, IdleRun, TypeOK
    <3>2. ASSUME NEW u \in Runs, NEW force \in BOOLEAN, Start(u, force) PROVE FALSE
      BY <2>1, <3>2 DEF Start, TypeOK
    <3>3. ASSUME NEW u \in Runs, ReadPhone(u) PROVE FALSE
      BY <2>1, <3>3 DEF ReadPhone, TypeOK
    <3>4. ASSUME NEW u \in Runs, SignedIn(u) \/ AllRenewed(u) PROVE FALSE
      BY <2>1, <3>4 DEF SignedIn, AllRenewed, Goto, TypeOK
    <3>5. ASSUME NEW u \in Runs, NEW b \in Bundles, SkipWithoutAppId(u, b) \/ RenewApp(u, b)
          PROVE  FALSE
      BY <2>1, <3>5 DEF SkipWithoutAppId, RenewApp, TypeOK
    <3>6. run' # run
      OBVIOUS
    <3>7. PICK u \in Runs : SignIn(u)
      BY <3>1, <3>2, <3>3, <3>4, <3>5, <3>6
      DEF Next, NotConnected, NothingToRenew, SignInFails, RenewFails, Finish, CheckFails, Fail,
          Succeed, AltStoreRenews, AltStoreRemoves, Tick, vars
    <3>8. u = w
      BY <2>1, <3>7 DEF SignIn, Goto, TypeOK
    <3>9. QED
      BY <3>7, <3>8
  <2>3. PICK b \in run[w].todo : (OnThePhone(b) /\ Newest(b) < Enough) \/ b \in others[w]
    BY <2>1, <2>2 DEF SignIn, RunKnows
  <2>4. b \in Bundles
    BY <2>1 DEF TypeOK
  <2>5. OnThePhone(b) /\ Newest(b) < Enough => IsDue(b)
    BY <2>1, <2>4, NewestIsGreatest, DueIsNotEnough DEF IsDue
  <2>6. QED
    BY <2>3, <2>4, <2>5
<1>2. QED
  BY <1>1, RenewalInvHolds, PTL DEF Spec, NoNeedlessSignIn

\* The same app by app: what has enough left is not renewed, old profiles on
\* the phone notwithstanding (latest_by_bundle).
THEOREM RenewsOnlyDueHolds == Spec => RenewsOnlyDue
<1> DEFINE OnlyDue ==
      \A w \in Runs, b \in Bundles :
        run[w].at = "renewing" /\ ~run[w].force /\ left'[b] # left[b] /\ run'[w] # run[w] =>
          IsDue(b) \/ b \in others[w]
<1>1. RenewalInv /\ [Next]_vars => OnlyDue
  <2> SUFFICES ASSUME RenewalInv, [Next]_vars, NEW w \in Runs, NEW b \in Bundles,
                      run[w].at = "renewing", ~run[w].force, left'[b] # left[b], run'[w] # run[w]
               PROVE  IsDue(b) \/ b \in others[w]
    OBVIOUS
  <2>1. TypeOK /\ RunKnows(w)
    BY DEF RenewalInv
  <2>2. PICK u \in Runs, c \in Bundles : RenewApp(u, c)
    BY DEF Next, Start, NotConnected, ReadPhone, NothingToRenew, SignIn, SignInFails, SignedIn,
      SkipWithoutAppId, RenewFails, AllRenewed, Finish, CheckFails, AltStoreRenews, AltStoreRemoves, Tick,
      vars, world
  <2>3. c = b /\ u = w
    BY <2>1, <2>2 DEF RenewApp, Add, TypeOK
  <2>4. (OnThePhone(b) /\ Newest(b) < Enough) \/ b \in others[w]
    BY <2>1, <2>2, <2>3 DEF RenewApp, RunKnows
  <2>5. QED
    BY <2>1, <2>4, NewestIsGreatest, DueIsNotEnough DEF IsDue
<1>2. QED
  BY <1>1, RenewalInvHolds, PTL DEF Spec, RenewsOnlyDue
=============================================================================
