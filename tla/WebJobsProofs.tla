--------------------------- MODULE WebJobsProofs ---------------------------
(***************************************************************************)
(* What the web interface keeps for every number of requests, of prompts,  *)
(* of lines and of faults.                                                 *)
(***************************************************************************)
EXTENDS WebJobs, TfaChannelProofs

-----------------------------------------------------------------------------
(* One job holds the guard                                                 *)

\* With one slot in its job, every other one is idle or still asks.
LEMMA Alone ==
  ASSUME WebInv, NEW r \in Slots, Holds(r)
  PROVE  /\ busy
         /\ \A q \in Slots \ {r} : slot[q].at \in {"idle", "asked"}
  BY DEF WebInv, OneJobAtATime, Holds

\* What an update of one slot does to the slots.
LEMMA SlotUpdate ==
  ASSUME WebTypeOK, NEW r \in Slots,
         NEW new \in [at : SlotStates, kind : Jobs, ok : BOOLEAN],
         slot' = [slot EXCEPT ![r] = new]
  PROVE  /\ slot' \in [Slots -> [at : SlotStates, kind : Jobs, ok : BOOLEAN]]
         /\ slot'[r] = new
         /\ \A q \in Slots \ {r} : slot'[q] = slot[q]
  BY DEF WebTypeOK

\* The same, when only the slot's state changes.
LEMMA GotoUpdate ==
  ASSUME WebTypeOK, NEW r \in Slots, NEW state \in SlotStates, Goto(r, state)
  PROVE  /\ slot' \in [Slots -> [at : SlotStates, kind : Jobs, ok : BOOLEAN]]
         /\ slot'[r].at = state
         /\ slot'[r].kind = slot[r].kind
         /\ slot'[r].ok = slot[r].ok
         /\ \A q \in Slots \ {r} : slot'[q] = slot[q]
  BY DEF WebTypeOK, Goto

\* A job that goes on keeps the guard to itself.
LEMMA JobGoesOn ==
  ASSUME WebInv, NEW r \in Slots, Holds(r), busy' = busy,
         slot'[r].at \notin {"idle", "asked"},
         \A q \in Slots \ {r} : slot'[q] = slot[q]
  PROVE  OneJobAtATime'
<1>1. busy /\ \A q \in Slots \ {r} : slot[q].at \in {"idle", "asked"}
  BY Alone
<1>2. Holds(r)' /\ \A q \in Slots \ {r} : ~Holds(q)'
  BY <1>1 DEF Holds
<1>3. QED
  BY <1>1, <1>2 DEF OneJobAtATime

\* A job that gives the guard back leaves it to nobody.
LEMMA JobIsOver ==
  ASSUME WebInv, NEW r \in Slots, Holds(r), busy' = FALSE,
         slot'[r].at = "idle",
         \A q \in Slots \ {r} : slot'[q] = slot[q]
  PROVE  /\ OneJobAtATime'
         /\ \A q \in Slots : slot'[q].at \in {"idle", "asked"}
<1>1. \A q \in Slots \ {r} : slot[q].at \in {"idle", "asked"}
  BY Alone
<1>2. \A q \in Slots : ~Holds(q)'
  BY <1>1 DEF Holds
<1>3. QED
  BY <1>1, <1>2 DEF OneJobAtATime

\* The channel of a step that does not touch it.
LEMMA ChannelUnchanged ==
  ASSUME WebInv, UNCHANGED tfaVars
  PROVE  TfaInv'
  BY TfaStepInv DEF WebInv

-----------------------------------------------------------------------------
LEMMA WebInitInv == Init => WebInv
<1> SUFFICES ASSUME Init PROVE WebInv
  OBVIOUS
<1> USE DEF Init, IdleSlot
<1>1. TfaInv
  BY TfaInitInv
<1>2. WebTypeOK
  BY DEF WebTypeOK, Verdicts, Accounts, SlotStates, Jobs
<1>3. \A r \in Slots : slot[r].at = "idle"
  OBVIOUS
<1>4. OneJobAtATime
  BY <1>3 DEF OneJobAtATime, Holds
<1>5. KindsFit /\ CallbackIsTheLogins
  BY <1>3 DEF KindsFit, CallbackIsTheLogins, TfaInit, Holds
<1>6. ViewsAreKept
  BY DEF ViewsAreKept
<1>7. VerdictIsOwn
  BY <1>3 DEF VerdictIsOwn
<1>8. LinesCount
  BY <1>3, MaxJobLinesAssumption DEF LinesCount, LinesAreBounded
<1>9. QED
  BY <1>1, <1>2, <1>4, <1>5, <1>6, <1>7, <1>8 DEF WebInv

-----------------------------------------------------------------------------
(* The handlers                                                            *)

\* A request that arrives has touched nothing yet: it only has its own slot.
LEMMA RequestInv ==
  ASSUME WebInv, NEW r \in Slots, NEW request \in Requests, Request(r, request)
  PROVE  WebInv'
<1> DEFINE new == [at |-> "asked", kind |-> JobOf[request], ok |-> FALSE]
<1>1. new \in [at : SlotStates, kind : Jobs, ok : BOOLEAN]
  BY DEF SlotStates, Requests, JobOf, Jobs
<1>2. /\ slot' \in [Slots -> [at : SlotStates, kind : Jobs, ok : BOOLEAN]]
      /\ slot'[r] = new
      /\ \A q \in Slots \ {r} : slot'[q] = slot[q]
  BY <1>1, SlotUpdate DEF Request, WebInv
<1>3. slot[r].at = "idle" /\ slot'[r].at = "asked"
  BY <1>2 DEF Request
<1>4. TfaInv' /\ WebTypeOK'
  BY <1>2, ChannelUnchanged DEF WebInv, WebTypeOK, Request
<1>5. \A q \in Slots : Holds(q)' <=> Holds(q)
  BY <1>2, <1>3 DEF Holds
<1>6. OneJobAtATime'
  BY <1>5 DEF WebInv, OneJobAtATime, Request
<1>7. KindsFit' /\ CallbackIsTheLogins'
  BY <1>2, <1>3, <1>5 DEF WebInv, KindsFit, CallbackIsTheLogins, Request, tfaVars, Holds
<1>8. ViewsAreKept'
  BY <1>2, <1>3, <1>5 DEF WebInv, ViewsAreKept, Request, Checks, Renews, LogsIn, Holds
<1>9. VerdictIsOwn'
  BY <1>2, <1>3 DEF WebInv, VerdictIsOwn, Request
<1>10. LinesCount'
  BY <1>2, <1>3 DEF WebInv, LinesCount, LinesAreBounded, Request
<1>11. QED
  BY <1>4, <1>6, <1>7, <1>8, <1>9, <1>10 DEF WebInv

\* A request that finds the flag up goes away; one that finds it down holds
\* the guard, and nobody else does.
LEMMA TryBusyInv ==
  ASSUME WebInv, NEW r \in Slots, TryBusy(r)
  PROVE  WebInv'
<1> DEFINE new == IF busy THEN IdleSlot ELSE [slot[r] EXCEPT !.at = "granted"]
<1>1. slot[r].at = "asked" /\ slot' = [slot EXCEPT ![r] = new]
  BY DEF TryBusy, WebInv, WebTypeOK
<1>2. /\ slot' \in [Slots -> [at : SlotStates, kind : Jobs, ok : BOOLEAN]]
      /\ slot'[r].at = (IF busy THEN "idle" ELSE "granted")
      /\ \A q \in Slots \ {r} : slot'[q] = slot[q]
  <2>1. new \in [at : SlotStates, kind : Jobs, ok : BOOLEAN]
    BY DEF WebInv, WebTypeOK, IdleSlot, SlotStates, HandlerStates, Jobs
  <2>2. new.at = (IF busy THEN "idle" ELSE "granted")
    BY DEF WebInv, WebTypeOK, IdleSlot
  <2>3. QED
    BY <1>1, <2>1, <2>2, SlotUpdate DEF WebInv
<1>3. TfaInv' /\ WebTypeOK'
  BY <1>2, ChannelUnchanged DEF WebInv, WebTypeOK, TryBusy
<1>4. OneJobAtATime'
  <2>1. CASE busy
    <3>1. \A q \in Slots : Holds(q)' <=> Holds(q)
      BY <1>1, <1>2, <2>1 DEF Holds
    <3>2. QED
      BY <2>1, <3>1 DEF WebInv, OneJobAtATime, TryBusy
  <2>2. CASE ~busy
    <3>1. \A q \in Slots : Holds(q)' <=> q = r
      BY <1>1, <1>2, <2>2 DEF WebInv, OneJobAtATime, Holds
    <3>2. QED
      BY <3>1 DEF OneJobAtATime, TryBusy
  <2>3. QED
    BY <2>1, <2>2
<1>5. slot'[r].at \in {"idle", "granted"}
  BY <1>2
<1>6. KindsFit' /\ CallbackIsTheLogins'
  BY <1>1, <1>2, <1>5 DEF WebInv, KindsFit, CallbackIsTheLogins, TryBusy, tfaVars, Holds
<1>7. ViewsAreKept'
  BY <1>1, <1>2, <1>5 DEF WebInv, ViewsAreKept, TryBusy, Checks, Renews, LogsIn, Holds
<1>8. VerdictIsOwn'
  BY <1>1, <1>2, <1>5 DEF WebInv, VerdictIsOwn, TryBusy
<1>9. LinesCount'
  BY <1>1, <1>2, <1>5 DEF WebInv, LinesCount, LinesAreBounded, TryBusy
<1>10. QED
  BY <1>3, <1>4, <1>6, <1>7, <1>8, <1>9 DEF WebInv

\* The view goes up under the guard, for the job that holds it.
LEMMA MarkViewInv ==
  ASSUME WebInv, NEW r \in Slots, MarkView(r)
  PROVE  WebInv'
<1> DEFINE state == IF slot[r].kind = "login" THEN "clearing" ELSE "marked"
<1>1. Holds(r) /\ state \in SlotStates \ {"idle", "asked"} /\ Goto(r, state)
  BY DEF MarkView, Holds, SlotStates, HandlerStates, ThreadStates
<1>2. /\ slot' \in [Slots -> [at : SlotStates, kind : Jobs, ok : BOOLEAN]]
      /\ slot'[r].at = state
      /\ slot'[r].kind = slot[r].kind
      /\ slot'[r].ok = slot[r].ok
      /\ \A q \in Slots \ {r} : slot'[q] = slot[q]
  BY <1>1, GotoUpdate DEF WebInv
<1>3. \A q \in Slots \ {r} : slot[q].at \in {"idle", "asked"}
  BY <1>1, Alone
<1>4. OneJobAtATime'
  BY <1>1, <1>2, JobGoesOn DEF MarkView
<1>5. TfaInv' /\ WebTypeOK'
  BY <1>2, ChannelUnchanged DEF WebInv, WebTypeOK, MarkView, Verdicts
<1>6. KindsFit' /\ CallbackIsTheLogins'
  BY <1>1, <1>2, <1>3
  DEF WebInv, KindsFit, CallbackIsTheLogins, MarkView, tfaVars, Holds, WebTypeOK
<1>7. ViewsAreKept'
  BY <1>1, <1>2, <1>3
  DEF WebInv, WebTypeOK, ViewsAreKept, MarkView, Checks, Renews, LogsIn, Holds
<1>8. VerdictIsOwn'
  BY <1>1, <1>2, <1>3 DEF WebInv, VerdictIsOwn, MarkView, WebTypeOK
<1>9. LinesCount'
  BY <1>1, <1>2, <1>3, MaxJobLinesAssumption DEF WebInv, LinesCount, LinesAreBounded, MarkView, WebTypeOK
<1>10. QED
  BY <1>4, <1>5, <1>6, <1>7, <1>8, <1>9 DEF WebInv

\* The view is the thread's from here on.
LEMMA SpawnInv ==
  ASSUME WebInv, NEW r \in Slots, Spawn(r)
  PROVE  WebInv'
<1> DEFINE state == "working"
<1>1. Holds(r) /\ state \in SlotStates \ {"idle", "asked"} /\ Goto(r, state)
  BY DEF Spawn, Holds, SlotStates, HandlerStates, ThreadStates
<1>2. /\ slot' \in [Slots -> [at : SlotStates, kind : Jobs, ok : BOOLEAN]]
      /\ slot'[r].at = state
      /\ slot'[r].kind = slot[r].kind
      /\ slot'[r].ok = slot[r].ok
      /\ \A q \in Slots \ {r} : slot'[q] = slot[q]
  BY <1>1, GotoUpdate DEF WebInv
<1>3. \A q \in Slots \ {r} : slot[q].at \in {"idle", "asked"}
  BY <1>1, Alone
<1>4. OneJobAtATime'
  BY <1>1, <1>2, JobGoesOn DEF Spawn
<1>5. TfaInv' /\ WebTypeOK'
  BY <1>2, ChannelUnchanged DEF WebInv, WebTypeOK, Spawn
<1>6. KindsFit' /\ CallbackIsTheLogins'
  BY <1>1, <1>2, <1>3
  DEF WebInv, KindsFit, CallbackIsTheLogins, Spawn, tfaVars, Holds
<1>7. ViewsAreKept'
  BY <1>1, <1>2, <1>3
  DEF WebInv, WebTypeOK, ViewsAreKept, Spawn, Checks, Renews, LogsIn, Holds
<1>8. VerdictIsOwn'
  BY <1>1, <1>2, <1>3 DEF WebInv, VerdictIsOwn, Spawn
<1>9. LinesCount'
  BY <1>1, <1>2, <1>3 DEF WebInv, LinesCount, LinesAreBounded, Spawn
<1>10. QED
  BY <1>4, <1>5, <1>6, <1>7, <1>8, <1>9 DEF WebInv

\* A check, or the last step of a renewal, looks at the phone.
LEMMA CheckBeginsInv ==
  ASSUME WebInv, NEW r \in Slots, CheckBegins(r)
  PROVE  WebInv'
<1> DEFINE state == "looking"
<1>1. Holds(r) /\ state \in SlotStates \ {"idle", "asked"} /\ Goto(r, state)
  BY DEF CheckBegins, Holds, SlotStates, HandlerStates, ThreadStates
<1>2. /\ slot' \in [Slots -> [at : SlotStates, kind : Jobs, ok : BOOLEAN]]
      /\ slot'[r].at = state
      /\ slot'[r].kind = slot[r].kind
      /\ slot'[r].ok = slot[r].ok
      /\ \A q \in Slots \ {r} : slot'[q] = slot[q]
  BY <1>1, GotoUpdate DEF WebInv
<1>3. \A q \in Slots \ {r} : slot[q].at \in {"idle", "asked"}
  BY <1>1, Alone
<1>4. OneJobAtATime'
  BY <1>1, <1>2, JobGoesOn DEF CheckBegins
<1>5. TfaInv' /\ WebTypeOK'
  BY <1>2, ChannelUnchanged DEF WebInv, WebTypeOK, CheckBegins
<1>6. KindsFit' /\ CallbackIsTheLogins'
  BY <1>1, <1>2, <1>3
  DEF WebInv, KindsFit, CallbackIsTheLogins, CheckBegins, tfaVars, Holds, WebTypeOK, Jobs
<1>7. ViewsAreKept'
  BY <1>1, <1>2, <1>3
  DEF WebInv, WebTypeOK, ViewsAreKept, CheckBegins, Checks, Renews, LogsIn, Holds, KindsFit, Jobs
<1>8. VerdictIsOwn'
  BY <1>1, <1>2, <1>3 DEF WebInv, VerdictIsOwn, CheckBegins
<1>9. LinesCount'
  BY <1>1, <1>2, <1>3 DEF WebInv, LinesCount, LinesAreBounded, CheckBegins
<1>10. QED
  BY <1>4, <1>5, <1>6, <1>7, <1>8, <1>9 DEF WebInv

\* Whatever the phone said, the check is over.
LEMMA CheckEndsInv ==
  ASSUME WebInv, NEW r \in Slots, CheckEnds(r)
  PROVE  WebInv'
<1> DEFINE state == "done"
<1>1. Holds(r) /\ state \in SlotStates \ {"idle", "asked"} /\ Goto(r, state)
  BY DEF CheckEnds, Holds, SlotStates, HandlerStates, ThreadStates
<1>2. /\ slot' \in [Slots -> [at : SlotStates, kind : Jobs, ok : BOOLEAN]]
      /\ slot'[r].at = state
      /\ slot'[r].kind = slot[r].kind
      /\ slot'[r].ok = slot[r].ok
      /\ \A q \in Slots \ {r} : slot'[q] = slot[q]
  BY <1>1, GotoUpdate DEF WebInv
<1>3. \A q \in Slots \ {r} : slot[q].at \in {"idle", "asked"}
  BY <1>1, Alone
<1>4. OneJobAtATime'
  BY <1>1, <1>2, JobGoesOn DEF CheckEnds
<1>5. TfaInv' /\ WebTypeOK'
  BY <1>2, ChannelUnchanged DEF WebInv, WebTypeOK, CheckEnds
<1>6. KindsFit' /\ CallbackIsTheLogins'
  BY <1>1, <1>2, <1>3
  DEF WebInv, KindsFit, CallbackIsTheLogins, CheckEnds, tfaVars, Holds
<1>7. ViewsAreKept'
  BY <1>1, <1>2, <1>3
  DEF WebInv, WebTypeOK, ViewsAreKept, CheckEnds, Checks, Renews, LogsIn, Holds, KindsFit
<1>8. VerdictIsOwn'
  BY <1>1, <1>2, <1>3 DEF WebInv, VerdictIsOwn, CheckEnds
<1>9. LinesCount'
  BY <1>1, <1>2, <1>3 DEF WebInv, LinesCount, LinesAreBounded, CheckEnds
<1>10. QED
  BY <1>4, <1>5, <1>6, <1>7, <1>8, <1>9 DEF WebInv

\* The page gets the verdict of the renewal, ...
LEMMA RenewClosesInv ==
  ASSUME WebInv, NEW r \in Slots, RenewCloses(r)
  PROVE  WebInv'
<1> DEFINE state == "logging"
<1>1. Holds(r) /\ state \in SlotStates \ {"idle", "asked"} /\ Goto(r, state)
  BY DEF RenewCloses, Holds, SlotStates, HandlerStates, ThreadStates
<1>2. /\ slot' \in [Slots -> [at : SlotStates, kind : Jobs, ok : BOOLEAN]]
      /\ slot'[r].at = state
      /\ slot'[r].kind = slot[r].kind
      /\ slot'[r].ok = slot[r].ok
      /\ \A q \in Slots \ {r} : slot'[q] = slot[q]
  BY <1>1, GotoUpdate DEF WebInv
<1>3. \A q \in Slots \ {r} : slot[q].at \in {"idle", "asked"}
  BY <1>1, Alone
<1>4. OneJobAtATime'
  BY <1>1, <1>2, JobGoesOn DEF RenewCloses
<1>5. TfaInv' /\ WebTypeOK'
  BY <1>2, ChannelUnchanged DEF WebInv, WebTypeOK, RenewCloses, Verdicts, Verdict
<1>6. KindsFit' /\ CallbackIsTheLogins'
  BY <1>1, <1>2, <1>3
  DEF WebInv, KindsFit, CallbackIsTheLogins, RenewCloses, tfaVars, Holds
<1>7. ViewsAreKept'
  BY <1>1, <1>2, <1>3
  DEF WebInv, WebTypeOK, ViewsAreKept, RenewCloses, Checks, Renews, LogsIn, Holds
<1>8. VerdictIsOwn'
  BY <1>1, <1>2, <1>3 DEF WebInv, VerdictIsOwn, RenewCloses, Verdict
<1>9. LinesCount'
  BY <1>1, <1>2, <1>3 DEF WebInv, LinesCount, LinesAreBounded, RenewCloses, WebTypeOK
<1>10. QED
  BY <1>4, <1>5, <1>6, <1>7, <1>8, <1>9 DEF WebInv

\* ... and then the log, the same one, or nothing.
LEMMA RenewLogsInv ==
  ASSUME WebInv, NEW r \in Slots, NEW written \in BOOLEAN, RenewLogs(r, written)
  PROVE  WebInv'
<1> DEFINE state == "recheck"
<1>1. Holds(r) /\ state \in SlotStates \ {"idle", "asked"} /\ Goto(r, state)
  BY DEF RenewLogs, Holds, SlotStates, HandlerStates, ThreadStates
<1>2. /\ slot' \in [Slots -> [at : SlotStates, kind : Jobs, ok : BOOLEAN]]
      /\ slot'[r].at = state
      /\ slot'[r].kind = slot[r].kind
      /\ slot'[r].ok = slot[r].ok
      /\ \A q \in Slots \ {r} : slot'[q] = slot[q]
  BY <1>1, GotoUpdate DEF WebInv
<1>3. \A q \in Slots \ {r} : slot[q].at \in {"idle", "asked"}
  BY <1>1, Alone
<1>4. OneJobAtATime'
  BY <1>1, <1>2, JobGoesOn DEF RenewLogs
<1>5. TfaInv' /\ WebTypeOK'
  BY <1>2, ChannelUnchanged DEF WebInv, WebTypeOK, RenewLogs, Verdicts, Verdict
<1>6. KindsFit' /\ CallbackIsTheLogins'
  BY <1>1, <1>2, <1>3
  DEF WebInv, KindsFit, CallbackIsTheLogins, RenewLogs, tfaVars, Holds
<1>7. ViewsAreKept'
  BY <1>1, <1>2, <1>3
  DEF WebInv, WebTypeOK, ViewsAreKept, RenewLogs, Checks, Renews, LogsIn, Holds
<1>8. VerdictIsOwn'
  BY <1>1, <1>2, <1>3 DEF WebInv, VerdictIsOwn, RenewLogs, KindsFit, Verdict
<1>9. LinesCount'
  BY <1>1, <1>2, <1>3 DEF WebInv, LinesCount, LinesAreBounded, RenewLogs
<1>10. QED
  BY <1>4, <1>5, <1>6, <1>7, <1>8, <1>9 DEF WebInv

\* The account is saved by the login that got it.
LEMMA LoginSavesInv ==
  ASSUME WebInv, NEW r \in Slots, NEW saved \in Accounts, LoginSaves(r, saved)
  PROVE  WebInv'
<1> DEFINE state == "saved"
<1>1. Holds(r) /\ state \in SlotStates \ {"idle", "asked"} /\ Goto(r, state)
  BY DEF LoginSaves, Holds, SlotStates, HandlerStates, ThreadStates, SigningIn
<1>2. /\ slot' \in [Slots -> [at : SlotStates, kind : Jobs, ok : BOOLEAN]]
      /\ slot'[r].at = state
      /\ slot'[r].kind = slot[r].kind
      /\ slot'[r].ok = slot[r].ok
      /\ \A q \in Slots \ {r} : slot'[q] = slot[q]
  BY <1>1, GotoUpdate DEF WebInv
<1>3. \A q \in Slots \ {r} : slot[q].at \in {"idle", "asked"}
  BY <1>1, Alone
<1>4. OneJobAtATime'
  BY <1>1, <1>2, JobGoesOn DEF LoginSaves
<1>5. TfaInv' /\ WebTypeOK'
  BY <1>2, ChannelUnchanged DEF WebInv, WebTypeOK, LoginSaves, Accounts
<1>6. KindsFit' /\ CallbackIsTheLogins'
  BY <1>1, <1>2, <1>3
  DEF WebInv, KindsFit, CallbackIsTheLogins, LoginSaves, tfaVars, Holds, SigningIn
<1>7. ViewsAreKept'
  BY <1>1, <1>2, <1>3
  DEF WebInv, WebTypeOK, ViewsAreKept, LoginSaves, Checks, Renews, LogsIn, Holds, SigningIn
<1>8. VerdictIsOwn'
  BY <1>1, <1>2, <1>3 DEF WebInv, VerdictIsOwn, LoginSaves, SigningIn
<1>9. LinesCount'
  BY <1>1, <1>2, <1>3 DEF WebInv, LinesCount, LinesAreBounded, LoginSaves
<1>10. QED
  BY <1>4, <1>5, <1>6, <1>7, <1>8, <1>9 DEF WebInv

\* A login whose account could not be saved has failed.
LEMMA LoginSaveFailsInv ==
  ASSUME WebInv, NEW r \in Slots, NEW left \in Accounts, LoginSaveFails(r, left)
  PROVE  WebInv'
<1> DEFINE state == "refused"
<1>1. Holds(r) /\ state \in SlotStates \ {"idle", "asked"} /\ Goto(r, state)
  BY DEF LoginSaveFails, Holds, SlotStates, HandlerStates, ThreadStates, SigningIn
<1>2. /\ slot' \in [Slots -> [at : SlotStates, kind : Jobs, ok : BOOLEAN]]
      /\ slot'[r].at = state
      /\ slot'[r].kind = slot[r].kind
      /\ slot'[r].ok = slot[r].ok
      /\ \A q \in Slots \ {r} : slot'[q] = slot[q]
  BY <1>1, GotoUpdate DEF WebInv
<1>3. \A q \in Slots \ {r} : slot[q].at \in {"idle", "asked"}
  BY <1>1, Alone
<1>4. OneJobAtATime'
  BY <1>1, <1>2, JobGoesOn DEF LoginSaveFails
<1>5. TfaInv' /\ WebTypeOK'
  BY <1>2, ChannelUnchanged DEF WebInv, WebTypeOK, LoginSaveFails
<1>6. KindsFit' /\ CallbackIsTheLogins'
  BY <1>1, <1>2, <1>3
  DEF WebInv, KindsFit, CallbackIsTheLogins, LoginSaveFails, tfaVars, Holds, SigningIn
<1>7. ViewsAreKept'
  BY <1>1, <1>2, <1>3
  DEF WebInv, WebTypeOK, ViewsAreKept, LoginSaveFails, Checks, Renews, LogsIn, Holds, SigningIn
<1>8. VerdictIsOwn'
  BY <1>1, <1>2, <1>3 DEF WebInv, VerdictIsOwn, LoginSaveFails, SigningIn
<1>9. LinesCount'
  BY <1>1, <1>2, <1>3 DEF WebInv, LinesCount, LinesAreBounded, LoginSaveFails
<1>10. QED
  BY <1>4, <1>5, <1>6, <1>7, <1>8, <1>9 DEF WebInv

\* A login in a terminal touches the account only.
LEMMA CommandLineLoginInv ==
  ASSUME WebInv, NEW left \in Accounts, CommandLineLogin(left)
  PROVE  WebInv'
<1>1. TfaInv' /\ WebTypeOK'
  BY ChannelUnchanged DEF WebInv, WebTypeOK, CommandLineLogin
<1>2. OneJobAtATime' /\ KindsFit' /\ CallbackIsTheLogins'
  BY DEF WebInv, OneJobAtATime, KindsFit, CallbackIsTheLogins, Holds, CommandLineLogin, tfaVars
<1>3. ViewsAreKept'
  BY DEF WebInv, ViewsAreKept, Checks, Renews, LogsIn, Holds, CommandLineLogin
<1>4. VerdictIsOwn' /\ LinesCount'
  BY DEF WebInv, VerdictIsOwn, LinesCount, LinesAreBounded, CommandLineLogin
<1>5. QED
  BY <1>1, <1>2, <1>3, <1>4 DEF WebInv

\* A login that is over shows that it is.
LEMMA LoginEndsInv ==
  ASSUME WebInv, NEW r \in Slots, NEW phase \in {"done", "failed"}, LoginEnds(r, phase)
  PROVE  WebInv'
<1> DEFINE state == "done"
<1>1. Holds(r) /\ state \in SlotStates \ {"idle", "asked"} /\ Goto(r, state)
  BY DEF LoginEnds, Holds, SlotStates, HandlerStates, ThreadStates, SigningIn
<1>2. /\ slot' \in [Slots -> [at : SlotStates, kind : Jobs, ok : BOOLEAN]]
      /\ slot'[r].at = state
      /\ slot'[r].kind = slot[r].kind
      /\ slot'[r].ok = slot[r].ok
      /\ \A q \in Slots \ {r} : slot'[q] = slot[q]
  BY <1>1, GotoUpdate DEF WebInv
<1>3. \A q \in Slots \ {r} : slot[q].at \in {"idle", "asked"}
  BY <1>1, Alone
<1>4. OneJobAtATime'
  BY <1>1, <1>2, JobGoesOn DEF LoginEnds
<1>5. TfaInv' /\ WebTypeOK'
  BY <1>2, ChannelUnchanged DEF WebInv, WebTypeOK, LoginEnds
<1>6. KindsFit' /\ CallbackIsTheLogins'
  BY <1>1, <1>2, <1>3
  DEF WebInv, KindsFit, CallbackIsTheLogins, LoginEnds, tfaVars, Holds, SigningIn
<1>7. ViewsAreKept'
  BY <1>1, <1>2, <1>3
  DEF WebInv, WebTypeOK, ViewsAreKept, LoginEnds, Checks, Renews, LogsIn, Holds, SigningIn, KindsFit
<1>8. VerdictIsOwn'
  BY <1>1, <1>2, <1>3 DEF WebInv, VerdictIsOwn, LoginEnds, SigningIn
<1>9. LinesCount'
  BY <1>1, <1>2, <1>3 DEF WebInv, LinesCount, LinesAreBounded, LoginEnds
<1>10. QED
  BY <1>4, <1>5, <1>6, <1>7, <1>8, <1>9 DEF WebInv

\* A panic leaves the views as they are, for ReportPanic.
LEMMA PanicsInv ==
  ASSUME WebInv, NEW r \in Slots, Panics(r)
  PROVE  WebInv'
<1> DEFINE state == "panicked"
<1>1. Holds(r) /\ state \in SlotStates \ {"idle", "asked"} /\ Goto(r, state)
  BY DEF Panics, Holds, SlotStates, HandlerStates, ThreadStates, MayPanic
<1>2. /\ slot' \in [Slots -> [at : SlotStates, kind : Jobs, ok : BOOLEAN]]
      /\ slot'[r].at = state
      /\ slot'[r].kind = slot[r].kind
      /\ slot'[r].ok = slot[r].ok
      /\ \A q \in Slots \ {r} : slot'[q] = slot[q]
  BY <1>1, GotoUpdate DEF WebInv
<1>3. \A q \in Slots \ {r} : slot[q].at \in {"idle", "asked"}
  BY <1>1, Alone
<1>4. OneJobAtATime'
  BY <1>1, <1>2, JobGoesOn DEF Panics
<1>5. TfaInv' /\ WebTypeOK'
  BY <1>2, ChannelUnchanged DEF WebInv, WebTypeOK, Panics
<1>6. KindsFit' /\ CallbackIsTheLogins'
  BY <1>1, <1>2, <1>3
  DEF WebInv, KindsFit, CallbackIsTheLogins, Panics, tfaVars, Holds, MayPanic
<1>7. ViewsAreKept'
  BY <1>1, <1>2, <1>3
  DEF WebInv, WebTypeOK, ViewsAreKept, Panics, Checks, Renews, LogsIn, Holds, MayPanic
<1>8. VerdictIsOwn'
  BY <1>1, <1>2, <1>3 DEF WebInv, VerdictIsOwn, Panics, MayPanic
<1>9. LinesCount'
  BY <1>1, <1>2, <1>3, MaxJobLinesAssumption DEF WebInv, LinesCount, LinesAreBounded, Panics, WebTypeOK
<1>10. QED
  BY <1>4, <1>5, <1>6, <1>7, <1>8, <1>9 DEF WebInv

\* After a panic no view is in progress.
LEMMA ReportPanicInv ==
  ASSUME WebInv, NEW r \in Slots, ReportPanic(r)
  PROVE  WebInv'
<1> DEFINE state == "done"
<1>1. Holds(r) /\ state \in SlotStates \ {"idle", "asked"} /\ Goto(r, state)
  BY DEF ReportPanic, Holds, SlotStates, HandlerStates, ThreadStates
<1>2. /\ slot' \in [Slots -> [at : SlotStates, kind : Jobs, ok : BOOLEAN]]
      /\ slot'[r].at = state
      /\ slot'[r].kind = slot[r].kind
      /\ slot'[r].ok = slot[r].ok
      /\ \A q \in Slots \ {r} : slot'[q] = slot[q]
  BY <1>1, GotoUpdate DEF WebInv
<1>3. \A q \in Slots \ {r} : slot[q].at \in {"idle", "asked"}
  BY <1>1, Alone
<1>4. OneJobAtATime'
  BY <1>1, <1>2, JobGoesOn DEF ReportPanic
<1>5. TfaInv' /\ WebTypeOK'
  <2>1. TfaInv'
    BY ChannelUnchanged DEF ReportPanic
  <2>2. snapshot' \in [checking : BOOLEAN, fresh : BOOLEAN]
    BY DEF WebInv, WebTypeOK, ReportPanic
  <2>3. job.lines + 1 \in Nat
    BY DEF WebInv, WebTypeOK
  <2>4. job' \in [running : BOOLEAN, ok : Verdicts, lines : Nat]
    BY <2>3 DEF ReportPanic, Verdicts
  <2>5. login' \in {"none", "working", "done", "failed"}
    BY DEF WebInv, WebTypeOK, ReportPanic
  <2>6. QED
    BY <1>2, <2>1, <2>2, <2>4, <2>5 DEF WebInv, WebTypeOK, ReportPanic
<1>6. KindsFit' /\ CallbackIsTheLogins'
  BY <1>1, <1>2, <1>3
  DEF WebInv, KindsFit, CallbackIsTheLogins, ReportPanic, tfaVars, Holds
<1>7. ViewsAreKept'
  BY <1>1, <1>2, <1>3
  DEF WebInv, WebTypeOK, ViewsAreKept, ReportPanic, Checks, Renews, LogsIn, Holds
<1>8. VerdictIsOwn'
  BY <1>1, <1>2, <1>3 DEF WebInv, VerdictIsOwn, ReportPanic
<1>9. LinesCount'
  BY <1>1, <1>2, <1>3, MaxJobLinesAssumption DEF WebInv, LinesCount, LinesAreBounded, ReportPanic, WebTypeOK
<1>10. QED
  BY <1>4, <1>5, <1>6, <1>7, <1>8, <1>9 DEF WebInv

\* The login's handler clears an error no callback is showing.
LEMMA ClearCodeErrorInv ==
  ASSUME WebInv, NEW r \in Slots, ClearCodeError(r)
  PROVE  WebInv'
<1> DEFINE state == "marked"
<1>1. Holds(r) /\ state \in SlotStates \ {"idle", "asked"} /\ Goto(r, state)
  BY DEF ClearCodeError, Holds, SlotStates, HandlerStates, ThreadStates
<1>2. /\ slot' \in [Slots -> [at : SlotStates, kind : Jobs, ok : BOOLEAN]]
      /\ slot'[r].at = state
      /\ slot'[r].kind = slot[r].kind
      /\ slot'[r].ok = slot[r].ok
      /\ \A q \in Slots \ {r} : slot'[q] = slot[q]
  BY <1>1, GotoUpdate DEF WebInv
<1>3. \A q \in Slots \ {r} : slot[q].at \in {"idle", "asked"}
  BY <1>1, Alone
<1>4. OneJobAtATime'
  BY <1>1, <1>2, JobGoesOn DEF ClearCodeError
<1>5. TfaInv' /\ WebTypeOK'
  <2>1. callback = "away"
    BY <1>3 DEF WebInv, CallbackIsTheLogins, ClearCodeError
  <2>2. TfaTypeOK'
    BY DEF WebInv, TfaInv, TfaTypeOK, CodeErrors, ClearCodeError
  <2>3. PromptHistory'
    BY DEF WebInv, TfaInv, PromptHistory, ClearCodeError
  <2>4. CallbackHistory'
    BY <2>1 DEF WebInv, TfaInv, CallbackHistory, ClearCodeError
  <2>5. QED
    BY <1>2, <2>2, <2>3, <2>4 DEF WebInv, TfaInv, WebTypeOK, ClearCodeError
<1>6. KindsFit' /\ CallbackIsTheLogins'
  BY <1>1, <1>2, <1>3
  DEF WebInv, KindsFit, CallbackIsTheLogins, ClearCodeError, tfaVars, Holds
<1>7. ViewsAreKept'
  BY <1>1, <1>2, <1>3
  DEF WebInv, WebTypeOK, ViewsAreKept, ClearCodeError, Checks, Renews, LogsIn, Holds, KindsFit
<1>8. VerdictIsOwn'
  BY <1>1, <1>2, <1>3 DEF WebInv, VerdictIsOwn, ClearCodeError, KindsFit
<1>9. LinesCount'
  BY <1>1, <1>2, <1>3 DEF WebInv, LinesCount, LinesAreBounded, ClearCodeError
<1>10. QED
  BY <1>4, <1>5, <1>6, <1>7, <1>8, <1>9 DEF WebInv

\* A line more on the page, or the oldest one dropped.
LEMMA PushedIsBounded ==
  ASSUME WebTypeOK, LinesAreBounded
  PROVE  /\ Pushed \in [running : BOOLEAN, ok : Verdicts, lines : Nat]
         /\ Pushed.running = job.running
         /\ Pushed.ok = job.ok
         /\ Pushed.lines <= MaxJobLines
  BY MaxJobLinesAssumption DEF WebTypeOK, Pushed

\* A line that a renewal writes stays under the bound: Pushed cuts it.
LEMMA RenewSaysInv ==
  ASSUME WebInv, NEW r \in Slots, RenewSays(r)
  PROVE  WebInv'
<1>1. /\ job' \in [running : BOOLEAN, ok : Verdicts, lines : Nat]
      /\ job'.running = job.running
      /\ job'.ok = job.ok
      /\ job'.lines <= MaxJobLines
  BY PushedIsBounded DEF WebInv, LinesCount, RenewSays
<1>2. \A q \in Slots : slot[q].at # "panicked"
  BY Alone DEF RenewSays, Holds
<1>3. TfaInv' /\ WebTypeOK'
  BY <1>1, ChannelUnchanged DEF WebInv, WebTypeOK, RenewSays
<1>4. OneJobAtATime' /\ KindsFit' /\ CallbackIsTheLogins'
  BY DEF WebInv, OneJobAtATime, KindsFit, CallbackIsTheLogins, Holds, RenewSays, tfaVars
<1>5. ViewsAreKept'
  BY <1>1 DEF WebInv, ViewsAreKept, Checks, Renews, LogsIn, Holds, RenewSays
<1>6. VerdictIsOwn'
  BY <1>1 DEF WebInv, VerdictIsOwn, RenewSays
<1>7. LinesCount'
  BY <1>1, <1>2, MaxJobLinesAssumption
  DEF WebInv, WebTypeOK, LinesCount, LinesAreBounded, RenewSays
<1>8. QED
  BY <1>3, <1>4, <1>5, <1>6, <1>7 DEF WebInv

\* cmd_renew returns: the slot remembers its result, the page nothing yet.
LEMMA RenewReturnsInv ==
  ASSUME WebInv, NEW r \in Slots, NEW ok \in BOOLEAN, RenewReturns(r, ok)
  PROVE  WebInv'
<1>1. /\ slot' \in [Slots -> [at : SlotStates, kind : Jobs, ok : BOOLEAN]]
      /\ slot'[r].at = "closing"
      /\ slot'[r].kind = slot[r].kind
      /\ \A q \in Slots \ {r} : slot'[q] = slot[q]
  BY DEF WebInv, WebTypeOK, RenewReturns, SlotStates, ThreadStates
<1>2. Holds(r) /\ slot[r].at = "working" /\ slot[r].kind = "renew"
  BY DEF RenewReturns, Holds
<1>3. \A q \in Slots \ {r} : slot[q].at \in {"idle", "asked"}
  BY <1>2, Alone
<1>4. /\ job' \in [running : BOOLEAN, ok : Verdicts, lines : Nat]
      /\ job'.running = job.running
      /\ job'.ok = job.ok
      /\ job'.lines <= MaxJobLines + faults
  BY PushedIsBounded, MaxJobLinesAssumption
  DEF WebInv, WebTypeOK, LinesCount, LinesAreBounded, RenewReturns
<1>5. OneJobAtATime'
  BY <1>1, <1>2, JobGoesOn DEF RenewReturns
<1>6. TfaInv' /\ WebTypeOK'
  BY <1>1, <1>4, ChannelUnchanged DEF WebInv, WebTypeOK, RenewReturns
<1>7. KindsFit' /\ CallbackIsTheLogins'
  BY <1>1, <1>2, <1>3
  DEF WebInv, KindsFit, CallbackIsTheLogins, RenewReturns, tfaVars, Holds
<1>8. ViewsAreKept'
  BY <1>1, <1>2, <1>3, <1>4
  DEF WebInv, ViewsAreKept, RenewReturns, Checks, Renews, LogsIn, Holds
<1>9. VerdictIsOwn'
  BY <1>1, <1>2, <1>3, <1>4 DEF WebInv, VerdictIsOwn, RenewReturns
<1>10. LinesCount'
  BY <1>1, <1>2, <1>3, <1>4 DEF WebInv, LinesCount, LinesAreBounded, RenewReturns
<1>11. QED
  BY <1>5, <1>6, <1>7, <1>8, <1>9, <1>10 DEF WebInv

\* A prompt opens on the login's own thread.
LEMMA LoginPromptsInv ==
  ASSUME WebInv, NEW r \in Slots, NEW err \in CodeErrors, LoginPrompts(r, err)
  PROVE  WebInv'
<1> DEFINE state == "prompting"
<1>1. Holds(r) /\ state \in SlotStates \ {"idle", "asked"} /\ Goto(r, state)
  BY DEF LoginPrompts, Holds, SlotStates, HandlerStates, ThreadStates, SigningIn
<1>2. /\ slot' \in [Slots -> [at : SlotStates, kind : Jobs, ok : BOOLEAN]]
      /\ slot'[r].at = state
      /\ slot'[r].kind = slot[r].kind
      /\ slot'[r].ok = slot[r].ok
      /\ \A q \in Slots \ {r} : slot'[q] = slot[q]
  BY <1>1, GotoUpdate DEF WebInv
<1>3. \A q \in Slots \ {r} : slot[q].at \in {"idle", "asked"}
  BY <1>1, Alone
<1>4. OneJobAtATime'
  BY <1>1, <1>2, JobGoesOn DEF LoginPrompts
<1>5. TfaInv' /\ WebTypeOK'
  BY <1>2, OpenPromptInv DEF WebInv, WebTypeOK, LoginPrompts
<1>6. KindsFit' /\ CallbackIsTheLogins'
  BY <1>1, <1>2, <1>3
  DEF WebInv, KindsFit, CallbackIsTheLogins, LoginPrompts, tfaVars, Holds, SigningIn, OpenPrompt
<1>7. ViewsAreKept'
  BY <1>1, <1>2, <1>3
  DEF WebInv, WebTypeOK, ViewsAreKept, LoginPrompts, Checks, Renews, LogsIn, Holds, SigningIn
<1>8. VerdictIsOwn'
  BY <1>1, <1>2, <1>3 DEF WebInv, VerdictIsOwn, LoginPrompts, SigningIn
<1>9. LinesCount'
  BY <1>1, <1>2, <1>3 DEF WebInv, LinesCount, LinesAreBounded, LoginPrompts
<1>10. QED
  BY <1>4, <1>5, <1>6, <1>7, <1>8, <1>9 DEF WebInv

\* The callback runs on, and then the login.
LEMMA LoginAwaitsCodeInv ==
  ASSUME WebInv, NEW r \in Slots, LoginAwaitsCode(r)
  PROVE  WebInv'
<1> DEFINE state == IF callback' # "away" THEN "prompting" ELSE AfterAnswer[got[prompt]]
<1>0. /\ state \in {"prompting", "coded", "working", "refused"}
      /\ state = "prompting" <=> callback' # "away"
      /\ slot[r].kind = "login" /\ slot[r].at = "prompting"
  <2>1. got[prompt] \in Results
    BY MaxPromptsAssumption
    DEF LoginAwaitsCode, WebInv, TfaInv, TfaTypeOK, CallbackIsTheLogins,
        CallbackHistory, Prompts, NoPrompt
  <2>2. AfterAnswer[got[prompt]] \in {"coded", "working", "refused"}
    BY <2>1 DEF AfterAnswer, Results, Answers
  <2>3. slot[r].kind = "login" /\ slot[r].at = "prompting"
    BY DEF LoginAwaitsCode, WebInv, KindsFit
  <2>4. QED
    BY <2>2, <2>3
<1>1. Holds(r) /\ state \in SlotStates \ {"idle", "asked"} /\ Goto(r, state)
  BY <1>0 DEF LoginAwaitsCode, Holds, SlotStates, ThreadStates
<1>2. /\ slot' \in [Slots -> [at : SlotStates, kind : Jobs, ok : BOOLEAN]]
      /\ slot'[r].at = state
      /\ slot'[r].kind = slot[r].kind
      /\ slot'[r].ok = slot[r].ok
      /\ \A q \in Slots \ {r} : slot'[q] = slot[q]
  BY <1>1, GotoUpdate DEF WebInv
<1>3. \A q \in Slots \ {r} : slot[q].at \in {"idle", "asked"}
  BY <1>1, Alone
<1>4. OneJobAtATime'
  BY <1>1, <1>2, JobGoesOn DEF LoginAwaitsCode
<1>5. TfaInv' /\ WebTypeOK'
  <2>1. TfaInv'
    BY TfaStepInv DEF WebInv, LoginAwaitsCode, TfaNext
  <2>2. WebTypeOK'
    BY <1>2 DEF WebInv, WebTypeOK, LoginAwaitsCode
  <2>3. QED
    BY <2>1, <2>2
<1>6. KindsFit' /\ CallbackIsTheLogins'
  BY <1>1, <1>2, <1>3, <1>0
  DEF WebInv, KindsFit, CallbackIsTheLogins, LoginAwaitsCode, tfaVars, Holds
<1>7. ViewsAreKept'
  BY <1>1, <1>2, <1>3, <1>0
  DEF WebInv, WebTypeOK, ViewsAreKept, LoginAwaitsCode, Checks, Renews, LogsIn, Holds
<1>8. VerdictIsOwn'
  BY <1>1, <1>2, <1>3, <1>0 DEF WebInv, VerdictIsOwn, LoginAwaitsCode
<1>9. LinesCount'
  BY <1>1, <1>2, <1>3, <1>0 DEF WebInv, LinesCount, LinesAreBounded, LoginAwaitsCode
<1>10. QED
  BY <1>4, <1>5, <1>6, <1>7, <1>8, <1>9 DEF WebInv

-----------------------------------------------------------------------------
(* The end of a job, and the steps of no job                               *)

\* Without a thread the guard is over and the view is an orphan.
LEMMA SpawnFailsInv ==
  ASSUME WebInv, NEW r \in Slots, SpawnFails(r)
  PROVE  WebInv'
<1>1. /\ slot' \in [Slots -> [at : SlotStates, kind : Jobs, ok : BOOLEAN]]
      /\ slot'[r] = IdleSlot
      /\ \A q \in Slots \ {r} : slot'[q] = slot[q]
  BY DEF WebInv, WebTypeOK, SpawnFails, SlotStates, IdleSlot, Jobs
<1>2. Holds(r) /\ slot[r].at = "marked" /\ slot'[r].at = "idle" /\ slot[r].kind \in Jobs
  BY <1>1 DEF SpawnFails, Holds, IdleSlot, WebInv, WebTypeOK
<1>3. \A q \in Slots \ {r} : slot[q].at \in {"idle", "asked"}
  BY <1>2, Alone
<1>4. OneJobAtATime' /\ \A q \in Slots : slot'[q].at \in {"idle", "asked"}
  BY <1>1, <1>2, JobIsOver DEF SpawnFails
<1>5. TfaInv' /\ WebTypeOK'
  <2>1. orphans' \subseteq Jobs /\ faults' \in Nat
    BY <1>2 DEF WebInv, WebTypeOK, SpawnFails
  <2>2. TfaInv'
    BY ChannelUnchanged DEF SpawnFails
  <2>3. QED
    BY <1>1, <2>1, <2>2 DEF WebInv, WebTypeOK, SpawnFails
<1>6. KindsFit' /\ CallbackIsTheLogins'
  BY <1>2, <1>3, <1>4 DEF WebInv, KindsFit, CallbackIsTheLogins, SpawnFails, tfaVars, Holds
<1>7. ViewsAreKept'
  BY <1>2, <1>3
  DEF WebInv, ViewsAreKept, SpawnFails, Checks, Renews, LogsIn, Holds
<1>8. VerdictIsOwn'
  BY <1>2, <1>3, <1>4 DEF WebInv, VerdictIsOwn, SpawnFails
<1>9. LinesCount'
  BY <1>4, MaxJobLinesAssumption
  DEF WebInv, WebTypeOK, LinesCount, LinesAreBounded, SpawnFails
<1>10. QED
  BY <1>4, <1>5, <1>6, <1>7, <1>8, <1>9 DEF WebInv

\* A job that is done left nothing in progress.
LEMMA ReleaseInv ==
  ASSUME WebInv, NEW r \in Slots, Release(r)
  PROVE  WebInv'
<1>1. /\ slot' \in [Slots -> [at : SlotStates, kind : Jobs, ok : BOOLEAN]]
      /\ slot'[r] = IdleSlot
      /\ \A q \in Slots \ {r} : slot'[q] = slot[q]
  BY DEF WebInv, WebTypeOK, Release, SlotStates, IdleSlot, Jobs
<1>2. Holds(r) /\ slot[r].at = "done" /\ slot'[r].at = "idle"
  BY <1>1 DEF Release, Holds, IdleSlot
<1>3. \A q \in Slots \ {r} : slot[q].at \in {"idle", "asked"}
  BY <1>2, Alone
<1>4. OneJobAtATime' /\ \A q \in Slots : slot'[q].at \in {"idle", "asked"}
  BY <1>1, <1>2, JobIsOver DEF Release
<1>5. TfaInv' /\ WebTypeOK'
  BY <1>1, ChannelUnchanged DEF WebInv, WebTypeOK, Release
<1>6. KindsFit' /\ CallbackIsTheLogins'
  BY <1>2, <1>3, <1>4 DEF WebInv, KindsFit, CallbackIsTheLogins, Release, tfaVars, Holds
<1>7. ViewsAreKept'
  BY <1>2, <1>3 DEF WebInv, ViewsAreKept, Release, Checks, Renews, LogsIn, Holds
<1>8. VerdictIsOwn'
  BY <1>2, <1>3, <1>4 DEF WebInv, VerdictIsOwn, Release
<1>9. LinesCount'
  BY <1>4 DEF WebInv, LinesCount, LinesAreBounded, Release
<1>10. QED
  BY <1>4, <1>5, <1>6, <1>7, <1>8, <1>9 DEF WebInv

\* Only the age of the data changes.
LEMMA DataAgeInv ==
  ASSUME WebInv, DataAge
  PROVE  WebInv'
<1>1. /\ snapshot' \in [checking : BOOLEAN, fresh : BOOLEAN]
      /\ snapshot'.checking = snapshot.checking
  BY DEF WebInv, WebTypeOK, DataAge
<1>2. TfaInv' /\ WebTypeOK'
  BY <1>1, ChannelUnchanged DEF WebInv, WebTypeOK, DataAge
<1>3. OneJobAtATime' /\ KindsFit' /\ CallbackIsTheLogins'
  BY DEF WebInv, OneJobAtATime, KindsFit, CallbackIsTheLogins, Holds, DataAge, tfaVars
<1>4. ViewsAreKept'
  BY <1>1 DEF WebInv, ViewsAreKept, Checks, Renews, LogsIn, Holds, DataAge
<1>5. VerdictIsOwn' /\ LinesCount'
  BY DEF WebInv, VerdictIsOwn, LinesCount, LinesAreBounded, DataAge
<1>6. QED
  BY <1>2, <1>3, <1>4, <1>5 DEF WebInv

\* What a job's step leaves alone it leaves alone in WebInv, too.
LEMMA JobsUnchanged ==
  ASSUME WebInv, UNCHANGED webVars, TfaInv', callback' = callback
  PROVE  WebInv'
<1> USE DEF WebInv, webVars
<1>1. WebTypeOK'
  BY DEF WebTypeOK
<1>2. OneJobAtATime' /\ KindsFit' /\ CallbackIsTheLogins'
  BY DEF OneJobAtATime, KindsFit, CallbackIsTheLogins, Holds
<1>3. ViewsAreKept'
  BY DEF ViewsAreKept, Checks, Renews, LogsIn, Holds
<1>4. VerdictIsOwn' /\ LinesCount'
  BY DEF VerdictIsOwn, LinesCount, LinesAreBounded
<1>5. QED
  BY <1>1, <1>2, <1>3, <1>4

\* The code's requests touch the channel only, and not the callback.
LEMMA CodeRequestInv ==
  ASSUME WebInv, CodeRequest
  PROVE  WebInv'
<1>1. TfaInv'
  BY TfaStepInv DEF WebInv, CodeRequest, TfaNext
<1>2. callback' = callback
  BY DEF CodeRequest, PosterStep, TakeSender, SendAnswer
<1>3. QED
  BY <1>1, <1>2, JobsUnchanged DEF CodeRequest

\* Every step of the page, of its jobs and of the channel keeps WebInv.
LEMMA WebStepInv == WebInv /\ [Next]_vars => WebInv'
<1> SUFFICES ASSUME WebInv, [Next]_vars PROVE WebInv'
  OBVIOUS
<1>1. CASE UNCHANGED vars
  BY <1>1, ChannelUnchanged, JobsUnchanged DEF vars, tfaVars
<1>2. CASE DataAge
  BY <1>2, DataAgeInv
<1>3. CASE CodeRequest
  BY <1>3, CodeRequestInv
<1>4. ASSUME NEW left \in Accounts, CommandLineLogin(left) PROVE WebInv'
  BY <1>4, CommandLineLoginInv
<1>5. CASE Next /\ ~DataAge /\ ~CodeRequest
            /\ ~\E left \in Accounts : CommandLineLogin(left)
  BY <1>5, RequestInv, TryBusyInv, MarkViewInv, ClearCodeErrorInv, SpawnInv,
     SpawnFailsInv, CheckBeginsInv, CheckEndsInv, RenewSaysInv, RenewReturnsInv,
     RenewClosesInv, RenewLogsInv, LoginPromptsInv, LoginAwaitsCodeInv,
     LoginSavesInv, LoginSaveFailsInv, LoginEndsInv, PanicsInv, ReportPanicInv,
     ReleaseInv
  DEF Next, Accounts
<1>6. QED
  BY <1>1, <1>2, <1>3, <1>4, <1>5

\* The inductive invariant holds in every behaviour.
THEOREM WebInvHolds == SafeSpec => []WebInv
<1>1. QED
  BY WebInitInv, WebStepInv, PTL DEF SafeSpec

\* The state of the web interface, the channel's included, stays well formed.
THEOREM TypeCorrect == SafeSpec => []TypeOK
<1>1. WebInv => TypeOK
  BY DEF WebInv, TfaInv, TypeOK
<1>2. QED
  BY <1>1, WebInvHolds, PTL

\* However many requests arrive, `busy` is the mutual exclusion of the jobs, and
\* every job, panics and refused threads included, gives it back.
THEOREM OneJobAtATimeHolds == SafeSpec => []OneJobAtATime
<1>1. WebInv => OneJobAtATime
  BY DEF WebInv
<1>2. QED
  BY <1>1, WebInvHolds, PTL

\* The page never shows in progress what no job is doing, but for the job whose
\* thread the system refused.
THEOREM ProgressIsRealHolds == SafeSpec => []ProgressIsReal
<1>1. WebInv => ProgressIsReal
  <2> SUFFICES ASSUME WebInv PROVE ProgressIsReal
    OBVIOUS
  <2>1. ASSUME NEW r \in Slots, Checks(r) PROVE Doing("check") \/ Doing("renew")
    BY <2>1 DEF WebInv, WebTypeOK, Checks, Doing
  <2>2. ASSUME NEW r \in Slots, Renews(r) PROVE Doing("renew")
    BY <2>2 DEF WebInv, WebTypeOK, Renews, Doing
  <2>3. ASSUME NEW r \in Slots, LogsIn(r) PROVE Doing("login")
    BY <2>3 DEF WebInv, WebTypeOK, LogsIn, Doing
  <2>4. QED
    BY <2>1, <2>2, <2>3 DEF WebInv, ViewsAreKept, ProgressIsReal
<1>2. QED
  BY <1>1, WebInvHolds, PTL

\* The page never shows in progress what nobody does: with the guard gone
\* nothing runs (web.rs:106), unless the system refused a thread.
THEOREM GuardGoneOrRefusedHolds == SafeSpec => [](orphans = {} => GuardGoneMeansFinished)
<1>1. ProgressIsReal /\ OneJobAtATime => (orphans = {} => GuardGoneMeansFinished)
  BY DEF ProgressIsReal, OneJobAtATime, Doing, GuardGoneMeansFinished
<1>2. QED
  BY <1>1, ProgressIsRealHolds, OneJobAtATimeHolds, PTL

\* The field for the code is shown only within a login in progress.
THEOREM NeedsCodeOnlyInLoginHolds == SafeSpec => []NeedsCodeOnlyInLogin
<1>1. WebInv => NeedsCodeOnlyInLogin
  <2> SUFFICES ASSUME WebInv, asking PROVE NeedsCodeOnlyInLogin
    BY DEF NeedsCodeOnlyInLogin
  <2>1. callback # "away"
    BY DEF WebInv, TfaInv, CallbackHistory
  <2>2. PICK r \in Slots : slot[r].at = "prompting"
    BY <2>1 DEF WebInv, CallbackIsTheLogins
  <2>3. slot[r].kind = "login" /\ Holds(r)
    BY <2>2 DEF WebInv, KindsFit, Holds
  <2>4. login = "working"
    BY <2>2, <2>3 DEF WebInv, CallbackIsTheLogins
  <2>5. QED
    BY <2>2, <2>4 DEF NeedsCodeOnlyInLogin
<1>2. QED
  BY <1>1, WebInvHolds, PTL

\* No other login's handler clears or replaces the error beside the field.
THEOREM PageShowsPromptErrorHolds == SafeSpec => []PageShowsPromptError
<1>1. WebInv => PageShowsPromptError
  BY DEF WebInv, TfaInv, CallbackHistory, PageShowsPromptError, AskingShowsItsReason
<1>2. QED
  BY <1>1, WebInvHolds, PTL

\* Once nothing runs, the success on the page is the last block of renew.log,
\* unless that block could not be written.
THEOREM SuccessIsLoggedHolds == SafeSpec => []SuccessIsLogged
<1>1. WebInv => SuccessIsLogged
  BY DEF WebInv, VerdictIsOwn, OneJobAtATime, Holds, SuccessIsLogged
<1>2. QED
  BY <1>1, WebInvHolds, PTL

\* The lines kept of a renewal stay bounded, whatever the renewal says.
THEOREM LinesAreBoundedHolds == SafeSpec => []LinesAreBounded
<1>1. WebInv => LinesAreBounded
  BY DEF WebInv, LinesCount
<1>2. QED
  BY <1>1, WebInvHolds, PTL

-----------------------------------------------------------------------------
(* What no step does                                                       *)

\* The page's requests and jobs change the account in a login only, and never
\* under a renewal of the page; any other change is a terminal's login.
THEOREM OnlyLoginsChangeTheAccountHolds == SafeSpec => OnlyLoginsChangeTheAccount
<1>1. ASSUME WebInv, [Next]_vars, account' # account
      PROVE  \/ ~Doing("renew") /\ Doing("login")
             \/ \E left \in Accounts : CommandLineLogin(left)
  <2>1. \/ \E r \in Slots, saved \in Accounts : LoginSaves(r, saved)
        \/ \E r \in Slots, left \in Accounts : LoginSaveFails(r, left)
        \/ \E left \in Accounts : CommandLineLogin(left)
    BY <1>1 DEF Next, vars, webVars, Request, TryBusy, MarkView, ClearCodeError,
       Spawn, SpawnFails, CheckBegins, CheckEnds, RenewSays, RenewReturns,
       RenewCloses, RenewLogs, LoginPrompts, LoginAwaitsCode, LoginEnds, Panics,
       ReportPanic, Release, DataAge, CodeRequest, Accounts
  <2>2. ASSUME NEW r \in Slots, SigningIn(r) PROVE ~Doing("renew") /\ Doing("login")
    <3>1. slot[r].kind = "login" /\ Holds(r) /\ slot[r].kind \in Jobs
      BY <1>1, <2>2 DEF SigningIn, Holds, WebInv, WebTypeOK
    <3>2. \A q \in Slots : Holds(q) => q = r
      BY <1>1, <3>1 DEF WebInv, OneJobAtATime
    <3>3. QED
      BY <3>1, <3>2 DEF Doing
  <2>3. QED
    BY <2>1, <2>2 DEF LoginSaves, LoginSaveFails
<1>2. QED
  BY <1>1, WebInvHolds, PTL DEF SafeSpec, OnlyLoginsChangeTheAccount

\* A check or a login that ends does not touch the renewal's verdict.
THEOREM VerdictIsKeptHolds == SafeSpec => VerdictIsKept
<1>1. ASSUME WebInv, [Next]_vars, job.ok # "none", job'.ok # job.ok
      PROVE  \E r \in Slots : \/ slot[r].kind = "renew" /\ slot[r].at = "granted"
                              \/ slot[r].at = "panicked"
  <2>1. PICK r \in Slots :
          \/ MarkView(r) \/ RenewSays(r) \/ RenewCloses(r) \/ ReportPanic(r)
          \/ \E ok \in BOOLEAN : RenewReturns(r, ok)
    BY <1>1 DEF Next, vars, webVars, Request, TryBusy, ClearCodeError,
       Spawn, SpawnFails, CheckBegins, CheckEnds, RenewLogs, LoginPrompts,
       LoginAwaitsCode, LoginSaves, LoginSaveFails, LoginEnds, Panics, Release,
       DataAge, CodeRequest, CommandLineLogin
  <2>2. Pushed.ok = job.ok
    BY <1>1, PushedIsBounded DEF WebInv, LinesCount
  <2>3. ~RenewSays(r) /\ ~\E ok \in BOOLEAN : RenewReturns(r, ok)
    BY <1>1, <2>2 DEF RenewSays, RenewReturns
  <2>4. ~RenewCloses(r)
    BY <1>1 DEF RenewCloses, WebInv, KindsFit, VerdictIsOwn
  <2>5. CASE MarkView(r)
    BY <1>1, <2>5 DEF MarkView, WebInv, WebTypeOK
  <2>6. CASE ReportPanic(r)
    BY <2>6 DEF ReportPanic
  <2>7. QED
    BY <2>1, <2>3, <2>4, <2>5, <2>6
<1>2. QED
  BY <1>1, WebInvHolds, PTL DEF SafeSpec, VerdictIsKept

-----------------------------------------------------------------------------
(* The jobs implement the abstract lock                                    *)

\* The abstract holder is the one slot that has the guard.
LEMMA HolderIsTheJob ==
  ASSUME OneJobAtATime, NEW r \in Slots, Holds(r)
  PROVE  Holder = r
  BY DEF OneJobAtATime, Holder

\* When no slot has the guard the abstract lock is free.
LEMMA NobodyHolds ==
  ASSUME \A r \in Slots : ~Holds(r)
  PROVE  Holder = Nobody
  BY DEF Holder

\* The slots' guards change only in TryBusy, SpawnFails and Release.
LEMMA GuardChanges ==
  ASSUME WebInv, [Next]_vars
  PROVE  \/ \A q \in Slots : Holds(q)' <=> Holds(q)
         \/ \E r \in Slots : TryBusy(r) /\ ~busy
         \/ \E r \in Slots : SpawnFails(r) \/ Release(r)
<1>1. CASE UNCHANGED slot
  BY <1>1 DEF Holds
<1>2. ASSUME NEW r \in Slots, NEW state \in SlotStates \ {"idle", "asked"},
             Holds(r), Goto(r, state)
      PROVE  \A q \in Slots : Holds(q)' <=> Holds(q)
  BY <1>2, GotoUpdate DEF Holds, WebInv
<1>3. ASSUME NEW r \in Slots, NEW request \in Requests, Request(r, request)
      PROVE  \A q \in Slots : Holds(q)' <=> Holds(q)
  BY <1>3 DEF Request, Holds, WebInv, WebTypeOK
<1>4. ASSUME NEW r \in Slots, TryBusy(r), busy
      PROVE  \A q \in Slots : Holds(q)' <=> Holds(q)
  BY <1>4 DEF TryBusy, IdleSlot, Holds, WebInv, WebTypeOK
<1>5. ASSUME NEW r \in Slots, NEW ok \in BOOLEAN, RenewReturns(r, ok)
      PROVE  \A q \in Slots : Holds(q)' <=> Holds(q)
  BY <1>5 DEF RenewReturns, Holds, WebInv, WebTypeOK
<1>6. ASSUME NEW r \in Slots,
             \/ MarkView(r) \/ ClearCodeError(r) \/ Spawn(r) \/ CheckBegins(r)
             \/ CheckEnds(r) \/ RenewCloses(r) \/ LoginAwaitsCode(r)
             \/ Panics(r) \/ ReportPanic(r)
             \/ \E written \in BOOLEAN : RenewLogs(r, written)
             \/ \E err \in CodeErrors : LoginPrompts(r, err)
             \/ \E saved \in Accounts : LoginSaves(r, saved)
             \/ \E left \in Accounts : LoginSaveFails(r, left)
             \/ \E phase \in {"done", "failed"} : LoginEnds(r, phase)
      PROVE  \A q \in Slots : Holds(q)' <=> Holds(q)
  <2>1. Holds(r)
    BY <1>6 DEF MarkView, ClearCodeError, Spawn, CheckBegins, CheckEnds, RenewCloses,
       RenewLogs, LoginAwaitsCode, Panics, ReportPanic, LoginPrompts, LoginSaves,
       LoginSaveFails, LoginEnds, SigningIn, MayPanic, Holds
  <2>2. PICK state \in SlotStates \ {"idle", "asked"} : Goto(r, state)
    <3>1. CASE LoginAwaitsCode(r)
      <4>1. got[prompt] \in Results
        BY <3>1, MaxPromptsAssumption
        DEF LoginAwaitsCode, WebInv, TfaInv, TfaTypeOK, CallbackIsTheLogins,
            CallbackHistory, Prompts, NoPrompt
      <4>2. AfterAnswer[got[prompt]] \in SlotStates \ {"idle", "asked"}
        BY <4>1 DEF AfterAnswer, Results, Answers, SlotStates, ThreadStates
      <4>3. QED
        BY <3>1, <4>2 DEF LoginAwaitsCode, SlotStates, ThreadStates
    <3>2. CASE ~LoginAwaitsCode(r)
      BY <1>6, <3>2 DEF MarkView, ClearCodeError, Spawn, CheckBegins, CheckEnds,
         RenewCloses, RenewLogs, Panics, ReportPanic, LoginPrompts, LoginSaves,
         LoginSaveFails, LoginEnds, SlotStates, HandlerStates, ThreadStates
    <3>3. QED
      BY <3>1, <3>2
  <2>3. QED
    BY <1>2, <2>1, <2>2
<1>7. QED
  BY <1>1, <1>3, <1>4, <1>5, <1>6
  DEF Next, RenewSays, DataAge, CodeRequest, CommandLineLogin, vars, webVars

\* Whatever the requests do, `busy` is the abstract lock: taken when free, given
\* back by the job that took it, never handed from one job to another.
THEOREM ImplementsWorkLockHolds == SafeSpec => ImplementsWorkLock
<1>1. Init => JobLock!Init
  BY NobodyHolds DEF Init, IdleSlot, Holds, JobLock!Init
<1>2. WebInv /\ WebInv' /\ [Next]_vars => [JobLock!Next]_Holder
  <2> SUFFICES ASSUME WebInv, WebInv', [Next]_vars
               PROVE  JobLock!Next \/ Holder' = Holder
    OBVIOUS
  <2>1. CASE \A q \in Slots : Holds(q)' <=> Holds(q)
    BY <2>1 DEF Holder
  <2>2. ASSUME NEW r \in Slots, TryBusy(r), ~busy PROVE JobLock!Acquire(r)
    <3>1. Holder = Nobody
      BY <2>2, NobodyHolds DEF WebInv, OneJobAtATime
    <3>2. Holds(r)'
      BY <2>2 DEF TryBusy, Goto, Holds, WebInv, WebTypeOK
    <3>3. Holder' = r
      BY <3>2 DEF WebInv, OneJobAtATime, Holder
    <3>4. QED
      BY <3>1, <3>3 DEF JobLock!Acquire
  <2>3. ASSUME NEW r \in Slots, SpawnFails(r) \/ Release(r) PROVE JobLock!Release(r)
    <3>1. Holds(r)
      BY <2>3 DEF SpawnFails, Release, Holds
    <3>2. Holder = r
      BY <3>1, HolderIsTheJob DEF WebInv
    <3>3. busy' = FALSE
      BY <2>3 DEF SpawnFails, Release
    <3>4. \A q \in Slots : ~Holds(q)'
      BY <3>3 DEF WebInv, OneJobAtATime
    <3>5. Holder' = Nobody
      BY <3>4 DEF Holder
    <3>6. QED
      BY <3>2, <3>5 DEF JobLock!Release
  <2>4. QED
    BY <2>1, <2>2, <2>3, GuardChanges DEF JobLock!Next
<1>3. QED
  BY <1>1, <1>2, WebInvHolds, PTL DEF SafeSpec, ImplementsWorkLock, JobLock!Spec

=============================================================================
