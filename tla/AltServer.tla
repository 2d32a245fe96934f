------------------------------ MODULE AltServer ------------------------------
(***************************************************************************)
(* The AltServer that AltStore talks to over the network                   *)
(* (src/src/altserver.rs): one thread per connection reads a frame, does   *)
(* what it asks and answers, and all of them share WORK, the lock of the   *)
(* phone, and ANISETTE_CACHE, the lock and the memory of Apple's data.     *)
(*                                                                         *)
(* What the client sends is chosen by the environment when the server      *)
(* reads it: any frame, in any order, the bytes of an app where a frame is *)
(* due included.  The phone is what the operations leave on it: profiles,  *)
(* of which a bundle may have several, and apps.  The page's renewals,     *)
(* cron's and the command line change its profiles too, in other threads   *)
(* and processes, and without WORK.                                        *)
(***************************************************************************)
EXTENDS Naturals, Sequences, FiniteSets

CONSTANTS
  Conns,       \* the connections that may be open at the same time
  Bundles,     \* the bundle identifiers of the apps
  Nobody       \* the holder of a lock that is free

ASSUME NobodyIsNoConnection == Nobody \notin Conns

\* A provisioning profile: its bundle and which of the bundle's it is.
Profiles == Bundles \X {"older", "newer"}
ProfilesOf(bundles) == {p \in Profiles : p[1] \in bundles}

\* The requests that need the phone, and what each asks for.
PhoneRequests ==
       [kind : {"installProfiles"}, profiles : SUBSET Profiles \ {{}}]
  \union [kind : {"removeProfiles"}, profiles : {ProfilesOf(bs) : bs \in SUBSET Bundles \ {{}}}]
  \union [kind : {"removeApp", "installApp"}, profiles : {{}}]
NoRequest == [kind |-> "none", profiles |-> {}]

\* What is answered: "done" stands for the reply of the request's own kind
\* (and for progress 1.0), the rest for ErrorResponse and its code.
Errors == {"deviceNotFound", "invalidRequest", "invalidApp", "installationFailed",
           "unsupportedOS", "unknownRequest", "invalidAnisette", "appDeletionFailed"}
Replies == {"none", "done"} \union Errors

\* Mutation: an ErrorResponse without one of the codes AltStore knows.
ImmediateOfNoKind ==
  [unknown |-> "unsupportedRequest", malformed |-> "invalidRequest", jit |-> "unsupportedOS",
   badSize |-> "invalidRequest", noProfiles |-> "done"]

\* Frames that are answered without waiting for anything: requests of no known
\* kind, malformed ones, JIT, and those that name no profile at all.
Immediate ==
  [unknown |-> "unknownRequest", malformed |-> "invalidRequest", jit |-> "unsupportedOS",
   badSize |-> "invalidRequest", noProfiles |-> "done"]

WaitsForClient == {"closed", "reading", "app", "begin", "replying", "parting"}
\* Connecting; waiting for the list of profiles; for an operation of the phone;
\* for the client to take a report of progress.
OnThePhone == {"linking", "listing", "using", "notifying"}
ConnStates ==
  WaitsForClient \union OnThePhone \union {"queued", "anisette", "generating", "wantsPhone"}

VARIABLES
  pc,        \* where each connection stands
  request,   \* the request each one serves
  reply,     \* the reply each one is about to send
  todo,      \* the profiles it has still to install or to remove
  shown,     \* the last progress its client was sent, in hundredths
  work,      \* WORK: the connection that holds it, or Nobody
  cache,     \* ANISETTE_CACHE: empty, fresh (under 20 seconds) or stale
  keeper,    \* the connection that holds the cache's lock, or Nobody
  queue,     \* those that wait for it: a tokio Mutex is first come, first served
  profiles,  \* on the phone
  installed, \* history: whether the app of this request is on the phone
  refused,   \* history: profiles that the phone refused to remove
  others     \* history: profiles that others changed while it was on the phone

connVars == <<pc, request, reply, todo, shown, installed, refused, others>>
phoneVars == <<work, profiles>>
anisetteVars == <<cache, keeper, queue>>
vars == <<connVars, phoneVars, anisetteVars>>

Init ==
  /\ pc = [c \in Conns |-> "closed"]
  /\ request = [c \in Conns |-> NoRequest]
  /\ reply = [c \in Conns |-> "none"]
  /\ todo = [c \in Conns |-> {}]
  /\ shown = [c \in Conns |-> 0]
  /\ work = Nobody
  /\ cache = "empty"
  /\ keeper = Nobody
  /\ queue = <<>>
  /\ profiles \in SUBSET Profiles
  /\ installed = [c \in Conns |-> FALSE]
  /\ refused = [c \in Conns |-> {}]
  /\ others = [c \in Conns |-> {}]

Goto(c, state) == pc' = [pc EXCEPT ![c] = state]

\* The reply is ready; the request's own data are no longer needed.
Answer(c, r) ==
  /\ Goto(c, "replying")
  /\ reply' = [reply EXCEPT ![c] = r]
  /\ todo' = [todo EXCEPT ![c] = {}]

-----------------------------------------------------------------------------
(* The connection: handle_connection, read_frame, send                     *)

Connect(c) ==
  /\ pc[c] = "closed"
  /\ Goto(c, "reading")
  /\ UNCHANGED <<request, reply, todo, shown, installed, refused, others, phoneVars, anisetteVars>>

Forget(c) ==
  /\ request' = [request EXCEPT ![c] = NoRequest]
  /\ reply' = [reply EXCEPT ![c] = "none"]
  /\ todo' = [todo EXCEPT ![c] = {}]
  /\ shown' = [shown EXCEPT ![c] = 0]
  /\ installed' = [installed EXCEPT ![c] = FALSE]
  /\ refused' = [refused EXCEPT ![c] = {}]
  /\ others' = [others EXCEPT ![c] = {}]

\* The client closed, said nothing for 120 seconds, or what it sent has no
\* valid length: the first bytes of an app (a zip's, read as a length, are
\* beyond MAX_JSON) where a frame was due.
ReadEnds(c) ==
  /\ pc[c] = "reading"
  /\ Goto(c, "closed")
  /\ Forget(c)
  /\ UNCHANGED <<phoneVars, anisetteVars>>

\* A frame that is not JSON is answered, and the connection is over.
ReadBadJson(c) ==
  /\ pc[c] = "reading"
  /\ Goto(c, "parting")
  /\ reply' = [reply EXCEPT ![c] = "invalidRequest"]
  /\ UNCHANGED <<request, todo, shown, installed, refused, others, phoneVars, anisetteVars>>

ReadImmediate(c, frame) ==
  /\ pc[c] = "reading"
  /\ Answer(c, Immediate[frame])
  /\ UNCHANGED <<request, shown, installed, refused, others, phoneVars, anisetteVars>>

ReadAnisetteRequest(c) ==
  /\ pc[c] = "reading"
  /\ Goto(c, "queued")
  /\ queue' = Append(queue, c)
  /\ UNCHANGED <<request, reply, todo, shown, installed, refused, others, phoneVars, cache, keeper>>

ReadPhoneRequest(c, req) ==
  /\ pc[c] = "reading"
  /\ req.kind # "installApp"
  /\ Goto(c, "wantsPhone")
  /\ request' = [request EXCEPT ![c] = req]
  /\ UNCHANGED <<reply, todo, shown, installed, refused, others, phoneVars, anisetteVars>>

\* Mutation: WORK is taken when the installation is announced.
ReadPrepareAndTakePhone(c) ==
  /\ pc[c] = "reading"
  /\ work = Nobody
  /\ work' = c
  /\ Goto(c, "app")
  /\ request' = [request EXCEPT ![c] = [kind |-> "installApp", profiles |-> {}]]
  /\ UNCHANGED <<reply, todo, shown, installed, refused, others, profiles, anisetteVars>>

\* PrepareAppRequest with a size the server accepts: the app's bytes follow.
ReadPrepare(c) ==
  /\ pc[c] = "reading"
  /\ Goto(c, "app")
  /\ request' = [request EXCEPT ![c] = [kind |-> "installApp", profiles |-> {}]]
  /\ UNCHANGED <<reply, todo, shown, installed, refused, others, phoneVars, anisetteVars>>

ReadApp(c) ==
  /\ pc[c] = "app"
  /\ Goto(c, "begin")
  /\ UNCHANGED <<request, reply, todo, shown, installed, refused, others, phoneVars, anisetteVars>>

\* The frame after the app must be BeginInstallationRequest.
ReadBegin(c) ==
  /\ pc[c] = "begin"
  /\ Goto(c, "wantsPhone")
  /\ UNCHANGED <<request, reply, todo, shown, installed, refused, others, phoneVars, anisetteVars>>

\* The app does not come whole in 600 seconds, no frame follows it, another
\* one does, or the file is not a zip.  The connection stays open.
RefuseApp(c, error) ==
  /\ \/ pc[c] \in {"app", "begin"} /\ error = "invalidRequest"
     \/ pc[c] = "begin" /\ error \in {"unknownRequest", "invalidApp"}
  /\ Answer(c, error)
  /\ UNCHANGED <<request, shown, installed, refused, others, phoneVars, anisetteVars>>

\* The reply is sent, or the client is gone.
Reply(c, delivered) ==
  /\ pc[c] = "replying"
  /\ Goto(c, IF delivered THEN "reading" ELSE "closed")
  /\ Forget(c)
  /\ UNCHANGED <<phoneVars, anisetteVars>>

Part(c) ==
  /\ pc[c] = "parting"
  /\ Goto(c, "closed")
  /\ Forget(c)
  /\ UNCHANGED <<phoneVars, anisetteVars>>

-----------------------------------------------------------------------------
(* anisette()                                                              *)

LockCache(c) ==
  /\ pc[c] = "queued"
  /\ keeper = Nobody
  /\ queue # <<>> /\ Head(queue) = c
  /\ keeper' = c
  /\ queue' = Tail(queue)
  /\ Goto(c, "anisette")
  /\ UNCHANGED <<request, reply, todo, shown, installed, refused, others, phoneVars, cache>>

\* The request before this one may just have filled the cache.
ServeFromCache(c) ==
  /\ pc[c] = "anisette"
  /\ cache = "fresh"
  /\ keeper' = Nobody
  /\ Answer(c, "done")
  /\ UNCHANGED <<request, shown, installed, refused, others, phoneVars, cache, queue>>

Generate(c) ==
  /\ pc[c] = "anisette"
  /\ cache # "fresh"
  /\ Goto(c, "generating")
  /\ UNCHANGED <<request, reply, todo, shown, installed, refused, others, phoneVars, anisetteVars>>

\* Mutation: a failure leaves the lock of the cache taken.
GeneratedOrStuck(c, ok) ==
  /\ pc[c] = "generating"
  /\ cache' = IF ok THEN "fresh" ELSE cache
  /\ keeper' = IF ok THEN Nobody ELSE keeper
  /\ Answer(c, IF ok THEN "done" ELSE "invalidAnisette")
  /\ UNCHANGED <<request, shown, installed, refused, others, phoneVars, queue>>

\* A failure is not remembered: whoever comes next tries again.
Generated(c, ok) ==
  /\ pc[c] = "generating"
  /\ cache' = IF ok THEN "fresh" ELSE cache
  /\ keeper' = Nobody
  /\ Answer(c, IF ok THEN "done" ELSE "invalidAnisette")
  /\ UNCHANGED <<request, shown, installed, refused, others, phoneVars, queue>>

CacheAges ==
  /\ cache = "fresh"
  /\ cache' = "stale"
  /\ UNCHANGED <<connVars, phoneVars, keeper, queue>>

-----------------------------------------------------------------------------
(* The phone: phone_lock, phone_link and what each request does with it    *)

\* Mutation: a try_lock whose failure is ignored.
TakePhoneAnyway(c) ==
  /\ pc[c] = "wantsPhone"
  /\ work' = c
  /\ Goto(c, "linking")
  /\ UNCHANGED <<request, reply, todo, shown, installed, refused, others, profiles, anisetteVars>>

TakePhone(c) ==
  /\ pc[c] = "wantsPhone"
  /\ work = Nobody
  /\ work' = c
  /\ Goto(c, "linking")
  /\ UNCHANGED <<request, reply, todo, shown, installed, refused, others, profiles, anisetteVars>>

\* The function returns and its guard is dropped, before the reply is sent.
LeavePhone(c, r) ==
  /\ work' = Nobody
  /\ Answer(c, r)

LinkFails(c) ==
  /\ pc[c] = "linking"
  /\ LeavePhone(c, "deviceNotFound")
  /\ UNCHANGED <<request, shown, installed, refused, others, profiles, anisetteVars>>

Link(c) ==
  /\ pc[c] = "linking"
  /\ Goto(c, IF request[c].kind = "removeProfiles" THEN "listing" ELSE "using")
  /\ todo' = [todo EXCEPT ![c] =
       IF request[c].kind = "removeProfiles" THEN {} ELSE request[c].profiles]
  /\ UNCHANGED <<request, reply, shown, installed, refused, others, phoneVars, anisetteVars>>

\* copy_all, with which a removal begins: what it removes is what it lists.
ListFails(c) ==
  /\ pc[c] = "listing"
  /\ LeavePhone(c, "installationFailed")
  /\ UNCHANGED <<request, shown, installed, refused, others, profiles, anisetteVars>>

Listed(c) ==
  /\ pc[c] = "listing"
  /\ Goto(c, "using")
  /\ todo' = [todo EXCEPT ![c] = request[c].profiles \intersect profiles]
  /\ UNCHANGED <<request, reply, shown, installed, refused, others, phoneVars, anisetteVars>>

\* Mutation: a profile that is not installed is passed over.
InstallProfileOrPass(c, p) ==
  /\ pc[c] = "using" /\ request[c].kind = "installProfiles"
  /\ p \in todo[c]
  /\ profiles' \in {profiles, profiles \union {p}}
  /\ todo' = [todo EXCEPT ![c] = @ \ {p}]
  /\ UNCHANGED <<pc, request, reply, shown, installed, refused, others, work, anisetteVars>>

InstallProfile(c, p) ==
  /\ pc[c] = "using" /\ request[c].kind = "installProfiles"
  /\ p \in todo[c]
  /\ profiles' = profiles \union {p}
  /\ todo' = [todo EXCEPT ![c] = @ \ {p}]
  /\ UNCHANGED <<pc, request, reply, shown, installed, refused, others, work, anisetteVars>>

\* A profile that the phone refuses to remove is logged, and passed over.
RemoveProfile(c, p, ok) ==
  /\ pc[c] = "using" /\ request[c].kind = "removeProfiles"
  /\ p \in todo[c]
  /\ profiles' = IF ok THEN profiles \ {p} ELSE profiles
  /\ refused' = IF ok THEN refused ELSE [refused EXCEPT ![c] = @ \union {p}]
  /\ todo' = [todo EXCEPT ![c] = @ \ {p}]
  /\ UNCHANGED <<pc, request, reply, shown, installed, others, work, anisetteVars>>

\* Mutation: the phone's own 100 is passed on.
NotifyProgressUncut(c, percent) ==
  /\ pc[c] = "using" /\ request[c].kind = "installApp"
  /\ shown' = [shown EXCEPT ![c] = percent]
  /\ Goto(c, "notifying")
  /\ UNCHANGED <<request, reply, todo, installed, refused, others, phoneVars, anisetteVars>>

\* The callback: 100 is for the end, when the installation really is over.  The
\* installation goes on when the frame is written, which has no deadline: a client
\* that does not read keeps WORK taken.
NotifyProgress(c, percent) ==
  /\ pc[c] = "using" /\ request[c].kind = "installApp"
  /\ shown' = [shown EXCEPT ![c] = IF percent > 99 THEN 99 ELSE percent]
  /\ Goto(c, "notifying")
  /\ UNCHANGED <<request, reply, todo, installed, refused, others, phoneVars, anisetteVars>>

\* The frame is written, or could not be, which is ignored.
Notified(c) ==
  /\ pc[c] = "notifying"
  /\ Goto(c, "using")
  /\ UNCHANGED <<request, reply, todo, shown, installed, refused, others, phoneVars, anisetteVars>>

\* Everything asked was done (or passed over), and the phone says so.
PhoneDone(c) ==
  /\ pc[c] = "using"
  /\ todo[c] = {}
  /\ installed' = [installed EXCEPT ![c] = request[c].kind = "installApp"]
  /\ LeavePhone(c, "done")
  /\ UNCHANGED <<request, shown, refused, others, profiles, anisetteVars>>

\* The first operation that fails ends the request: what was done stays done.
PhoneFails(c) ==
  /\ pc[c] = "using"
  /\ request[c].kind \in {"removeApp", "installApp"} \/ todo[c] # {}
  /\ request[c].kind # "removeProfiles"
  /\ LeavePhone(c, IF request[c].kind = "removeApp" THEN "appDeletionFailed"
                                                    ELSE "installationFailed")
  /\ UNCHANGED <<request, shown, installed, refused, others, profiles, anisetteVars>>

\* Mutation: a poisoned WORK stays taken.
DieWithPhone(c) ==
  /\ pc[c] \in OnThePhone \union {"anisette", "generating"}
  /\ keeper' = IF keeper = c THEN Nobody ELSE keeper
  /\ Goto(c, "closed")
  /\ Forget(c)
  /\ UNCHANGED <<phoneVars, cache, queue>>

\* A connection's thread panics: its guards are dropped (phone_lock accepts a
\* poisoned WORK, and a tokio Mutex knows no poison) and the socket closes.
Die(c) ==
  /\ pc[c] \in OnThePhone \union {"anisette", "generating"}
  /\ work' = IF work = c THEN Nobody ELSE work
  /\ keeper' = IF keeper = c THEN Nobody ELSE keeper
  /\ Goto(c, "closed")
  /\ Forget(c)
  /\ UNCHANGED <<profiles, cache, queue>>

\* A renewal of the page or of cron, profile-restore and profile-remove: they
\* use the phone without WORK, at any moment.
OthersChange(p, present) ==
  /\ profiles' = IF present THEN profiles \union {p} ELSE profiles \ {p}
  /\ others' = [c \in Conns |-> IF pc[c] \in OnThePhone THEN others[c] \union {p}
                                                       ELSE others[c]]
  /\ UNCHANGED <<pc, request, reply, todo, shown, installed, refused, work, anisetteVars>>

-----------------------------------------------------------------------------
\* The steps with a deadline in the code: a few instructions, and the search for
\* the phone.  The phone's operations, a frame that the client has to take and
\* Apple's servers have none.
TimelyStep(c) ==
  \/ LockCache(c) \/ ServeFromCache(c) \/ Generate(c)
  \/ LinkFails(c) \/ Link(c)

ServerStep(c) ==
  \/ TimelyStep(c)
  \/ \E delivered \in BOOLEAN : Reply(c, delivered)
  \/ Part(c)
  \/ \E ok \in BOOLEAN : Generated(c, ok)
  \/ ListFails(c) \/ Listed(c)
  \/ \E p \in Profiles : InstallProfile(c, p)
  \/ \E p \in Profiles, ok \in BOOLEAN : RemoveProfile(c, p, ok)
  \/ \E percent \in {50, 100} : NotifyProgress(c, percent)
  \/ Notified(c)
  \/ PhoneDone(c) \/ PhoneFails(c)
  \/ Die(c)

\* What the client does, within the server's deadlines.
ClientStep(c) ==
  \/ ReadEnds(c)
  \/ ReadBadJson(c)
  \/ \E frame \in DOMAIN Immediate : ReadImmediate(c, frame)
  \/ ReadAnisetteRequest(c)
  \/ \E req \in PhoneRequests : ReadPhoneRequest(c, req)
  \/ ReadPrepare(c)
  \/ ReadApp(c)
  \/ ReadBegin(c)
  \/ \E error \in Errors : RefuseApp(c, error)

Next ==
  \/ \E c \in Conns :
       \/ Connect(c)
       \/ ClientStep(c)
       \/ TakePhone(c)
       \/ ServerStep(c)
  \/ CacheAges
  \/ \E p \in Profiles, present \in BOOLEAN : OthersChange(p, present)

SafeSpec == Init /\ [][Next]_vars

\* Only the timely steps are fair, connection by connection.  A free WORK goes to
\* somebody who waits for it, nobody in particular: std::sync::Mutex has no queue.
Spec ==
  /\ SafeSpec
  /\ \A c \in Conns : WF_vars(TimelyStep(c))
  /\ WF_vars(\E c \in Conns : TakePhone(c))

-----------------------------------------------------------------------------
(* Properties                                                              *)

TypeOK ==
  /\ pc \in [Conns -> ConnStates]
  /\ request \in [Conns -> PhoneRequests \union {NoRequest}]
  /\ reply \in [Conns -> Replies]
  /\ todo \in [Conns -> SUBSET Profiles]
  /\ shown \in [Conns -> 0..100]
  /\ work \in Conns \union {Nobody}
  /\ cache \in {"empty", "fresh", "stale"}
  /\ keeper \in Conns \union {Nobody}
  /\ queue \in Seq(Conns)
  /\ profiles \subseteq Profiles
  /\ installed \in [Conns -> BOOLEAN]
  /\ refused \in [Conns -> SUBSET Profiles]
  /\ others \in [Conns -> SUBSET Profiles]

\* "Una sola operazione alla volta sul telefono" (altserver.rs:55), between the
\* connections: whoever uses the phone holds WORK, so no two of them do.
PhoneIsExclusive == \A c \in Conns : pc[c] \in OnThePhone <=> work = c

\* At most one connection at a time asks Apple's servers for anisette data, and
\* each of the others waits in the queue once: nobody is forgotten in it.
AnisetteIsExclusive ==
  /\ \A c \in Conns : pc[c] \in {"anisette", "generating"} <=> keeper = c
  /\ \A c \in Conns : pc[c] = "queued" <=> \E i \in 1..Len(queue) : queue[i] = c
  /\ \A i, j \in 1..Len(queue) : queue[i] = queue[j] => i = j

\* A connection that waits for its client's next bytes, or for the client to take
\* its answer, holds no lock ("Si prende SOLO mentre si usa il telefono",
\* altserver.rs:55): neither while an app comes in nor while a reply goes out can
\* it keep another one waiting.  A report of progress is different: it is written
\* in the middle of the installation, with WORK taken ("notifying").
WaitingHoldsNothing ==
  \A c \in Conns : pc[c] \in WaitsForClient => work # c /\ keeper # c

\* AltStore sees an installation complete only when it is: the progress that
\* the phone reports never shows 100, and the last reply comes after the end.
CompletionIsReal ==
  \A c \in Conns :
    shown[c] = 100 \/ (reply[c] = "done" /\ request[c].kind = "installApp") => installed[c]

Finishes(c, kind) ==
  pc[c] = "using" /\ pc'[c] = "replying" /\ reply'[c] = "done" /\ request[c].kind = kind

\* A request to install profiles is answered well only if all of them are on
\* the phone at that moment: no other connection removed one in the meantime.
\* Those that others changed, without WORK, are beyond what the answer can say.
InstalledWhenDone ==
  [][\A c \in Conns :
       Finishes(c, "installProfiles") =>
         request[c].profiles \ others[c] \subseteq profiles']_vars

\* A request to remove a bundle's profiles is answered well only if the phone has
\* none left but those it refused to remove, and those that others changed since
\* the connection took the phone: among the connections, the list one works from
\* is still the list of the phone.
RemovedWhenDone ==
  [][\A c \in Conns :
       Finishes(c, "removeProfiles") =>
         (request[c].profiles \intersect profiles') \ others[c] \subseteq refused[c]]_vars

\* The connections share the phone as workers share a lock.
PhoneLock == INSTANCE WorkLock WITH Workers <- Conns, holder <- work

ImplementsWorkLock == PhoneLock!Spec

\* Where only the phone, or a client that has to read, can end the wait.
AwaitsOutside(c) == pc[c] \in {"listing", "using", "notifying"}

\* WORK is given back, panics included, and given to somebody who waits for it,
\* with one exception: the phone that never answers a list, an installation or a
\* removal, or the client that never takes a report of progress, keep it for ever,
\* because the code has no deadline there (altserver.rs:364, 391, 404, 492, 495).
PhoneIsHandedOn ==
  /\ (work # Nobody) ~> (work = Nobody \/ \E c \in Conns : [](work = c /\ AwaitsOutside(c)))
  /\ (\E c \in Conns : pc[c] = "wantsPhone") ~> (work # Nobody)

\* Who asks for anisette data gets an answer: a generation that fails, or a
\* thread that dies in one, leaves the cache to the next in the queue.  The
\* exception is a generation that Apple's servers never let end: the code has no
\* deadline there, and keeps the cache taken (altserver.rs:321-328).
AnisetteIsAnswered ==
  \A c \in Conns :
    pc[c] = "queued" ~>
      (pc[c] \in {"replying", "closed"} \/ \E k \in Conns : [](pc[k] = "generating"))

-----------------------------------------------------------------------------
(* Why they hold: the inductive invariant                                  *)

WithoutRequest == {"closed", "reading", "queued", "anisette", "generating", "parting"}
WithPhoneRequest == {"app", "begin", "wantsPhone"} \union OnThePhone

\* A connection has a reply only while it sends it, and a request only while it
\* serves it; the progress it sent stays below 100.
ConversationFits ==
  \A c \in Conns :
    /\ reply[c] # "none" => pc[c] \in {"replying", "parting"}
    /\ pc[c] \in WithoutRequest => request[c] = NoRequest
    /\ pc[c] \in WithPhoneRequest => request[c] \in PhoneRequests
    /\ pc[c] \in {"app", "begin", "notifying"} => request[c].kind = "installApp"
    /\ pc[c] = "listing" => request[c].kind = "removeProfiles"
    /\ shown[c] < 100
    /\ reply[c] = "done" /\ request[c].kind = "installApp" => installed[c]

\* While a connection uses the phone, whatever it no longer has to do is done: no
\* other connection touches the profiles.
EffectsFit ==
  \A c \in Conns : pc[c] = "using" =>
    /\ request[c].kind = "installProfiles" =>
         request[c].profiles \ todo[c] \subseteq profiles \union others[c]
    /\ request[c].kind = "removeProfiles" =>
         (request[c].profiles \intersect profiles) \ todo[c] \subseteq refused[c] \union others[c]

AltInv ==
  /\ TypeOK
  /\ PhoneIsExclusive /\ AnisetteIsExclusive
  /\ ConversationFits /\ EffectsFit

=============================================================================
