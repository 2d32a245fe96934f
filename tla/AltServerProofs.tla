--------------------------- MODULE AltServerProofs ---------------------------
(***************************************************************************)
(* What the AltServer's connections keep, for every number of them and for *)
(* every set of apps.                                                      *)
(***************************************************************************)
EXTENDS AltServer, TLAPS

\* A request asks for profiles of the apps only.
LEMMA RequestProfiles ==
  ASSUME NEW req \in PhoneRequests \union {NoRequest}
  PROVE  /\ req.profiles \subseteq Profiles
         /\ req.kind \in {"none", "installProfiles", "removeProfiles", "removeApp", "installApp"}
  BY DEF PhoneRequests, NoRequest, ProfilesOf

\* The frame of an installation is one of the requests for the phone.
LEMMA InstallIsARequest == [kind |-> "installApp", profiles |-> {}] \in PhoneRequests
  BY DEF PhoneRequests

\* A connection that has no request asks for nothing of the phone's.
LEMMA NoRequestKind == NoRequest.kind = "none" /\ NoRequest.profiles = {}
  BY DEF NoRequest

-----------------------------------------------------------------------------
(* What one connection's step leaves to the others                         *)

\* Who uses the phone stays the same: so does the lock's meaning.
LEMMA PhoneFrame ==
  ASSUME PhoneIsExclusive, work' = work, NEW c \in Conns,
         pc'[c] \in OnThePhone <=> pc[c] \in OnThePhone,
         \A d \in Conns \ {c} : pc'[d] = pc[d]
  PROVE  PhoneIsExclusive'
  BY DEF PhoneIsExclusive

\* The phone is left: the lock is nobody's.
LEMMA PhoneLeft ==
  ASSUME PhoneIsExclusive, NEW c \in Conns, pc[c] \in OnThePhone, work' = Nobody,
         pc'[c] \notin OnThePhone,
         \A d \in Conns \ {c} : pc'[d] = pc[d]
  PROVE  PhoneIsExclusive'
  BY NobodyIsNoConnection DEF PhoneIsExclusive

\* Who waits for the anisette cache, and who has it, stays the same.
LEMMA AnisetteFrame ==
  ASSUME AnisetteIsExclusive, keeper' = keeper, queue' = queue, NEW c \in Conns,
         pc'[c] \in {"anisette", "generating"} <=> pc[c] \in {"anisette", "generating"},
         pc'[c] = "queued" <=> pc[c] = "queued",
         \A d \in Conns \ {c} : pc'[d] = pc[d]
  PROVE  AnisetteIsExclusive'
<1>1. \A d \in Conns : pc'[d] = "queued" <=> pc[d] = "queued"
  OBVIOUS
<1>2. \A d \in Conns :
        pc'[d] \in {"anisette", "generating"} <=> pc[d] \in {"anisette", "generating"}
  OBVIOUS
<1>3. QED
  BY <1>1, <1>2 DEF AnisetteIsExclusive

\* The cache's lock is given back: the queue is as it was.
LEMMA AnisetteLeft ==
  ASSUME AnisetteIsExclusive, NEW c \in Conns, pc[c] \in {"anisette", "generating"},
         keeper' = Nobody, queue' = queue,
         pc'[c] \notin {"anisette", "generating", "queued"},
         \A d \in Conns \ {c} : pc'[d] = pc[d]
  PROVE  AnisetteIsExclusive'
<1>1. keeper = c
  BY DEF AnisetteIsExclusive
<1>2. \A d \in Conns : pc'[d] = "queued" <=> pc[d] = "queued"
  OBVIOUS
<1>3. \A d \in Conns : pc'[d] \notin {"anisette", "generating"}
  BY <1>1 DEF AnisetteIsExclusive
<1>4. QED
  BY <1>2, <1>3, NobodyIsNoConnection DEF AnisetteIsExclusive

\* A step that neither touches the profiles nor starts to use the phone.
LEMMA EffectsFrame ==
  ASSUME EffectsFit, profiles' = profiles, NEW c \in Conns, pc'[c] # "using",
         \A d \in Conns \ {c} :
           pc'[d] = pc[d] /\ request'[d] = request[d] /\ todo'[d] = todo[d]
             /\ refused'[d] = refused[d] /\ others'[d] = others[d]
  PROVE  EffectsFit'
  BY DEF EffectsFit

-----------------------------------------------------------------------------
(* The steps                                                               *)

\* A new connection holds and asks nothing.
LEMMA ConnectInv ==
  ASSUME AltInv, NEW c \in Conns, Connect(c)
  PROVE  AltInv'
<1>1. TypeOK /\ PhoneIsExclusive /\ AnisetteIsExclusive /\ ConversationFits /\ EffectsFit
  BY DEF AltInv
<1>2. \A d \in Conns \ {c} : pc'[d] = pc[d]
  BY <1>1 DEF TypeOK, Connect, Goto, phoneVars, anisetteVars, connVars
<1>3. TypeOK'
  BY <1>1, RequestProfiles, InstallIsARequest
  DEF TypeOK, ConversationFits, Connect, Goto, phoneVars, anisetteVars, connVars,
      ConnStates, WaitsForClient, OnThePhone, Replies, Errors
<1>4. PhoneIsExclusive'
  BY <1>1, <1>2, PhoneFrame
  DEF TypeOK, PhoneIsExclusive, Connect, Goto, phoneVars, anisetteVars, connVars, OnThePhone
<1>5. AnisetteIsExclusive'
  BY <1>1, <1>2, AnisetteFrame
  DEF TypeOK, Connect, Goto, phoneVars, anisetteVars, connVars, OnThePhone
<1>6. ConversationFits'
  BY <1>1, NoRequestKind, InstallIsARequest
  DEF TypeOK, ConversationFits, Connect, Goto, phoneVars, anisetteVars, connVars,
      WithoutRequest, WithPhoneRequest, OnThePhone
<1>7. EffectsFit'
  BY <1>1, <1>2, EffectsFrame
  DEF TypeOK, Connect, Goto, phoneVars, anisetteVars, connVars, OnThePhone
<1>8. QED
  BY <1>3, <1>4, <1>5, <1>6, <1>7 DEF AltInv

\* A connection that is over leaves nothing behind.
LEMMA ReadEndsInv ==
  ASSUME AltInv, NEW c \in Conns, ReadEnds(c)
  PROVE  AltInv'
<1>1. TypeOK /\ PhoneIsExclusive /\ AnisetteIsExclusive /\ ConversationFits /\ EffectsFit
  BY DEF AltInv
<1>2. \A d \in Conns \ {c} : pc'[d] = pc[d]
  BY <1>1 DEF TypeOK, ReadEnds, Goto, Forget, phoneVars, anisetteVars, connVars
<1>3. TypeOK'
  BY <1>1, RequestProfiles, InstallIsARequest
  DEF TypeOK, ConversationFits, ReadEnds, Goto, Forget, phoneVars, anisetteVars, connVars,
      ConnStates, WaitsForClient, OnThePhone, Replies, Errors
<1>4. PhoneIsExclusive'
  BY <1>1, <1>2, PhoneFrame
  DEF TypeOK, PhoneIsExclusive, ReadEnds, Goto, Forget, phoneVars, anisetteVars, connVars,
      OnThePhone
<1>5. AnisetteIsExclusive'
  BY <1>1, <1>2, AnisetteFrame
  DEF TypeOK, ReadEnds, Goto, Forget, phoneVars, anisetteVars, connVars, OnThePhone
<1>6. ConversationFits'
  BY <1>1, NoRequestKind, InstallIsARequest
  DEF TypeOK, ConversationFits, ReadEnds, Goto, Forget, phoneVars, anisetteVars, connVars,
      WithoutRequest, WithPhoneRequest, OnThePhone
<1>7. EffectsFit'
  BY <1>1, <1>2, EffectsFrame
  DEF TypeOK, ReadEnds, Goto, Forget, phoneVars, anisetteVars, connVars, OnThePhone
<1>8. QED
  BY <1>3, <1>4, <1>5, <1>6, <1>7 DEF AltInv

\* A frame that is not JSON is answered with an error.
LEMMA ReadBadJsonInv ==
  ASSUME AltInv, NEW c \in Conns, ReadBadJson(c)
  PROVE  AltInv'
<1>1. TypeOK /\ PhoneIsExclusive /\ AnisetteIsExclusive /\ ConversationFits /\ EffectsFit
  BY DEF AltInv
<1>2. \A d \in Conns \ {c} : pc'[d] = pc[d]
  BY <1>1 DEF TypeOK, ReadBadJson, Goto, phoneVars, anisetteVars, connVars
<1>3. TypeOK'
  BY <1>1, RequestProfiles, InstallIsARequest
  DEF TypeOK, ConversationFits, ReadBadJson, Goto, phoneVars, anisetteVars, connVars,
      ConnStates, WaitsForClient, OnThePhone, Replies, Errors
<1>4. PhoneIsExclusive'
  BY <1>1, <1>2, PhoneFrame
  DEF TypeOK, PhoneIsExclusive, ReadBadJson, Goto, phoneVars, anisetteVars, connVars,
      OnThePhone
<1>5. AnisetteIsExclusive'
  BY <1>1, <1>2, AnisetteFrame
  DEF TypeOK, ReadBadJson, Goto, phoneVars, anisetteVars, connVars, OnThePhone
<1>6. ConversationFits'
  BY <1>1, NoRequestKind, InstallIsARequest
  DEF TypeOK, ConversationFits, ReadBadJson, Goto, phoneVars, anisetteVars, connVars,
      WithoutRequest, WithPhoneRequest, OnThePhone
<1>7. EffectsFit'
  BY <1>1, <1>2, EffectsFrame
  DEF TypeOK, ReadBadJson, Goto, phoneVars, anisetteVars, connVars, OnThePhone
<1>8. QED
  BY <1>3, <1>4, <1>5, <1>6, <1>7 DEF AltInv

\* An immediate answer to a connection without a request claims no installation.
LEMMA ReadImmediateInv ==
  ASSUME AltInv, NEW c \in Conns, NEW frame \in DOMAIN Immediate, ReadImmediate(c, frame)
  PROVE  AltInv'
<1>1. TypeOK /\ PhoneIsExclusive /\ AnisetteIsExclusive /\ ConversationFits /\ EffectsFit
  BY DEF AltInv
<1>2. \A d \in Conns \ {c} : pc'[d] = pc[d]
  BY <1>1 DEF TypeOK, ReadImmediate, Goto, Answer, Immediate, phoneVars, anisetteVars, connVars
<1>3. TypeOK'
  BY <1>1, RequestProfiles, InstallIsARequest
  DEF TypeOK, ConversationFits, ReadImmediate, Goto, Answer, Immediate, phoneVars,
      anisetteVars, connVars, ConnStates, WaitsForClient, OnThePhone, Replies, Errors
<1>4. PhoneIsExclusive'
  BY <1>1, <1>2, PhoneFrame
  DEF TypeOK, PhoneIsExclusive, ReadImmediate, Goto, Answer, Immediate, phoneVars,
      anisetteVars, connVars, OnThePhone
<1>5. AnisetteIsExclusive'
  BY <1>1, <1>2, AnisetteFrame
  DEF TypeOK, ReadImmediate, Goto, Answer, Immediate, phoneVars, anisetteVars, connVars,
      OnThePhone
<1>6. ConversationFits'
  BY <1>1, NoRequestKind, InstallIsARequest
  DEF TypeOK, ConversationFits, ReadImmediate, Goto, Answer, Immediate, phoneVars,
      anisetteVars, connVars, WithoutRequest, WithPhoneRequest, OnThePhone
<1>7. EffectsFit'
  BY <1>1, <1>2, EffectsFrame
  DEF TypeOK, ReadImmediate, Goto, Answer, Immediate, phoneVars, anisetteVars, connVars,
      OnThePhone
<1>8. QED
  BY <1>3, <1>4, <1>5, <1>6, <1>7 DEF AltInv

\* Who asks for anisette data goes to the end of the queue, once.
LEMMA ReadAnisetteRequestInv ==
  ASSUME AltInv, NEW c \in Conns, ReadAnisetteRequest(c)
  PROVE  AltInv'
<1>1. TypeOK /\ PhoneIsExclusive /\ AnisetteIsExclusive /\ ConversationFits /\ EffectsFit
  BY DEF AltInv
<1>2. \A d \in Conns \ {c} : pc'[d] = pc[d]
  BY <1>1 DEF TypeOK, ReadAnisetteRequest, Goto, phoneVars, anisetteVars, connVars
<1>3. TypeOK'
  BY <1>1, RequestProfiles, InstallIsARequest
  DEF TypeOK, ConversationFits, ReadAnisetteRequest, Goto, phoneVars, anisetteVars,
      connVars, ConnStates, WaitsForClient, OnThePhone, Replies, Errors
<1>4. PhoneIsExclusive'
  BY <1>1, <1>2, PhoneFrame
  DEF TypeOK, PhoneIsExclusive, ReadAnisetteRequest, Goto, phoneVars, anisetteVars,
      connVars, OnThePhone
<1>5. AnisetteIsExclusive'
  <2>1. /\ Len(queue') = Len(queue) + 1 /\ Len(queue) \in Nat
        /\ \A i \in 1..Len(queue) : queue'[i] = queue[i]
        /\ queue'[Len(queue) + 1] = c
    BY <1>1 DEF TypeOK, ReadAnisetteRequest
  <2>2. pc[c] = "reading" /\ pc'[c] = "queued" /\ keeper' = keeper
    BY <1>1 DEF TypeOK, ReadAnisetteRequest, Goto
  <2>3. \A d \in Conns : pc'[d] \in {"anisette", "generating"} <=> keeper' = d
    BY <1>1, <1>2, <2>2 DEF AnisetteIsExclusive
  <2>4. \A i \in 1..Len(queue) : queue[i] # c
    BY <1>1, <2>2 DEF AnisetteIsExclusive
  <2>5. \A d \in Conns : pc'[d] = "queued" <=> \E i \in 1..Len(queue') : queue'[i] = d
    BY <1>1, <1>2, <2>1, <2>2 DEF AnisetteIsExclusive
  <2>6. \A i, j \in 1..Len(queue') : queue'[i] = queue'[j] => i = j
    BY <1>1, <2>1, <2>4 DEF AnisetteIsExclusive
  <2>7. QED
    BY <2>3, <2>5, <2>6 DEF AnisetteIsExclusive
<1>6. ConversationFits'
  BY <1>1, NoRequestKind, InstallIsARequest
  DEF TypeOK, ConversationFits, ReadAnisetteRequest, Goto, phoneVars, anisetteVars,
      connVars, WithoutRequest, WithPhoneRequest, OnThePhone
<1>7. EffectsFit'
  BY <1>1, <1>2, EffectsFrame
  DEF TypeOK, ReadAnisetteRequest, Goto, phoneVars, anisetteVars, connVars, OnThePhone
<1>8. QED
  BY <1>3, <1>4, <1>5, <1>6, <1>7 DEF AltInv

\* A request for the phone is remembered until it is answered.
LEMMA ReadPhoneRequestInv ==
  ASSUME AltInv, NEW c \in Conns, NEW req \in PhoneRequests, ReadPhoneRequest(c, req)
  PROVE  AltInv'
<1>1. TypeOK /\ PhoneIsExclusive /\ AnisetteIsExclusive /\ ConversationFits /\ EffectsFit
  BY DEF AltInv
<1>2. \A d \in Conns \ {c} : pc'[d] = pc[d]
  BY <1>1 DEF TypeOK, ReadPhoneRequest, Goto, phoneVars, anisetteVars, connVars
<1>3. TypeOK'
  BY <1>1, RequestProfiles, InstallIsARequest
  DEF TypeOK, ConversationFits, ReadPhoneRequest, Goto, phoneVars, anisetteVars, connVars,
      ConnStates, WaitsForClient, OnThePhone, Replies, Errors
<1>4. PhoneIsExclusive'
  BY <1>1, <1>2, PhoneFrame
  DEF TypeOK, PhoneIsExclusive, ReadPhoneRequest, Goto, phoneVars, anisetteVars, connVars,
      OnThePhone
<1>5. AnisetteIsExclusive'
  BY <1>1, <1>2, AnisetteFrame
  DEF TypeOK, ReadPhoneRequest, Goto, phoneVars, anisetteVars, connVars, OnThePhone
<1>6. ConversationFits'
  BY <1>1, NoRequestKind, InstallIsARequest
  DEF TypeOK, ConversationFits, ReadPhoneRequest, Goto, phoneVars, anisetteVars, connVars,
      WithoutRequest, WithPhoneRequest, OnThePhone
<1>7. EffectsFit'
  BY <1>1, <1>2, EffectsFrame
  DEF TypeOK, ReadPhoneRequest, Goto, phoneVars, anisetteVars, connVars, OnThePhone
<1>8. QED
  BY <1>3, <1>4, <1>5, <1>6, <1>7 DEF AltInv

\* An installation is announced.
LEMMA ReadPrepareInv ==
  ASSUME AltInv, NEW c \in Conns, ReadPrepare(c)
  PROVE  AltInv'
<1>1. TypeOK /\ PhoneIsExclusive /\ AnisetteIsExclusive /\ ConversationFits /\ EffectsFit
  BY DEF AltInv
<1>2. \A d \in Conns \ {c} : pc'[d] = pc[d]
  BY <1>1 DEF TypeOK, ReadPrepare, Goto, phoneVars, anisetteVars, connVars
<1>3. TypeOK'
  BY <1>1, RequestProfiles, InstallIsARequest
  DEF TypeOK, ConversationFits, ReadPrepare, Goto, phoneVars, anisetteVars, connVars,
      ConnStates, WaitsForClient, OnThePhone, Replies, Errors
<1>4. PhoneIsExclusive'
  BY <1>1, <1>2, PhoneFrame
  DEF TypeOK, PhoneIsExclusive, ReadPrepare, Goto, phoneVars, anisetteVars, connVars,
      OnThePhone
<1>5. AnisetteIsExclusive'
  BY <1>1, <1>2, AnisetteFrame
  DEF TypeOK, ReadPrepare, Goto, phoneVars, anisetteVars, connVars, OnThePhone
<1>6. ConversationFits'
  BY <1>1, NoRequestKind, InstallIsARequest
  DEF TypeOK, ConversationFits, ReadPrepare, Goto, phoneVars, anisetteVars, connVars,
      WithoutRequest, WithPhoneRequest, OnThePhone
<1>7. EffectsFit'
  BY <1>1, <1>2, EffectsFrame
  DEF TypeOK, ReadPrepare, Goto, phoneVars, anisetteVars, connVars, OnThePhone
<1>8. QED
  BY <1>3, <1>4, <1>5, <1>6, <1>7 DEF AltInv

\* The bytes of the app are there.
LEMMA ReadAppInv ==
  ASSUME AltInv, NEW c \in Conns, ReadApp(c)
  PROVE  AltInv'
<1>1. TypeOK /\ PhoneIsExclusive /\ AnisetteIsExclusive /\ ConversationFits /\ EffectsFit
  BY DEF AltInv
<1>2. \A d \in Conns \ {c} : pc'[d] = pc[d]
  BY <1>1 DEF TypeOK, ReadApp, Goto, phoneVars, anisetteVars, connVars
<1>3. TypeOK'
  BY <1>1, RequestProfiles, InstallIsARequest
  DEF TypeOK, ConversationFits, ReadApp, Goto, phoneVars, anisetteVars, connVars,
      ConnStates, WaitsForClient, OnThePhone, Replies, Errors
<1>4. PhoneIsExclusive'
  BY <1>1, <1>2, PhoneFrame
  DEF TypeOK, PhoneIsExclusive, ReadApp, Goto, phoneVars, anisetteVars, connVars, OnThePhone
<1>5. AnisetteIsExclusive'
  BY <1>1, <1>2, AnisetteFrame
  DEF TypeOK, ReadApp, Goto, phoneVars, anisetteVars, connVars, OnThePhone
<1>6. ConversationFits'
  BY <1>1, NoRequestKind, InstallIsARequest
  DEF TypeOK, ConversationFits, ReadApp, Goto, phoneVars, anisetteVars, connVars,
      WithoutRequest, WithPhoneRequest, OnThePhone
<1>7. EffectsFit'
  BY <1>1, <1>2, EffectsFrame
  DEF TypeOK, ReadApp, Goto, phoneVars, anisetteVars, connVars, OnThePhone
<1>8. QED
  BY <1>3, <1>4, <1>5, <1>6, <1>7 DEF AltInv

\* The installation may begin, when the phone is free.
LEMMA ReadBeginInv ==
  ASSUME AltInv, NEW c \in Conns, ReadBegin(c)
  PROVE  AltInv'
<1>1. TypeOK /\ PhoneIsExclusive /\ AnisetteIsExclusive /\ ConversationFits /\ EffectsFit
  BY DEF AltInv
<1>2. \A d \in Conns \ {c} : pc'[d] = pc[d]
  BY <1>1 DEF TypeOK, ReadBegin, Goto, phoneVars, anisetteVars, connVars
<1>3. TypeOK'
  BY <1>1, RequestProfiles, InstallIsARequest
  DEF TypeOK, ConversationFits, ReadBegin, Goto, phoneVars, anisetteVars, connVars,
      ConnStates, WaitsForClient, OnThePhone, Replies, Errors
<1>4. PhoneIsExclusive'
  BY <1>1, <1>2, PhoneFrame
  DEF TypeOK, PhoneIsExclusive, ReadBegin, Goto, phoneVars, anisetteVars, connVars,
      OnThePhone
<1>5. AnisetteIsExclusive'
  BY <1>1, <1>2, AnisetteFrame
  DEF TypeOK, ReadBegin, Goto, phoneVars, anisetteVars, connVars, OnThePhone
<1>6. ConversationFits'
  BY <1>1, NoRequestKind, InstallIsARequest
  DEF TypeOK, ConversationFits, ReadBegin, Goto, phoneVars, anisetteVars, connVars,
      WithoutRequest, WithPhoneRequest, OnThePhone
<1>7. EffectsFit'
  BY <1>1, <1>2, EffectsFrame
  DEF TypeOK, ReadBegin, Goto, phoneVars, anisetteVars, connVars, OnThePhone
<1>8. QED
  BY <1>3, <1>4, <1>5, <1>6, <1>7 DEF AltInv

\* A refused app is answered with an error.
LEMMA RefuseAppInv ==
  ASSUME AltInv, NEW c \in Conns, NEW error \in Errors, RefuseApp(c, error)
  PROVE  AltInv'
<1>1. TypeOK /\ PhoneIsExclusive /\ AnisetteIsExclusive /\ ConversationFits /\ EffectsFit
  BY DEF AltInv
<1>2. \A d \in Conns \ {c} : pc'[d] = pc[d]
  BY <1>1 DEF TypeOK, RefuseApp, Goto, Answer, Errors, phoneVars, anisetteVars, connVars
<1>3. TypeOK'
  BY <1>1, RequestProfiles, InstallIsARequest
  DEF TypeOK, ConversationFits, RefuseApp, Goto, Answer, Errors, phoneVars, anisetteVars,
      connVars, ConnStates, WaitsForClient, OnThePhone, Replies, Errors
<1>4. PhoneIsExclusive'
  BY <1>1, <1>2, PhoneFrame
  DEF TypeOK, PhoneIsExclusive, RefuseApp, Goto, Answer, Errors, phoneVars, anisetteVars,
      connVars, OnThePhone
<1>5. AnisetteIsExclusive'
  BY <1>1, <1>2, AnisetteFrame
  DEF TypeOK, RefuseApp, Goto, Answer, Errors, phoneVars, anisetteVars, connVars, OnThePhone
<1>6. ConversationFits'
  BY <1>1, NoRequestKind, InstallIsARequest
  DEF TypeOK, ConversationFits, RefuseApp, Goto, Answer, Errors, phoneVars, anisetteVars,
      connVars, WithoutRequest, WithPhoneRequest, OnThePhone
<1>7. EffectsFit'
  BY <1>1, <1>2, EffectsFrame
  DEF TypeOK, RefuseApp, Goto, Answer, Errors, phoneVars, anisetteVars, connVars, OnThePhone
<1>8. QED
  BY <1>3, <1>4, <1>5, <1>6, <1>7 DEF AltInv

\* After the reply the request is forgotten.
LEMMA ReplyInv ==
  ASSUME AltInv, NEW c \in Conns, NEW delivered \in BOOLEAN, Reply(c, delivered)
  PROVE  AltInv'
<1>1. TypeOK /\ PhoneIsExclusive /\ AnisetteIsExclusive /\ ConversationFits /\ EffectsFit
  BY DEF AltInv
<1>2. \A d \in Conns \ {c} : pc'[d] = pc[d]
  BY <1>1 DEF TypeOK, Reply, Goto, Forget, phoneVars, anisetteVars, connVars
<1>3. TypeOK'
  BY <1>1, RequestProfiles, InstallIsARequest
  DEF TypeOK, ConversationFits, Reply, Goto, Forget, phoneVars, anisetteVars, connVars,
      ConnStates, WaitsForClient, OnThePhone, Replies, Errors
<1>4. PhoneIsExclusive'
  BY <1>1, <1>2, PhoneFrame
  DEF TypeOK, PhoneIsExclusive, Reply, Goto, Forget, phoneVars, anisetteVars, connVars,
      OnThePhone
<1>5. AnisetteIsExclusive'
  BY <1>1, <1>2, AnisetteFrame
  DEF TypeOK, Reply, Goto, Forget, phoneVars, anisetteVars, connVars, OnThePhone
<1>6. ConversationFits'
  BY <1>1, NoRequestKind, InstallIsARequest
  DEF TypeOK, ConversationFits, Reply, Goto, Forget, phoneVars, anisetteVars, connVars,
      WithoutRequest, WithPhoneRequest, OnThePhone
<1>7. EffectsFit'
  BY <1>1, <1>2, EffectsFrame
  DEF TypeOK, Reply, Goto, Forget, phoneVars, anisetteVars, connVars, OnThePhone
<1>8. QED
  BY <1>3, <1>4, <1>5, <1>6, <1>7 DEF AltInv

\* So it is when the connection parts.
LEMMA PartInv ==
  ASSUME AltInv, NEW c \in Conns, Part(c)
  PROVE  AltInv'
<1>1. TypeOK /\ PhoneIsExclusive /\ AnisetteIsExclusive /\ ConversationFits /\ EffectsFit
  BY DEF AltInv
<1>2. \A d \in Conns \ {c} : pc'[d] = pc[d]
  BY <1>1 DEF TypeOK, Part, Goto, Forget, phoneVars, anisetteVars, connVars
<1>3. TypeOK'
  BY <1>1, RequestProfiles, InstallIsARequest
  DEF TypeOK, ConversationFits, Part, Goto, Forget, phoneVars, anisetteVars, connVars,
      ConnStates, WaitsForClient, OnThePhone, Replies, Errors
<1>4. PhoneIsExclusive'
  BY <1>1, <1>2, PhoneFrame
  DEF TypeOK, PhoneIsExclusive, Part, Goto, Forget, phoneVars, anisetteVars, connVars,
      OnThePhone
<1>5. AnisetteIsExclusive'
  BY <1>1, <1>2, AnisetteFrame
  DEF TypeOK, Part, Goto, Forget, phoneVars, anisetteVars, connVars, OnThePhone
<1>6. ConversationFits'
  BY <1>1, NoRequestKind, InstallIsARequest
  DEF TypeOK, ConversationFits, Part, Goto, Forget, phoneVars, anisetteVars, connVars,
      WithoutRequest, WithPhoneRequest, OnThePhone
<1>7. EffectsFit'
  BY <1>1, <1>2, EffectsFrame
  DEF TypeOK, Part, Goto, Forget, phoneVars, anisetteVars, connVars, OnThePhone
<1>8. QED
  BY <1>3, <1>4, <1>5, <1>6, <1>7 DEF AltInv

\* The first of the queue gets the cache, and only it.
LEMMA LockCacheInv ==
  ASSUME AltInv, NEW c \in Conns, LockCache(c)
  PROVE  AltInv'
<1>1. TypeOK /\ PhoneIsExclusive /\ AnisetteIsExclusive /\ ConversationFits /\ EffectsFit
  BY DEF AltInv
<1>2. \A d \in Conns \ {c} : pc'[d] = pc[d]
  BY <1>1 DEF TypeOK, LockCache, Goto, phoneVars, anisetteVars, connVars
<1>3. TypeOK'
  BY <1>1, RequestProfiles, InstallIsARequest
  DEF TypeOK, ConversationFits, LockCache, Goto, phoneVars, anisetteVars, connVars,
      ConnStates, WaitsForClient, OnThePhone, Replies, Errors
<1>4. PhoneIsExclusive'
  BY <1>1, <1>2, PhoneFrame
  DEF TypeOK, PhoneIsExclusive, LockCache, Goto, phoneVars, anisetteVars, connVars,
      OnThePhone
<1>5. AnisetteIsExclusive'
  <2>1. /\ queue[1] = c /\ Len(queue') = Len(queue) - 1 /\ Len(queue) \in Nat \ {0}
        /\ \A i \in 1..Len(queue') : queue'[i] = queue[i + 1]
    BY <1>1 DEF TypeOK, LockCache
  <2>2. pc'[c] = "anisette"
    BY <1>1 DEF TypeOK, LockCache, Goto
  <2>3. \A i, j \in 1..Len(queue) : queue[i] = queue[j] => i = j
    BY <1>1 DEF AnisetteIsExclusive
  <2>4. \A d \in Conns : pc'[d] \in {"anisette", "generating"} <=> keeper' = d
    BY <1>1, <1>2, <2>2, NobodyIsNoConnection DEF LockCache, AnisetteIsExclusive
  <2>5. ASSUME NEW d \in Conns
        PROVE  pc'[d] = "queued" <=> \E i \in 1..Len(queue') : queue'[i] = d
    <3>1. CASE d = c
      BY <2>1, <2>2, <2>3, <3>1
    <3>2. CASE d # c
      <4>1. pc'[d] = "queued" <=> \E i \in 1..Len(queue) : queue[i] = d
        BY <1>1, <1>2, <3>2 DEF AnisetteIsExclusive
      <4>2. ASSUME NEW i \in 1..Len(queue), queue[i] = d
            PROVE  i - 1 \in 1..Len(queue') /\ queue'[i - 1] = d
        <5>1. i # 1
          BY <2>1, <3>2, <4>2
        <5>2. i - 1 \in 1..Len(queue')
          BY <2>1, <5>1
        <5>3. QED
          BY <2>1, <4>2, <5>2
      <4>3. ASSUME NEW i \in 1..Len(queue'), queue'[i] = d
            PROVE  i + 1 \in 1..Len(queue) /\ queue[i + 1] = d
        BY <2>1, <4>3
      <4>4. QED
        BY <4>1, <4>2, <4>3
    <3>3. QED
      BY <3>1, <3>2
  <2>6. \A i, j \in 1..Len(queue') : queue'[i] = queue'[j] => i = j
    <3> SUFFICES ASSUME NEW i \in 1..Len(queue'), NEW j \in 1..Len(queue'),
                        queue'[i] = queue'[j]
                 PROVE  i = j
      OBVIOUS
    <3>1. i + 1 \in 1..Len(queue) /\ j + 1 \in 1..Len(queue) /\ queue[i + 1] = queue[j + 1]
      BY <2>1
    <3>2. i + 1 = j + 1
      BY <2>3, <3>1
    <3>3. QED
      BY <3>2
  <2>7. QED
    BY <2>4, <2>5, <2>6 DEF AnisetteIsExclusive
<1>6. ConversationFits'
  BY <1>1, NoRequestKind, InstallIsARequest
  DEF TypeOK, ConversationFits, LockCache, Goto, phoneVars, anisetteVars, connVars,
      WithoutRequest, WithPhoneRequest, OnThePhone
<1>7. EffectsFit'
  BY <1>1, <1>2, EffectsFrame
  DEF TypeOK, LockCache, Goto, phoneVars, anisetteVars, connVars, OnThePhone
<1>8. QED
  BY <1>3, <1>4, <1>5, <1>6, <1>7 DEF AltInv

\* An answer from the cache gives it back.
LEMMA ServeFromCacheInv ==
  ASSUME AltInv, NEW c \in Conns, ServeFromCache(c)
  PROVE  AltInv'
<1>1. TypeOK /\ PhoneIsExclusive /\ AnisetteIsExclusive /\ ConversationFits /\ EffectsFit
  BY DEF AltInv
<1>2. \A d \in Conns \ {c} : pc'[d] = pc[d]
  BY <1>1 DEF TypeOK, ServeFromCache, Goto, Answer, phoneVars, anisetteVars, connVars
<1>3. TypeOK'
  BY <1>1, RequestProfiles, InstallIsARequest
  DEF TypeOK, ConversationFits, ServeFromCache, Goto, Answer, phoneVars, anisetteVars,
      connVars, ConnStates, WaitsForClient, OnThePhone, Replies, Errors
<1>4. PhoneIsExclusive'
  BY <1>1, <1>2, PhoneFrame
  DEF TypeOK, PhoneIsExclusive, ServeFromCache, Goto, Answer, phoneVars, anisetteVars,
      connVars, OnThePhone
<1>5. AnisetteIsExclusive'
  BY <1>1, <1>2, AnisetteLeft
  DEF TypeOK, ServeFromCache, Goto, Answer, phoneVars, anisetteVars, connVars, OnThePhone
<1>6. ConversationFits'
  BY <1>1, NoRequestKind, InstallIsARequest
  DEF TypeOK, ConversationFits, ServeFromCache, Goto, Answer, phoneVars, anisetteVars,
      connVars, WithoutRequest, WithPhoneRequest, OnThePhone
<1>7. EffectsFit'
  BY <1>1, <1>2, EffectsFrame
  DEF TypeOK, ServeFromCache, Goto, Answer, phoneVars, anisetteVars, connVars, OnThePhone
<1>8. QED
  BY <1>3, <1>4, <1>5, <1>6, <1>7 DEF AltInv

\* A generation goes on with the cache taken.
LEMMA GenerateInv ==
  ASSUME AltInv, NEW c \in Conns, Generate(c)
  PROVE  AltInv'
<1>1. TypeOK /\ PhoneIsExclusive /\ AnisetteIsExclusive /\ ConversationFits /\ EffectsFit
  BY DEF AltInv
<1>2. \A d \in Conns \ {c} : pc'[d] = pc[d]
  BY <1>1 DEF TypeOK, Generate, Goto, phoneVars, anisetteVars, connVars
<1>3. TypeOK'
  BY <1>1, RequestProfiles, InstallIsARequest
  DEF TypeOK, ConversationFits, Generate, Goto, phoneVars, anisetteVars, connVars,
      ConnStates, WaitsForClient, OnThePhone, Replies, Errors
<1>4. PhoneIsExclusive'
  BY <1>1, <1>2, PhoneFrame
  DEF TypeOK, PhoneIsExclusive, Generate, Goto, phoneVars, anisetteVars, connVars,
      OnThePhone
<1>5. AnisetteIsExclusive'
  BY <1>1, <1>2, AnisetteFrame
  DEF TypeOK, Generate, Goto, phoneVars, anisetteVars, connVars, OnThePhone
<1>6. ConversationFits'
  BY <1>1, NoRequestKind, InstallIsARequest
  DEF TypeOK, ConversationFits, Generate, Goto, phoneVars, anisetteVars, connVars,
      WithoutRequest, WithPhoneRequest, OnThePhone
<1>7. EffectsFit'
  BY <1>1, <1>2, EffectsFrame
  DEF TypeOK, Generate, Goto, phoneVars, anisetteVars, connVars, OnThePhone
<1>8. QED
  BY <1>3, <1>4, <1>5, <1>6, <1>7 DEF AltInv

\* A generation that ends, well or not, gives the cache back.
LEMMA GeneratedInv ==
  ASSUME AltInv, NEW c \in Conns, NEW ok \in BOOLEAN, Generated(c, ok)
  PROVE  AltInv'
<1>1. TypeOK /\ PhoneIsExclusive /\ AnisetteIsExclusive /\ ConversationFits /\ EffectsFit
  BY DEF AltInv
<1>2. \A d \in Conns \ {c} : pc'[d] = pc[d]
  BY <1>1 DEF TypeOK, Generated, Goto, Answer, phoneVars, anisetteVars, connVars
<1>3. TypeOK'
  BY <1>1, RequestProfiles, InstallIsARequest
  DEF TypeOK, ConversationFits, Generated, Goto, Answer, phoneVars, anisetteVars, connVars,
      ConnStates, WaitsForClient, OnThePhone, Replies, Errors
<1>4. PhoneIsExclusive'
  BY <1>1, <1>2, PhoneFrame
  DEF TypeOK, PhoneIsExclusive, Generated, Goto, Answer, phoneVars, anisetteVars, connVars,
      OnThePhone
<1>5. AnisetteIsExclusive'
  BY <1>1, <1>2, AnisetteLeft
  DEF TypeOK, Generated, Goto, Answer, phoneVars, anisetteVars, connVars, OnThePhone
<1>6. ConversationFits'
  BY <1>1, NoRequestKind, InstallIsARequest
  DEF TypeOK, ConversationFits, Generated, Goto, Answer, phoneVars, anisetteVars, connVars,
      WithoutRequest, WithPhoneRequest, OnThePhone
<1>7. EffectsFit'
  BY <1>1, <1>2, EffectsFrame
  DEF TypeOK, Generated, Goto, Answer, phoneVars, anisetteVars, connVars, OnThePhone
<1>8. QED
  BY <1>3, <1>4, <1>5, <1>6, <1>7 DEF AltInv

\* The phone is taken when nobody has it.
LEMMA TakePhoneInv ==
  ASSUME AltInv, NEW c \in Conns, TakePhone(c)
  PROVE  AltInv'
<1>1. TypeOK /\ PhoneIsExclusive /\ AnisetteIsExclusive /\ ConversationFits /\ EffectsFit
  BY DEF AltInv
<1>2. \A d \in Conns \ {c} : pc'[d] = pc[d]
  BY <1>1 DEF TypeOK, TakePhone, Goto, phoneVars, anisetteVars, connVars
<1>3. TypeOK'
  BY <1>1, RequestProfiles, InstallIsARequest
  DEF TypeOK, ConversationFits, TakePhone, Goto, phoneVars, anisetteVars, connVars,
      ConnStates, WaitsForClient, OnThePhone, Replies, Errors
<1>4. PhoneIsExclusive'
  BY <1>1, <1>2, NobodyIsNoConnection
  DEF TypeOK, PhoneIsExclusive, TakePhone, Goto, phoneVars, anisetteVars, connVars,
      OnThePhone
<1>5. AnisetteIsExclusive'
  BY <1>1, <1>2, AnisetteFrame
  DEF TypeOK, TakePhone, Goto, phoneVars, anisetteVars, connVars, OnThePhone
<1>6. ConversationFits'
  BY <1>1, NoRequestKind, InstallIsARequest
  DEF TypeOK, ConversationFits, TakePhone, Goto, phoneVars, anisetteVars, connVars,
      WithoutRequest, WithPhoneRequest, OnThePhone
<1>7. EffectsFit'
  BY <1>1, <1>2, EffectsFrame
  DEF TypeOK, TakePhone, Goto, phoneVars, anisetteVars, connVars, OnThePhone
<1>8. QED
  BY <1>3, <1>4, <1>5, <1>6, <1>7 DEF AltInv

\* A phone that is not found is left.
LEMMA LinkFailsInv ==
  ASSUME AltInv, NEW c \in Conns, LinkFails(c)
  PROVE  AltInv'
<1>1. TypeOK /\ PhoneIsExclusive /\ AnisetteIsExclusive /\ ConversationFits /\ EffectsFit
  BY DEF AltInv
<1>2. \A d \in Conns \ {c} : pc'[d] = pc[d]
  BY <1>1 DEF TypeOK, LinkFails, Goto, LeavePhone, Answer, phoneVars, anisetteVars, connVars
<1>3. TypeOK'
  BY <1>1, RequestProfiles, InstallIsARequest
  DEF TypeOK, ConversationFits, LinkFails, Goto, LeavePhone, Answer, phoneVars,
      anisetteVars, connVars, ConnStates, WaitsForClient, OnThePhone, Replies, Errors
<1>4. PhoneIsExclusive'
  BY <1>1, <1>2, PhoneLeft
  DEF TypeOK, PhoneIsExclusive, LinkFails, Goto, LeavePhone, Answer, phoneVars,
      anisetteVars, connVars, OnThePhone
<1>5. AnisetteIsExclusive'
  BY <1>1, <1>2, AnisetteFrame
  DEF TypeOK, LinkFails, Goto, LeavePhone, Answer, phoneVars, anisetteVars, connVars,
      OnThePhone
<1>6. ConversationFits'
  BY <1>1, NoRequestKind, InstallIsARequest
  DEF TypeOK, ConversationFits, LinkFails, Goto, LeavePhone, Answer, phoneVars,
      anisetteVars, connVars, WithoutRequest, WithPhoneRequest, OnThePhone
<1>7. EffectsFit'
  BY <1>1, <1>2, EffectsFrame
  DEF TypeOK, LinkFails, Goto, LeavePhone, Answer, phoneVars, anisetteVars, connVars,
      OnThePhone
<1>8. QED
  BY <1>3, <1>4, <1>5, <1>6, <1>7 DEF AltInv

\* So is one whose profiles cannot be read.
LEMMA ListFailsInv ==
  ASSUME AltInv, NEW c \in Conns, ListFails(c)
  PROVE  AltInv'
<1>1. TypeOK /\ PhoneIsExclusive /\ AnisetteIsExclusive /\ ConversationFits /\ EffectsFit
  BY DEF AltInv
<1>2. \A d \in Conns \ {c} : pc'[d] = pc[d]
  BY <1>1 DEF TypeOK, ListFails, Goto, LeavePhone, Answer, phoneVars, anisetteVars, connVars
<1>3. TypeOK'
  BY <1>1, RequestProfiles, InstallIsARequest
  DEF TypeOK, ConversationFits, ListFails, Goto, LeavePhone, Answer, phoneVars,
      anisetteVars, connVars, ConnStates, WaitsForClient, OnThePhone, Replies, Errors
<1>4. PhoneIsExclusive'
  BY <1>1, <1>2, PhoneLeft
  DEF TypeOK, PhoneIsExclusive, ListFails, Goto, LeavePhone, Answer, phoneVars,
      anisetteVars, connVars, OnThePhone
<1>5. AnisetteIsExclusive'
  BY <1>1, <1>2, AnisetteFrame
  DEF TypeOK, ListFails, Goto, LeavePhone, Answer, phoneVars, anisetteVars, connVars,
      OnThePhone
<1>6. ConversationFits'
  BY <1>1, NoRequestKind, InstallIsARequest
  DEF TypeOK, ConversationFits, ListFails, Goto, LeavePhone, Answer, phoneVars,
      anisetteVars, connVars, WithoutRequest, WithPhoneRequest, OnThePhone
<1>7. EffectsFit'
  BY <1>1, <1>2, EffectsFrame
  DEF TypeOK, ListFails, Goto, LeavePhone, Answer, phoneVars, anisetteVars, connVars,
      OnThePhone
<1>8. QED
  BY <1>3, <1>4, <1>5, <1>6, <1>7 DEF AltInv

\* The work begins, a removal with its list.
LEMMA LinkInv ==
  ASSUME AltInv, NEW c \in Conns, Link(c)
  PROVE  AltInv'
<1>1. TypeOK /\ PhoneIsExclusive /\ AnisetteIsExclusive /\ ConversationFits /\ EffectsFit
  BY DEF AltInv
<1>2. \A d \in Conns \ {c} : pc'[d] = pc[d]
  BY <1>1 DEF TypeOK, Link, Goto, phoneVars, anisetteVars, connVars
<1>3. TypeOK'
  BY <1>1, RequestProfiles, InstallIsARequest
  DEF TypeOK, ConversationFits, Link, Goto, phoneVars, anisetteVars, connVars, ConnStates,
      WaitsForClient, OnThePhone, Replies, Errors
<1>4. PhoneIsExclusive'
  BY <1>1, <1>2, PhoneFrame
  DEF TypeOK, PhoneIsExclusive, Link, Goto, phoneVars, anisetteVars, connVars, OnThePhone
<1>5. AnisetteIsExclusive'
  BY <1>1, <1>2, AnisetteFrame
  DEF TypeOK, Link, Goto, phoneVars, anisetteVars, connVars, OnThePhone
<1>6. ConversationFits'
  BY <1>1, NoRequestKind, InstallIsARequest
  DEF TypeOK, ConversationFits, Link, Goto, phoneVars, anisetteVars, connVars,
      WithoutRequest, WithPhoneRequest, OnThePhone
<1>7. EffectsFit'
  BY <1>1, <1>2
  DEF TypeOK, Link, Goto, phoneVars, anisetteVars, connVars, OnThePhone, EffectsFit,
      PhoneIsExclusive
<1>8. QED
  BY <1>3, <1>4, <1>5, <1>6, <1>7 DEF AltInv

\* What is not on the list of a removal is not on the phone.
LEMMA ListedInv ==
  ASSUME AltInv, NEW c \in Conns, Listed(c)
  PROVE  AltInv'
<1>1. TypeOK /\ PhoneIsExclusive /\ AnisetteIsExclusive /\ ConversationFits /\ EffectsFit
  BY DEF AltInv
<1>2. \A d \in Conns \ {c} : pc'[d] = pc[d]
  BY <1>1 DEF TypeOK, Listed, Goto, phoneVars, anisetteVars, connVars
<1>3. TypeOK'
  BY <1>1, RequestProfiles, InstallIsARequest
  DEF TypeOK, ConversationFits, Listed, Goto, phoneVars, anisetteVars, connVars, ConnStates,
      WaitsForClient, OnThePhone, Replies, Errors
<1>4. PhoneIsExclusive'
  BY <1>1, <1>2, PhoneFrame
  DEF TypeOK, PhoneIsExclusive, Listed, Goto, phoneVars, anisetteVars, connVars, OnThePhone
<1>5. AnisetteIsExclusive'
  BY <1>1, <1>2, AnisetteFrame
  DEF TypeOK, Listed, Goto, phoneVars, anisetteVars, connVars, OnThePhone
<1>6. ConversationFits'
  BY <1>1, NoRequestKind, InstallIsARequest
  DEF TypeOK, ConversationFits, Listed, Goto, phoneVars, anisetteVars, connVars,
      WithoutRequest, WithPhoneRequest, OnThePhone
<1>7. EffectsFit'
  BY <1>1, <1>2
  DEF TypeOK, Listed, Goto, phoneVars, anisetteVars, connVars, OnThePhone, EffectsFit,
      PhoneIsExclusive, ConversationFits
<1>8. QED
  BY <1>3, <1>4, <1>5, <1>6, <1>7 DEF AltInv

\* An installed profile is on the phone, and nobody else is working there.
LEMMA InstallProfileInv ==
  ASSUME AltInv, NEW c \in Conns, NEW p \in Profiles, InstallProfile(c, p)
  PROVE  AltInv'
<1>1. TypeOK /\ PhoneIsExclusive /\ AnisetteIsExclusive /\ ConversationFits /\ EffectsFit
  BY DEF AltInv
<1>2. \A d \in Conns \ {c} : pc'[d] = pc[d]
  BY <1>1 DEF TypeOK, InstallProfile, phoneVars, anisetteVars, connVars
<1>3. TypeOK'
  BY <1>1, RequestProfiles, InstallIsARequest
  DEF TypeOK, ConversationFits, InstallProfile, phoneVars, anisetteVars, connVars,
      ConnStates, WaitsForClient, OnThePhone, Replies, Errors
<1>4. PhoneIsExclusive'
  BY <1>1, <1>2, PhoneFrame
  DEF TypeOK, PhoneIsExclusive, InstallProfile, phoneVars, anisetteVars, connVars,
      OnThePhone
<1>5. AnisetteIsExclusive'
  BY <1>1, <1>2, AnisetteFrame
  DEF TypeOK, InstallProfile, phoneVars, anisetteVars, connVars, OnThePhone
<1>6. ConversationFits'
  BY <1>1, NoRequestKind, InstallIsARequest
  DEF TypeOK, ConversationFits, InstallProfile, phoneVars, anisetteVars, connVars,
      WithoutRequest, WithPhoneRequest, OnThePhone
<1>7. EffectsFit'
  BY <1>1, <1>2
  DEF TypeOK, InstallProfile, phoneVars, anisetteVars, connVars, OnThePhone, EffectsFit,
      PhoneIsExclusive
<1>8. QED
  BY <1>3, <1>4, <1>5, <1>6, <1>7 DEF AltInv

\* A profile is gone from the phone, or the phone refused.
LEMMA RemoveProfileInv ==
  ASSUME AltInv, NEW c \in Conns, NEW p \in Profiles, NEW ok \in BOOLEAN, RemoveProfile(c, p, ok)
  PROVE  AltInv'
<1>1. TypeOK /\ PhoneIsExclusive /\ AnisetteIsExclusive /\ ConversationFits /\ EffectsFit
  BY DEF AltInv
<1>2. \A d \in Conns \ {c} : pc'[d] = pc[d]
  BY <1>1 DEF TypeOK, RemoveProfile, phoneVars, anisetteVars, connVars
<1>3. TypeOK'
  BY <1>1, RequestProfiles, InstallIsARequest
  DEF TypeOK, ConversationFits, RemoveProfile, phoneVars, anisetteVars, connVars,
      ConnStates, WaitsForClient, OnThePhone, Replies, Errors
<1>4. PhoneIsExclusive'
  BY <1>1, <1>2, PhoneFrame
  DEF TypeOK, PhoneIsExclusive, RemoveProfile, phoneVars, anisetteVars, connVars, OnThePhone
<1>5. AnisetteIsExclusive'
  BY <1>1, <1>2, AnisetteFrame
  DEF TypeOK, RemoveProfile, phoneVars, anisetteVars, connVars, OnThePhone
<1>6. ConversationFits'
  BY <1>1, NoRequestKind, InstallIsARequest
  DEF TypeOK, ConversationFits, RemoveProfile, phoneVars, anisetteVars, connVars,
      WithoutRequest, WithPhoneRequest, OnThePhone
<1>7. EffectsFit'
  BY <1>1, <1>2
  DEF TypeOK, RemoveProfile, phoneVars, anisetteVars, connVars, OnThePhone, EffectsFit,
      PhoneIsExclusive
<1>8. QED
  BY <1>3, <1>4, <1>5, <1>6, <1>7 DEF AltInv

\* The progress sent stays below 100.
LEMMA NotifyProgressInv ==
  ASSUME AltInv, NEW c \in Conns, NEW percent \in {50, 100}, NotifyProgress(c, percent)
  PROVE  AltInv'
<1>1. TypeOK /\ PhoneIsExclusive /\ AnisetteIsExclusive /\ ConversationFits /\ EffectsFit
  BY DEF AltInv
<1>2. \A d \in Conns \ {c} : pc'[d] = pc[d]
  BY <1>1 DEF TypeOK, NotifyProgress, Goto, phoneVars, anisetteVars, connVars
<1>3. TypeOK'
  BY <1>1, RequestProfiles, InstallIsARequest
  DEF TypeOK, ConversationFits, NotifyProgress, Goto, phoneVars, anisetteVars, connVars,
      ConnStates, WaitsForClient, OnThePhone, Replies, Errors
<1>4. PhoneIsExclusive'
  BY <1>1, <1>2, PhoneFrame
  DEF TypeOK, PhoneIsExclusive, NotifyProgress, Goto, phoneVars, anisetteVars, connVars,
      OnThePhone
<1>5. AnisetteIsExclusive'
  BY <1>1, <1>2, AnisetteFrame
  DEF TypeOK, NotifyProgress, Goto, phoneVars, anisetteVars, connVars, OnThePhone
<1>6. ConversationFits'
  BY <1>1, NoRequestKind, InstallIsARequest
  DEF TypeOK, ConversationFits, NotifyProgress, Goto, phoneVars, anisetteVars, connVars,
      WithoutRequest, WithPhoneRequest, OnThePhone
<1>7. EffectsFit'
  BY <1>1, <1>2, EffectsFrame
  DEF TypeOK, NotifyProgress, Goto, phoneVars, anisetteVars, connVars, OnThePhone
<1>8. QED
  BY <1>3, <1>4, <1>5, <1>6, <1>7 DEF AltInv

\* The installation goes on.
LEMMA NotifiedInv ==
  ASSUME AltInv, NEW c \in Conns, Notified(c)
  PROVE  AltInv'
<1>1. TypeOK /\ PhoneIsExclusive /\ AnisetteIsExclusive /\ ConversationFits /\ EffectsFit
  BY DEF AltInv
<1>2. \A d \in Conns \ {c} : pc'[d] = pc[d]
  BY <1>1 DEF TypeOK, Notified, Goto, phoneVars, anisetteVars, connVars
<1>3. TypeOK'
  BY <1>1, RequestProfiles, InstallIsARequest
  DEF TypeOK, ConversationFits, Notified, Goto, phoneVars, anisetteVars, connVars,
      ConnStates, WaitsForClient, OnThePhone, Replies, Errors
<1>4. PhoneIsExclusive'
  BY <1>1, <1>2, PhoneFrame
  DEF TypeOK, PhoneIsExclusive, Notified, Goto, phoneVars, anisetteVars, connVars,
      OnThePhone
<1>5. AnisetteIsExclusive'
  BY <1>1, <1>2, AnisetteFrame
  DEF TypeOK, Notified, Goto, phoneVars, anisetteVars, connVars, OnThePhone
<1>6. ConversationFits'
  BY <1>1, NoRequestKind, InstallIsARequest
  DEF TypeOK, ConversationFits, Notified, Goto, phoneVars, anisetteVars, connVars,
      WithoutRequest, WithPhoneRequest, OnThePhone
<1>7. EffectsFit'
  BY <1>1, <1>2
  DEF TypeOK, Notified, Goto, phoneVars, anisetteVars, connVars, OnThePhone, EffectsFit,
      PhoneIsExclusive, ConversationFits
<1>8. QED
  BY <1>3, <1>4, <1>5, <1>6, <1>7 DEF AltInv

\* The request is done and the phone is left.
LEMMA PhoneDoneInv ==
  ASSUME AltInv, NEW c \in Conns, PhoneDone(c)
  PROVE  AltInv'
<1>1. TypeOK /\ PhoneIsExclusive /\ AnisetteIsExclusive /\ ConversationFits /\ EffectsFit
  BY DEF AltInv
<1>2. \A d \in Conns \ {c} : pc'[d] = pc[d]
  BY <1>1 DEF TypeOK, PhoneDone, Goto, LeavePhone, Answer, phoneVars, anisetteVars, connVars
<1>3. TypeOK'
  BY <1>1, RequestProfiles, InstallIsARequest
  DEF TypeOK, ConversationFits, PhoneDone, Goto, LeavePhone, Answer, phoneVars,
      anisetteVars, connVars, ConnStates, WaitsForClient, OnThePhone, Replies, Errors
<1>4. PhoneIsExclusive'
  BY <1>1, <1>2, PhoneLeft
  DEF TypeOK, PhoneIsExclusive, PhoneDone, Goto, LeavePhone, Answer, phoneVars,
      anisetteVars, connVars, OnThePhone
<1>5. AnisetteIsExclusive'
  BY <1>1, <1>2, AnisetteFrame
  DEF TypeOK, PhoneDone, Goto, LeavePhone, Answer, phoneVars, anisetteVars, connVars,
      OnThePhone
<1>6. ConversationFits'
  BY <1>1, NoRequestKind, InstallIsARequest
  DEF TypeOK, ConversationFits, PhoneDone, Goto, LeavePhone, Answer, phoneVars,
      anisetteVars, connVars, WithoutRequest, WithPhoneRequest, OnThePhone
<1>7. EffectsFit'
  BY <1>1, <1>2, EffectsFrame
  DEF TypeOK, PhoneDone, Goto, LeavePhone, Answer, phoneVars, anisetteVars, connVars,
      OnThePhone
<1>8. QED
  BY <1>3, <1>4, <1>5, <1>6, <1>7 DEF AltInv

\* The request failed and the phone is left.
LEMMA PhoneFailsInv ==
  ASSUME AltInv, NEW c \in Conns, PhoneFails(c)
  PROVE  AltInv'
<1>1. TypeOK /\ PhoneIsExclusive /\ AnisetteIsExclusive /\ ConversationFits /\ EffectsFit
  BY DEF AltInv
<1>2. \A d \in Conns \ {c} : pc'[d] = pc[d]
  BY <1>1 DEF TypeOK, PhoneFails, Goto, LeavePhone, Answer, phoneVars, anisetteVars, connVars
<1>3. TypeOK'
  BY <1>1, RequestProfiles, InstallIsARequest
  DEF TypeOK, ConversationFits, PhoneFails, Goto, LeavePhone, Answer, phoneVars,
      anisetteVars, connVars, ConnStates, WaitsForClient, OnThePhone, Replies, Errors
<1>4. PhoneIsExclusive'
  BY <1>1, <1>2, PhoneLeft
  DEF TypeOK, PhoneIsExclusive, PhoneFails, Goto, LeavePhone, Answer, phoneVars,
      anisetteVars, connVars, OnThePhone
<1>5. AnisetteIsExclusive'
  BY <1>1, <1>2, AnisetteFrame
  DEF TypeOK, PhoneFails, Goto, LeavePhone, Answer, phoneVars, anisetteVars, connVars,
      OnThePhone
<1>6. ConversationFits'
  BY <1>1, NoRequestKind, InstallIsARequest
  DEF TypeOK, ConversationFits, PhoneFails, Goto, LeavePhone, Answer, phoneVars,
      anisetteVars, connVars, WithoutRequest, WithPhoneRequest, OnThePhone
<1>7. EffectsFit'
  BY <1>1, <1>2, EffectsFrame
  DEF TypeOK, PhoneFails, Goto, LeavePhone, Answer, phoneVars, anisetteVars, connVars,
      OnThePhone
<1>8. QED
  BY <1>3, <1>4, <1>5, <1>6, <1>7 DEF AltInv

\* A thread that dies leaves what it had, the phone or the cache.
LEMMA DieInv ==
  ASSUME AltInv, NEW c \in Conns, Die(c)
  PROVE  AltInv'
<1>1. TypeOK /\ PhoneIsExclusive /\ AnisetteIsExclusive /\ ConversationFits /\ EffectsFit
  BY DEF AltInv
<1>2. \A d \in Conns \ {c} : pc'[d] = pc[d]
  BY <1>1 DEF TypeOK, Die, Goto, Forget, phoneVars, anisetteVars, connVars
<1>3. TypeOK'
  BY <1>1, RequestProfiles, InstallIsARequest
  DEF TypeOK, ConversationFits, Die, Goto, Forget, phoneVars, anisetteVars, connVars,
      ConnStates, WaitsForClient, OnThePhone, Replies, Errors
<1>4. PhoneIsExclusive'
  BY <1>1, <1>2, NobodyIsNoConnection
  DEF TypeOK, PhoneIsExclusive, Die, Goto, Forget, phoneVars, anisetteVars, connVars,
      OnThePhone
<1>5. AnisetteIsExclusive'
  BY <1>1, <1>2, NobodyIsNoConnection
  DEF TypeOK, Die, Goto, Forget, phoneVars, anisetteVars, connVars, OnThePhone,
      AnisetteIsExclusive
<1>6. ConversationFits'
  BY <1>1, NoRequestKind, InstallIsARequest
  DEF TypeOK, ConversationFits, Die, Goto, Forget, phoneVars, anisetteVars, connVars,
      WithoutRequest, WithPhoneRequest, OnThePhone
<1>7. EffectsFit'
  BY <1>1, <1>2, EffectsFrame
  DEF TypeOK, Die, Goto, Forget, phoneVars, anisetteVars, connVars, OnThePhone
<1>8. QED
  BY <1>3, <1>4, <1>5, <1>6, <1>7 DEF AltInv

\* The cache's age is nobody's business.
LEMMA CacheAgesInv == AltInv /\ CacheAges => AltInv'
  BY DEF AltInv, TypeOK, PhoneIsExclusive, AnisetteIsExclusive, ConversationFits, EffectsFit,
     CacheAges, phoneVars, connVars

\* What others do to the profiles is noted by whoever is on the phone.
LEMMA OthersChangeInv ==
  ASSUME AltInv, NEW p \in Profiles, NEW present \in BOOLEAN, OthersChange(p, present)
  PROVE  AltInv'
<1>1. TypeOK /\ PhoneIsExclusive /\ AnisetteIsExclusive /\ ConversationFits /\ EffectsFit
  BY DEF AltInv
<1>2. TypeOK'
  BY <1>1 DEF TypeOK, OthersChange, anisetteVars
<1>3. PhoneIsExclusive' /\ AnisetteIsExclusive'
  BY <1>1 DEF PhoneIsExclusive, AnisetteIsExclusive, OthersChange, anisetteVars
<1>4. ConversationFits'
  BY <1>1 DEF ConversationFits, OthersChange
<1>5. EffectsFit'
  <2> SUFFICES ASSUME NEW c \in Conns, pc[c] = "using"
               PROVE  EffectsFit!(c)'
    BY DEF EffectsFit, OthersChange
  <2>1. others'[c] = others[c] \union {p}
    BY DEF OthersChange, OnThePhone
  <2>2. profiles' \ {p} = profiles \ {p}
    BY DEF OthersChange
  <2>3. QED
    BY <1>1, <2>1, <2>2 DEF EffectsFit, OthersChange
<1>6. QED
  BY <1>2, <1>3, <1>4, <1>5 DEF AltInv

\* At the start nobody is connected.
LEMMA AltInitInv == Init => AltInv
<1> SUFFICES ASSUME Init PROVE AltInv
  OBVIOUS
<1>1. TypeOK
  BY DEF Init, TypeOK, ConnStates, WaitsForClient, OnThePhone, Replies
<1>2. PhoneIsExclusive /\ AnisetteIsExclusive
  BY NobodyIsNoConnection DEF Init, PhoneIsExclusive, AnisetteIsExclusive, OnThePhone
<1>3. ConversationFits /\ EffectsFit
  BY DEF Init, ConversationFits, EffectsFit, WithoutRequest, WithPhoneRequest, OnThePhone
<1>4. QED
  BY <1>1, <1>2, <1>3 DEF AltInv

\* Every step of every connection keeps AltInv.
LEMMA AltStepInv == AltInv /\ [Next]_vars => AltInv'
<1> SUFFICES ASSUME AltInv, [Next]_vars PROVE AltInv'
  OBVIOUS
<1>1. ASSUME NEW c \in Conns, ClientStep(c) PROVE AltInv'
  BY <1>1, ReadEndsInv, ReadBadJsonInv, ReadImmediateInv, ReadAnisetteRequestInv,
     ReadPhoneRequestInv, ReadPrepareInv, ReadAppInv, ReadBeginInv, RefuseAppInv
  DEF ClientStep
<1>2. ASSUME NEW c \in Conns, ServerStep(c) PROVE AltInv'
  BY <1>2, ReplyInv, PartInv, LockCacheInv, ServeFromCacheInv, GenerateInv, GeneratedInv,
     LinkFailsInv, ListFailsInv, LinkInv, ListedInv, InstallProfileInv, RemoveProfileInv,
     NotifyProgressInv, NotifiedInv, PhoneDoneInv, PhoneFailsInv, DieInv
  DEF ServerStep, TimelyStep
<1>3. CASE UNCHANGED vars
  BY <1>3 DEF AltInv, TypeOK, PhoneIsExclusive, AnisetteIsExclusive, ConversationFits,
     EffectsFit, vars, connVars, phoneVars, anisetteVars
<1>4. QED
  BY <1>1, <1>2, <1>3, ConnectInv, TakePhoneInv, CacheAgesInv, OthersChangeInv DEF Next

-----------------------------------------------------------------------------
(* What follows                                                            *)

\* The connections' inductive invariant (src/src/altserver.rs).
THEOREM AltInvHolds == SafeSpec => []AltInv
  BY AltInitInv, AltStepInv, PTL DEF SafeSpec

\* The server's state is well formed.
THEOREM TypeCorrect == SafeSpec => []TypeOK
<1>1. AltInv => TypeOK
  BY DEF AltInv
<1>2. QED
  BY <1>1, AltInvHolds, PTL

\* One operation at a time on the phone, for any number of connections.
THEOREM PhoneIsExclusiveHolds == SafeSpec => []PhoneIsExclusive
<1>1. AltInv => PhoneIsExclusive
  BY DEF AltInv
<1>2. QED
  BY <1>1, AltInvHolds, PTL

\* One generation of anisette data at a time, and each who waits for it is in
\* the queue once.
THEOREM AnisetteIsExclusiveHolds == SafeSpec => []AnisetteIsExclusive
<1>1. AltInv => AnisetteIsExclusive
  BY DEF AltInv
<1>2. QED
  BY <1>1, AltInvHolds, PTL

\* No connection keeps a lock while it waits for its client.
THEOREM WaitingHoldsNothingHolds == SafeSpec => []WaitingHoldsNothing
<1>1. AltInv => WaitingHoldsNothing
  BY DEF AltInv, PhoneIsExclusive, AnisetteIsExclusive, WaitingHoldsNothing, WaitsForClient,
     OnThePhone
<1>2. QED
  BY <1>1, AltInvHolds, PTL

\* AltStore is told of a complete installation only when it is complete.
THEOREM CompletionIsRealHolds == SafeSpec => []CompletionIsReal
<1>1. AltInv => CompletionIsReal
  BY DEF AltInv, TypeOK, ConversationFits, CompletionIsReal
<1>2. QED
  BY <1>1, AltInvHolds, PTL

\* A connection ends its work on the phone, with the answer "done", in PhoneDone
\* only.
LEMMA OnlyPhoneDoneFinishes ==
  ASSUME AltInv, [Next]_vars, NEW c \in Conns, pc[c] = "using", pc'[c] = "replying",
         reply'[c] = "done"
  PROVE  PhoneDone(c)
<1>1. ASSUME NEW d \in Conns, d # c, Connect(d) \/ ClientStep(d) \/ TakePhone(d) \/ ServerStep(d)
      PROVE  pc'[c] = pc[c]
  BY <1>1 DEF AltInv, TypeOK, Connect, ClientStep, TakePhone, ServerStep, TimelyStep,
     NotifyProgress, Notified, ReadEnds, ReadBadJson, ReadImmediate, ReadAnisetteRequest,
     ReadPhoneRequest, ReadPrepare, ReadApp, ReadBegin, RefuseApp, Reply, Part, LockCache,
     ServeFromCache, Generate, Generated, LinkFails, ListFails, Link, Listed, InstallProfile,
     RemoveProfile, PhoneDone, PhoneFails, Die, Goto, Answer, LeavePhone
<1>2. ASSUME Connect(c) \/ ClientStep(c) \/ TakePhone(c)
      PROVE  FALSE
  BY <1>2 DEF Connect, ClientStep, TakePhone, ReadEnds, ReadBadJson, ReadImmediate,
     ReadAnisetteRequest, ReadPhoneRequest, ReadPrepare, ReadApp, ReadBegin, RefuseApp, Goto
<1>3. ASSUME ServerStep(c) PROVE PhoneDone(c)
  BY <1>3 DEF AltInv, TypeOK, ServerStep, TimelyStep, Reply, Part, LockCache, ServeFromCache,
     Generate, Generated, LinkFails, ListFails, Link, Listed, InstallProfile, RemoveProfile,
     NotifyProgress, Notified, PhoneFails, Die, Goto, Answer, LeavePhone
<1>4. QED
  BY <1>1, <1>2, <1>3
  DEF Next, CacheAges, OthersChange, vars, connVars

\* A request to install profiles is answered well only if all of them are on
\* the phone, but for those that somebody else changed: no other connection did.
THEOREM InstalledWhenDoneHolds == SafeSpec => InstalledWhenDone
<1>1. AltInv /\ [Next]_vars =>
        [\A c \in Conns :
           Finishes(c, "installProfiles") =>
             request[c].profiles \ others[c] \subseteq profiles']_vars
  <2> SUFFICES ASSUME AltInv, [Next]_vars, NEW c \in Conns, Finishes(c, "installProfiles")
               PROVE  request[c].profiles \ others[c] \subseteq profiles'
    OBVIOUS
  <2>1. PhoneDone(c)
    BY OnlyPhoneDoneFinishes DEF Finishes
  <2>2. QED
    BY <2>1 DEF AltInv, EffectsFit, PhoneDone, Finishes
<1>2. QED
  BY <1>1, AltInvHolds, PTL DEF SafeSpec, InstalledWhenDone

\* A request to remove profiles is answered well only if the phone has none of
\* them left but those it refused to remove, and those that a renewal or another
\* process, which know no WORK, changed in the meantime.
THEOREM RemovedWhenDoneHolds == SafeSpec => RemovedWhenDone
<1>1. AltInv /\ [Next]_vars =>
        [\A c \in Conns :
           Finishes(c, "removeProfiles") =>
             (request[c].profiles \intersect profiles') \ others[c] \subseteq refused[c]]_vars
  <2> SUFFICES ASSUME AltInv, [Next]_vars, NEW c \in Conns, Finishes(c, "removeProfiles")
               PROVE  (request[c].profiles \intersect profiles') \ others[c] \subseteq refused[c]
    OBVIOUS
  <2>1. PhoneDone(c)
    BY OnlyPhoneDoneFinishes DEF Finishes
  <2>2. QED
    BY <2>1 DEF AltInv, EffectsFit, PhoneDone, Finishes
<1>2. QED
  BY <1>1, AltInvHolds, PTL DEF SafeSpec, RemovedWhenDone

\* The lock of the phone changes hands as the abstract lock does.
LEMMA WorkChanges ==
  ASSUME AltInv, [Next]_vars
  PROVE  PhoneLock!Next \/ work' = work
<1>1. ASSUME NEW c \in Conns, ServerStep(c) PROVE PhoneLock!Release(c) \/ work' = work
  <2>1. CASE Die(c)
    BY <2>1 DEF Die, PhoneLock!Release
  <2>2. CASE LinkFails(c) \/ ListFails(c) \/ PhoneDone(c) \/ PhoneFails(c)
    BY <2>2 DEF AltInv, PhoneIsExclusive, OnThePhone, LinkFails, ListFails, PhoneDone,
       PhoneFails, LeavePhone, PhoneLock!Release
  <2>3. QED
    BY <1>1, <2>1, <2>2
    DEF ServerStep, TimelyStep, Reply, Part, LockCache, ServeFromCache, Generate, Generated,
        Link, Listed, InstallProfile, RemoveProfile, NotifyProgress, Notified, phoneVars
<1>2. ASSUME NEW c \in Conns, TakePhone(c) PROVE PhoneLock!Acquire(c)
  BY <1>2 DEF TakePhone, PhoneLock!Acquire
<1>3. ASSUME NEW c \in Conns, Connect(c) \/ ClientStep(c)
      PROVE  work' = work
  BY <1>3 DEF Connect, ClientStep, ReadEnds, ReadBadJson, ReadImmediate,
     ReadAnisetteRequest, ReadPhoneRequest, ReadPrepare, ReadApp, ReadBegin, RefuseApp, phoneVars
<1>4. QED
  BY <1>1, <1>2, <1>3 DEF Next, CacheAges, OthersChange, vars, phoneVars, PhoneLock!Next

\* WORK is the abstract lock: taken when free, given back by the connection that
\* took it, a panic included.
THEOREM ImplementsWorkLockHolds == SafeSpec => ImplementsWorkLock
<1>1. Init => PhoneLock!Init
  BY DEF Init, PhoneLock!Init
<1>2. AltInv /\ [Next]_vars => [PhoneLock!Next]_work
  BY WorkChanges
<1>3. QED
  BY <1>1, <1>2, AltInvHolds, PTL DEF SafeSpec, ImplementsWorkLock, PhoneLock!Spec

=============================================================================
