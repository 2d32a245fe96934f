-------------------------- MODULE PhoneSearchProofs --------------------------
(***************************************************************************)
(* What the searches for the phone keep, for every number of them, every   *)
(* network and every way the phone moves.                                  *)
(***************************************************************************)
EXTENDS PhoneSearch, TLAPS

\* The records that describe a search.
SearchRecords ==
  [at : SearchStates, given : Addresses \union {None}, port : Ports, round : 0..Rounds,
   todo : SUBSET Addresses, tried : SUBSET Addresses, link : Addresses \union {None}]

\* A search that has not begun, and one that is over, has nothing behind it and
\* nothing ahead.
LEMMA EndedSearch ==
  ASSUME NEW at \in SearchStates
  PROVE  /\ Ended(at) \in SearchRecords
         /\ Ended(at).at = at /\ Ended(at).todo = {} /\ Ended(at).tried = {}
         /\ Ended(at).round = 0 /\ Ended(at).port = UsualPort
  BY DEF Ended, IdleSearch, SearchRecords, Ports, Rounds

\* What is known of the phone and of its addresses when a search takes a step
\* that leaves the file, the phone and the other searches alone.
LEMMA OneSearchSteps ==
  ASSUME SearchInv, NEW s \in Searches, NEW new \in SearchRecords,
         search' = [search EXCEPT ![s] = new],
         UNCHANGED <<phone, lastAddr, been>>,
         steady' \in [Searches -> BOOLEAN], steady'[s] => steady[s] \/ new.tried = {},
         \A q \in Searches \ {s} : steady'[q] = steady[q],
         new.at # "saving", new.at = "known" => new.round = 0,
         new.todo \intersect new.tried = {},
         steady'[s] =>
           /\ phone \notin new.tried
           /\ new.at = "looking" /\ new.round > 1 /\ phone \in Listening(new.port) =>
                phone \in new.todo
           /\ new.at = "failed" =>
                phone = None \/ HostOf(phone) \notin Lan \/ PortOf(phone) # new.port
  PROVE  SearchInv'
<1>1. search' \in [Searches -> SearchRecords] /\ search'[s] = new
        /\ \A q \in Searches \ {s} : search'[q] = search[q]
  BY DEF SearchInv, TypeOK, SearchRecords
<1>2. TypeOK'
  BY <1>1 DEF SearchInv, TypeOK, SearchRecords
<1>3. TriedOnce' /\ KnownComesFirst'
  BY <1>1 DEF SearchInv, TriedOnce, KnownComesFirst
<1>4. RemembersOurPhone' /\ (phone # None => phone \in been)'
  BY <1>1 DEF SearchInv, RemembersOurPhone
<1>5. SteadyPhoneIsAhead'
  BY <1>1 DEF SearchInv, SteadyPhoneIsAhead, Listening
<1>6. SteadyPhoneIsFound'
  BY <1>1 DEF SearchInv, SteadyPhoneIsFound
<1>7. QED
  BY <1>2, <1>3, <1>4, <1>5, <1>6 DEF SearchInv

-----------------------------------------------------------------------------
(* The steps                                                               *)

\* A search begins with nothing behind it.
LEMMA BeginInv ==
  ASSUME SearchInv, NEW s \in Searches, NEW given \in Addresses \union {None}, Begin(s, given)
  PROVE  SearchInv'
<1> DEFINE known == {given, lastAddr} \ {None}
<1> DEFINE new == [IdleSearch EXCEPT !.at = "known", !.given = given, !.todo = known]
<1>1. known \in SUBSET Addresses
  BY DEF SearchInv, TypeOK
<1>2. IdleSearch \in SearchRecords /\ IdleSearch.tried = {} /\ IdleSearch.round = 0
  BY DEF IdleSearch, SearchRecords, SearchStates, Resting, Ports, Rounds
<1>3. search' = [search EXCEPT ![s] = new] /\ UNCHANGED <<phone, lastAddr, been>>
  BY DEF Begin
<1>4. steady' \in [Searches -> BOOLEAN] /\ \A q \in Searches \ {s} : steady'[q] = steady[q]
  BY DEF Begin, SearchInv, TypeOK
<1> HIDE DEF known
<1>5. new \in SearchRecords /\ new.at = "known" /\ new.tried = {} /\ new.round = 0
  <2>1. "known" \in SearchStates
    BY DEF SearchStates
  <2>2. QED
    BY <1>1, <1>2, <2>1 DEF SearchRecords
<1> HIDE DEF new
<1>6. QED
  BY <1>3, <1>4, <1>5, OneSearchSteps

\* An address more is behind the search; if it was the phone's, the phone did
\* not answer in time.
LEMMA TryFailsInv ==
  ASSUME SearchInv, NEW s \in Searches, NEW a \in Addresses, TryFails(s, a)
  PROVE  SearchInv'
<1>1. a \in search[s].todo
  BY DEF TryFails, NextTries
<1>2. search[s] \in SearchRecords
  BY DEF SearchInv, TypeOK, SearchRecords
<1>3. /\ Tried(s, a) \in SearchRecords
      /\ Tried(s, a).at = search[s].at /\ Tried(s, a).at \in {"known", "looking"}
      /\ Tried(s, a).todo = search[s].todo \ {a}
      /\ Tried(s, a).tried = search[s].tried \union {a}
      /\ Tried(s, a).round = search[s].round /\ Tried(s, a).port = search[s].port
  BY <1>2 DEF TryFails, Tried, SearchRecords
<1>4. search' = [search EXCEPT ![s] = Tried(s, a)] /\ UNCHANGED <<phone, lastAddr, been>>
  BY DEF TryFails
<1>5. /\ steady' \in [Searches -> BOOLEAN]
      /\ \A q \in Searches \ {s} : steady'[q] = steady[q]
      /\ steady'[s] = (steady[s] /\ a # phone)
  BY DEF TryFails, SearchInv, TypeOK
<1>6. /\ Tried(s, a).todo \intersect Tried(s, a).tried = {}
      /\ Tried(s, a).at = "known" => Tried(s, a).round = 0
  BY <1>3 DEF SearchInv, TriedOnce, KnownComesFirst
<1>7. steady'[s] =>
        /\ phone \notin Tried(s, a).tried
        /\ Tried(s, a).at = "looking" /\ Tried(s, a).round > 1
              /\ phone \in Listening(Tried(s, a).port) =>
             phone \in Tried(s, a).todo
  BY <1>3, <1>5 DEF SearchInv, SteadyPhoneIsAhead
<1>8. QED
  BY <1>3, <1>4, <1>5, <1>6, <1>7, OneSearchSteps

\* The phone answered: where it is, it has been, and that may be written down.
LEMMA TrySucceedsInv ==
  ASSUME SearchInv, NEW s \in Searches, NEW a \in Addresses, TrySucceeds(s, a)
  PROVE  SearchInv'
<1> DEFINE new == IF lastAddr = a THEN Ended("found") ELSE [Ended("saving") EXCEPT !.link = a]
<1> DEFINE record(at, link) ==
             [at |-> at, given |-> None, port |-> UsualPort, round |-> 0,
              todo |-> {}, tried |-> {}, link |-> link]
<1>0. new = record("found", None) \/ new = record("saving", a)
  BY DEF Ended, IdleSearch
<1>1. new \in SearchRecords /\ new.todo = {} /\ new.tried = {} /\ new.at \in {"found", "saving"}
        /\ (new.at = "saving" => new.link = a)
  <2> HIDE DEF new
  <2>1. QED
    BY <1>0 DEF SearchRecords, SearchStates, Resting, Ports, Rounds
<1>2. search' = [search EXCEPT ![s] = new] /\ UNCHANGED <<phone, been, steady>>
  BY DEF TrySucceeds
<1>3. lastAddr' \in {lastAddr, None} /\ a = phone
  BY DEF TrySucceeds
<1> HIDE DEF new
<1>4. search' \in [Searches -> SearchRecords] /\ search'[s] = new
        /\ \A q \in Searches \ {s} : search'[q] = search[q]
  BY <1>1, <1>2 DEF SearchInv, TypeOK, SearchRecords
<1>5. TypeOK'
  BY <1>2, <1>3, <1>4 DEF SearchInv, TypeOK, SearchRecords
<1>6. TriedOnce' /\ KnownComesFirst'
  BY <1>1, <1>4 DEF SearchInv, TriedOnce, KnownComesFirst
<1>7. RemembersOurPhone' /\ (phone # None => phone \in been)'
  BY <1>1, <1>2, <1>3, <1>4, NoneIsNoAddress DEF SearchInv, RemembersOurPhone
<1>8. SteadyPhoneIsAhead' /\ SteadyPhoneIsFound'
  BY <1>1, <1>2, <1>4 DEF SearchInv, SteadyPhoneIsAhead, SteadyPhoneIsFound, Listening
<1>9. QED
  BY <1>5, <1>6, <1>7, <1>8 DEF SearchInv

\* What is written is where the phone was.
LEMMA SaveInv ==
  ASSUME SearchInv, NEW s \in Searches, Save(s)
  PROVE  SearchInv'
<1>1. "found" \in SearchStates
  BY DEF SearchStates, Resting
<1>2. search' \in [Searches -> SearchRecords] /\ search'[s] = Ended("found")
        /\ \A q \in Searches \ {s} : search'[q] = search[q]
  BY <1>1, EndedSearch DEF Save, SearchInv, TypeOK, SearchRecords
<1>3. lastAddr' \in been
  BY DEF Save, SearchInv, RemembersOurPhone
<1>4. UNCHANGED <<phone, been, steady>>
  BY DEF Save
<1>5. TypeOK'
  BY <1>2, <1>3, <1>4 DEF SearchInv, TypeOK, SearchRecords
<1>6. TriedOnce' /\ KnownComesFirst'
  BY <1>1, <1>2, EndedSearch DEF SearchInv, TriedOnce, KnownComesFirst
<1>7. RemembersOurPhone' /\ (phone # None => phone \in been)'
  BY <1>1, <1>2, <1>3, <1>4, EndedSearch DEF SearchInv, RemembersOurPhone
<1>8. SteadyPhoneIsAhead' /\ SteadyPhoneIsFound'
  BY <1>1, <1>2, <1>4, EndedSearch
  DEF SearchInv, SteadyPhoneIsAhead, SteadyPhoneIsFound, Listening
<1>9. QED
  BY <1>5, <1>6, <1>7, <1>8 DEF SearchInv

\* The search of the network begins, at round 0.
LEMMA ReadPortInv ==
  ASSUME SearchInv, NEW s \in Searches, ReadPort(s)
  PROVE  SearchInv'
<1> DEFINE port == IF lastAddr = None THEN UsualPort ELSE PortOf(lastAddr)
<1> DEFINE new == [search[s] EXCEPT !.at = "looking", !.port = port]
<1>1. port \in Ports
  BY DEF Ports, SearchInv, TypeOK
<1>2. search[s] \in SearchRecords
  BY DEF SearchInv, TypeOK, SearchRecords
<1>3. /\ new \in SearchRecords
      /\ new.at = "looking" /\ new.todo = {} /\ new.tried = search[s].tried
      /\ new.round = search[s].round
  BY <1>1, <1>2 DEF SearchRecords, SearchStates, ReadPort
<1>4. search' = [search EXCEPT ![s] = new] /\ UNCHANGED <<phone, lastAddr, been, steady>>
  BY <1>2 DEF ReadPort, SearchInv, TypeOK, SearchRecords
<1>5. new.round = 0
  BY <1>3 DEF ReadPort, SearchInv, KnownComesFirst
<1> HIDE DEF new, port
<1>6. steady \in [Searches -> BOOLEAN] /\ (steady[s] => phone \notin new.tried)
  BY <1>3 DEF SearchInv, TypeOK, SteadyPhoneIsAhead
<1>7. new.todo \intersect new.tried = {} /\ ~(new.round > 1)
  BY <1>3, <1>5
<1>8. QED
  BY <1>3, <1>4, <1>6, <1>7, OneSearchSteps

\* A Bonjour round: what was tried is left out.  Before the third one a steady
\* phone that the scan saw would still be ahead.
LEMMA DiscoverInv ==
  ASSUME SearchInv, NEW s \in Searches, NEW answers \in SUBSET Addresses, Discover(s, answers)
  PROVE  SearchInv'
<1>1. search[s] \in SearchRecords /\ search[s].at = "looking" /\ search[s].todo = {}
        /\ search[s].round \in {0, 2}
  BY DEF SearchInv, TypeOK, SearchRecords, Discover
<1>2. /\ Looked(s, answers) \in SearchRecords
      /\ Looked(s, answers).at = "looking"
      /\ Looked(s, answers).todo = answers \ search[s].tried
      /\ Looked(s, answers).tried = search[s].tried
      /\ Looked(s, answers).round = search[s].round + 1
      /\ Looked(s, answers).port = search[s].port
  <2>1. search[s].round + 1 \in 0..Rounds
    BY <1>1 DEF Rounds
  <2>2. QED
    BY <1>1, <2>1 DEF Looked, SearchRecords
<1>3. search' = [search EXCEPT ![s] = Looked(s, answers)]
        /\ UNCHANGED <<phone, lastAddr, been, steady>>
  BY DEF Discover
<1>4. steady \in [Searches -> BOOLEAN]
  BY DEF SearchInv, TypeOK
<1>5. steady[s] =>
        /\ phone \notin search[s].tried
        /\ search[s].round = 2 => phone \notin Listening(search[s].port)
  BY <1>1 DEF SearchInv, SteadyPhoneIsAhead
<1>6. Looked(s, answers).todo \intersect Looked(s, answers).tried = {}
  BY <1>2
<1>7. steady[s] =>
        /\ phone \notin Looked(s, answers).tried
        /\ Looked(s, answers).round > 1 => phone \notin Listening(Looked(s, answers).port)
  BY <1>1, <1>2, <1>5
<1>8. QED
  BY <1>2, <1>3, <1>4, <1>6, <1>7, OneSearchSteps

\* The scan: a phone that listens and is not slow is ahead, unless it was tried,
\* and then it is not steady.
LEMMA ScanInv ==
  ASSUME SearchInv, NEW s \in Searches, NEW slow \in SUBSET Listening(search[s].port),
         Scan(s, slow)
  PROVE  SearchInv'
<1> DEFINE found == Listening(search[s].port) \ slow
<1>1. search[s] \in SearchRecords /\ search[s].at = "looking" /\ search[s].todo = {}
        /\ search[s].round = 1
  BY DEF SearchInv, TypeOK, SearchRecords, Scan
<1>2. found \in SUBSET Addresses
  BY StrangersAreAddresses DEF Listening, SearchInv, TypeOK
<1>3. /\ Looked(s, found) \in SearchRecords
      /\ Looked(s, found).at = "looking"
      /\ Looked(s, found).todo = found \ search[s].tried
      /\ Looked(s, found).tried = search[s].tried
      /\ Looked(s, found).port = search[s].port
  <2>1. search[s].round + 1 \in 0..Rounds
    BY <1>1 DEF Rounds
  <2>2. QED
    BY <1>1, <1>2, <2>1 DEF Looked, SearchRecords
<1>4. search' = [search EXCEPT ![s] = Looked(s, found)] /\ UNCHANGED <<phone, lastAddr, been>>
  BY DEF Scan
<1>5. /\ steady' \in [Searches -> BOOLEAN]
      /\ \A q \in Searches \ {s} : steady'[q] = steady[q]
      /\ steady'[s] = (steady[s] /\ phone \notin slow)
  BY DEF Scan, SearchInv, TypeOK
<1>6. steady[s] => phone \notin search[s].tried
  BY DEF SearchInv, SteadyPhoneIsAhead
<1>7. QED
  BY <1>3, <1>4, <1>5, <1>6, OneSearchSteps

\* A search gives up with nothing ahead: a steady phone that the scan can see is
\* not on the network.
LEMMA NotFoundInv ==
  ASSUME SearchInv, NEW s \in Searches, NotFound(s)
  PROVE  SearchInv'
<1> DEFINE new == [Ended("failed") EXCEPT !.port = search[s].port]
<1>1. search[s].port \in Ports
  BY DEF SearchInv, TypeOK
<1>2. new \in SearchRecords /\ new.at = "failed" /\ new.todo = {} /\ new.tried = {}
        /\ new.port = search[s].port
  <2>1. "failed" \in SearchStates
    BY DEF SearchStates, Resting
  <2>2. QED
    BY <1>1, <2>1, EndedSearch DEF SearchRecords
<1>3. search' = [search EXCEPT ![s] = new] /\ UNCHANGED <<phone, lastAddr, been, steady>>
  BY DEF NotFound
<1>4. steady[s] => phone \notin Listening(search[s].port)
  BY DEF NotFound, Rounds, SearchInv, SteadyPhoneIsAhead
<1>5. steady[s] => phone = None \/ HostOf(phone) \notin Lan \/ PortOf(phone) # new.port
  BY <1>2, <1>4 DEF Listening
<1>6. steady \in [Searches -> BOOLEAN]
  BY DEF SearchInv, TypeOK
<1> HIDE DEF new
<1>7. QED
  BY <1>2, <1>3, <1>5, <1>6, OneSearchSteps

\* A search that is stopped leaves nothing behind but the file, which may be
\* empty.
LEMMA StopInv ==
  ASSUME SearchInv, NEW s \in Searches, Stop(s)
  PROVE  SearchInv'
<1>1. IdleSearch \in SearchRecords /\ IdleSearch.at = "idle" /\ IdleSearch.todo = {}
        /\ IdleSearch.tried = {}
  BY DEF IdleSearch, SearchRecords, SearchStates, Resting, Ports, Rounds
<1>2. search' = [search EXCEPT ![s] = IdleSearch] /\ UNCHANGED <<phone, lastAddr, been, steady>>
  BY DEF Stop
<1>3. steady \in [Searches -> BOOLEAN]
  BY DEF SearchInv, TypeOK
<1>4. QED
  BY <1>1, <1>2, <1>3, OneSearchSteps

\* A phone that moves is steady for nobody.
LEMMA MoveInv ==
  ASSUME SearchInv, NEW a \in (Addresses \ Strangers) \union {None}, Move(a)
  PROVE  SearchInv'
  BY DEF SearchInv, TypeOK, TriedOnce, RemembersOurPhone, KnownComesFirst, SteadyPhoneIsAhead,
     SteadyPhoneIsFound, Move

-----------------------------------------------------------------------------
(* What follows                                                            *)

\* At the start nobody searches.
LEMMA SearchInitInv == Init => SearchInv
<1> SUFFICES ASSUME Init PROVE SearchInv
  OBVIOUS
<1>1. TypeOK
  BY DEF Init, TypeOK, IdleSearch, SearchStates, Resting, Ports, Rounds
<1>2. TriedOnce /\ RemembersOurPhone /\ KnownComesFirst /\ (phone # None => phone \in been)
  BY DEF Init, IdleSearch, TriedOnce, RemembersOurPhone, KnownComesFirst
<1>3. SteadyPhoneIsAhead /\ SteadyPhoneIsFound
  BY DEF Init, SteadyPhoneIsAhead, SteadyPhoneIsFound
<1>4. QED
  BY <1>1, <1>2, <1>3 DEF SearchInv

\* Every step of every search, and every move of the phone, keeps SearchInv.
LEMMA SearchStepInv == SearchInv /\ [Next]_vars => SearchInv'
<1> SUFFICES ASSUME SearchInv, [Next]_vars PROVE SearchInv'
  OBVIOUS
<1>1. ASSUME NEW s \in Searches, Step(s) PROVE SearchInv'
  BY <1>1, TryFailsInv, TrySucceedsInv, SaveInv, ReadPortInv, DiscoverInv, ScanInv, NotFoundInv
  DEF Step
<1>2. CASE UNCHANGED vars
  BY <1>2 DEF vars, SearchInv, TypeOK, TriedOnce, RemembersOurPhone, KnownComesFirst, SteadyPhoneIsAhead,
     SteadyPhoneIsFound, Listening
<1>3. QED
  BY <1>1, <1>2, BeginInv, StopInv, MoveInv DEF Next

\* The inductive invariant of connect_auto (src/src/phone.rs).
THEOREM SearchInvHolds == SafeSpec => []SearchInv
  BY SearchInitInv, SearchStepInv, PTL DEF SafeSpec

\* The searches' state is well formed.
THEOREM TypeCorrect == SafeSpec => []TypeOK
<1>1. SearchInv => TypeOK
  BY DEF SearchInv
<1>2. QED
  BY <1>1, SearchInvHolds, PTL

\* No search tries an address twice.
THEOREM TriedOnceHolds == SafeSpec => []TriedOnce
<1>1. SearchInv => TriedOnce
  BY DEF SearchInv
<1>2. QED
  BY <1>1, SearchInvHolds, PTL

\* A phone that keeps still and answers in time, on the local network and with
\* the port of the scan, is found: Bonjour or no Bonjour, whoever else answers.
THEOREM SteadyPhoneIsFoundHolds == SafeSpec => []SteadyPhoneIsFound
<1>1. SearchInv => SteadyPhoneIsFound
  BY DEF SearchInv
<1>2. QED
  BY <1>1, SearchInvHolds, PTL

\* The file of the last address only ever holds addresses of our phone.
THEOREM RemembersOurPhoneHolds == SafeSpec => []RemembersOurPhone
<1>1. SearchInv => RemembersOurPhone
  BY DEF SearchInv
<1>2. QED
  BY <1>1, SearchInvHolds, PTL

=============================================================================
