----------------------------- MODULE PhoneSearch -----------------------------
(***************************************************************************)
(* How the program finds the iPhone: connect_auto (src/src/phone.rs) tries *)
(* the address it was given, the last one that worked (state/phone-addr),  *)
(* what Bonjour finds, what a scan of the local network finds, and what    *)
(* Bonjour finds once more.                                                *)
(*                                                                         *)
(* Searches of the web page, of the AltServer's connections and of cron    *)
(* run side by side and share only the file.  The phone moves, sleeps and  *)
(* wakes as it likes.  That the pairing file is missing, which ends a      *)
(* search before it starts, is left out.                                   *)
(***************************************************************************)
EXTENDS Naturals, FiniteSets

CONSTANTS
  Searches,    \* the searches that may run at the same time
  Addresses,   \* pairs of a host and a port
  Lan,         \* the hosts of the server's own /24
  UsualPort,   \* 49152
  Strangers,   \* addresses where another iPhone, or anything else, listens
  None         \* no address

ASSUME AddressesArePairs == \A a \in Addresses : a = <<a[1], a[2]>>
ASSUME StrangersAreAddresses == Strangers \subseteq Addresses
ASSUME NoneIsNoAddress == None \notin Addresses

HostOf(a) == a[1]
PortOf(a) == a[2]
Ports == {UsualPort} \union {PortOf(a) : a \in Addresses}

Rounds == 3   \* Bonjour, the scan, Bonjour

\* Nothing to do; trying the known addresses; searching; the phone answered and
\* the file is being written; and how the search ended.
Resting == {"idle", "found", "failed"}
SearchStates == Resting \union {"known", "looking", "saving"}

VARIABLES
  phone,      \* where the phone answers, or None
  lastAddr,   \* what state/phone-addr holds: an address, or None
  search,     \* each search: where it stands, the address it was given, the
              \* port it scans, the round, what it still has to try, what it
              \* tried and the address it connected to
  \* history, read by the properties only
  been,       \* where the phone has been
  steady      \* searches since whose start the phone has stayed where it is,
              \* and answered each time in time

vars == <<phone, lastAddr, search, been, steady>>

IdleSearch ==
  [at |-> "idle", given |-> None, port |-> UsualPort, round |-> 0,
   todo |-> {}, tried |-> {}, link |-> None]

Init ==
  /\ phone \in (Addresses \ Strangers) \union {None}
  /\ been = {phone} \ {None}
  /\ lastAddr \in been \union {None}
  /\ search = [s \in Searches |-> IdleSearch]
  /\ steady = [s \in Searches |-> FALSE]

-----------------------------------------------------------------------------
(* connect_auto                                                            *)

Begin(s, given) ==
  /\ search[s].at \in Resting
  /\ search' = [search EXCEPT ![s] =
       [IdleSearch EXCEPT !.at = "known", !.given = given, !.todo = {given, lastAddr} \ {None}]]
  /\ steady' = [steady EXCEPT ![s] = TRUE]
  /\ UNCHANGED <<phone, lastAddr, been>>

\* The address it was given comes before the last one; those that a round finds
\* come in any order.
NextTries(s) ==
  LET todo == search[s].todo IN
  IF search[s].at = "known" /\ search[s].given \in todo THEN {search[s].given} ELSE todo

\* One address more is behind this search.
Tried(s, a) == [search[s] EXCEPT !.todo = @ \ {a}, !.tried = @ \union {a}]

\* Mutation: the address is written down before the phone has answered.
TryFailsRemembered(s, a) ==
  /\ search[s].at \in {"known", "looking"}
  /\ a \in NextTries(s)
  /\ search' = [search EXCEPT ![s] = Tried(s, a)]
  /\ lastAddr' = a
  /\ steady' = [steady EXCEPT ![s] = @ /\ a # phone]
  /\ UNCHANGED <<phone, been>>

\* Nobody there, another phone, or ours, which does not answer in 12 seconds.
TryFails(s, a) ==
  /\ search[s].at \in {"known", "looking"}
  /\ a \in NextTries(s)
  /\ search' = [search EXCEPT ![s] = Tried(s, a)]
  /\ steady' = [steady EXCEPT ![s] = @ /\ a # phone]
  /\ UNCHANGED <<phone, lastAddr, been>>

\* What the search knew is forgotten.
Ended(at) == [IdleSearch EXCEPT !.at = at]

\* The phone recognises the pairing.  write_last_addr leaves a file that says
\* so already as it is; otherwise fs::write empties it first.
TrySucceeds(s, a) ==
  /\ search[s].at \in {"known", "looking"}
  /\ a \in NextTries(s) /\ a = phone
  /\ lastAddr' = IF lastAddr = a THEN lastAddr ELSE None
  /\ search' = [search EXCEPT ![s] =
       IF lastAddr = a THEN Ended("found") ELSE [Ended("saving") EXCEPT !.link = a]]
  /\ UNCHANGED <<phone, been, steady>>

Save(s) ==
  /\ search[s].at = "saving"
  /\ lastAddr' = search[s].link
  /\ search' = [search EXCEPT ![s] = Ended("found")]
  /\ UNCHANGED <<phone, been, steady>>

\* Mutation: unwrap_or_default, in place of the usual port.
ReadPortOrZero(s) ==
  /\ search[s].at = "known"
  /\ search[s].todo = {}
  /\ search' = [search EXCEPT ![s].at = "looking",
                              ![s].port = IF lastAddr = None THEN 0 ELSE PortOf(lastAddr)]
  /\ UNCHANGED <<phone, lastAddr, been, steady>>

\* The port to scan is that of the file, which is read once more.
ReadPort(s) ==
  /\ search[s].at = "known"
  /\ search[s].todo = {}
  /\ search' = [search EXCEPT ![s].at = "looking",
                              ![s].port = IF lastAddr = None THEN UsualPort ELSE PortOf(lastAddr)]
  /\ UNCHANGED <<phone, lastAddr, been, steady>>

\* Mutation: what was already tried is tried again.
LookedAgain(s, found) ==
  [search[s] EXCEPT !.todo = found, !.round = @ + 1]

\* Mutation: the step is not counted.
LookedUncounted(s, found) ==
  [search[s] EXCEPT !.todo = found \ search[s].tried, !.round = (@ + 1) % Rounds]

\* A round is over: what it found and was not tried yet comes next.
Looked(s, found) ==
  [search[s] EXCEPT !.todo = found \ search[s].tried, !.round = @ + 1]

\* The first and the third round.  Any answers: some get lost, others are of
\* another phone, or old.
Discover(s, answers) ==
  /\ search[s].at = "looking" /\ search[s].todo = {}
  /\ search[s].round \in {0, 2}
  /\ search' = [search EXCEPT ![s] = Looked(s, answers)]
  /\ UNCHANGED <<phone, lastAddr, been, steady>>

\* Who listens on the port, in the local network.
Listening(port) ==
  {a \in Strangers \union ({phone} \ {None}) : HostOf(a) \in Lan /\ PortOf(a) = port}

\* The second round: all the addresses that answer in 600 ms.
Scan(s, slow) ==
  /\ search[s].at = "looking" /\ search[s].todo = {}
  /\ search[s].round = 1
  /\ search' = [search EXCEPT ![s] = Looked(s, Listening(search[s].port) \ slow)]
  /\ steady' = [steady EXCEPT ![s] = @ /\ phone \notin slow]
  /\ UNCHANGED <<phone, lastAddr, been>>

\* Mutation: once a round has found somebody, there are no more rounds.
NotFoundAmongThem(s) ==
  /\ search[s].at = "looking" /\ search[s].todo = {}
  /\ search[s].round = Rounds \/ (search[s].round > 0 /\ search[s].tried # {})
  /\ search' = [search EXCEPT ![s] = [Ended("failed") EXCEPT !.port = search[s].port]]
  /\ UNCHANGED <<phone, lastAddr, been, steady>>

NotFound(s) ==
  /\ search[s].at = "looking" /\ search[s].todo = {}
  /\ search[s].round = Rounds
  /\ search' = [search EXCEPT ![s] = [Ended("failed") EXCEPT !.port = search[s].port]]
  /\ UNCHANGED <<phone, lastAddr, been, steady>>

\* A check's 45 seconds are over, or the process is stopped, which can also
\* happen between the emptying of the file and the writing.
Stop(s) ==
  /\ search[s].at \notin Resting
  /\ search' = [search EXCEPT ![s] = IdleSearch]
  /\ UNCHANGED <<phone, lastAddr, been, steady>>

\* The phone gets another address, falls asleep or wakes.
Move(a) ==
  /\ a # phone
  /\ phone' = a
  /\ been' = been \union ({a} \ {None})
  /\ steady' = [s \in Searches |-> FALSE]
  /\ UNCHANGED <<lastAddr, search>>

-----------------------------------------------------------------------------
\* The steps of a search, each of which has a deadline in the code.
Step(s) ==
  \/ \E a \in Addresses : TryFails(s, a) \/ TrySucceeds(s, a)
  \/ Save(s)
  \/ ReadPort(s)
  \/ \E answers \in SUBSET Addresses : Discover(s, answers)
  \/ \E slow \in SUBSET Listening(search[s].port) : Scan(s, slow)
  \/ NotFound(s)

Next ==
  \/ \E s \in Searches :
       \/ \E given \in Addresses \union {None} : Begin(s, given)
       \/ Step(s)
       \/ Stop(s)
  \/ \E a \in (Addresses \ Strangers) \union {None} : Move(a)

SafeSpec == Init /\ [][Next]_vars
Spec == SafeSpec /\ \A s \in Searches : WF_vars(Step(s))

-----------------------------------------------------------------------------
(* Properties                                                              *)

TypeOK ==
  /\ phone \in Addresses \union {None}
  /\ lastAddr \in Addresses \union {None}
  /\ search \in [Searches ->
       [at : SearchStates, given : Addresses \union {None}, port : Ports, round : 0..Rounds,
        todo : SUBSET Addresses, tried : SUBSET Addresses, link : Addresses \union {None}]]
  /\ been \subseteq Addresses
  /\ steady \in [Searches -> BOOLEAN]

\* No address is tried twice in a search, whichever way it was found again
\* (the one given and the last one, two Bonjour rounds, the scan): 12 seconds
\* of waiting for each, and a web check has 45 in all.
TriedOnce == \A s \in Searches : search[s].todo \intersect search[s].tried = {}

\* A phone that stays where it is and answers in time is found, Bonjour or no
\* Bonjour, if it is on the local network with the port of the scan: no search
\* gives up without having tried it, another phone's answers notwithstanding.
SteadyPhoneIsFound ==
  \A s \in Searches :
    search[s].at = "failed" /\ steady[s] =>
      phone = None \/ HostOf(phone) \notin Lan \/ PortOf(phone) # search[s].port

\* What the file holds is an address where our phone answered, never another
\* phone's and never one that was merely tried, however the searches interleave.
RemembersOurPhone ==
  /\ lastAddr # None => lastAddr \in been
  /\ \A s \in Searches : search[s].at = "saving" => search[s].link \in been

\* A search ends, whatever the phone does in the meantime: the AltServer keeps
\* WORK, and a job its guard, as long as it lasts.
SearchEnds == \A s \in Searches : search[s].at \notin Resting ~> search[s].at \in Resting

\* "finally a scan of your local network for the phone's service port (49152),
\* which does not depend on Bonjour" (README.md:84-85): a phone that stays on
\* the local network with that port is found.  The code does not keep this: the
\* port of the last address that worked takes its place (ReadPort).
UsualPortIsScanned ==
  \A s \in Searches :
    search[s].at = "failed" /\ steady[s] =>
      phone = None \/ HostOf(phone) \notin Lan \/ PortOf(phone) # UsualPort

-----------------------------------------------------------------------------
(* Why they hold: the inductive invariant                                  *)

\* While the phone keeps still and answers, no search has its address behind
\* it; and once the scan has seen it, the search has it ahead.
SteadyPhoneIsAhead ==
  \A s \in Searches : steady[s] =>
    /\ phone \notin search[s].tried
    /\ search[s].at = "looking" /\ search[s].round > 1 /\ phone \in Listening(search[s].port) =>
         phone \in search[s].todo

\* The rounds have not begun while the known addresses are tried.
KnownComesFirst == \A s \in Searches : search[s].at = "known" => search[s].round = 0

SearchInv ==
  /\ TypeOK /\ TriedOnce /\ RemembersOurPhone /\ KnownComesFirst
  /\ SteadyPhoneIsAhead /\ SteadyPhoneIsFound
  /\ phone # None => phone \in been

=============================================================================
