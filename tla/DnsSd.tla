-------------------------------- MODULE DnsSd --------------------------------
(***************************************************************************)
(* The unicast DNS-SD server (src/src/dnssd.rs, started by start_dnssd of  *)
(* src/src/main.rs) and a phone that finds AltServer through it.           *)
(*                                                                         *)
(* A name is what lies between its dots, a sequence of labels: one empty   *)
(* label for an empty text.  Of a label only its text, whether it is in    *)
(* capitals and its length in bytes are told apart, and for a piece of an  *)
(* address its value.  The phone and the resolver before the server follow *)
(* RFC 6763: from the reverse name of the phone's address, or from a       *)
(* domain that the phone searches, to the domain, to an instance, to its   *)
(* port, identifier and host, to an address.  Datagrams get lost, arrive   *)
(* late and in any order, questions are asked again, and the server is     *)
(* restarted elsewhere.                                                    *)
(***************************************************************************)
EXTENDS Integers, Sequences, FiniteSets, FiniteSetsExt

CONSTANTS
  Configs,      \* what the user may choose: domain, instance, id, and the
                \* clients' network with its bits
  Endpoints,    \* ports and addresses the server may be started at
  Phones,       \* the addresses a phone may ask with: whole, or of a network
  OctetBits,    \* bits of a piece of an address: 8
  MaxRestarts,
  MaxInFlight   \* questions and replies on their way at a time

ASSUME OctetAssumption == OctetBits \in Nat \ {0}
ASSUME BoundsAssumption == MaxRestarts \in Nat /\ MaxInFlight \in Nat \ {0}

MaxReply == 512
MaxLabel == 63
MaxLabels == 32
MaxText == 246       \* what is left of 255 bytes after serverID=
MaxName == 255       \* RFC 1035; the code does not look at it
HostLen == 18        \* altkeeper- and the first 8 characters of the identifier
InstanceLen == 10    \* altkeeper-
Types == {"A", "PTR", "TXT", "SRV"}

Word(text, len) == [text |-> text, upper |-> FALSE, len |-> len, value |-> 0]
Octet(n) == [text |-> "octet", upper |-> FALSE, len |-> 3, value |-> n]

Browsing == <<Word("_dns-sd", 7), Word("_udp", 4)>>
Explored == {Word("b", 1), Word("db", 2), Word("lb", 2)}
Service == <<Word("_altserver", 10), Word("_tcp", 4)>>
Arpa == <<Word("in-addr", 7), Word("arpa", 4)>>

\* The address backwards, in in-addr.arpa; with a part of the address only,
\* the name of its network.
Backwards(octets) == [i \in 1..Len(octets) |-> Octet(octets[Len(octets) + 1 - i])] \o Arpa

\* lb._dns-sd._udp.<rest>: which domain to browse.
Explores(rest) == <<Word("lb", 2)>> \o Browsing \o rest

ReverseName(octets) == Explores(Backwards(octets))

Lower(name) == [i \in 1..Len(name) |-> [name[i] EXCEPT !.upper = FALSE]]
Upper(name) == [i \in 1..Len(name) |-> [name[i] EXCEPT !.upper = @ \/ name[i].text # "octet"]]

-----------------------------------------------------------------------------
(* The zone                                                                *)

\* Mutation: the names keep the capitals they were configured with.
ZoneAsConfigured(c, e) ==
  [domain |-> c.domain, browse |-> Service \o c.domain,
   instance |-> <<c.instance>> \o Service \o c.domain,
   host |-> <<[c.id EXCEPT !.len = HostLen]>> \o c.domain,
   id |-> c.id, clients |-> c.clients, port |-> e.port, address |-> e.address]

\* Zone::new: the names in small letters, the identifier as it is.  The domain
\* is configured without dots at its ends, which trim_matches takes away: what
\* is left of "." is one empty label.
ZoneOf(c, e) ==
  LET domain == Lower(c.domain) IN
  [domain |-> domain, browse |-> Service \o domain,
   instance |-> Lower(<<c.instance>>) \o Service \o domain,
   host |-> Lower(<<[c.id EXCEPT !.len = HostLen]>>) \o domain,
   id |-> c.id, clients |-> c.clients, port |-> e.port, address |-> e.address]

\* A function and not an exponent, for the proofs.
TwoTo[k \in Nat] == IF k = 0 THEN 1 ELSE 2 * TwoTo[k - 1]

Number(octets) ==
  LET base == TwoTo[OctetBits] IN ((octets[1] * base + octets[2]) * base + octets[3]) * base + octets[4]

\* Mutation: the octets are taken in the order of the name.
OctetsForwards(parts) == [i \in 1..4 |-> IF i <= Len(parts) THEN parts[i].value ELSE 0]

\* Mutation: the missing octets of a network's name are not aligned.
OctetsUnaligned(parts) ==
  [i \in 1..4 |-> IF i > 4 - Len(parts) THEN parts[5 - i].value ELSE 0]

\* The name has them backwards; those that miss are zero.
Octets(parts) ==
  [i \in 1..4 |-> IF i <= Len(parts) THEN parts[Len(parts) + 1 - i].value ELSE 0]

IsOctet(label) == label.text = "octet" /\ label.value < TwoTo[OctetBits]

\* covers_reverse.
CoversReverse(zone, name) ==
  LET parts == SubSeq(name, 1, Len(name) - 2)
      bits == zone.clients.bits
      rest == TwoTo[4 * OctetBits - bits]
  IN /\ Len(name) \in 3..6
     /\ SubSeq(name, Len(name) - 1, Len(name)) = Arpa
     /\ \A i \in 1..Len(parts) : IsOctet(parts[i])
     /\ \/ bits = 0
        \/ /\ bits <= 4 * OctetBits
           /\ Number(Octets(parts)) \div rest = Number(zone.clients.net) \div rest

Record(name, type) ==
  [name |-> name, type |-> type, target |-> <<>>, port |-> 0, text |-> <<>>, address |-> <<>>]

Pointer(name, target) == [Record(name, "PTR") EXCEPT !.target = target]

AsksForDomain(zone, name) ==
  /\ Len(name) > 3
  /\ name[1] \in Explored
  /\ SubSeq(name, 2, 3) = Browsing
  /\ LET rest == SubSeq(name, 4, Len(name)) IN rest = zone.domain \/ CoversReverse(zone, rest)

IsOurs(zone, name) ==
  AsksForDomain(zone, name) \/ name \in {zone.browse, zone.instance, zone.host}

\* Every record of a name of ours.
Records(zone, name) ==
  CASE AsksForDomain(zone, name) -> {Pointer(name, zone.domain)}
    [] name = zone.browse -> {Pointer(name, zone.instance)}
    [] name = zone.instance ->
         {[Record(name, "SRV") EXCEPT !.port = zone.port, !.target = zone.host],
          [Record(name, "TXT") EXCEPT !.text = <<zone.id>>]}
    [] name = zone.host -> {[Record(name, "A") EXCEPT !.address = zone.address]}
    [] OTHER -> {}

\* answer: those of the type that is asked for.
Answer(zone, name, type) == {r \in Records(zone, name) : type \in {r.type, "ANY"}}

-----------------------------------------------------------------------------
(* The messages                                                            *)

Cut(label, most) == [label EXCEPT !.len = IF @ > most THEN most ELSE @]

Shortened(name) == [i \in 1..Len(name) |-> Cut(name[i], MaxLabel)]

\* write_name: a long label is cut, an empty one left out.
Written(name) ==
  IF \E i \in 1..Len(name) : name[i].len = 0
    THEN SelectSeq(Shortened(name), LAMBDA label : label.len > 0)
    ELSE Shortened(name)

Wire(name) ==
  LET size[i \in 0..Len(name)] ==
        IF i = 0 THEN 1
        ELSE size[i - 1] + IF name[i].len = 0 THEN 0 ELSE Cut(name[i], MaxLabel).len + 1
  IN size[Len(name)]

\* write_record; the text is "serverID=" and the identifier.
WrittenRecord(r) ==
  [r EXCEPT !.name = Written(@), !.target = Written(@),
            !.text = [i \in 1..Len(@) |-> Cut(r.text[i], MaxText)]]

RecordSize(r) ==
  Wire(r.name) + 10 + CASE r.type = "A" -> 4
                        [] r.type = "PTR" -> Wire(r.target)
                        [] r.type = "TXT" -> 1 + 9 + Cut(r.text[1], MaxText).len
                        [] r.type = "SRV" -> 6 + Wire(r.target)

\* build_reply.  The id of a message stands for the question it was asked in.
Reply(q, name, rcode, records) ==
  [id |-> q, name |-> Written(name), rcode |-> rcode, truncated |-> FALSE,
   records |-> {WrittenRecord(r) : r \in records}]

MessageSize(name, records) == 12 + Wire(name) + 4 + MapThenSumSet(RecordSize, records)

Size(reply) == MessageSize(reply.name, reply.records)

\* Mutation: the length of a datagram is not looked at.
FittingAnyhow(reply) == reply

\* Mutation: what does not fit is left out, and nothing says so.
FittingSilently(reply) ==
  IF Size(reply) <= MaxReply THEN reply ELSE [reply EXCEPT !.rcode = "ok", !.records = {}]

\* A reply longer than a datagram goes without its records, and says so.
Fitting(reply) ==
  IF Size(reply) <= MaxReply
    THEN reply
    ELSE [reply EXCEPT !.rcode = "ok", !.records = {}, !.truncated = TRUE]

\* read_name.
ReadName(name) == Lower(name)

\* handle: the reply to a question, if there is one.  A question that does not fit
\* in the buffer (dnssd.rs:204), where it takes what its copy takes in the reply,
\* is cut and not understood.
Handle(zone, q) ==
  LET name == ReadName(q.name)
      rcode == IF IsOurs(zone, name) THEN "ok" ELSE "nxdomain"
  IN IF Len(name) > MaxLabels \/ ~(MessageSize(Written(name), {}) <= MaxReply)
       THEN {}
       ELSE {Fitting(reply) : reply \in {Reply(q, name, rcode, Answer(zone, name, q.type))}}

-----------------------------------------------------------------------------
(* What may be configured                                                  *)

Labels == [text : STRING, upper : BOOLEAN, len : Nat, value : Nat]

OctetValues == 0..(TwoTo[OctetBits] - 1)

\* The domain is any text, the instance altkeeper- and the name of the host, of
\* any length (altserver.rs:131-146), the identifier one of 8 bytes or more
\* (altserver.rs:117, 125), and bits one of 0..32 (main.rs:72).
IsConfig(c) ==
  /\ c \in [domain : Seq(Labels) \ {<<>>}, instance : Labels, id : Labels,
            clients : [net : Seq(OctetValues), bits : 0..(4 * OctetBits)]]
  /\ Len(c.clients.net) = 4
  /\ c.instance.len > InstanceLen
  /\ c.id.len >= HostLen - InstanceLen

ASSUME PhonesAssumption == \A p \in Phones : p \in Seq(OctetValues) /\ Len(p) \in 1..4
ASSUME ConfigsAssumption == \A c \in Configs : IsConfig(c)

-----------------------------------------------------------------------------
(* The phone looks for the server                                          *)

Steps == {"domain", "browse", "port", "id", "host"}

VARIABLES
  zone,        \* what the server publishes
  config, restarts,
  phone,       \* the address the phone asks with, or Searching
  capitals,    \* what the resolver does with the case of what it asks
  asked, answers,    \* the questions and the replies on their way
  cache,       \* for each step, the records the phone learned
  refused      \* the steps that got no answer they could use

server == <<zone, config, restarts>>
client == <<phone, capitals>>
network == <<asked, answers>>
vars == <<server, client, network, cache, refused>>

\* A phone that begins with a domain it searches, and not with its address.
Searching == <<>>

\* The resolver keeps the case; or changes it, and takes a reply in any case; or
\* changes it, and takes only a reply with the very question it asked.
Habits == {"kept", "changed", "checked"}

Init ==
  /\ config \in Configs
  /\ \E e \in Endpoints : zone = ZoneOf(config, e)
  /\ restarts = 0
  /\ phone \in Phones \union {Searching}
  /\ capitals \in Habits
  /\ asked = {}
  /\ answers = {}
  /\ cache = [step \in Steps |-> {}]
  /\ refused = {}

Question(step, name, type) ==
  [step |-> step, name |-> IF capitals = "kept" THEN name ELSE Upper(name), type |-> type]

\* The two forms of the question for the domain (dnssd.rs:88-93).
Start == IF phone = Searching THEN Explores(Lower(config.domain)) ELSE ReverseName(phone)

\* What each step asks, with what the steps before it learned.
Questions(step) ==
  CASE step = "domain" -> {Question(step, Start, "PTR")}
    [] step = "browse" -> {Question(step, Service \o r.target, "PTR") : r \in cache["domain"]}
    [] step = "port" -> {Question(step, r.target, "SRV") : r \in cache["browse"]}
    [] step = "id" -> {Question(step, r.target, "TXT") : r \in cache["browse"]}
    [] step = "host" -> {Question(step, r.target, "A") : r \in cache["port"]}

\* A name that a message can hold as it is.
IsCarried(name) == \A i \in 1..Len(name) : name[i].len \in 1..MaxLabel

Wanted(step) ==
  IF step \in refused \/ cache[step] # {} THEN {} ELSE {q \in Questions(step) : IsCarried(q.name)}

\* A question is asked until it is answered, again when the answer is late.
Ask ==
  /\ Cardinality(asked) + Cardinality(answers) < MaxInFlight
  /\ \E step \in Steps : \E q \in Wanted(step) \ asked : asked' = asked \union {q}
  /\ UNCHANGED <<server, client, answers, cache, refused>>

Receive ==
  /\ \E q \in asked : asked' = asked \ {q} /\ answers' = answers \union Handle(zone, q)
  /\ UNCHANGED <<server, client, cache, refused>>

\* An answer to a question that is not open any more is dropped, and so is one
\* whose question is not the one that was asked, by a resolver that looks: the
\* server writes it back in small letters (dnssd.rs:249, 319).
Deliver ==
  /\ \E r \in answers :
       /\ answers' = answers \ {r}
       /\ IF r.id \in Wanted(r.id.step) /\ (capitals = "checked" => r.name = r.id.name)
            THEN /\ cache' = [cache EXCEPT ![r.id.step] = r.records]
                 /\ refused' = IF r.records = {} THEN refused \union {r.id.step} ELSE refused
            ELSE UNCHANGED <<cache, refused>>
  /\ UNCHANGED <<server, client, asked>>

Lose ==
  /\ \/ \E q \in asked : asked' = asked \ {q} /\ UNCHANGED answers
     \/ \E r \in answers : answers' = answers \ {r} /\ UNCHANGED asked
  /\ UNCHANGED <<server, client, cache, refused>>

\* TTL: 120 s.  A record that is still published and expires is asked again to
\* no effect; one that is not goes.
Expire ==
  /\ \E step \in Steps :
       /\ ~(\A r \in cache[step] : r \in Records(zone, r.name))
       /\ cache' = [cache EXCEPT ![step] = {}]
  /\ UNCHANGED <<server, client, network, refused>>

\* The program starts again, perhaps at another address or port.  Meanwhile
\* nobody receives what is asked.
Restart ==
  /\ restarts < MaxRestarts
  /\ restarts' = restarts + 1
  /\ \E e \in Endpoints : zone' = ZoneOf(config, e)
  /\ UNCHANGED <<config, client, network, cache, refused>>

Next == Ask \/ Receive \/ Deliver \/ Lose \/ Expire \/ Restart

\* The phone goes on asking, and records do expire; of the datagrams sent again
\* and again some are received and some replies come back.
Fairness == WF_vars(Ask \/ Expire) /\ SF_vars(Receive) /\ SF_vars(Deliver)

Spec == Init /\ [][Next]_vars /\ Fairness

-----------------------------------------------------------------------------
(* Properties                                                              *)

\* What the server replies to any question about the names of its zone that a
\* question can hold.
ZoneReplies ==
  UNION {Handle(zone, [step |-> "id", name |-> name, type |-> type]) :
           name \in {n \in {zone.browse, zone.instance, zone.host} : IsCarried(n)},
           type \in Types \union {"ANY"}}

\* A reply has to fit in a datagram without EDNS (dnssd.rs:31-32).
TypeOK ==
  /\ config \in Configs
  /\ \E e \in Endpoints : zone = ZoneOf(config, e)
  /\ restarts \in 0..MaxRestarts
  /\ phone \in Phones \union {Searching}
  /\ capitals \in Habits
  /\ \A q \in asked : q.step \in Steps
  /\ \A r \in answers : r.id.step \in Steps
  /\ \A r \in answers \union ZoneReplies : Size(r) <= MaxReply
  /\ refused \subseteq Steps

\* The clients' network, bit by bit: the address and the network agree on
\* their first bits; the octets that a network's name leaves out are zero.
Bit(octets, i) ==
  LET octet == (i - 1) \div OctetBits + 1
      place == TwoTo[OctetBits - 1 - ((i - 1) % OctetBits)]
  IN IF octet > Len(octets) THEN 0 ELSE (octets[octet] \div place) % 2

IsClient(octets) ==
  \A i \in 1..config.clients.bits : Bit(octets, i) = Bit(config.clients.net, i)

\* What the code asks of nobody and DNS does: the names of the zone have no
\* empty label and none above 63 bytes, are of 255 bytes and 32 labels at most,
\* and no record is too long for a datagram by itself; two together may be.
Publishable ==
  {c \in Configs :
    /\ c.id.len <= MaxText
    /\ \A e \in Endpoints : LET z == ZoneOf(c, e) IN
         \A name \in {Explores(z.domain), z.browse, z.instance, z.host} \union
                      {ReverseName(p) : p \in Phones} :
           /\ IsCarried(name) /\ Wire(name) <= MaxName /\ Len(name) <= MaxLabels
           /\ \A records \in {{}} \union {{r} : r \in Records(z, name)} :
                MessageSize(name, records) <= MaxReply}

\* Whom the server leads to itself: by its address, or by the domain.
IsServed == phone = Searching \/ IsClient(phone)

\* "a host name with capitals would make the comparison fail, and the server
\* would answer 'does not exist' for its own service" (dnssd.rs:64-66): for names
\* that DNS can carry, a phone of the clients' network, or one that searches the
\* domain, that asks for nothing but that and the names the server gave it is
\* never turned away, whatever the case the names were configured with, are asked
\* in, or come back in.
NeverTurnedAway == config \in Publishable /\ IsServed => refused = {}

\* "192.168.9.4: outside the clients' subnet, we must not answer" (the test at
\* dnssd.rs:482-487): a phone that asks for the reverse of its address alone learns
\* something only if the address is of the clients' network, or is the domain.
\* Whoever knows the domain is told everything (dnssd.rs:88-91, 457-464).
OnlyClientsLearn ==
  (\E step \in Steps : cache[step] # {}) =>
    IsServed \/ Lower(config.domain) = Backwards(phone)

\* "without [the flag] the client would read it as 'these records do not
\* exist'" (dnssd.rs:225-227): a reply without records that says neither that
\* the name does not exist nor that it is truncated is about a name of ours
\* that has no record of that type; and a name of ours always exists
\* (dnssd.rs:568-574).  Of any question that holds a name of the zone.
RepliesAreHonest ==
  \A r \in ZoneReplies :
    /\ r.rcode = "ok"
    /\ r.records = {} /\ ~r.truncated =>
         \A record \in Records(zone, r.name) : r.id.type \notin {record.type, "ANY"}

\* "so a change of address spreads quickly" (dnssd.rs:15): for names that DNS can
\* carry, a phone that is served has the server's current port, identifier and
\* address in the end, and keeps them, whatever is lost and wherever the server
\* is restarted.  Not through a resolver that changes the case and looks at it
\* in the reply: "the question goes back identical" (dnssd.rs:248), but it goes
\* back in small letters.
FindsTheServer ==
  config \in Publishable /\ IsServed /\ capitals # "checked" =>
    <>[]/\ \E r \in cache["port"] : r.port = zone.port
        /\ \E r \in cache["id"] : r.text = <<config.id>>
        /\ \E r \in cache["host"] : r.address = zone.address

=============================================================================
