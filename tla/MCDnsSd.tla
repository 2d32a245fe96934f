------------------------------ MODULE MCDnsSd ------------------------------
(***************************************************************************)
(* Addresses of four octets of two bits, and networks that end before, in  *)
(* the middle of and after an octet.  Phones inside and outside of each    *)
(* ask with their whole address or with the name of their network.  The    *)
(* long domain makes the two records of the instance too long together;    *)
(* one host name makes a label above 63 bytes, and one domain is empty.    *)
(***************************************************************************)
EXTENDS DnsSd

MCConfig(domain, host, bits) ==
  [domain |-> domain, instance |-> [Word("altkeeper-casa", 10 + host) EXCEPT !.upper = TRUE],
   id |-> [Word("8e68e3c9", 32) EXCEPT !.upper = TRUE],
   clients |-> [net |-> <<2, 1, 3, 1>>, bits |-> bits]]

Short == <<Word("casa", 4), [Word("internal", 8) EXCEPT !.upper = TRUE]>>
Long == <<Word("casa", 50), Word("internal", 49)>>
Empty == <<Word("", 0)>>

MCConfigs ==
  {MCConfig(Short, 4, 3), MCConfig(Long, 4, 4), MCConfig(Short, 60, 0), MCConfig(Empty, 4, 7)}
MCEndpoints == {[port |-> 49500, address |-> <<2, 1, 3, 1>>], [port |-> 49501, address |-> <<2, 1, 3, 2>>]}
MCPhones == {<<2, 1, 3, 1>>, <<2, 0, 3, 1>>, <<1, 3, 1, 2>>, <<2, 1>>}
=============================================================================
