---------------------------- MODULE MCPhoneSearch ----------------------------
(***************************************************************************)
(* A phone that may be at home with the usual port or another, or behind   *)
(* the VPN; and another iPhone at home.                                    *)
(***************************************************************************)
EXTENDS PhoneSearch

CONSTANTS s1, s2

MCOneSearch == {s1}
MCTwoSearches == {s1, s2}
MCLan == {"home", "neighbour"}
MCAddresses == {<<"home", 49152>>, <<"home", 50000>>, <<"vpn", 49152>>, <<"neighbour", 49152>>}
MCFewAddresses == {<<"home", 49152>>, <<"home", 50000>>}
MCStrangers == {<<"neighbour", 49152>>}
MCNobodyElse == {}
=============================================================================
