---------------------------- MODULE MCAppleLogin ----------------------------
(***************************************************************************)
(* A sign-in of five rounds: a code refused, one sent again and one taken   *)
(* all fit, and so does a loop that never gets there.  Two requests may    *)
(* race for each prompt; the first number is not among the trusted ones.   *)
(***************************************************************************)
EXTENDS AppleLogin

MCPosters == {"alice", "bob"}
MCTrusted == {2, 3}
=============================================================================
