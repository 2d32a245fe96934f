---------------------------- MODULE MCTfaChannel ----------------------------
(***************************************************************************)
(* TfaChannel on three requests and two prompts: one request can answer,   *)
(* a second race it, and a third hold the sender of a prompt that is over. *)
(***************************************************************************)
EXTENDS TfaChannel

MCPosters == {"alice", "bob", "carol"}
=============================================================================
