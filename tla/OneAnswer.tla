------------------------------ MODULE OneAnswer ------------------------------
(***************************************************************************)
(* What a two-factor prompt promises, with no threads, senders or locks:   *)
(* the login puts questions one after the other; while a question is open  *)
(* at most one answer to it is acknowledged; and the question is closed    *)
(* once, with the acknowledged answer or by giving up.  TfaChannel         *)
(* implements it.  A question may be given up after its answer was         *)
(* acknowledged: that is all the code of src/src/apple.rs guarantees.      *)
(***************************************************************************)
EXTENDS Naturals

CONSTANT MaxQuestions

Questions == 1..MaxQuestions
Answers == {"code", "resend"}

VARIABLES
  question,   \* the current question, 0 before the first
  letter,     \* for each question, the answer acknowledged to it
  outcome     \* for each question, how the login closed it

vars == <<question, letter, outcome>>

Init ==
  /\ question = 0
  /\ letter = [i \in Questions |-> "none"]
  /\ outcome = [i \in Questions |-> "none"]

Open(i) == i \in Questions /\ i = question /\ outcome[i] = "none"

Ask ==
  /\ question < MaxQuestions
  /\ ~Open(question)
  /\ question' = question + 1
  /\ UNCHANGED <<letter, outcome>>

Acknowledge(ans) ==
  /\ Open(question)
  /\ letter[question] = "none"
  /\ letter' = [letter EXCEPT ![question] = ans]
  /\ UNCHANGED <<question, outcome>>

Use ==
  /\ Open(question)
  /\ letter[question] # "none"
  /\ outcome' = [outcome EXCEPT ![question] = letter[question]]
  /\ UNCHANGED <<question, letter>>

GiveUp ==
  /\ Open(question)
  /\ outcome' = [outcome EXCEPT ![question] = "abort"]
  /\ UNCHANGED <<question, letter>>

Next == Ask \/ (\E ans \in Answers : Acknowledge(ans)) \/ Use \/ GiveUp

SafeSpec == Init /\ [][Next]_vars
Spec == SafeSpec /\ WF_vars(Use \/ GiveUp)

=============================================================================
