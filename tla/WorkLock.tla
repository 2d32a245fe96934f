------------------------------ MODULE WorkLock ------------------------------
(***************************************************************************)
(* One worker at a time, and nothing else: what `busy` promises the jobs   *)
(* of the web interface (src/src/web.rs) and what `WORK` promises the      *)
(* connections of the AltServer (src/src/altserver.rs).  The lock is taken *)
(* when it is free, and given back by the worker that took it; it never    *)
(* passes from one to another directly.                                    *)
(***************************************************************************)
CONSTANTS Workers, Nobody

VARIABLE holder

Init == holder = Nobody

Acquire(w) == holder = Nobody /\ holder' = w

Release(w) == holder = w /\ holder' = Nobody

Next == \E w \in Workers : Acquire(w) \/ Release(w)

Spec == Init /\ [][Next]_holder

=============================================================================
