------------------------------ MODULE MCWebJobs ------------------------------
EXTENDS WebJobs

CONSTANTS r1, r2, p1

MCSlots == {r1, r2}
MCPosters == {p1}
=============================================================================
