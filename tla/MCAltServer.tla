----------------------------- MODULE MCAltServer -----------------------------
EXTENDS AltServer

CONSTANTS c1, c2

MCTwoConns == {c1, c2}
MCOneBundle == {"app"}
=============================================================================
