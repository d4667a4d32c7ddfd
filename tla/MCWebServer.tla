----------------------------- MODULE MCWebServer -----------------------------
EXTENDS WebServer

CONSTANTS c1, c2, c3, c4
FourCalls == {c1, c2, c3, c4}
=============================================================================
