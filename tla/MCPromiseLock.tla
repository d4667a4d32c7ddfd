---------------------------- MODULE MCPromiseLock ----------------------------
EXTENDS PromiseLockFifo, TLC

CONSTANTS c1, c2, c3

ThreeCalls == {c1, c2, c3}
FirstOnly == {c1}
=============================================================================
