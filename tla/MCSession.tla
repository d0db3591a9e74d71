----------------------------- MODULE MCSession -----------------------------
EXTENDS Session

CONSTANTS c1, c2, c3
============================================================================
