----------------------------- MODULE MCControl -----------------------------
EXTENDS Control

CONSTANTS c1, c2

\* An enrollment beside any command.
PairKinds == [c \in Commands |-> IF c = c1 THEN {"enroll"} ELSE Kind]

\* The managed host's quick start: one enroll command.
EnrollOnly == [c \in Commands |-> {"enroll"}]
============================================================================
