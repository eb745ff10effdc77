-------------------------- MODULE MCPlayerSessions --------------------------
EXTENDS PlayerSessions, TLC

CONSTANTS j1, j2, b1, b2, uj, ub

\* Every Java connection logs in as uj, every Bedrock connection as ub.
MCOwner == [c \in Conns |-> IF c \in JavaConns THEN uj ELSE ub]

\* Two Bedrock clients, or two Java clients, of one player.
MCPopulations == {{b1, b2}, {j1, j2}}
=============================================================================
