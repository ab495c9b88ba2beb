---------------------------- MODULE MCOAuthRefresh ----------------------------
EXTENDS OAuthRefresh, TLC

CONSTANTS r1, r2, b1, b2, p1, p2

\* Two processes with a background loop each; requests are served by both.
TwoProcs == [w \in Workers |-> IF w \in {r1, b1} THEN p1 ELSE p2]

\* One process, as with the embedded redis.
OneProc == [w \in Workers |-> p1]
===============================================================================
