------------------------------ MODULE MCNetDot ------------------------------
EXTENDS NetDot, TLC

CONSTANTS q1, q2, q3, web, app_main, x1, x2

\* Every property says something only until two callers have overlapped, so what
\* comes after is not explored; it meets the liveness property at once.
SinSolape == ~solapados
=============================================================================
