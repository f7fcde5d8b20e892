------------------------------ MODULE MCImRoom ------------------------------
EXTENDS ImRoom

CONSTANTS u1, u2, a, b

\* Two users have logged in, u2 last.
TwoSeated == <<<<u2, b>>, <<u1, a>>>>
Empty == <<>>

=============================================================================
