---------------------------- MODULE MCIdempotency ----------------------------
\* A small instance of Idempotency for TLC.
EXTENDS Idempotency, TLC

CONSTANTS r1, r2, r3, b1, b2

Trio == {r1, r2, r3}
TwoBodies == {b1, b2}
\* Three tries of one call, or one of them a different call under the same key.
SameOrOneOther == {[r \in Trio |-> b1], [r \in Trio |-> IF r = r3 THEN b2 ELSE b1]}
===============================================================================
