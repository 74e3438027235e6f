------------------------- MODULE MCTransactionRing -------------------------
EXTENDS TransactionRing

Pay(from, to) == <<[sender |-> from, receiver |-> to, amount |-> 1]>>

\* First a transfer between the chunks that are stored; then the one back, and one from the
\* chunk that is not.
MCBatches == [w \in 0..1 |-> IF w = 0 THEN {Pay(0, 1)} ELSE {Pay(1, 0) \o Pay(2, 1)}]
=============================================================================
