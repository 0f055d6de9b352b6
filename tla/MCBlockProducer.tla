---------------------------- MODULE MCBlockProducer ----------------------------
EXTENDS BlockProducer

MCTx(i, s, n, f, w) == [id |-> i, sender |-> s, nonce |-> n, fee |-> f, tagged |-> TRUE, wallet |-> w]

\* Two rivals for one slot, one of them a wallet transfer, and two transactions that wait
\* for a predecessor: one that can come and one that never does.
MCUserTxs == {MCTx(1, 1, 0, 1, TRUE), MCTx(2, 1, 0, 1, FALSE), MCTx(3, 1, 1, 2, TRUE),
              MCTx(4, 2, 1, 1, FALSE)}
================================================================================
