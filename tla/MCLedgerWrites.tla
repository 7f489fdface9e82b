--------------------------- MODULE MCLedgerWrites ---------------------------
(* Small instances of LedgerWrites for TLC.                                    *)
EXTENDS LedgerWrites, TLC

Tx(i, d, k, q) == [instrument |-> i, date |-> d, kind |-> k, quantity |-> q,
                  detail |-> "as traded"]

\* A buy, a sell and a split that depend on it, a dividend that does not on a
\* second instrument to move rows to, and a body that validate refuses.
MCBody == { Tx(1, 1, "Buy", 1), Tx(1, 2, "Sell", 1), Tx(1, 2, "Split", 1),
            Tx(2, 1, "Dividend", 1), Tx(1, 2, "Buy", -1) }

SlotSymmetry == Permutations(Slot)
=============================================================================
