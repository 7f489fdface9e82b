-------------------------- MODULE MCImportBatches --------------------------
(* Small instances of ImportBatches for TLC.                                   *)
EXTENDS ImportBatches, TLC

Tx(i, d, k, q) == [instrument |-> i, date |-> d, kind |-> k, quantity |-> q,
                   detail |-> "as traded"]
Corrected(body) == [body EXCEPT !.detail = "corrected"]

\* The hand edit beside the imports: a sell, or any row turned into that sell, whose
\* fee the files do not know; and a delete of any row.
MCEdit == { Corrected(Tx(1, 2, "Sell", 1)) }

\* A history, one trade twice, and a file of the other broker.
MCContent == [ jan   |-> << Tx(1, 1, "Buy", 1), Tx(1, 2, "Sell", 1) >>,
               twice |-> << Tx(1, 1, "Buy", 1), Tx(1, 1, "Buy", 1) >>,
               ss    |-> << Tx(1, 1, "Buy", 1) >> ]
MCFile == DOMAIN MCContent
MCSourceOf == [f \in MCFile |-> IF f = "ss" THEN "SHARESIGHT" ELSE "AVANZA"]

ImporterSymmetry == Permutations(Importer)

\* Who takes part: two imports, or one import beside a hand edit.
VARIABLE crew
CrewVars == <<allVars, crew>>
CrewInit == ImportInit /\ crew \in {Importer} \cup {{m, s} : m \in Importer, s \in Slot}
CrewNext == /\ \/ \E s \in Importer \cap crew : ImportStep(s)
               \/ \E s \in Slot \cap crew : EditStep(s)
            /\ crew # Importer =>      \* the other files are left to two imports
                 \A s \in Importer : job'[s] # NoRequest /\ job'[s].op # "rollback"
                                      => job'[s].file = "jan"
            /\ UNCHANGED crew
CrewSpec == CrewInit /\ [][CrewNext]_CrewVars

\* A history with a second asset, and the history with a corrected fee.
MCWideContent == [ jan  |-> MCContent.jan \o << Tx(2, 1, "Buy", 1) >>,
                   fee  |-> << Tx(1, 1, "Buy", 1), Corrected(Tx(1, 2, "Sell", 1)) >> ]
MCWideFile == DOMAIN MCWideContent
MCWideSourceOf == [f \in MCWideFile |-> "AVANZA"]
=============================================================================
