--------------------------- MODULE MCDataVersion ---------------------------
(* Small instances of DataVersion for TLC.  Prices and rates are read as the   *)
(* ledger's tables are, and left out.                                          *)
EXTENDS DataVersion, SequencesExt

Brief(reads, tables) == SelectSeq(reads, LAMBDA t : t \in tables \cup {"clock"})
OfHandlers(some, tables) == [p \in some |-> Brief(HandlerReads[p], tables)]

\* One panel beside edits of transactions.
MCOneTable == {"transactions"}
MCOneChanges == {MCOneTable}
MCOnePanel == {"holdings"}
MCOneReads == OfHandlers(MCOnePanel, MCOneTable)
MCOneStamped == MCOnePanel \cap StampedHandlers

\* Two panels beside an import, which changes both tables together.
MCTwoTables == {"instruments", "transactions"}
MCTwoChanges == {MCTwoTables}
MCTwoPanels == {"gains", "valueHistory"}
MCTwoReads == OfHandlers(MCTwoPanels, MCTwoTables)
MCTwoStamped == MCTwoPanels \cap StampedHandlers
=============================================================================
