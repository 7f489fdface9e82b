--------------------------- MODULE ExclusiveRuns ---------------------------
(***************************************************************************)
(* What the refresh lease promises, with no processes, clocks, rows or     *)
(* heartbeats: runs follow one another, at most one is current, only the   *)
(* current run writes, a run ends once, and a run that is ended by anyone  *)
(* but itself has everything it wrote announced as it ends.                *)
(*                                                                         *)
(* RefreshLease implements this module.                                    *)
(***************************************************************************)
EXTENDS Integers

CONSTANTS Item, MaxRuns

VARIABLES
    begun,      \* number of runs begun
    current,    \* the run in progress, 0 if none
    result,     \* how each run ended
    price,      \* run whose value each item has
    unseen      \* runs with writes that were not announced

abstractVars == <<begun, current, result, price, unseen>>

RunId     == 1..MaxRuns
OwnResult == {"SUCCEEDED", "PARTIAL", "FAILED"}

Init ==
    /\ begun = 0
    /\ current = 0
    /\ result = [r \in RunId |-> "none"]
    /\ price = [i \in Item |-> 0]
    /\ unseen = {}

Begin ==
    /\ current = 0
    /\ begun < MaxRuns
    /\ begun' = begun + 1
    /\ current' = begun + 1
    /\ UNCHANGED <<result, price, unseen>>

\* The next run begins although the current one never ended.
TakeOver ==
    /\ current # 0
    /\ begun < MaxRuns
    /\ begun' = begun + 1
    /\ current' = begun + 1
    /\ result' = [result EXCEPT ![current] = "abandoned"]
    /\ unseen' = {}
    /\ UNCHANGED price

\* The current run stores an item, or changes a mapping.
Write ==
    /\ current # 0
    /\ \/ \E i \in Item : price' = [price EXCEPT ![i] = current]
       \/ UNCHANGED price
    /\ unseen' = unseen \cup {current}
    /\ UNCHANGED <<begun, current, result>>

Finish ==
    /\ current # 0
    /\ \E s \in OwnResult : result' = [result EXCEPT ![current] = s]
    /\ current' = 0
    /\ UNCHANGED <<begun, price, unseen>>

Cancel ==
    /\ current # 0
    /\ result' = [result EXCEPT ![current] = "cancelled"]
    /\ current' = 0
    /\ unseen' = {}
    /\ UNCHANGED <<begun, price>>

Announce ==
    /\ unseen' = {}
    /\ UNCHANGED <<begun, current, result, price>>

Next == Begin \/ TakeOver \/ Write \/ Finish \/ Cancel \/ Announce

Spec == Init /\ [][Next]_abstractVars
=============================================================================
