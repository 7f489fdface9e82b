------------------------- MODULE RefreshLeaseProofs -------------------------
(***************************************************************************)
(* Proofs about RefreshLease and its timing, for any number of processes,  *)
(* refreshes, sources, currencies and runs.                                *)
(***************************************************************************)
EXTENDS RefreshHeartbeat, TLAPS

-----------------------------------------------------------------------------
(* Type correctness *)

LEMMA InitType == Init => TypeOK
  BY BoundAssumption
  DEF Init, TypeOK, LedgerOK, ProcessOK, FlightOK, RunId, Location, Outcome,
      RowStatus, Armed, Executing, Ending, Concluded

\* A claim leaves the ledger well-typed.
LEMMA InsertClaimType ==
  ASSUME LedgerOK, NEW p \in Process, InsertClaim(p)
  PROVE  LedgerOK'
<1>. USE DEF LedgerOK, InsertClaim
<1>1. begun' \in 0..MaxRuns
  BY BoundAssumption
<1>2. status' \in [RunId -> RowStatus]
  BY DEF RowStatus
<1>3. owner' \in [RunId -> Process \cup {None}]
  OBVIOUS
<1>4. age' \in [RunId -> Int]
  OBVIOUS
<1>5. price' \in [Item -> 0..MaxRuns] /\ unseen' \in SUBSET RunId
  BY DEF Bump
<1>. QED  BY <1>1, <1>2, <1>3, <1>4, <1>5

\* Flights that leave are idle and well-typed.
LEMMA LeaveType ==
  ASSUME FlightOK, NEW F, Leave(F)
  PROVE  FlightOK'
<1>. USE DEF FlightOK, Leave
<1>1. pc' \in [Flight -> Location]
  BY DEF Location
<1>2. run' \in [Flight -> 0..MaxRuns]
  BY BoundAssumption
<1>3. lost' \in [Flight -> BOOLEAN]
  OBVIOUS
<1>4. todo' \in [Flight -> SUBSET Item] /\ failed' \in [Flight -> SUBSET Item]
  OBVIOUS
<1>5. item' \in [Flight -> Item \cup {None}]
  OBVIOUS
<1>6. outcome' \in [Flight -> Outcome]
  BY DEF Outcome
<1>7. \A f \in Flight : pc'[f] = "fetching" => item'[f] \in Item
  BY DEF Item
<1>8. \A f \in Flight : pc'[f] \in Armed => run'[f] \in RunId
  BY DEF Armed, Executing, Ending
<1>9. \A f \in Flight : pc'[f] \in Ending => outcome'[f] \in Concluded
  BY DEF Ending
<1>. QED  BY <1>1, <1>2, <1>3, <1>4, <1>5, <1>6, <1>7, <1>8, <1>9
         DEF Item, Armed, RunId, Concluded

\* The end of an execution keeps its flight well-typed.
LEMMA ConcludeType ==
  ASSUME FlightOK, NEW f \in Flight, pc[f] \in Armed, NEW o \in Concluded,
         Conclude(f, o)
  PROVE  FlightOK'
  BY DEF FlightOK, Conclude, Location, Armed, Executing, Ending,
        Outcome, Concluded

\* So does the end of an item; what failed is the caller's business.
LEMMA ItemDoneType ==
  ASSUME FlightOK, NEW f \in Flight, pc[f] \in Armed, ItemDone(f),
         failed' \in [Flight -> SUBSET Item]
  PROVE  FlightOK'
  BY DEF FlightOK, ItemDone, Location, Armed, Executing, Ending

\* EndRow writes a status of the table.
LEMMA EndRowType ==
  ASSUME LedgerOK, NEW r \in RunId, NEW s \in RowStatus, EndRow(r, s),
         UNCHANGED <<begun, owner, price>>, unseen' \in SUBSET RunId
  PROVE  LedgerOK'
  BY DEF LedgerOK, EndRow

-----------------------------------------------------------------------------
(* The steps of a refresh *)

LEMMA ExecuteType ==
  ASSUME TypeOK, NEW f \in Flight, Execute(f)
  PROVE  TypeOK'
<1>. USE DEF TypeOK
<1>0. /\ {"REJECTED", "FAILED", "ERROR"} \subseteq Concluded
      /\ RunStatus(f) \in Concluded
  BY DEF Concluded, Recorded, RunStatus
<1>1. CASE RejectWindow(f)
  <2>1. FlightOK'  BY <1>0, <1>1, ConcludeType DEF RejectWindow, Armed, Executing, Ending
  <2>. QED  BY <1>1, <2>1 DEF RejectWindow, LedgerOK, ledger, ProcessOK, process
<1>2. CASE SeedSymbols(f)
  <2>1. FlightOK'
    BY <1>2 DEF SeedSymbols, FlightOK, work, Location, Armed, Executing, Ending
  <2>2. LedgerOK'
    BY <1>2 DEF SeedSymbols, LedgerOK, Holds, HoldsRow, Running
  <2>. QED  BY <1>2, <2>1, <2>2 DEF SeedSymbols, ProcessOK, process
<1>3. CASE NextSource(f)
  <2>1. FlightOK'
    BY <1>3 DEF NextSource, FlightOK, Location, Armed, Executing, Ending
  <2>. QED  BY <1>3, <2>1 DEF NextSource, LedgerOK, ledger, ProcessOK, process
<1>4. CASE NoticeLost(f)
  <2>1. FlightOK'  BY <1>0, <1>4, ConcludeType DEF NoticeLost, Armed, Executing, Ending
  <2>. QED  BY <1>4, <2>1 DEF NoticeLost, LedgerOK, ledger, ProcessOK, process
<1>5. CASE StartRates(f)
  <2>1. FlightOK'
    BY <1>5 DEF StartRates, FlightOK, work, Location, Armed, Executing, Ending
  <2>. QED  BY <1>5, <2>1 DEF StartRates, LedgerOK, ledger, ProcessOK, process
<1>6. CASE NextCurrency(f)
  <2>1. FlightOK'
    BY <1>6 DEF NextCurrency, FlightOK, Location, Armed, Executing, Ending
  <2>. QED  BY <1>6, <2>1 DEF NextCurrency, LedgerOK, ledger, ProcessOK, process
<1>7. CASE StoreItem(f)
  <2>1. FlightOK'  BY <1>7, ItemDoneType DEF StoreItem, FlightOK, Armed, Executing, Ending
  <2>2. LedgerOK'
    BY <1>7 DEF StoreItem, LedgerOK, FlightOK, Holds, HoldsRow, Running
  <2>. QED  BY <1>7, <2>1, <2>2 DEF StoreItem, ProcessOK, process
<1>8. CASE ItemFails(f)
  <2>1. failed' \in [Flight -> SUBSET Item]
    BY <1>8 DEF ItemFails, FlightOK
  <2>2. FlightOK'  BY <1>8, <2>1, ItemDoneType DEF ItemFails, Armed, Executing, Ending
  <2>. QED  BY <1>8, <2>2 DEF ItemFails, LedgerOK, ledger, ProcessOK, process
<1>9. CASE PersistMapping(f)
  <2>1. failed' \in [Flight -> SUBSET Item]
    BY <1>9 DEF PersistMapping, FlightOK, Item, flight, work
  <2>2. FlightOK'
    <3>1. CASE UNCHANGED flight  BY <3>1 DEF FlightOK, flight, work
    <3>2. CASE ItemDone(f)
      BY <1>9, <2>1, <3>2, ItemDoneType DEF PersistMapping, Armed, Executing, Ending
    <3>. QED  BY <1>9, <3>1, <3>2 DEF PersistMapping
  <2>3. LedgerOK'
    BY <1>9 DEF PersistMapping, LedgerOK, Holds, HoldsRow, Running
  <2>. QED  BY <1>9, <2>2, <2>3 DEF PersistMapping, ProcessOK, process
<1>10. CASE FenceLost(f)
  <2>1. FlightOK'  BY <1>0, <1>10, ConcludeType DEF FenceLost, Armed, Executing, Ending
  <2>. QED  BY <1>10, <2>1 DEF FenceLost, LedgerOK, ledger, ProcessOK, process
<1>11. CASE ExecuteFails(f)
  <2>1. FlightOK'  BY <1>0, <1>11, ConcludeType DEF ExecuteFails, Armed, Executing, Ending
  <2>. QED  BY <1>11, <2>1 DEF ExecuteFails, LedgerOK, ledger, ProcessOK, process
<1>12. CASE ExecuteDone(f)
  <2>1. FlightOK'  BY <1>0, <1>12, ConcludeType DEF ExecuteDone, Armed, Executing, Ending
  <2>. QED  BY <1>12, <2>1 DEF ExecuteDone, LedgerOK, ledger, ProcessOK, process
<1>. QED
  BY <1>1, <1>2, <1>3, <1>4, <1>5, <1>6, <1>7, <1>8, <1>9, <1>10, <1>11, <1>12
  DEF Execute

-----------------------------------------------------------------------------
(* The other steps *)

LEMMA FlightType ==
  ASSUME TypeOK, NEW f \in Flight,
         \/ Claim(f) \/ ClaimDropped(f) \/ ClaimHeld(f) \/ ClaimFails(f)
         \/ Heartbeat(f) \/ StopHeartbeat(f) \/ FinishRun(f) \/ FinishFails(f)
         \/ Answer(f) \/ Drop(f) \/ DropAnswering(f)
  PROVE  TypeOK'
<1>. USE HostAssumption DEF TypeOK
<1>0. Host[f] \in Process  OBVIOUS
<1>1. CASE Claim(f)
  <2>1. begun + 1 \in RunId /\ RunId \subseteq 0..MaxRuns
    BY <1>1, BoundAssumption DEF Claim, InsertClaim, LedgerOK, RunId
  <2>2. FlightOK'
    <3>1. /\ pc' \in [Flight -> Location]
          /\ run' \in [Flight -> 0..MaxRuns]
          /\ todo' \in [Flight -> SUBSET Item]
      BY <1>1, <2>1 DEF Claim, FlightOK, Location, Armed, Executing, Ending
    <3>2. \A g \in Flight : pc'[g] = "fetching" => item'[g] \in Item
      BY <1>1 DEF Claim, FlightOK
    <3>3. \A g \in Flight : pc'[g] \in Armed => run'[g] \in RunId
      BY <1>1, <2>1 DEF Claim, FlightOK
    <3>4. \A g \in Flight : pc'[g] \in Ending => outcome'[g] \in Concluded
      BY <1>1 DEF Claim, FlightOK, Ending
    <3>. QED  BY <1>1, <3>1, <3>2, <3>3, <3>4 DEF Claim, FlightOK
  <2>. QED
    BY <1>0, <1>1, <2>2, InsertClaimType DEF Claim, ProcessOK, process
<1>2. CASE ClaimDropped(f)
  BY <1>0, <1>2, InsertClaimType
  DEF ClaimDropped, ProcessOK, process, FlightOK, flight, work
<1>3. CASE ClaimHeld(f)
  <2>1. FlightOK'
    BY <1>3 DEF ClaimHeld, FlightOK, work, Location, Armed, Executing, Ending,
        Outcome, Concluded
  <2>. QED  BY <1>3, <2>1 DEF ClaimHeld, LedgerOK, ledger, ProcessOK, process
<1>4. CASE ClaimFails(f)
  <2>1. FlightOK'
    BY <1>4 DEF ClaimFails, FlightOK, work, Location, Armed, Executing, Ending,
        Outcome, Concluded
  <2>. QED  BY <1>4, <2>1 DEF ClaimFails, LedgerOK, ledger, ProcessOK, process
<1>5. CASE Heartbeat(f)
  <2>1. FlightOK'  BY <1>5 DEF Heartbeat, FlightOK
  <2>2. LedgerOK'  BY <1>5 DEF Heartbeat, LedgerOK
  <2>. QED  BY <1>5, <2>1, <2>2 DEF Heartbeat, ProcessOK, process
<1>6. CASE FinishRun(f)
  <2>1. outcome' \in [Flight -> Outcome]
    BY <1>6 DEF FinishRun, FlightOK, Outcome, Concluded, Recorded
  <2>2. FlightOK'
    BY <1>6, <2>1 DEF FinishRun, FlightOK, work, Location, Armed, Executing, Ending
  <2>3. LedgerOK'
    <3>1. CASE Holds(f)
      <4>1. Record(outcome[f]) \in RowStatus
        BY <1>6
        DEF FinishRun, FlightOK, Record, Concluded, Recorded, RowStatus, Ending
      <4>. QED
        BY <1>6, <3>1, <4>1, EndRowType
        DEF FinishRun, LedgerOK, Holds, HoldsRow, Running
    <3>2. CASE ~Holds(f)
      BY <1>6, <3>2 DEF FinishRun, LedgerOK
    <3>. QED  BY <3>1, <3>2
  <2>. QED  BY <1>6, <2>2, <2>3 DEF FinishRun, ProcessOK, process
<1>7. CASE FinishFails(f)
  <2>1. FlightOK'
    BY <1>7 DEF FinishFails, FlightOK, work, Location, Armed, Executing, Ending,
        Outcome, Concluded
  <2>2. ProcessOK'
    BY <1>0, <1>7 DEF FinishFails, ProcessOK, FlightOK, Armed, Ending
  <2>. QED  BY <1>7, <2>1, <2>2 DEF FinishFails, LedgerOK, ledger
<1>8. CASE Answer(f)
  <2>1. FlightOK'  BY <1>8, LeaveType DEF Answer
  <2>2. LedgerOK'  BY <1>8 DEF Answer, LedgerOK, Bump
  <2>. QED  BY <1>8, <2>1, <2>2 DEF Answer, ProcessOK, process
<1>9. CASE Drop(f)
  <2>1. FlightOK'  BY <1>9, LeaveType DEF Drop
  <2>2. ProcessOK'  BY <1>0, <1>9 DEF Drop, ProcessOK, FlightOK
  <2>. QED  BY <1>9, <2>1, <2>2 DEF Drop, LedgerOK, ledger
<1>10. CASE DropAnswering(f)
  <2>1. FlightOK'  BY <1>10, LeaveType DEF DropAnswering
  <2>2. ProcessOK'
    BY <1>0, <1>10 DEF DropAnswering, ProcessOK, FlightOK, RunId
  <2>. QED  BY <1>10, <2>1, <2>2 DEF DropAnswering, LedgerOK, ledger
<1>11. CASE StopHeartbeat(f)
  <2>1. FlightOK'
    BY <1>11 DEF StopHeartbeat, FlightOK, Location, Armed, Executing, Ending
  <2>. QED  BY <1>11, <2>1 DEF StopHeartbeat, LedgerOK, ledger, ProcessOK, process
<1>. QED
  BY <1>1, <1>2, <1>3, <1>4, <1>5, <1>6, <1>7, <1>8, <1>9, <1>10, <1>11

LEMMA ProcessType ==
  ASSUME TypeOK, NEW p \in Process,
         \/ \E r \in RunId : CancelRun(p, r) \/ CancelFails(p, r)
         \/ Crash(p) \/ Restart(p) \/ OtherMutation(p)
  PROVE  TypeOK'
<1>. USE DEF TypeOK
<1>1. ASSUME NEW r \in RunId, CancelRun(p, r)  PROVE TypeOK'
  <2>1. LedgerOK'
    BY <1>1 DEF CancelRun, EndRow, Bump, LedgerOK, RowStatus
  <2>. QED
    BY <1>1, <2>1 DEF CancelRun, ProcessOK, FlightOK, flight, work
<1>2. ASSUME NEW r \in RunId, CancelFails(p, r)  PROVE TypeOK'
  BY <1>2
  DEF CancelFails, LedgerOK, ledger, ProcessOK, FlightOK, flight, work
<1>3. CASE Crash(p)
  <2>1. FlightOK'  BY <1>3, LeaveType DEF Crash
  <2>2. ProcessOK'  BY <1>3, BoundAssumption DEF Crash, ProcessOK
  <2>. QED  BY <1>3, <2>1, <2>2 DEF Crash, LedgerOK, ledger
<1>4. CASE Restart(p)
  BY <1>4 DEF Restart, Bump, LedgerOK, ProcessOK, FlightOK, flight, work
<1>5. CASE OtherMutation(p)
  BY <1>5
  DEF OtherMutation, Bump, LedgerOK, ProcessOK, process, FlightOK, flight, work
<1>. QED  BY <1>1, <1>2, <1>3, <1>4, <1>5

LEMMA ClockType ==
  ASSUME TypeOK, Tick \/ ClockStepsBack
  PROVE  TypeOK'
<1>. USE DEF TypeOK
<1>1. age' \in [RunId -> Int]
  BY BoundAssumption DEF Tick, ClockStepsBack, LedgerOK
<1>. QED
  BY <1>1
  DEF Tick, ClockStepsBack, LedgerOK, ProcessOK, process, FlightOK, flight, work

\* Every variable keeps its type: in particular a refresh past its claim, and
\* a spawned cleanup, always name a row of the run table.
THEOREM TypeCorrect == Spec => []TypeOK
<1>1. Init => TypeOK  BY InitType
<1>2. TypeOK /\ [Next]_vars => TypeOK'
  <2> SUFFICES ASSUME TypeOK, [Next]_vars  PROVE TypeOK'
    OBVIOUS
  <2>1. ASSUME NEW f \in Flight, Execute(f)  PROVE TypeOK'
    BY <2>1, ExecuteType
  <2>2. CASE UNCHANGED vars
    BY <2>2
    DEF vars, TypeOK, LedgerOK, ledger, ProcessOK, process, FlightOK, flight,
        work
  <2>. QED  BY <2>1, <2>2, FlightType, ProcessType, ClockType DEF Next
<1>. QED  BY <1>1, <1>2, PTL DEF Spec

-----------------------------------------------------------------------------
(* What a step does to the ledger *)

\* Row r ends with status s; a cleanup bumps the revision as it does so.
RowEnds(r, s) ==
    /\ status' = [status EXCEPT ![r] = s]
    /\ UNCHANGED <<begun, price>>
    /\ IF s = "cancelled" THEN unseen' = {} ELSE UNCHANGED unseen
    /\ s = "SUCCEEDED" =>
         \E f \in Flight : pc[f] = "finishing" /\ outcome[f] = s /\ run[f] = r

\* Run r stores an item or a mapping.
RunWrites(r) ==
    /\ UNCHANGED <<begun, status>>
    /\ \/ UNCHANGED price
       \/ \E i \in Item : price' = [price EXCEPT ![i] = r]
    /\ unseen' = unseen \cup {r}

\* Nothing but a bump happens.
RowsQuiet ==
    /\ UNCHANGED <<begun, status, price>>
    /\ unseen' = {} \/ UNCHANGED unseen

LedgerMove ==
    \/ \E p \in Process : InsertClaim(p)
    \/ \E r \in Running : \E s \in Recorded \cup {"cancelled"} : RowEnds(r, s)
    \/ \E r \in Running : RunWrites(r)
    \/ RowsQuiet

LEMMA ExecuteMove ==
  ASSUME TypeOK, NEW f \in Flight, Execute(f)
  PROVE  LedgerMove
<1>1. CASE SeedSymbols(f) \/ StoreItem(f) \/ PersistMapping(f)
  <2>1. UNCHANGED <<begun, status>>
    BY <1>1 DEF SeedSymbols, StoreItem, PersistMapping
  <2>2. CASE Holds(f) /\ unseen' = unseen \cup {run[f]}
    <3>1. run[f] \in Running  BY <2>2 DEF Holds, HoldsRow
    <3>2. \/ UNCHANGED price
          \/ \E i \in Item : price' = [price EXCEPT ![i] = run[f]]
      BY <1>1 DEF SeedSymbols, StoreItem, PersistMapping, TypeOK, FlightOK
    <3>. QED  BY <2>1, <2>2, <3>1, <3>2 DEF LedgerMove, RunWrites
  <2>3. CASE SeedSymbols(f) /\ UNCHANGED unseen
    BY <2>3 DEF SeedSymbols, LedgerMove, RowsQuiet
  <2>. QED  BY <1>1, <2>2, <2>3 DEF SeedSymbols, StoreItem, PersistMapping
<1>2. CASE UNCHANGED ledger
  BY <1>2 DEF ledger, LedgerMove, RowsQuiet
<1>. QED
  BY <1>1, <1>2
  DEF Execute, RejectWindow, NextSource, NoticeLost, StartRates, NextCurrency,
      ItemFails, FenceLost, ExecuteFails, ExecuteDone

\* Every step is one of the four moves: this is all the proofs below need to
\* know of the actions.
LEMMA StepMoves ==
  ASSUME TypeOK, [Next]_vars
  PROVE  LedgerMove
<1>. USE HostAssumption
<1>1. ASSUME NEW f \in Flight, Claim(f) \/ ClaimDropped(f)  PROVE LedgerMove
  BY <1>1 DEF Claim, ClaimDropped, LedgerMove
<1>2. ASSUME NEW f \in Flight, Execute(f)  PROVE LedgerMove
  BY <1>2, ExecuteMove
<1>3. ASSUME NEW f \in Flight, FinishRun(f)  PROVE LedgerMove
  <2>1. CASE Holds(f)
    <3>. DEFINE s == Record(outcome[f])
    <3>1. run[f] \in Running  BY <2>1 DEF Holds, HoldsRow
    <3>2. s \in Recorded
      BY <1>3 DEF FinishRun, TypeOK, FlightOK, Record, Concluded, Recorded, Ending
    <3>3. RowEnds(run[f], s)
      BY <1>3, <2>1, <3>2 DEF FinishRun, EndRow, RowEnds, Record, Recorded
    <3>. QED  BY <3>1, <3>2, <3>3 DEF LedgerMove
  <2>2. CASE ~Holds(f)
    BY <1>3, <2>2 DEF FinishRun, LedgerMove, RowsQuiet
  <2>. QED  BY <2>1, <2>2
<1>4. ASSUME NEW p \in Process, NEW r \in RunId, CancelRun(p, r)
      PROVE  LedgerMove
  <2>1. CASE HoldsRow(p, r)
    <3>1. RowEnds(r, "cancelled")
      BY <1>4, <2>1 DEF CancelRun, EndRow, RowEnds, Bump
    <3>. QED  BY <2>1, <3>1 DEF LedgerMove, HoldsRow
  <2>2. CASE ~HoldsRow(p, r)
    BY <1>4, <2>2 DEF CancelRun, LedgerMove, RowsQuiet
  <2>. QED  BY <2>1, <2>2
<1>5. ASSUME NEW f \in Flight,
             \/ ClaimHeld(f) \/ ClaimFails(f) \/ Heartbeat(f) \/ StopHeartbeat(f)
             \/ FinishFails(f) \/ Answer(f) \/ Drop(f) \/ DropAnswering(f)
      PROVE  LedgerMove
  BY <1>5
  DEF ClaimHeld, ClaimFails, Heartbeat, StopHeartbeat, FinishFails, Answer, Drop,
      DropAnswering, ledger, Bump, LedgerMove, RowsQuiet
<1>6. ASSUME NEW p \in Process,
             \/ \E r \in RunId : CancelFails(p, r)
             \/ Crash(p) \/ Restart(p) \/ OtherMutation(p)
      PROVE  LedgerMove
  BY <1>6
  DEF CancelFails, Crash, Restart, OtherMutation, ledger, Bump, LedgerMove,
      RowsQuiet
<1>7. CASE Tick \/ ClockStepsBack \/ UNCHANGED vars
  BY <1>7 DEF Tick, ClockStepsBack, vars, ledger, LedgerMove, RowsQuiet
<1>. QED  BY <1>1, <1>2, <1>3, <1>4, <1>5, <1>6, <1>7 DEF Next

-----------------------------------------------------------------------------
(* The run table *)

\* The part of RowsInOrder that is about the ledger.
TableInOrder ==
    /\ \A r \in RunId : status[r] = "unclaimed" <=> r > begun
    /\ \A r \in Running : r = begun
    /\ \A i \in Item : price[i] <= begun
    /\ \A r \in unseen : r <= begun

LEMMA TableStep ==
  ASSUME TypeOK, TypeOK', TableInOrder, LedgerMove
  PROVE  TableInOrder'
<1>. USE DEF TypeOK, LedgerOK, TableInOrder, Running, RunId
<1>1. ASSUME NEW p \in Process, InsertClaim(p)  PROVE TableInOrder'
  <2>1. begun' = begun + 1 /\ begun + 1 <= MaxRuns
    BY <1>1, BoundAssumption DEF InsertClaim
  <2>2. \A r \in RunId : status'[r] = "unclaimed" <=> r > begun'
    BY <1>1, <2>1 DEF InsertClaim
  <2>3. \A r \in RunId : status'[r] = "RUNNING" => r = begun'
    BY <1>1, <2>1 DEF InsertClaim
  <2>4. \A i \in Item : price'[i] <= begun'
    BY <1>1, <2>1 DEF InsertClaim
  <2>5. \A r \in unseen' : r <= begun'
    BY <1>1, <2>1 DEF InsertClaim, Bump
  <2>. QED  BY <2>2, <2>3, <2>4, <2>5
<1>2. ASSUME NEW r \in Running, NEW s \in Recorded \cup {"cancelled"},
             RowEnds(r, s)
      PROVE  TableInOrder'
  BY <1>2 DEF RowEnds, Recorded
<1>3. ASSUME NEW r \in Running, RunWrites(r)  PROVE TableInOrder'
  <2>1. r \in RunId /\ r = begun  OBVIOUS
  <2>2. \A i \in Item : price'[i] <= begun'
    BY <1>3, <2>1 DEF RunWrites
  <2>. QED  BY <1>3, <2>1, <2>2 DEF RunWrites
<1>4. CASE RowsQuiet
  BY <1>4 DEF RowsQuiet
<1>. QED  BY <1>1, <1>2, <1>3, <1>4 DEF LedgerMove

LEMMA InitTable == Init => TableInOrder
  BY BoundAssumption DEF Init, TableInOrder, Running, RunId

LEMMA TableAlways == Spec => []TableInOrder
<1>1. TypeOK /\ TypeOK' /\ TableInOrder /\ [Next]_vars => TableInOrder'
  BY StepMoves, TableStep
<1>. QED  BY <1>1, InitTable, TypeCorrect, PTL DEF Spec

\* At most one refresh has a RUNNING row: the newest.
THEOREM OneRunning == Spec => []AtMostOneRunning
<1>1. TableInOrder => AtMostOneRunning
  BY DEF TableInOrder, AtMostOneRunning
<1>. QED  BY <1>1, TableAlways, PTL

\* Rows that ended keep their status.
LEMMA EndedStep ==
  ASSUME TypeOK, TableInOrder, LedgerMove,
         NEW r \in RunId, status[r] \notin {"unclaimed", "RUNNING"}
  PROVE  status'[r] = status[r]
<1>. USE DEF TypeOK, LedgerOK, TableInOrder, Running, RunId
<1>1. ASSUME NEW p \in Process, InsertClaim(p)  PROVE status'[r] = status[r]
  BY <1>1 DEF InsertClaim
<1>2. ASSUME NEW q \in Running, NEW s \in Recorded \cup {"cancelled"},
             RowEnds(q, s)
      PROVE  status'[r] = status[r]
  BY <1>2 DEF RowEnds
<1>. QED  BY <1>1, <1>2 DEF LedgerMove, RunWrites, RowsQuiet

THEOREM EndedStay == Spec => EndedRunsStayEnded
<1>1. TypeOK /\ TableInOrder /\ [Next]_vars
        => [\A r \in RunId : status[r] \notin {"unclaimed", "RUNNING"}
              => status'[r] = status[r]]_vars
  BY StepMoves, EndedStep
<1>. QED
  BY <1>1, TypeCorrect, TableAlways, PTL DEF Spec, EndedRunsStayEnded

\* Only the newest run stores values: a superseded refresh never does.
THEOREM LateWritesRefused == Spec => NoLateWrites
<1>1. ASSUME TypeOK, TableInOrder, LedgerMove, NEW i \in Item,
             price'[i] # price[i]
      PROVE  price'[i] = begun
  BY <1>1
  DEF TypeOK, LedgerOK, TableInOrder, LedgerMove, InsertClaim, RowEnds,
      RunWrites, RowsQuiet
<1>2. TypeOK /\ TableInOrder /\ [Next]_vars
        => [\A i \in Item : price'[i] # price[i] => price'[i] = begun]_vars
  BY <1>1, StepMoves
<1>. QED  BY <1>2, TypeCorrect, TableAlways, PTL DEF Spec, NoLateWrites

\* Whoever takes over or cancels a run announces what it wrote.
THEOREM CleanupsAnnounce == Spec => []CleanupAnnouncesWrites
<1>. USE DEF CleanupAnnouncesWrites
<1>1. Init => CleanupAnnouncesWrites  BY DEF Init
<1>2. ASSUME TypeOK, TypeOK', TableInOrder, CleanupAnnouncesWrites, LedgerMove
      PROVE  CleanupAnnouncesWrites'
  <2>. USE <1>2 DEF TypeOK, LedgerOK, TableInOrder, Running, RunId
  <2>1. ASSUME NEW p \in Process, InsertClaim(p)
        PROVE  CleanupAnnouncesWrites'
    <3>1. CASE Running = {}
      BY <2>1, <3>1 DEF InsertClaim
    <3>2. CASE Running # {}
      BY <2>1, <3>2 DEF InsertClaim, Bump
    <3>. QED  BY <3>1, <3>2
  <2>2. ASSUME NEW q \in Running, NEW s \in Recorded \cup {"cancelled"},
               RowEnds(q, s)
        PROVE  CleanupAnnouncesWrites'
    BY <2>2 DEF RowEnds, Recorded
  <2>3. ASSUME NEW q \in Running, RunWrites(q)
        PROVE  CleanupAnnouncesWrites'
    BY <2>3 DEF RunWrites
  <2>4. CASE RowsQuiet
    BY <2>4 DEF RowsQuiet
  <2>. QED  BY <2>1, <2>2, <2>3, <2>4 DEF LedgerMove
<1>3. TypeOK /\ TypeOK' /\ TableInOrder /\ CleanupAnnouncesWrites
        /\ [Next]_vars => CleanupAnnouncesWrites'
  BY <1>2, StepMoves
<1>. QED  BY <1>1, <1>3, TypeCorrect, TableAlways, PTL DEF Spec

-----------------------------------------------------------------------------
(* What a step does to one refresh *)

FlightMove(g) ==
    \* it is as it was, up to where in its loops or in its ending it is
    \/ /\ \/ pc'[g] = pc[g] \/ {pc[g], pc'[g]} \subseteq Executing
          \/ {pc[g], pc'[g]} \subseteq Ending
       /\ run'[g] = run[g] /\ todo'[g] = todo[g] /\ failed'[g] = failed[g]
       /\ outcome'[g] = outcome[g]
    \* it starts with everything to do and the newest row
    \/ pc'[g] = "seeding" /\ todo'[g] = Item /\ run'[g] = begun'
    \* it is done with an item: stored, or counted as failed
    \/ /\ {pc[g], pc'[g]} \subseteq Executing
       /\ run'[g] = run[g] /\ todo'[g] = todo[g] \ {item[g]}
       /\ \/ failed'[g] = failed[g] /\ price'[item[g]] = run[g]
          \/ failed'[g] = failed[g] \cup {item[g]}
    \* it concludes, with success only if nothing is left and nothing failed
    \/ /\ pc[g] \in Executing /\ pc'[g] = "stopping" /\ run'[g] = run[g]
       /\ outcome'[g] = "SUCCEEDED" => todo[g] = {} /\ failed[g] = {}
    \* it has its answer, which is a success only if its row says the same
    \/ /\ pc'[g] = "answering" /\ run'[g] = run[g]
       /\ outcome'[g] \in {"SUCCEEDED", "PARTIAL"}
            => run[g] \in RunId /\ status'[run[g]] = outcome'[g]
    \* it is gone
    \/ pc'[g] = "idle" /\ run'[g] = 0

LEMMA ExecuteFlight ==
  ASSUME TypeOK, NEW f \in Flight, Execute(f), NEW g \in Flight
  PROVE  FlightMove(g)
<1>. USE DEF TypeOK, LedgerOK, FlightOK, FlightMove, Executing
<1>1. CASE RejectWindow(f) \/ NoticeLost(f) \/ FenceLost(f) \/ ExecuteFails(f)
  BY <1>1 DEF RejectWindow, NoticeLost, FenceLost, ExecuteFails, Conclude
<1>2. CASE ExecuteDone(f)
  <2>1. RunStatus(f) = "SUCCEEDED" => failed[f] = {}
    BY DEF RunStatus
  <2>. QED  BY <1>2, <2>1 DEF ExecuteDone, Conclude
<1>3. CASE SeedSymbols(f) \/ StartRates(f)
  BY <1>3 DEF SeedSymbols, StartRates, work
<1>4. CASE NextSource(f) \/ NextCurrency(f)
  BY <1>4 DEF NextSource, NextCurrency
<1>5. CASE StoreItem(f)
  <2>1. item[f] \in Item  BY <1>5 DEF StoreItem
  <2>2. price'[item[f]] = run[f]  BY <1>5, <2>1 DEF StoreItem
  <2>. QED  BY <1>5, <2>2 DEF StoreItem, ItemDone
<1>6. CASE ItemFails(f)
  BY <1>6 DEF ItemFails, ItemDone
<1>7. CASE PersistMapping(f)
  <2>1. CASE UNCHANGED flight
    BY <2>1 DEF flight, work
  <2>2. CASE ItemDone(f) /\ failed' = [failed EXCEPT ![f] = @ \cup {item[f]}]
    BY <1>7, <2>2 DEF PersistMapping, ItemDone
  <2>. QED  BY <1>7, <2>1, <2>2 DEF PersistMapping
<1>. QED
  BY <1>1, <1>2, <1>3, <1>4, <1>5, <1>6, <1>7 DEF Execute

LEMMA StepFlight ==
  ASSUME TypeOK, [Next]_vars, NEW g \in Flight
  PROVE  FlightMove(g)
<1>. USE DEF TypeOK, LedgerOK, FlightOK, FlightMove
<1>1. ASSUME NEW f \in Flight, Execute(f)  PROVE FlightMove(g)
  BY <1>1, ExecuteFlight
<1>2. ASSUME NEW f \in Flight, Claim(f)  PROVE FlightMove(g)
  BY <1>2 DEF Claim, InsertClaim
<1>3. ASSUME NEW f \in Flight, ClaimHeld(f) \/ ClaimFails(f)
      PROVE  FlightMove(g)
  BY <1>3 DEF ClaimHeld, ClaimFails, work
<1>4. ASSUME NEW f \in Flight, FinishRun(f)  PROVE FlightMove(g)
  <2>1. CASE g # f
    BY <1>4, <2>1 DEF FinishRun, work
  <2>2. CASE g = f /\ Holds(f)
    <3>1. run[f] \in RunId  BY <1>4 DEF FinishRun, Armed, Ending
    <3>2. status'[run[f]] = Record(outcome[f])
      BY <1>4, <2>2, <3>1 DEF FinishRun, EndRow
    <3>. QED  BY <1>4, <2>2, <3>1, <3>2 DEF FinishRun, Record, work
  <2>3. CASE g = f /\ ~Holds(f)
    BY <1>4, <2>3 DEF FinishRun, Recorded, work
  <2>. QED  BY <2>1, <2>2, <2>3
<1>5. ASSUME NEW f \in Flight, FinishFails(f)  PROVE FlightMove(g)
  BY <1>5 DEF FinishFails, work
<1>6. ASSUME NEW F, Leave(F)  PROVE FlightMove(g)
  BY <1>6 DEF Leave
<1>7. ASSUME NEW f \in Flight, Answer(f) \/ Drop(f) \/ DropAnswering(f)
      PROVE  FlightMove(g)
  BY <1>6, <1>7 DEF Answer, Drop, DropAnswering
<1>8. ASSUME NEW p \in Process, Crash(p)  PROVE FlightMove(g)
  BY <1>6, <1>8 DEF Crash
<1>9. ASSUME NEW f \in Flight, Heartbeat(f) \/ StopHeartbeat(f)  PROVE FlightMove(g)
  BY <1>9 DEF Heartbeat, StopHeartbeat, Ending
<1>10. CASE UNCHANGED flight
  BY <1>10 DEF flight, work
<1>. QED
  BY <1>1, <1>2, <1>3, <1>4, <1>5, <1>7, <1>8, <1>9, <1>10
  DEF Next, ClaimDropped, CancelRun, CancelFails, Restart, OtherMutation,
      Tick, ClockStepsBack, vars

-----------------------------------------------------------------------------
(* Answers and completed runs *)

\* A refresh has no row newer than the newest.
RunInTable == \A f \in Flight : run[f] <= begun

\* Values only ever come from newer runs, because only the newest one writes.
LEMMA PricesGrow ==
  ASSUME TypeOK, TypeOK', TableInOrder, LedgerMove
  PROVE  begun <= begun' /\ \A i \in Item : price[i] <= price'[i]
<1>. USE DEF TypeOK, LedgerOK, TableInOrder
<1>1. begun <= begun'
  BY DEF LedgerMove, InsertClaim, RowEnds, RunWrites, RowsQuiet
<1>2. ASSUME NEW r \in Running, RunWrites(r), NEW i \in Item
      PROVE  price[i] <= price'[i]
  BY <1>2 DEF RunWrites
<1>. QED
  BY <1>1, <1>2 DEF LedgerMove, InsertClaim, RowEnds, RowsQuiet

LEMMA RunInTableStep ==
  ASSUME TypeOK, TypeOK', TableInOrder, RunInTable, [Next]_vars
  PROVE  RunInTable'
<1>1. begun <= begun'  BY StepMoves, PricesGrow
<1>. QED
  BY <1>1, StepFlight DEF RunInTable, FlightMove, TypeOK, LedgerOK, FlightOK

LEMMA RowsAlwaysInOrder == Spec => []RowsInOrder
<1>1. Init => RunInTable  BY DEF Init, RunInTable
<1>2. TypeOK /\ TypeOK' /\ TableInOrder /\ RunInTable /\ [Next]_vars
        => RunInTable'
  BY RunInTableStep
<1>3. TableInOrder /\ RunInTable => RowsInOrder
  BY DEF TableInOrder, RunInTable, RowsInOrder
<1>. QED  BY <1>1, <1>2, <1>3, TypeCorrect, TableAlways, PTL DEF Spec

\* A refresh reports success only if its row says the same, for good.
THEOREM AnswersMatch == Spec => []AnswerMatchesRow
<1>. USE DEF AnswerMatchesRow
<1>1. Init => AnswerMatchesRow  BY DEF Init
<1>2. ASSUME TypeOK, TableInOrder, AnswerMatchesRow, [Next]_vars,
             NEW g \in Flight, pc'[g] = "answering",
             outcome'[g] \in {"SUCCEEDED", "PARTIAL"}
      PROVE  run'[g] \in RunId /\ status'[run'[g]] = outcome'[g]
  <2>1. FlightMove(g)  BY <1>2, StepFlight
  <2>2. CASE /\ pc[g] = "answering" /\ outcome'[g] = outcome[g]
             /\ run'[g] = run[g]
    <3>1. run[g] \in RunId /\ status[run[g]] = outcome[g]
      BY <1>2, <2>2
    <3>2. status'[run[g]] = status[run[g]]
      BY <1>2, <2>2, <3>1, StepMoves, EndedStep
    <3>. QED  BY <2>2, <3>1, <3>2
  <2>. QED  BY <1>2, <2>1, <2>2 DEF FlightMove, Executing, Ending
<1>3. TypeOK /\ TableInOrder /\ AnswerMatchesRow /\ [Next]_vars
        => AnswerMatchesRow'
  BY <1>2
<1>. QED  BY <1>1, <1>3, TypeCorrect, TableAlways, PTL DEF Spec

LEMMA StoredStep ==
  ASSUME TypeOK, TypeOK', RowsInOrder, StoredSoFar, [Next]_vars
  PROVE  StoredSoFar'
<1>. SUFFICES ASSUME NEW g \in Flight, NEW i \in Item
              PROVE  /\ pc'[g] \in Executing =>
                          \/ i \in todo'[g] \/ i \in failed'[g]
                          \/ price'[i] >= run'[g]
                     /\ pc'[g] \in Ending /\ outcome'[g] = "SUCCEEDED" =>
                          price'[i] >= run'[g]
  BY DEF StoredSoFar
<1>1. price[i] <= price'[i] /\ {price[i], price'[i], run[g], run'[g]} \subseteq Int
  BY StepMoves, PricesGrow
  DEF RowsInOrder, TableInOrder, TypeOK, LedgerOK, FlightOK
<1>2. /\ pc[g] \in Executing =>
            i \in todo[g] \/ i \in failed[g] \/ price[i] >= run[g]
      /\ pc[g] \in Ending /\ outcome[g] = "SUCCEEDED" => price[i] >= run[g]
  BY DEF StoredSoFar
<1>3. FlightMove(g)  BY StepFlight
<1>. QED  BY <1>1, <1>2, <1>3 DEF FlightMove, Executing, Ending

\* A run that is recorded as SUCCEEDED has left nothing older than itself.
THEOREM SucceededStored == Spec => []SucceededMeansStored
<1>1. Init => StoredSoFar /\ SucceededMeansStored
  BY DEF Init, StoredSoFar, SucceededMeansStored, Executing, Ending
<1>2. TypeOK /\ TypeOK' /\ RowsInOrder /\ StoredSoFar /\ [Next]_vars
        => StoredSoFar'
  BY StoredStep
<1>3. ASSUME TypeOK, TypeOK', RowsInOrder, StoredSoFar, SucceededMeansStored,
             LedgerMove, NEW r \in RunId, status'[r] = "SUCCEEDED",
             NEW i \in Item
      PROVE  price'[i] >= r
  <2>1. /\ price[i] <= price'[i]
        /\ {price[i], price'[i], r} \subseteq Int
    BY <1>3, PricesGrow
    DEF RowsInOrder, TableInOrder, TypeOK, LedgerOK, RunId
  <2>2. CASE status[r] = "SUCCEEDED"
    BY <1>3, <2>1, <2>2 DEF SucceededMeansStored
  <2>3. CASE status[r] # "SUCCEEDED"
    <3>1. PICK f \in Flight :
            pc[f] = "finishing" /\ outcome[f] = "SUCCEEDED" /\ run[f] = r
      BY <1>3, <2>3
      DEF LedgerMove, InsertClaim, RowEnds, RunWrites, RowsQuiet, TypeOK,
          LedgerOK
    <3>. QED  BY <1>3, <2>1, <3>1 DEF StoredSoFar, Ending
  <2>. QED  BY <2>2, <2>3
<1>4. TypeOK /\ TypeOK' /\ RowsInOrder /\ StoredSoFar /\ SucceededMeansStored
        /\ [Next]_vars => SucceededMeansStored'
  BY <1>3, StepMoves DEF SucceededMeansStored
<1>. QED  BY <1>1, <1>2, <1>4, TypeCorrect, RowsAlwaysInOrder, PTL DEF Spec

-----------------------------------------------------------------------------
(* The lease implements ExclusiveRuns *)

LEMMA RunningShape ==
  ASSUME TableInOrder
  PROVE  /\ Running = {} => Current = 0
         /\ \A r \in Running : Running = {r} /\ Current = r
  BY DEF TableInOrder, Current

LEMMA InsertClaimRefines ==
  ASSUME TypeOK, TableInOrder, TableInOrder', NEW p \in Process, InsertClaim(p)
  PROVE  Exclusive!Begin \/ Exclusive!TakeOver
<1>. USE DEF TypeOK, LedgerOK, InsertClaim, RunId
<1>1. begun + 1 \in RunId /\ begun' = begun + 1 /\ begun < MaxRuns
  BY BoundAssumption
<1>2. begun + 1 \in Running'
  BY <1>1 DEF Running
<1>3. Current' = begun + 1
  BY <1>2 DEF TableInOrder, Current
<1>4. status[begun + 1] = "unclaimed"
  BY <1>1 DEF TableInOrder
<1>5. CASE Running = {}
  <2>1. Current = 0  BY <1>5, RunningShape
  <2>2. Result' = Result  BY <1>1, <1>4, <1>5 DEF Result, Running
  <2>. QED  BY <1>1, <1>3, <1>5, <2>1, <2>2 DEF Exclusive!Begin
<1>6. CASE Running # {}
  <2>1. PICK c \in Running : TRUE  BY <1>6
  <2>2. Running = {c} /\ Current = c /\ c \in RunId /\ c # 0 /\ c # begun + 1
    BY <1>4, <2>1, RunningShape DEF Running
  <2>3. Result' = [Result EXCEPT ![c] = "abandoned"]
    BY <1>1, <1>4, <2>1, <2>2 DEF Result, Running
  <2>4. unseen' = {}  BY <1>6 DEF Bump
  <2>. QED  BY <1>1, <1>3, <2>2, <2>3, <2>4 DEF Exclusive!TakeOver
<1>. QED  BY <1>5, <1>6

LEMMA RowEndsRefines ==
  ASSUME TypeOK, TableInOrder, TableInOrder', NEW r \in Running,
         NEW s \in Recorded \cup {"cancelled"}, RowEnds(r, s)
  PROVE  Exclusive!Finish \/ Exclusive!Cancel
<1>. USE DEF TypeOK, LedgerOK, RowEnds, RunId
<1>1. Running = {r} /\ Current = r /\ r \in RunId /\ r # 0
  BY RunningShape DEF Running
<1>2. Running' = {}
  BY <1>1 DEF Running, Recorded
<1>3. Current' = 0
  BY <1>2 DEF Current
<1>4. Result' = [Result EXCEPT ![r] = s]
  BY <1>1 DEF Result, Recorded
<1>5. CASE s = "cancelled"
  BY <1>1, <1>3, <1>4, <1>5 DEF Exclusive!Cancel
<1>6. CASE s \in Recorded
  <2>1. s \in Exclusive!OwnResult
    BY <1>6 DEF Recorded, Exclusive!OwnResult
  <2>. QED  BY <1>1, <1>3, <1>4, <1>6, <2>1 DEF Exclusive!Finish, Recorded
<1>. QED  BY <1>5, <1>6

LEMMA MoveRefines ==
  ASSUME TypeOK, TableInOrder, TableInOrder', LedgerMove
  PROVE  [Exclusive!Next]_(Exclusive!abstractVars)
<1>. USE DEF Exclusive!Next, Exclusive!abstractVars
<1>1. ASSUME NEW p \in Process, InsertClaim(p)
      PROVE  [Exclusive!Next]_(Exclusive!abstractVars)
  BY <1>1, InsertClaimRefines
<1>2. ASSUME NEW r \in Running, NEW s \in Recorded \cup {"cancelled"},
             RowEnds(r, s)
      PROVE  [Exclusive!Next]_(Exclusive!abstractVars)
  BY <1>2, RowEndsRefines
<1>3. ASSUME NEW r \in Running, RunWrites(r)
      PROVE  [Exclusive!Next]_(Exclusive!abstractVars)
  <2>1. Current = r /\ r # 0
    BY RunningShape DEF Running, RunId
  <2>2. Current' = Current /\ Result' = Result
    BY <1>3 DEF RunWrites, Current, Running, Result
  <2>. QED  BY <1>3, <2>1, <2>2 DEF RunWrites, Exclusive!Write
<1>4. CASE RowsQuiet
  <2>1. Current' = Current /\ Result' = Result
    BY <1>4 DEF RowsQuiet, Current, Running, Result
  <2>. QED  BY <1>4, <2>1 DEF RowsQuiet, Exclusive!Announce
<1>. QED  BY <1>1, <1>2, <1>3, <1>4 DEF LedgerMove

\* Processes, clocks, heartbeats and cleanups amount to runs that follow one
\* another: each step of the lease is a step of ExclusiveRuns or changes
\* nothing ExclusiveRuns speaks of.
THEOREM Refinement == Spec => ImplementsExclusiveRuns
<1>1. Init => Exclusive!Init
  BY DEF Init, Exclusive!Init, Current, Running, Result, RunId,
         Exclusive!RunId
<1>2. TypeOK /\ TableInOrder /\ TableInOrder' /\ [Next]_vars
        => [Exclusive!Next]_(Exclusive!abstractVars)
  BY StepMoves, MoveRefines
<1>. QED
  BY <1>1, <1>2, TypeCorrect, TableAlways, PTL
  DEF Spec, ImplementsExclusiveRuns, Exclusive!Spec

-----------------------------------------------------------------------------
(* A refresh that renews its row on time keeps it (RefreshHeartbeat) *)

\* No two refreshes have the same row.
RunsAreOwn == \A f, g \in Flight : run[f] = run[g] /\ run[f] # 0 => f = g

\* A spawned cleanup comes after the refresh that had the row.
CleanupsAreLate ==
    \A c \in cleanups : /\ c[2] <= begun
                        /\ \A f \in Flight : run[f] = c[2] => pc[f] \notin Armed

\* f has its row, and renewed it lately.
Renewed(f) ==
    /\ Holds(f)
    /\ age[run[f]] <= HeartbeatEvery + FinishWithin
    /\ pc[f] \in Executing => age[run[f]] <= HeartbeatEvery

HoldersRenew == punctual => \A f \in Flight : pc[f] \in Armed => Renewed(f)

\* What a step is to refreshes, rows and cleanups.  A row is inserted, for f or for
\* nobody;
Claims(f) ==
    /\ InsertClaim(Host[f]) /\ UNCHANGED cleanups
    /\ \/ pc' = [pc EXCEPT ![f] = "seeding"] /\ run' = [run EXCEPT ![f] = begun + 1]
       \/ UNCHANGED <<pc, run>>

\* f goes on, and may end or renew its row, or hand it over to a cleanup;
Goes(f, l) ==
    /\ pc' = [pc EXCEPT ![f] = l] /\ UNCHANGED <<begun, owner, run>>
    /\ \/ pc[f] \in Armed /\ l \in Armed /\ (l \in Executing => pc[f] \in Executing)
       \/ l = "answering"
    /\ \/ UNCHANGED <<status, age, cleanups>>
       \/ age' = [age EXCEPT ![run[f]] = 0] /\ UNCHANGED <<status, cleanups>>
       \/ l = "answering" /\ (\E s : EndRow(run[f], s)) /\ UNCHANGED cleanups
       \/ /\ l = "answering" /\ cleanups' = cleanups \cup {<<Host[f], run[f]>>}
          /\ UNCHANGED <<status, age>>

\* refreshes are gone, and leave their rows to cleanups;
Leaves(F) ==
    /\ Leave(F) /\ UNCHANGED <<begun, status, owner, age>>
    /\ \A c \in cleanups' : c \in cleanups \/ \E f \in F : c[2] = run[f] /\ run[f] # 0

\* a cleanup ends a row; or time passes, or nothing of this happens.
Cancels(p, r) ==
    /\ <<p, r>> \in cleanups /\ cleanups' \subseteq cleanups
    /\ UNCHANGED <<begun, owner, pc, run>>
    /\ (\E s : EndRow(r, s)) \/ UNCHANGED <<status, age>>

Ages == (Tick \/ ClockStepsBack) /\ UNCHANGED <<begun, status, owner, pc, run, cleanups>>

Rests == UNCHANGED <<begun, status, owner, age, pc, run, cleanups>>

HolderMove ==
    \/ \E f \in Flight : \/ Claims(f) \/ (\E l \in Location : Goes(f, l))
    \/ \E F \in SUBSET Flight : Leaves(F)
    \/ \E p \in Process, r \in RunId : Cancels(p, r)
    \/ Ages \/ Rests

LEMMA ExecuteGoes ==
  ASSUME TypeOK, NEW f \in Flight, Execute(f)
  PROVE  Rests \/ \E l \in Location : Goes(f, l)
<1>. USE DEF TypeOK, FlightOK, Executing, Ending, Armed, Location
<1>1. CASE RejectWindow(f) \/ NoticeLost(f) \/ FenceLost(f) \/ ExecuteFails(f)
             \/ ExecuteDone(f)
  <2>1. /\ pc[f] \in Executing /\ pc' = [pc EXCEPT ![f] = "stopping"]
        /\ UNCHANGED <<begun, status, owner, age, run, cleanups>>
    BY <1>1 DEF RejectWindow, NoticeLost, FenceLost, ExecuteFails, ExecuteDone,
                Conclude, ledger, process
  <2>. QED  BY <2>1 DEF Goes
<1>2. CASE SeedSymbols(f) \/ StartRates(f) \/ NextSource(f) \/ NextCurrency(f)
  <2>1. /\ pc[f] \in Executing
        /\ \E l \in Executing : pc' = [pc EXCEPT ![f] = l]
        /\ UNCHANGED <<begun, status, owner, age, run, cleanups>>
    BY <1>2 DEF SeedSymbols, StartRates, NextSource, NextCurrency, ledger, process, work
  <2>. QED  BY <2>1 DEF Goes
<1>3. ASSUME ItemDone(f), pc[f] = "fetching",
             UNCHANGED <<begun, status, owner, age, cleanups>>
      PROVE  \E l \in Location : Goes(f, l)
  <2>1. \E l \in Executing : pc' = [pc EXCEPT ![f] = l] /\ run' = run
    BY <1>3 DEF ItemDone
  <2>. QED  BY <1>3, <2>1 DEF Goes
<1>4. CASE StoreItem(f) \/ ItemFails(f)
  BY <1>3, <1>4 DEF StoreItem, ItemFails, ledger, process
<1>5. CASE PersistMapping(f)
  <2>1. CASE UNCHANGED flight
    BY <1>5, <2>1 DEF PersistMapping, flight, process, Rests
  <2>2. CASE ItemDone(f)
    BY <1>3, <1>5, <2>2 DEF PersistMapping, process
  <2>. QED  BY <1>5, <2>1, <2>2 DEF PersistMapping
<1>. QED  BY <1>1, <1>2, <1>4, <1>5 DEF Execute

LEMMA StepHolder ==
  ASSUME TypeOK, [Next]_vars
  PROVE  HolderMove
<1>. USE HostAssumption DEF HolderMove
<1>1. ASSUME NEW f \in Flight, Claim(f) \/ ClaimDropped(f)  PROVE HolderMove
  BY <1>1 DEF Claim, ClaimDropped, Claims, process, flight
<1>2. ASSUME NEW f \in Flight, Execute(f)  PROVE HolderMove
  BY <1>2, ExecuteGoes
<1>3. ASSUME NEW f \in Flight, ClaimHeld(f) \/ ClaimFails(f) \/ FinishRun(f) \/ FinishFails(f)
      PROVE  HolderMove
  <2>1. /\ pc' = [pc EXCEPT ![f] = "answering"] /\ UNCHANGED <<begun, owner, run>>
        /\ \/ UNCHANGED <<status, age, cleanups>>
           \/ (\E s : EndRow(run[f], s)) /\ UNCHANGED cleanups
           \/ /\ cleanups' = cleanups \cup {<<Host[f], run[f]>>}
              /\ UNCHANGED <<status, age>>
    BY <1>3 DEF ClaimHeld, ClaimFails, FinishRun, FinishFails, ledger, process, work
  <2>2. "answering" \in Location  BY DEF Location
  <2>. QED  BY <2>1, <2>2 DEF Goes
<1>4. ASSUME NEW f \in Flight, Heartbeat(f)  PROVE HolderMove
  <2>1. /\ pc[f] \in Armed /\ UNCHANGED <<begun, status, owner, pc, run, cleanups>>
        /\ age' = [age EXCEPT ![run[f]] = 0] \/ UNCHANGED age
    BY <1>4 DEF Heartbeat, Beating, Armed, Ending, process
  <2>2. pc' = [pc EXCEPT ![f] = pc[f]] /\ pc[f] \in Location
    BY <2>1 DEF TypeOK, FlightOK
  <2>. QED  BY <2>1, <2>2 DEF Goes
<1>5. ASSUME NEW f \in Flight, Answer(f) \/ Drop(f) \/ DropAnswering(f)
      PROVE  HolderMove
  <2>1. /\ Leave({f}) /\ UNCHANGED <<begun, status, owner, age>>
        /\ \/ UNCHANGED cleanups
           \/ cleanups' = cleanups \cup {<<Host[f], run[f]>>} /\ run[f] # 0
    BY <1>5 DEF Answer, Drop, DropAnswering, ledger, process, TypeOK, FlightOK, RunId
  <2>2. Leaves({f})  BY <2>1 DEF Leaves
  <2>. QED  BY <2>2
<1>6. ASSUME NEW p \in Process, NEW r \in RunId, CancelRun(p, r) \/ CancelFails(p, r)
      PROVE  HolderMove
  <2>1. Cancels(p, r)
    BY <1>6 DEF CancelRun, CancelFails, Cancels, ledger, flight
  <2>. QED  BY <2>1
<1>7. ASSUME NEW p \in Process, Crash(p)  PROVE HolderMove
  <2>1. Leaves({f \in Flight : Host[f] = p})
    BY <1>7 DEF Crash, Leaves, ledger
  <2>. QED  BY <2>1
<1>8. ASSUME NEW p \in Process, Restart(p) \/ OtherMutation(p)  PROVE HolderMove
  BY <1>8 DEF Restart, OtherMutation, Rests, process, flight
<1>9. CASE Tick \/ ClockStepsBack
  BY <1>9 DEF Tick, ClockStepsBack, Ages, process, flight
<1>10. CASE UNCHANGED vars
  BY <1>10 DEF vars, ledger, process, flight, Rests
<1>11. ASSUME NEW f \in Flight, StopHeartbeat(f)  PROVE HolderMove
  <2>1. /\ pc[f] \in Ending /\ pc' = [pc EXCEPT ![f] = "finishing"]
        /\ UNCHANGED <<begun, status, owner, age, run, cleanups>>
    BY <1>11 DEF StopHeartbeat, Ending, ledger, process
  <2>2. /\ pc[f] \in Armed /\ "finishing" \in Armed \cap Location
        /\ "finishing" \notin Executing
    BY <2>1 DEF Armed, Executing, Ending, Location
  <2>. QED  BY <2>1, <2>2 DEF Goes
<1>. QED
  BY <1>1, <1>2, <1>3, <1>4, <1>5, <1>6, <1>7, <1>8, <1>9, <1>10, <1>11 DEF Next

LEMMA OwnStep ==
  ASSUME TypeOK, RowsInOrder, RunsAreOwn, CleanupsAreLate, HolderMove
  PROVE  RunsAreOwn' /\ CleanupsAreLate'
<1>. USE DEF TypeOK, LedgerOK, FlightOK, ProcessOK, RunsAreOwn, CleanupsAreLate
<1>1. ASSUME NEW f \in Flight, Claims(f)  PROVE RunsAreOwn' /\ CleanupsAreLate'
  <2>1. begun' = begun + 1 /\ begun \in Nat /\ cleanups' = cleanups
    BY <1>1, BoundAssumption DEF Claims, InsertClaim
  <2>2. \A g \in Flight : run[g] # begun + 1
    BY <2>1 DEF RowsInOrder
  <2>3. \A c \in cleanups : c[2] \in Int /\ c[2] # begun + 1
    BY <2>1 DEF RunId
  <2>4. \A g \in Flight : \/ run'[g] = run[g] /\ pc'[g] = pc[g]
                          \/ run'[g] = begun + 1 /\ g = f
    BY <1>1 DEF Claims
  <2>. QED  BY <2>1, <2>2, <2>3, <2>4
<1>2. ASSUME NEW f \in Flight, NEW l \in Location, Goes(f, l)
      PROVE  RunsAreOwn' /\ CleanupsAreLate'
  <2>1. /\ UNCHANGED <<begun, run>>
        /\ \A g \in Flight : pc'[g] \in Armed => pc[g] \in Armed
        /\ \A c \in cleanups' : \/ c \in cleanups
                                \/ c[2] = run[f] /\ pc'[f] \notin Armed
    BY <1>2 DEF Goes, Armed, Executing, Ending
  <2>2. run[f] <= begun  BY DEF RowsInOrder
  <2>3. \A g \in Flight : run[g] = run[f] /\ pc'[g] \in Armed => g = f
    BY <2>1 DEF RunId
  <2>. QED  BY <2>1, <2>2, <2>3
<1>3. ASSUME NEW F \in SUBSET Flight, Leaves(F)  PROVE RunsAreOwn' /\ CleanupsAreLate'
  <2>1. /\ begun' = begun
        /\ \A g \in Flight : \/ run'[g] = run[g] /\ pc'[g] = pc[g] /\ g \notin F
                             \/ run'[g] = 0 /\ pc'[g] \notin Armed
    BY <1>3 DEF Leaves, Leave, Armed, Executing, Ending
  <2>2. \A f \in F : run[f] <= begun  BY DEF RowsInOrder
  <2>. QED  BY <1>3, <2>1, <2>2 DEF Leaves
<1>4. CASE (\E p \in Process, r \in RunId : Cancels(p, r)) \/ Ages \/ Rests
  BY <1>4 DEF Cancels, Ages, Rests
<1>. QED  BY <1>1, <1>2, <1>3, <1>4 DEF HolderMove

\* A step in time leaves every armed refresh its renewed row.
LEMMA RenewedStep ==
  ASSUME HeartbeatEvery + FinishWithin <= StaleAfter,
         TypeOK, RowsInOrder, RunsAreOwn, CleanupsAreLate, HolderMove,
         \A f \in Flight : pc[f] \in Armed => Renewed(f),
         Tick => OnTime
  PROVE  \A f \in Flight : pc'[f] \in Armed => Renewed(f)'
<1>. USE DEF TypeOK, LedgerOK, FlightOK
<1>0. /\ HeartbeatEvery \in Nat /\ FinishWithin \in Nat /\ StaleAfter \in Nat
      /\ StepBack \in Nat
  BY TimingAssumption, BoundAssumption
<1>1. \A g \in Flight : pc[g] \in Armed =>
         /\ run[g] \in RunId /\ status[run[g]] = "RUNNING" /\ owner[run[g]] = Host[g]
         /\ age[run[g]] \in Int /\ age[run[g]] <= HeartbeatEvery + FinishWithin
         /\ pc[g] \in Executing => age[run[g]] <= HeartbeatEvery
  BY DEF Renewed, Holds, HoldsRow, Running
<1>2. SUFFICES ASSUME NEW g \in Flight, pc'[g] \in Armed
               PROVE  /\ run'[g] \in RunId /\ status'[run'[g]] = "RUNNING"
                      /\ owner'[run'[g]] = Host[g]
                      /\ age'[run'[g]] <= HeartbeatEvery + FinishWithin
                      /\ pc'[g] \in Executing => age'[run'[g]] <= HeartbeatEvery
  BY DEF Renewed, Holds, HoldsRow, Running
<1>3. ASSUME NEW f \in Flight, Claims(f)
      PROVE  /\ run'[g] \in RunId /\ status'[run'[g]] = "RUNNING"
             /\ owner'[run'[g]] = Host[g]
             /\ age'[run'[g]] <= HeartbeatEvery + FinishWithin
             /\ pc'[g] \in Executing => age'[run'[g]] <= HeartbeatEvery
  <2>1. pc[g] \notin Armed
    <3>1. SUFFICES ASSUME pc[g] \in Armed PROVE run[g] \in LiveClaim
      BY <1>3 DEF Claims, InsertClaim
    <3>2. ~(age[run[g]] > StaleAfter)
      BY <1>0, <1>1, <3>1
    <3>. QED  BY <1>1, <3>1, <3>2 DEF LiveClaim, Running, IsStale
  <2>2. g = f /\ run'[g] = begun + 1
    BY <1>2, <1>3, <2>1 DEF Claims
  <2>3. begun + 1 \in RunId
    BY <1>3, BoundAssumption DEF Claims, InsertClaim, RunId
  <2>. QED  BY <1>0, <1>3, <2>2, <2>3 DEF Claims, InsertClaim
<1>4. ASSUME NEW f \in Flight, NEW l \in Location, Goes(f, l)
      PROVE  /\ run'[g] \in RunId /\ status'[run'[g]] = "RUNNING"
             /\ owner'[run'[g]] = Host[g]
             /\ age'[run'[g]] <= HeartbeatEvery + FinishWithin
             /\ pc'[g] \in Executing => age'[run'[g]] <= HeartbeatEvery
  <2>1. /\ pc[g] \in Armed /\ UNCHANGED <<owner, run>>
        /\ pc'[g] \in Executing => pc[g] \in Executing
    BY <1>2, <1>4 DEF Goes, Armed, Executing, Ending
  <2>2. CASE l = "answering"
    <3>1. g # f /\ run[g] # run[f]
      BY <1>1, <1>2, <1>4, <2>1, <2>2 DEF Goes, Armed, Executing, Ending, RunsAreOwn, RunId
    <3>2. status'[run[g]] = status[run[g]] /\ age'[run[g]] = age[run[g]]
      BY <1>1, <1>4, <2>1, <3>1 DEF Goes, EndRow
    <3>. QED  BY <1>1, <2>1, <3>2
  <2>3. CASE l # "answering"
    <3>1. /\ status' = status
          /\ age' = age \/ age' = [age EXCEPT ![run[f]] = 0]
      BY <1>4, <2>3 DEF Goes
    <3>2. age'[run[g]] = age[run[g]] \/ age'[run[g]] = 0
      BY <1>1, <2>1, <3>1
    <3>. QED  BY <1>0, <1>1, <2>1, <3>1, <3>2
  <2>. QED  BY <2>2, <2>3
<1>5. ASSUME NEW F \in SUBSET Flight, Leaves(F)
      PROVE  /\ run'[g] \in RunId /\ status'[run'[g]] = "RUNNING"
             /\ owner'[run'[g]] = Host[g]
             /\ age'[run'[g]] <= HeartbeatEvery + FinishWithin
             /\ pc'[g] \in Executing => age'[run'[g]] <= HeartbeatEvery
  BY <1>1, <1>2, <1>5 DEF Leaves, Leave, Armed, Executing, Ending
<1>6. ASSUME NEW p \in Process, NEW r \in RunId, Cancels(p, r)
      PROVE  /\ run'[g] \in RunId /\ status'[run'[g]] = "RUNNING"
             /\ owner'[run'[g]] = Host[g]
             /\ age'[run'[g]] <= HeartbeatEvery + FinishWithin
             /\ pc'[g] \in Executing => age'[run'[g]] <= HeartbeatEvery
  <2>1. pc[g] \in Armed /\ UNCHANGED <<owner, pc, run>>
    BY <1>2, <1>6 DEF Cancels
  <2>2. run[g] # r
    BY <1>6, <2>1 DEF Cancels, CleanupsAreLate
  <2>3. status'[run[g]] = status[run[g]] /\ age'[run[g]] = age[run[g]]
    BY <1>1, <1>6, <2>1, <2>2 DEF Cancels, EndRow
  <2>. QED  BY <1>1, <2>1, <2>3
<1>7. CASE Ages
  <2>1. pc[g] \in Armed /\ UNCHANGED <<status, owner, pc, run>>
    BY <1>2, <1>7 DEF Ages
  <2>2. CASE Tick
    <3>1. OnTime  BY <2>2
    <3>2. Holds(g)  BY <2>1 DEF Renewed
    <3>3. /\ pc[g] \in Executing => age[run[g]] < HeartbeatEvery
          /\ age[run[g]] < HeartbeatEvery + FinishWithin
      BY <1>0, <1>1, <2>1, <3>1, <3>2 DEF OnTime, Armed, Ending
    <3>4. age'[run[g]] = age[run[g]] \/ age'[run[g]] = age[run[g]] + 1
      BY <1>1, <2>1, <2>2 DEF Tick
    <3>. QED  BY <1>0, <1>1, <2>1, <3>3, <3>4
  <2>3. CASE ClockStepsBack
    <3>1. age'[run[g]] <= age[run[g]] /\ age'[run[g]] \in Int
      BY <1>0, <1>1, <2>1, <2>3 DEF ClockStepsBack
    <3>. QED  BY <1>0, <1>1, <2>1, <3>1
  <2>. QED  BY <1>7, <2>2, <2>3 DEF Ages
<1>8. CASE Rests
  BY <1>1, <1>2, <1>8 DEF Rests
<1>. QED  BY <1>3, <1>4, <1>5, <1>6, <1>7, <1>8 DEF HolderMove

\* A refresh whose heartbeats and whose end are on time is the holder of its row
\* until it ends it itself, whatever other refreshes, cleanups, crashes and clocks
\* do: if the two delays together are no longer than a row survives.
THEOREM HoldersKeep ==
  ASSUME HeartbeatEvery + FinishWithin <= StaleAfter
  PROVE  PunctualSpec => []HealthyHolderKeepsLease
<1>1. PunctualSpec => Spec
  <2>1. PunctualInit => Init  BY DEF PunctualInit
  <2>2. [PunctualNext]_<<vars, punctual>> => [Next]_vars  BY DEF PunctualNext
  <2>. QED  BY <2>1, <2>2, PTL DEF PunctualSpec, Spec
<1>2. PunctualInit => RunsAreOwn /\ CleanupsAreLate /\ HoldersRenew
  BY DEF PunctualInit, Init, RunsAreOwn, CleanupsAreLate, HoldersRenew, Armed, Executing, Ending
<1>3. TypeOK /\ RowsInOrder /\ RunsAreOwn /\ CleanupsAreLate /\ HoldersRenew
        /\ [PunctualNext]_<<vars, punctual>>
        => RunsAreOwn' /\ CleanupsAreLate' /\ HoldersRenew'
  <2>. SUFFICES ASSUME TypeOK, RowsInOrder, RunsAreOwn, CleanupsAreLate, HoldersRenew,
                       [PunctualNext]_<<vars, punctual>>
                PROVE  RunsAreOwn' /\ CleanupsAreLate' /\ HoldersRenew'
    OBVIOUS
  <2>1. HolderMove  BY StepHolder DEF PunctualNext
  <2>2. RunsAreOwn' /\ CleanupsAreLate'  BY <2>1, OwnStep
  <2>3. HoldersRenew'
    <3>1. SUFFICES ASSUME punctual' PROVE \A f \in Flight : pc'[f] \in Armed => Renewed(f)'
      BY DEF HoldersRenew
    <3>2. CASE PunctualNext
      <4>1. punctual' = (punctual /\ (Tick => OnTime))  BY <3>2 DEF PunctualNext
      <4>2. punctual /\ (Tick => OnTime)  BY <3>1, <4>1, Zenon
      <4>3. \A f \in Flight : pc[f] \in Armed => Renewed(f)
        BY <4>2 DEF HoldersRenew
      <4>. QED  BY <2>1, <4>2, <4>3, RenewedStep
    <3>3. CASE UNCHANGED <<vars, punctual>>
      BY <3>1, <3>3
      DEF HoldersRenew, Renewed, Holds, HoldsRow, Running, vars, ledger, process, flight
    <3>. QED  BY <3>2, <3>3
  <2>. QED  BY <2>2, <2>3
<1>4. HoldersRenew => HealthyHolderKeepsLease
  BY DEF HoldersRenew, HealthyHolderKeepsLease, Renewed
<1>. QED  BY <1>1, <1>2, <1>3, <1>4, TypeCorrect, RowsAlwaysInOrder, PTL
         DEF PunctualSpec
=============================================================================
