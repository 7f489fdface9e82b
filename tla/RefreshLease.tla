---------------------------- MODULE RefreshLease ----------------------------
(***************************************************************************)
(* Market-data refreshes against one ledger file.                          *)
(*                                                                         *)
(* Several backend processes may share a ledger.  A refresh (a POST, or    *)
(* the one at launch) claims a lease: a RUNNING row of                     *)
(* market_data_refresh_runs.  While it executes, a heartbeat task renews   *)
(* the row, and each of its writes is a transaction that first looks for   *)
(* the row (fenced_write).  It ends the row (finish_run); a refresh whose  *)
(* future is dropped has it ended by a spawned cancel_run; a row nobody    *)
(* ends goes stale and the next claim takes it over.  Readers learn of new *)
(* data from the ledger's data revision, bumped by the request layer.      *)
(*                                                                         *)
(* One action is one storage transaction or one await of the code.         *)
(***************************************************************************)
EXTENDS Integers, FiniteSets

CONSTANTS
    Process,        \* backend processes sharing the ledger file
    Flight,         \* places where a refresh can be in progress
    Host,           \* the process a flight belongs to
    Source,         \* enabled price sources of the instruments to refresh
    Currency,       \* currencies whose rate to SEK is refreshed
    StaleAfter,     \* age of a heartbeat, in ticks, a row survives
    StepBack,       \* ticks the wall clock may be set back by (0: never)
    StorageErrors,  \* may storage calls fail?
    MaxRuns,        \* bound: rows the run table can hold
    MaxCrashes,     \* bound: process crashes
    None            \* no process / no item

ASSUME HostAssumption == Host \in [Flight -> Process]
ASSUME ItemAssumption == Source \cap Currency = {}
ASSUME BoundAssumption ==
    /\ StaleAfter \in Nat
    /\ StepBack \in Nat
    /\ StorageErrors \in BOOLEAN
    /\ MaxRuns \in Nat
    /\ MaxCrashes \in Nat
ASSUME NoneAssumption == None \notin Process /\ None \notin Source \cup Currency

Item  == Source \cup Currency
RunId == 1..MaxRuns

\* What ends up in the row: the status column, with the two FAILED rows that
\* are not written by finish_run told apart by their message.
Recorded   == {"SUCCEEDED", "PARTIAL", "FAILED"}
RowStatus  == {"unclaimed", "RUNNING", "abandoned", "cancelled"} \cup Recorded

Executing  == {"seeding", "sources", "currencies", "fetching"}
Beating    == Executing \cup {"stopping"}    \* there is a heartbeat task
Ending     == {"stopping", "finishing"}
Armed      == Executing \cup Ending
Location   == {"idle", "answering"} \cup Armed
Concluded  == {"ERROR", "REJECTED"} \cup Recorded
Outcome    == {"none", "RUNNING"} \cup Concluded

VARIABLES
    \* the ledger file
    begun,      \* id of the newest row of the run table
    status,     \* status of each row
    owner,      \* process whose refresh claimed the row
    age,        \* wall-clock time since heartbeat_at of a RUNNING row
    price,      \* run whose values are stored for each source and currency
    unseen,     \* runs that wrote since the data revision was last bumped
    \* the processes
    up,         \* is the process running?
    crashes,    \* crashes so far
    cleanups,   \* spawned cancel_run tasks, as <<process, run>>
    \* the refreshes in progress
    pc,         \* where the refresh is
    run,        \* the run it claimed, 0 if none
    lost,       \* RefreshLease::cancelled, set by the heartbeat task
    todo,       \* items not yet refreshed
    failed,     \* items that failed or had no source
    item,       \* item being fetched
    outcome     \* result of the execution, then of the request

ledger  == <<begun, status, owner, age, price, unseen>>
process == <<up, crashes, cleanups>>
work    == <<lost, todo, failed, item>>
flight  == <<pc, run, work, outcome>>
vars    == <<ledger, process, flight>>

LedgerOK ==
    /\ begun \in 0..MaxRuns
    /\ status \in [RunId -> RowStatus]
    /\ owner \in [RunId -> Process \cup {None}]
    /\ age \in [RunId -> Int]
    /\ price \in [Item -> 0..MaxRuns]
    /\ unseen \in SUBSET RunId

ProcessOK ==
    /\ up \in [Process -> BOOLEAN]
    /\ crashes \in 0..MaxCrashes
    /\ cleanups \in SUBSET (Process \X RunId)

FlightOK ==
    /\ pc \in [Flight -> Location]
    /\ run \in [Flight -> 0..MaxRuns]
    /\ lost \in [Flight -> BOOLEAN]
    /\ todo \in [Flight -> SUBSET Item]
    /\ failed \in [Flight -> SUBSET Item]
    /\ item \in [Flight -> Item \cup {None}]
    /\ outcome \in [Flight -> Outcome]
    /\ \A f \in Flight : pc[f] = "fetching" => item[f] \in Item
    /\ \A f \in Flight : pc[f] \in Armed => run[f] \in RunId
    /\ \A f \in Flight : pc[f] \in Ending => outcome[f] \in Concluded

TypeOK == LedgerOK /\ ProcessOK /\ FlightOK

Init ==
    /\ begun = 0
    /\ status = [r \in RunId |-> "unclaimed"]
    /\ owner = [r \in RunId |-> None]
    /\ age = [r \in RunId |-> 0]
    /\ price = [i \in Item |-> 0]
    /\ unseen = {}
    /\ up = [p \in Process |-> TRUE]
    /\ crashes = 0
    /\ cleanups = {}
    /\ pc = [f \in Flight |-> "idle"]
    /\ run = [f \in Flight |-> 0]
    /\ lost = [f \in Flight |-> FALSE]
    /\ todo = [f \in Flight |-> {}]
    /\ failed = [f \in Flight |-> {}]
    /\ item = [f \in Flight |-> None]
    /\ outcome = [f \in Flight |-> "none"]

-----------------------------------------------------------------------------
(* Helpers *)

Running == {r \in RunId : status[r] = "RUNNING"}

\* Fault: no tolerance for the time between two heartbeats.
IsStaleAtOnce(r) == age[r] > 0

\* A heartbeat is stale when strictly older than StaleAfter; a heartbeat in
\* the future (the clock was set back) is not.
IsStale(r) == age[r] > StaleAfter

LiveClaim == {r \in Running : ~IsStale(r)}

\* The condition of fenced_write, heartbeat, finish_run and cancel_run.
HoldsRow(p, r) == r \in Running /\ owner[r] = p
Holds(f) == HoldsRow(Host[f], run[f])

\* data_revision::bump: whatever was written is now announced.
Bump == unseen' = {}

\* Age is only meaningful for a RUNNING row, so ending a row zeroes it.
EndRow(r, s) ==
    /\ status' = [status EXCEPT ![r] = s]
    /\ age' = [age EXCEPT ![r] = 0]

\* The flights in F are gone: answered, dropped or crashed.
Leave(F) ==
    /\ pc' = [f \in Flight |-> IF f \in F THEN "idle" ELSE pc[f]]
    /\ run' = [f \in Flight |-> IF f \in F THEN 0 ELSE run[f]]
    /\ lost' = [f \in Flight |-> IF f \in F THEN FALSE ELSE lost[f]]
    /\ todo' = [f \in Flight |-> IF f \in F THEN {} ELSE todo[f]]
    /\ failed' = [f \in Flight |-> IF f \in F THEN {} ELSE failed[f]]
    /\ item' = [f \in Flight |-> IF f \in F THEN None ELSE item[f]]
    /\ outcome' = [f \in Flight |-> IF f \in F THEN "none" ELSE outcome[f]]

\* The execution of f ends with result o: the locals of execute_refresh are
\* gone, the heartbeat task still has to be stopped.
Conclude(f, o) ==
    /\ pc' = [pc EXCEPT ![f] = "stopping"]
    /\ outcome' = [outcome EXCEPT ![f] = o]
    /\ todo' = [todo EXCEPT ![f] = {}]
    /\ failed' = [failed EXCEPT ![f] = {}]
    /\ item' = [item EXCEPT ![f] = None]
    /\ UNCHANGED <<run, lost>>

-----------------------------------------------------------------------------
(* Claiming *)

\* Fault: the stale rows stay RUNNING next to the new one.
InsertClaimBesideStale(p) ==
    /\ LiveClaim = {}
    /\ begun < MaxRuns
    /\ begun' = begun + 1
    /\ status' = [status EXCEPT ![begun + 1] = "RUNNING"]
    /\ owner' = [owner EXCEPT ![begun + 1] = p]
    /\ age' = [age EXCEPT ![begun + 1] = 0]
    /\ UNCHANGED <<unseen, price>>

\* Fault: a stale row is still respected.
InsertClaimWhenNoneRuns(p) ==
    /\ Running = {}
    /\ begun < MaxRuns
    /\ begun' = begun + 1
    /\ status' = [status EXCEPT ![begun + 1] = "RUNNING"]
    /\ owner' = [owner EXCEPT ![begun + 1] = p]
    /\ UNCHANGED <<age, unseen, price>>

\* The transaction of try_claim_run when no RUNNING row is live: stale rows
\* are abandoned (and the revision bumped if there were any), and a row for
\* process p is inserted.
InsertClaim(p) ==
    /\ LiveClaim = {}
    /\ begun < MaxRuns
    /\ begun' = begun + 1
    /\ status' = [r \in RunId |->
                    IF r = begun + 1 THEN "RUNNING"
                    ELSE IF r \in Running THEN "abandoned"
                    ELSE status[r]]
    /\ owner' = [owner EXCEPT ![begun + 1] = p]
    /\ age' = [r \in RunId |-> 0]
    /\ IF Running # {} THEN Bump ELSE UNCHANGED unseen
    /\ UNCHANGED price

Claim(f) ==
    /\ pc[f] = "idle"
    /\ up[Host[f]]
    /\ InsertClaim(Host[f])
    /\ pc' = [pc EXCEPT ![f] = "seeding"]
    /\ run' = [run EXCEPT ![f] = begun + 1]
    /\ todo' = [todo EXCEPT ![f] = Item]
    /\ UNCHANGED <<process, lost, failed, item, outcome>>

\* The request is dropped while the claim commits: the row is there, but no
\* guard and no heartbeat task were made for it.
ClaimDropped(f) ==
    /\ pc[f] = "idle"
    /\ up[Host[f]]
    /\ InsertClaim(Host[f])
    /\ UNCHANGED <<process, flight>>

\* Somebody holds a live lease: answer with the run in progress.
ClaimHeld(f) ==
    /\ pc[f] = "idle"
    /\ up[Host[f]]
    /\ LiveClaim # {}
    /\ pc' = [pc EXCEPT ![f] = "answering"]
    /\ outcome' = [outcome EXCEPT ![f] = "RUNNING"]
    /\ UNCHANGED <<ledger, process, run, work>>

\* The claim transaction fails.
ClaimFails(f) ==
    /\ StorageErrors
    /\ pc[f] = "idle"
    /\ up[Host[f]]
    /\ pc' = [pc EXCEPT ![f] = "answering"]
    /\ outcome' = [outcome EXCEPT ![f] = "ERROR"]
    /\ UNCHANGED <<ledger, process, run, work>>

-----------------------------------------------------------------------------
(* Heartbeat task: renews the row, or tells the refresh that it is gone and *)
(* ends.  It may be renewing while it is being stopped.                     *)

Heartbeat(f) ==
    /\ pc[f] \in Beating
    /\ ~lost[f]
    /\ IF Holds(f)
       THEN age' = [age EXCEPT ![run[f]] = 0] /\ UNCHANGED lost
       ELSE lost' = [lost EXCEPT ![f] = TRUE] /\ UNCHANGED age
    /\ UNCHANGED <<begun, status, owner, price, unseen, process,
                   pc, run, todo, failed, item, outcome>>

-----------------------------------------------------------------------------
(* execute_refresh *)

\* A backfill window that makes no sense is found after the claim.
RejectWindow(f) ==
    /\ pc[f] = "seeding"
    /\ Conclude(f, "REJECTED")
    /\ UNCHANGED <<ledger, process>>

\* Symbol seeding writes mappings under the fence, or has nothing to write.
SeedSymbols(f) ==
    /\ pc[f] = "seeding"
    /\ \/ Holds(f) /\ unseen' = unseen \cup {run[f]}
       \/ UNCHANGED unseen
    /\ pc' = [pc EXCEPT ![f] = "sources"]
    /\ UNCHANGED <<begun, status, owner, age, price, process,
                   run, work, outcome>>

NextSource(f) ==
    /\ pc[f] = "sources"
    /\ ~lost[f]
    /\ \E i \in todo[f] \cap Source : item' = [item EXCEPT ![f] = i]
    /\ pc' = [pc EXCEPT ![f] = "fetching"]
    /\ UNCHANGED <<ledger, process, run, lost, todo, failed, outcome>>

\* The flag is looked at before each source and once before the rates.
NoticeLost(f) ==
    /\ pc[f] = "sources"
    /\ lost[f]
    /\ Conclude(f, "FAILED")
    /\ UNCHANGED <<ledger, process>>

StartRates(f) ==
    /\ pc[f] = "sources"
    /\ ~lost[f]
    /\ todo[f] \cap Source = {}
    /\ pc' = [pc EXCEPT ![f] = "currencies"]
    /\ UNCHANGED <<ledger, process, run, work, outcome>>

NextCurrency(f) ==
    /\ pc[f] = "currencies"
    /\ \E i \in todo[f] : item' = [item EXCEPT ![f] = i]
    /\ pc' = [pc EXCEPT ![f] = "fetching"]
    /\ UNCHANGED <<ledger, process, run, lost, todo, failed, outcome>>

\* Done with the item being fetched: back to the loop it came from.
ItemDone(f) ==
    /\ pc' = [pc EXCEPT ![f] =
                IF item[f] \in Source THEN "sources" ELSE "currencies"]
    /\ todo' = [todo EXCEPT ![f] = @ \ {item[f]}]
    /\ item' = [item EXCEPT ![f] = None]
    /\ UNCHANGED <<run, lost, outcome>>

\* Fault: the rows are upserted without looking at the lease.
StoreItemUnfenced(f) ==
    /\ pc[f] = "fetching"
    /\ price' = [price EXCEPT ![item[f]] = run[f]]
    /\ unseen' = unseen \cup {run[f]}
    /\ ItemDone(f)
    /\ UNCHANGED <<begun, status, owner, age, failed, process>>

\* The provider answered: its rows are upserted under the fence.
StoreItem(f) ==
    /\ pc[f] = "fetching"
    /\ Holds(f)
    /\ price' = [price EXCEPT ![item[f]] = run[f]]
    /\ unseen' = unseen \cup {run[f]}
    /\ ItemDone(f)
    /\ UNCHANGED <<begun, status, owner, age, failed, process>>

\* Fault: a failed item is forgotten rather than counted.
ItemFailsUncounted(f) ==
    /\ pc[f] = "fetching"
    /\ ItemDone(f)
    /\ UNCHANGED <<ledger, process, failed>>

\* No source, no client, or the provider failed (an answer without rows is such
\* a failure): nothing is written.
ItemFails(f) ==
    /\ pc[f] = "fetching"
    /\ ItemDone(f)
    /\ failed' = [failed EXCEPT ![f] = @ \cup {item[f]}]
    /\ UNCHANGED <<ledger, process>>

\* persist_mapping under the fence: a changed symbol is recorded and the
\* price write follows, a wrong currency disables the mapping instead.
PersistMapping(f) ==
    /\ pc[f] = "fetching"
    /\ item[f] \in Source
    /\ Holds(f)
    /\ unseen' = unseen \cup {run[f]}
    /\ \/ UNCHANGED flight
       \/ /\ ItemDone(f)
          /\ failed' = [failed EXCEPT ![f] = @ \cup {item[f]}]
    /\ UNCHANGED <<begun, status, owner, age, price, process>>

\* A fenced write finds the lease gone.
FenceLost(f) ==
    /\ pc[f] \in {"seeding", "fetching"}
    /\ ~Holds(f)
    /\ Conclude(f, "FAILED")
    /\ UNCHANGED <<ledger, process>>

\* Storage fails, or a stored row makes no sense.
ExecuteFails(f) ==
    /\ pc[f] \in Executing
    /\ Conclude(f, "ERROR")
    /\ UNCHANGED <<ledger, process>>

\* The status of an execution that got through its items.  The code asks whether
\* any row was written; every item that did not fail has written one.
RunStatus(f) ==
    IF failed[f] = {} THEN "SUCCEEDED"
    ELSE IF failed[f] = Item THEN "FAILED"
    ELSE "PARTIAL"

ExecuteDone(f) ==
    /\ pc[f] = "currencies"
    /\ todo[f] = {}
    /\ Conclude(f, RunStatus(f))
    /\ UNCHANGED <<ledger, process>>

-----------------------------------------------------------------------------
(* Ending a refresh *)

\* Fault: the task is waited for without being aborted; it ends only when it
\* finds the lease gone.
JoinHeartbeat(f) ==
    /\ pc[f] = "stopping"
    /\ lost[f]
    /\ pc' = [pc EXCEPT ![f] = "finishing"]
    /\ lost' = [lost EXCEPT ![f] = FALSE]
    /\ UNCHANGED <<ledger, process, run, todo, failed, item, outcome>>

\* stop_heartbeat: the task is aborted, which ends it at its next await, and
\* joined.
StopHeartbeat(f) ==
    /\ pc[f] = "stopping"
    /\ pc' = [pc EXCEPT ![f] = "finishing"]
    /\ lost' = [lost EXCEPT ![f] = FALSE]
    /\ UNCHANGED <<ledger, process, run, todo, failed, item, outcome>>

Record(o) == IF o \in {"ERROR", "REJECTED"} THEN "FAILED" ELSE o

\* Fault: the outcome of the conditional update is not looked at.
FinishRunUnchecked(f) ==
    /\ pc[f] = "finishing"
    /\ IF Holds(f)
       THEN EndRow(run[f], Record(outcome[f]))
       ELSE UNCHANGED <<status, age>>
    /\ pc' = [pc EXCEPT ![f] = "answering"]
    /\ UNCHANGED <<begun, owner, price, unseen, process, run, work, outcome>>

\* finish_run ends the row if it is still ours; if not, a result becomes a
\* failure, an error stays the error it was.
FinishRun(f) ==
    /\ pc[f] = "finishing"
    /\ IF Holds(f)
       THEN EndRow(run[f], Record(outcome[f])) /\ UNCHANGED outcome
       ELSE /\ outcome' = [outcome EXCEPT ![f] =
                             IF @ \in Recorded THEN "FAILED" ELSE @]
            /\ UNCHANGED <<status, age>>
    /\ pc' = [pc EXCEPT ![f] = "answering"]
    /\ UNCHANGED <<begun, owner, price, unseen, process, run, work>>

\* finish_run itself fails: the guard is dropped armed.
FinishFails(f) ==
    /\ StorageErrors
    /\ pc[f] = "finishing"
    /\ cleanups' = cleanups \cup {<<Host[f], run[f]>>}
    /\ outcome' = [outcome EXCEPT ![f] = "ERROR"]
    /\ pc' = [pc EXCEPT ![f] = "answering"]
    /\ UNCHANGED <<ledger, up, crashes, run, work>>

\* data_revision_layer (or the launch task) bumps the revision unless the
\* request was a client error; a failing bump is only logged.
Answer(f) ==
    /\ pc[f] = "answering"
    /\ \/ outcome[f] # "REJECTED" /\ Bump
       \/ outcome[f] = "REJECTED" /\ UNCHANGED unseen
       \/ StorageErrors /\ UNCHANGED unseen
    /\ Leave({f})
    /\ UNCHANGED <<begun, status, owner, age, price, process>>

\* The future of the request is dropped (client gone, launch task aborted):
\* an armed guard spawns the cleanup.
Drop(f) ==
    /\ pc[f] \in Armed
    /\ cleanups' = cleanups \cup {<<Host[f], run[f]>>}
    /\ Leave({f})
    /\ UNCHANGED <<ledger, up, crashes>>

\* Dropped after the row was ended: before or after the guard is disarmed.
DropAnswering(f) ==
    /\ pc[f] = "answering"
    /\ \/ UNCHANGED cleanups
       \/ /\ run[f] # 0
          /\ cleanups' = cleanups \cup {<<Host[f], run[f]>>}
    /\ Leave({f})
    /\ UNCHANGED <<ledger, up, crashes>>

\* Fault: the row is ended without the bump.
CancelRunSilently(p, r) ==
    /\ <<p, r>> \in cleanups
    /\ cleanups' = cleanups \ {<<p, r>>}
    /\ IF HoldsRow(p, r)
       THEN EndRow(r, "cancelled")
       ELSE UNCHANGED <<status, age>>
    /\ UNCHANGED <<begun, owner, price, unseen, up, crashes, flight>>

\* cancel_run: end the row and bump, in one transaction, if it is still ours.
CancelRun(p, r) ==
    /\ <<p, r>> \in cleanups
    /\ cleanups' = cleanups \ {<<p, r>>}
    /\ IF HoldsRow(p, r)
       THEN EndRow(r, "cancelled") /\ Bump
       ELSE UNCHANGED <<status, age, unseen>>
    /\ UNCHANGED <<begun, owner, price, up, crashes, flight>>

CancelFails(p, r) ==
    /\ StorageErrors
    /\ <<p, r>> \in cleanups
    /\ cleanups' = cleanups \ {<<p, r>>}
    /\ UNCHANGED <<ledger, up, crashes, flight>>

-----------------------------------------------------------------------------
(* Processes and the wall clock *)

Crash(p) ==
    /\ up[p]
    /\ crashes < MaxCrashes
    /\ up' = [up EXCEPT ![p] = FALSE]
    /\ crashes' = crashes + 1
    /\ cleanups' = {c \in cleanups : c[1] # p}
    /\ Leave({f \in Flight : Host[f] = p})
    /\ UNCHANGED ledger

\* Opening the ledger bumps the revision before anything is served.
Restart(p) ==
    /\ ~up[p]
    /\ up' = [up EXCEPT ![p] = TRUE]
    /\ Bump
    /\ UNCHANGED <<begun, status, owner, age, price, crashes, cleanups, flight>>

\* Any other mutating request of the process is answered.
OtherMutation(p) ==
    /\ up[p]
    /\ Bump
    /\ UNCHANGED <<begun, status, owner, age, price, process, flight>>

\* Ages saturate just past StaleAfter: is_stale tells no more apart.
Tick ==
    /\ LiveClaim # {}
    /\ age' = [r \in RunId |-> IF r \in LiveClaim THEN age[r] + 1 ELSE age[r]]
    /\ UNCHANGED <<begun, status, owner, price, unseen, process, flight>>

ClockStepsBack ==
    /\ StepBack > 0
    /\ \E r \in Running : age[r] >= 0
    /\ age' = [r \in RunId |->
                 IF r \in Running THEN age[r] - StepBack ELSE age[r]]
    /\ UNCHANGED <<begun, status, owner, price, unseen, process, flight>>

-----------------------------------------------------------------------------

Execute(f) ==
    \/ RejectWindow(f) \/ SeedSymbols(f) \/ NextSource(f) \/ NoticeLost(f)
    \/ StartRates(f) \/ NextCurrency(f) \/ StoreItem(f) \/ ItemFails(f)
    \/ PersistMapping(f) \/ FenceLost(f) \/ ExecuteFails(f) \/ ExecuteDone(f)

Next ==
    \/ \E f \in Flight :
         \/ Claim(f) \/ ClaimDropped(f) \/ ClaimHeld(f) \/ ClaimFails(f)
         \/ Heartbeat(f) \/ Execute(f) \/ StopHeartbeat(f)
         \/ FinishRun(f) \/ FinishFails(f) \/ Answer(f) \/ Drop(f) \/ DropAnswering(f)
    \/ \E p \in Process :
         \/ \E r \in RunId : CancelRun(p, r) \/ CancelFails(p, r)
         \/ Crash(p) \/ Restart(p) \/ OtherMutation(p)
    \/ Tick
    \/ ClockStepsBack

Spec == Init /\ [][Next]_vars

\* Awaits complete: provider calls time out, storage calls return, spawned
\* tasks are polled.  Time passes, stopped processes are started again and
\* refreshes keep being asked for (each start asks for one).
Fairness ==
    /\ \A f \in Flight :
         /\ WF_vars(Execute(f) /\ (pc'[f] # pc[f] \/ todo'[f] # todo[f]))
         /\ WF_vars(StopHeartbeat(f))
         /\ WF_vars(FinishRun(f))
         /\ WF_vars(Answer(f))
    /\ \A p \in Process :
         /\ WF_vars(Restart(p))
         /\ \A r \in RunId : WF_vars(CancelRun(p, r))
    /\ SF_vars(\E f \in Flight : Claim(f))
    /\ WF_vars(Tick)

FairSpec == Spec /\ Fairness

-----------------------------------------------------------------------------
(* Safety *)

\* At most one row of the run table is RUNNING, however claims, takeovers,
\* crashes and late cleanups interleave (try_claim_run's one transaction).
AtMostOneRunning == \A r, s \in Running : r = s

\* A run that was taken over or cancelled has left no write behind that the
\* data revision does not announce, whoever ended it and whenever: the bump
\* of try_claim_run and cancel_run covers every fenced write before it, and
\* the fence refuses every one after it.
CleanupAnnouncesWrites ==
    \A r \in unseen : status[r] \notin {"abandoned", "cancelled"}

\* The response of a refresh says it succeeded, wholly or in part, only if
\* that is what its row says for good: a refresh that lost its lease during
\* its last await does not report success (refresh_at after finish_run).
AnswerMatchesRow ==
    \A f \in Flight :
        pc[f] = "answering" /\ outcome[f] \in {"SUCCEEDED", "PARTIAL"}
            => run[f] \in RunId /\ status[run[f]] = outcome[f]

\* A row that says SUCCEEDED means that every source and currency holds the
\* values of that run or of a later one.
SucceededMeansStored ==
    \A r \in RunId : status[r] = "SUCCEEDED" => \A i \in Item : price[i] >= r

\* Why the run table stays consistent, in inductive form: ids are handed out
\* in order, the only row that may be RUNNING is the newest one, and nothing
\* refers to a row that does not exist yet.
RowsInOrder ==
    /\ \A r \in RunId : status[r] = "unclaimed" <=> r > begun
    /\ \A r \in Running : r = begun
    /\ \A i \in Item : price[i] <= begun
    /\ \A r \in unseen : r <= begun
    /\ \A f \in Flight : run[f] <= begun

\* How far the execution of a refresh has got: an item that is neither left
\* to do nor counted as failed holds a value of this run or of a later one.
StoredSoFar ==
    \A f \in Flight : \A i \in Item :
        /\ pc[f] \in Executing =>
             i \in todo[f] \/ i \in failed[f] \/ price[i] >= run[f]
        /\ pc[f] \in Ending /\ outcome[f] = "SUCCEEDED" =>
             price[i] >= run[f]

\* The inductive invariant behind the safety properties.
LeaseInv ==
    /\ RowsInOrder
    /\ StoredSoFar
    /\ CleanupAnnouncesWrites
    /\ AnswerMatchesRow
    /\ SucceededMeansStored

\* A row that was ended, by its refresh, by a takeover or by a cleanup, keeps
\* its status: the condition on RUNNING in every UPDATE makes the slower of
\* two enders lose.
EndedRunsStayEnded ==
    [][\A r \in RunId :
        status[r] \notin {"unclaimed", "RUNNING"} => status'[r] = status[r]]_vars

\* Values are only ever stored by the newest run there is: a refresh that was
\* superseded while it waited for a provider writes nothing over the values
\* of its successor, nor beside them (fenced_write).
NoLateWrites ==
    [][\A i \in Item : price'[i] # price[i] => price'[i] = begun]_vars

\* The lease implements its abstract specification; the run in progress is
\* the RUNNING row.
Current == IF Running = {} THEN 0 ELSE CHOOSE r \in Running : TRUE
Result  == [r \in RunId |->
              IF status[r] \in {"unclaimed", "RUNNING"} THEN "none"
              ELSE status[r]]
Exclusive == INSTANCE ExclusiveRuns WITH current <- Current, result <- Result
ImplementsExclusiveRuns == Exclusive!Spec

-----------------------------------------------------------------------------
(* Liveness *)

\* No refresh and no cleanup is going to end row r.
Orphaned(r) ==
    /\ status[r] = "RUNNING"
    /\ \A f \in Flight : run[f] # r
    /\ \A p \in Process : <<p, r>> \notin cleanups

\* A row left RUNNING by a crash, a dropped claim or a failed cleanup is
\* eventually ended and what its run wrote is eventually announced, as long
\* as refreshes are asked for and the bounded run table has room for another.
OrphansAreRecovered ==
    \A r \in 1..(MaxRuns - 1) :
        Orphaned(r) ~> status[r] # "RUNNING" /\ r \notin unseen

\* A refresh always ends, for any answers of providers and storage: no wait of
\* it is for another refresh, and the wait for its heartbeat task, a loop that
\* ends of itself only when the lease is lost, is over soon (stop_heartbeat).
RefreshesEnd == \A f \in Flight : pc[f] # "idle" ~> pc[f] = "idle"

-----------------------------------------------------------------------------
(* A claim of the code's comments that the code does not meet *)

\* "The revision bump shares the owner-conditional transaction so a cancelled
\* request cannot hide refresh writes from other processes": what a run wrote
\* is announced, or somebody is still there to do it.
CancelledRequestsHideNothing ==
    \A r \in unseen :
        \/ status[r] = "RUNNING"
        \/ \E f \in Flight : run[f] = r
=============================================================================
