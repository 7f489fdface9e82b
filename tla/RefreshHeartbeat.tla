-------------------------- MODULE RefreshHeartbeat --------------------------
(***************************************************************************)
(* The timing of the refresh lease: with the intervals the code uses, a    *)
(* refresh whose heartbeat task runs on time keeps its lease.  RefreshLease *)
(* lets time pass at will; here it is noted when a heartbeat or the end of *)
(* a run was late.                                                         *)
(***************************************************************************)
EXTENDS RefreshLease

CONSTANTS
    HeartbeatEvery, \* REFRESH_HEARTBEAT_INTERVAL, in ticks
    FinishWithin    \* longest wait of stop_heartbeat and finish_run, in ticks

ASSUME TimingAssumption == HeartbeatEvery \in Nat /\ FinishWithin \in Nat

\* No heartbeat is overdue and no finish_run has been waiting too long.
OnTime ==
    \A f \in Flight :
        /\ pc[f] \in Executing /\ Holds(f) => age[run[f]] < HeartbeatEvery
        /\ pc[f] \in Ending /\ Holds(f)
             => age[run[f]] < HeartbeatEvery + FinishWithin

VARIABLE punctual   \* no heartbeat and no finish_run has been late so far

PunctualInit == Init /\ punctual = TRUE
PunctualNext == Next /\ punctual' = (punctual /\ (Tick => OnTime))
PunctualSpec == PunctualInit /\ [][PunctualNext]_<<vars, punctual>> /\ Fairness

\* A refresh that renews its row on time is never taken over, by another
\* process or by another request of its own, until it has ended it itself
\* (30 s against REFRESH_CLAIM_STALE_AFTER, finish_run after the last heartbeat).
HealthyHolderKeepsLease ==
    punctual => \A f \in Flight : pc[f] \in Armed => Holds(f)
=============================================================================
