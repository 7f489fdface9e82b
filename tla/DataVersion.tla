---------------------------- MODULE DataVersion -----------------------------
(* How the frontend keeps what it shows in step with the ledger: the counter   *)
(* of data_revision, the data-version endpoint (backend/src/api/data_version.rs) *)
(* and the versioned queries of frontend/src/api/queries.ts.                   *)
(*                                                                             *)
(* Requests that mutate commit first and bump the counter afterwards, so a     *)
(* change is readable before it is announced.  The client polls the version,   *)
(* keys every query by it, and asks again when it moves.  A handler answers    *)
(* from several queries on the pool, each of which sees what is committed at   *)
(* its own moment, and stamps the answer with the revision it reads last.      *)
(*                                                                             *)
(* The query library is external: at most one request per key is in flight,    *)
(* an invalidation cancels and repeats the request, and the answer for a key   *)
(* nobody looks at any more is not shown.                                      *)
EXTENDS Integers, FiniteSets, Sequences

CONSTANTS Writer,       \* mutating requests, of this tab or of anybody else
          Table,        \* what handlers read
          Changes,      \* the sets of tables that one transaction may change
          Panel,        \* versioned queries of one tab
          Reads,        \* [Panel -> Seq(Table or "clock")]: a handler's queries
          Stamped,      \* panels whose answers carry data_revision
          NoVersion,
          Retries,      \* how often a query is attempted again
          MaxCommits, MaxRevision, MaxDay, MaxCrashes, MaxFetches      \* bounds

ASSUME VersionAssumption ==
    /\ Changes \subseteq SUBSET Table
    /\ Panel = DOMAIN Reads
    /\ \A p \in Panel : Reads[p] \in Seq(Table \cup {"clock"})
    /\ Stamped \subseteq Panel
    /\ "clock" \notin Table
    /\ Retries \in Nat
    /\ \A n \in {MaxCommits, MaxRevision, MaxDay, MaxCrashes, MaxFetches} : n \in Nat
    /\ NoVersion \notin [rev : Nat, day : Nat]

VARIABLES stored,       \* [Table -> Nat]: how often the table has changed
          counter,      \* data_revision.counter
          announced,    \* history: `stored` as each revision was bumped
          today,        \* the backend's clock
          up, crashes,  \* is the backend running; how often it stopped
          work,         \* [Writer -> stage of its request]
          visible,      \* is the tab visible
          version,      \* data of the data-version query
          poll,         \* its request in flight
          fetches,      \* requests of panels in flight
          shown,        \* the answer each panel shows, maybe an older version's
          failed        \* panels whose query under `version` has failed since it
                        \* last succeeded

ledgerVars == <<stored, counter, announced, today>>
hostVars == <<up, crashes, work>>
tabVars == <<visible, version, poll, fetches, shown, failed>>
vars == <<ledgerVars, hostVars, tabVars>>

NoPoll == [at |-> "none"]
SentPoll == [at |-> "sent"]

Init == /\ stored = [t \in Table |-> 0]
        /\ counter = 1
        /\ announced = [r \in {1} |-> [t \in Table |-> 0]]
        /\ today = 0
        /\ up = TRUE /\ crashes = 0
        /\ work = [w \in Writer |-> "idle"]
        /\ visible = TRUE
        /\ version = NoVersion
        /\ poll = NoPoll
        /\ fetches = {}
        /\ shown = [p \in Panel |-> NoVersion]
        /\ failed = {}

-----------------------------------------------------------------------------
(* The queries of each handler, in order; prices and rates are read for each   *)
(* asset in turn.                                                              *)

HoldingsReads == <<"clock", "instruments", "transactions", "prices", "rates">>
GainsReads == <<"clock", "instruments", "transactions", "prices", "rates">>
OpportunitiesReads == HoldingsReads \o <<"prices">>
RebalanceReads == HoldingsReads
ValueHistoryReads == <<"instruments", "transactions", "prices", "rates">>
InstrumentPricesReads == <<"instruments", "prices", "rates", "transactions">>
TransactionsReads == <<"transactions">>
InstrumentsReads == <<"instruments">>
PriceStatusReads == HoldingsReads

HandlerReads == [holdings |-> HoldingsReads, gains |-> GainsReads,
                 opportunities |-> OpportunitiesReads, rebalance |-> RebalanceReads,
                 valueHistory |-> ValueHistoryReads, prices |-> InstrumentPricesReads,
                 transactions |-> TransactionsReads, instruments |-> InstrumentsReads,
                 priceStatus |-> PriceStatusReads]
StampedHandlers == {"holdings", "gains", "opportunities", "rebalance", "valueHistory"}

-----------------------------------------------------------------------------
(* Mutating requests.                                                          *)

Open == {w \in Writer : work[w] = "running"}

\* Bound: every open request may still bump the counter (and so may a restart).
RoomToBump == counter + Cardinality(Open) < MaxRevision

Bump == /\ counter' = counter + 1
        /\ announced' = [r \in 1..(counter + 1) |->
                            IF r <= counter THEN announced[r] ELSE stored]
        /\ UNCHANGED <<stored, today>>

Begin(w) == /\ up /\ work[w] = "idle" /\ RoomToBump
            /\ work' = [work EXCEPT ![w] = "running"]
            /\ UNCHANGED <<ledgerVars, up, crashes, tabVars>>

\* One transaction of the handler; a refresh commits many.
Commit(w, change) ==
    /\ up /\ w \in Open
    /\ \A t \in change : stored[t] < MaxCommits
    /\ stored' = [t \in Table |-> IF t \in change THEN stored[t] + 1 ELSE stored[t]]
    /\ UNCHANGED <<counter, announced, today, hostVars, tabVars>>

\* data_revision_layer after the handler, unless it answered with a client error.
Announce(w) == /\ up /\ w \in Open
               /\ Bump
               /\ work' = [work EXCEPT ![w] = "answering"]
               /\ UNCHANGED <<up, crashes, tabVars>>

\* A client error (nothing written), or a bump that failed and is only logged.
AnswerUnannounced(w) == /\ up /\ w \in Open
                        /\ work' = [work EXCEPT ![w] = "answering"]
                        /\ UNCHANGED <<ledgerVars, up, crashes, tabVars>>

\* The request's future is dropped.
Abandon(w) == /\ up /\ w \in Open
              /\ work' = [work EXCEPT ![w] = "idle"]
              /\ UNCHANGED <<ledgerVars, up, crashes, tabVars>>

Recheck == poll' = SentPoll

\* The answer arrives: at this tab, which checks the version, or elsewhere.
Settle(w) == /\ work[w] = "answering"
             /\ work' = [work EXCEPT ![w] = "idle"]
             /\ Recheck \/ UNCHANGED poll
             /\ UNCHANGED <<ledgerVars, up, crashes, visible, version, fetches, shown, failed>>

Midnight == /\ today < MaxDay
            /\ today' = today + 1
            /\ UNCHANGED <<stored, counter, announced, hostVars, tabVars>>

-----------------------------------------------------------------------------
(* The data-version query: polled while the tab is visible, repeated when the  *)
(* tab becomes visible and when something invalidates it.                      *)

StartPoll == /\ visible /\ poll = NoPoll
             /\ poll' = SentPoll
             /\ UNCHANGED <<ledgerVars, hostVars, visible, version, fetches, shown, failed>>

\* data_version::handler reads the revision, then the clock.
PollRevision == /\ up /\ poll.at = "sent"
                /\ poll' = [at |-> "clock", rev |-> counter]
                /\ UNCHANGED <<ledgerVars, hostVars, visible, version, fetches, shown, failed>>

PollDay == /\ up /\ poll.at = "clock"
           /\ poll' = [at |-> "answer", token |-> [rev |-> poll.rev, day |-> today]]
           /\ UNCHANGED <<ledgerVars, hostVars, visible, version, fetches, shown, failed>>

PollDone == /\ poll.at = "answer"
            /\ version' = poll.token
            /\ poll' = NoPoll
            /\ failed' = IF version' = version THEN failed ELSE {}
            /\ UNCHANGED <<ledgerVars, hostVars, visible, fetches, shown>>

\* An attempt fails; it is repeated or, the retries used up, given up.
PollFails == /\ poll.at # "none"
             /\ poll' \in {SentPoll, NoPoll}
             /\ UNCHANGED <<ledgerVars, hostVars, visible, version, fetches, shown, failed>>

Hide == /\ visible
        /\ visible' = FALSE
        /\ UNCHANGED <<ledgerVars, hostVars, version, poll, fetches, shown, failed>>

Show == /\ ~visible
        /\ visible' = TRUE
        /\ poll' = IF poll = NoPoll THEN SentPoll ELSE poll
        /\ UNCHANGED <<ledgerVars, hostVars, version, fetches, shown, failed>>

-----------------------------------------------------------------------------
(* useVersionedQuery.  A request remembers the version it was asked under.     *)

NewFetch(p, tries) == [panel |-> p, token |-> version, done |-> 0, seen |-> {},
                       stamp |-> 0, tries |-> tries]

Asked(p) == \E f \in fetches : f.panel = p /\ f.token = version

\* The panel has no answer under the version.
Lacks(p) == IF shown[p] = NoVersion THEN TRUE ELSE shown[p].token # version

FaultAsk(p) ==              \* Fault: the version is not part of the key.
    /\ version # NoVersion /\ ~Asked(p) /\ Cardinality(fetches) < MaxFetches
    /\ shown[p] = NoVersion
    /\ fetches' = fetches \cup {NewFetch(p, 0)}
    /\ UNCHANGED <<ledgerVars, hostVars, visible, version, poll, shown, failed>>

\* Asked when the version moves, and again when the panel is mounted or retried.
Ask(p) == /\ version # NoVersion /\ ~Asked(p) /\ Cardinality(fetches) < MaxFetches
          /\ fetches' = fetches \cup {NewFetch(p, 0)}
          /\ UNCHANGED <<ledgerVars, hostVars, visible, version, poll, shown, failed>>

\* What a query that reads t finds.
Value(t) == IF t = "clock" THEN today ELSE stored[t]

\* The next query of the handler.
Query(f) == /\ up /\ f.done < Len(Reads[f.panel])
            /\ LET t == Reads[f.panel][f.done + 1] IN
               fetches' = (fetches \ {f}) \cup
                  {[f EXCEPT !.done = f.done + 1, !.seen = f.seen \cup {<<t, Value(t)>>}]}
            /\ UNCHANGED <<ledgerVars, hostVars, visible, version, poll, shown, failed>>

StampWith(f) == /\ up /\ f.panel \in Stamped /\ f.stamp = 0
                /\ fetches' = (fetches \ {f}) \cup {[f EXCEPT !.stamp = counter]}
                /\ UNCHANGED <<ledgerVars, hostVars, visible, version, poll, shown, failed>>

FaultStamp(f) == StampWith(f)       \* Fault: the revision is read at any time.

\* The revision is read when the answer is complete.
Stamp(f) == f.done = Len(Reads[f.panel]) /\ StampWith(f)

Complete(f) == f.done = Len(Reads[f.panel]) /\ (f.panel \in Stamped => f.stamp # 0)

Answer(f, token) == [token |-> token, seen |-> f.seen, stamp |-> f.stamp]

FaultDeliver(f) ==          \* Fault: kept under the version of the moment.
    /\ Complete(f)
    /\ fetches' = fetches \ {f}
    /\ shown' = [shown EXCEPT ![f.panel] = Answer(f, version)]
    /\ failed' = failed \ {f.panel}
    /\ UNCHANGED <<ledgerVars, hostVars, visible, version, poll>>

\* The answer is kept under the version it was asked under, and shown if that
\* still is the version.  A foreign stamp invalidates the version.
Deliver(f) ==
    /\ Complete(f)
    /\ fetches' = fetches \ {f}
    /\ IF f.token = version
       THEN /\ shown' = [shown EXCEPT ![f.panel] = Answer(f, f.token)]
            /\ failed' = failed \ {f.panel}
       ELSE UNCHANGED <<shown, failed>>
    /\ IF f.panel \in Stamped /\ f.stamp # f.token.rev THEN Recheck ELSE UNCHANGED poll
    /\ UNCHANGED <<ledgerVars, hostVars, visible, version>>

Again(f) == [f EXCEPT !.done = 0, !.seen = {}, !.stamp = 0, !.tries = f.tries + 1]
GivenUp(fs) == {f.panel : f \in {g \in fs : g.tries = Retries /\ g.token = version}}

AttemptFails(f) ==
    /\ fetches' = (fetches \ {f}) \cup (IF f.tries < Retries THEN {Again(f)} ELSE {})
    /\ failed' = failed \cup GivenUp({f})
    /\ UNCHANGED <<ledgerVars, hostVars, visible, version, poll, shown>>

-----------------------------------------------------------------------------
(* The process stops: requests end without an announcement, and every attempt  *)
(* in flight fails.  build_state bumps the counter at each start.              *)

Crash == /\ up /\ crashes < MaxCrashes /\ counter < MaxRevision
         /\ up' = FALSE /\ crashes' = crashes + 1
         /\ work' = [w \in Writer |-> "idle"]
         /\ fetches' = {Again(f) : f \in {g \in fetches : g.tries < Retries}}
         /\ failed' = failed \cup GivenUp(fetches)
         /\ poll' = IF poll = NoPoll THEN NoPoll ELSE SentPoll
         /\ UNCHANGED <<ledgerVars, visible, version, shown>>

FaultRestart ==             \* Fault: the counter lives in the process.
    /\ ~up
    /\ up' = TRUE
    /\ counter' = 1
    /\ UNCHANGED <<stored, announced, today, crashes, work, tabVars>>

Restart == /\ ~up
           /\ up' = TRUE
           /\ Bump
           /\ UNCHANGED <<crashes, work, tabVars>>

-----------------------------------------------------------------------------
FetchStep(f) == Query(f) \/ Stamp(f) \/ Deliver(f)
Ends(w) == Announce(w) \/ AnswerUnannounced(w) \/ Abandon(w)

Next == \/ \E w \in Writer : Begin(w) \/ Ends(w) \/ Settle(w)
        \/ \E w \in Writer : \E change \in Changes : Commit(w, change)
        \/ Midnight \/ Crash \/ Restart
        \/ StartPoll \/ PollRevision \/ PollDay \/ PollDone \/ PollFails \/ Hide \/ Show
        \/ \E p \in Panel : Ask(p)
        \/ \E f \in fetches : FetchStep(f) \/ AttemptFails(f)

Spec == Init /\ [][Next]_vars

\* What the runtime and the query library keep doing; a poll gets through now
\* and then although attempts fail and invalidations cancel it.
Fairness ==
    /\ WF_vars(Restart) /\ WF_vars(StartPoll)
    /\ SF_vars(PollRevision) /\ SF_vars(PollDay) /\ SF_vars(PollDone)
    /\ \A p \in Panel : /\ WF_vars(Lacks(p) /\ p \notin failed /\ Ask(p))
                        /\ WF_vars(\E f \in fetches : /\ f.panel = p /\ f.token = version
                                                      /\ FetchStep(f))
                        /\ WF_vars(\E f \in fetches : /\ f.panel = p /\ f.token # version
                                                      /\ FetchStep(f))
LiveSpec == Spec /\ Fairness

-----------------------------------------------------------------------------
(* Properties.                                                                 *)

Token == [rev : 1..counter, day : 0..today]
Seen == SUBSET ((Table \cup {"clock"}) \X Nat)

LedgerTypeOK ==
    /\ stored \in [Table -> Nat] /\ today \in Nat
    /\ counter \in Nat \ {0}
    /\ announced \in [1..counter -> [Table -> Nat]]

HostTypeOK == /\ up \in BOOLEAN /\ crashes \in Nat
              /\ work \in [Writer -> {"idle", "running", "answering"}]

ViewTypeOK ==
    /\ visible \in BOOLEAN
    /\ version \in Token \cup {NoVersion}
    /\ \/ poll \in {NoPoll, SentPoll}
       \/ poll \in [at : {"clock"}, rev : 1..counter]
       \/ poll \in [at : {"answer"}, token : Token]
    /\ failed \subseteq Panel

FetchTypeOK ==
    /\ fetches \subseteq [panel : Panel, token : Token, done : Nat, seen : Seen,
                           stamp : 0..counter, tries : Nat]
    /\ \A f \in fetches : f.done <= Len(Reads[f.panel])
    /\ shown \in [Panel -> [token : Token, seen : Seen, stamp : 0..counter] \cup {NoVersion}]

VersionTypeOK == LedgerTypeOK /\ HostTypeOK /\ ViewTypeOK /\ FetchTypeOK

\* Everything announced by the version is in the answer, and its day has come.
Includes(a) == \A s \in a.seen :
                  s[2] >= IF s[1] = "clock" THEN a.token.day ELSE announced[a.token.rev][s[1]]

\* Nothing that the revision after the stamp's did not announce is in the answer.
StampBounds(a) == \A s \in a.seen :
                     s[1] # "clock" /\ a.stamp \in 1..(counter - 1)
                        => s[2] <= announced[a.stamp + 1][s[1]]

\* What a panel shows under a version is at least as new as what the version
\* announced (the token in the key of useVersionedQuery), wherever requests,
\* polls, restarts and midnight fall.
AnswersIncludeTheirVersion ==
    \A p \in Panel : shown[p] # NoVersion => Includes(shown[p])

\* A stamp says how new an answer can be: an answer stamped with its own version
\* holds at most what the next revision announced.  (A stamp read before the data
\* would let newer data pass as the version's.)
StampsBoundAnswers ==
    \A p \in Panel : shown[p] # NoVersion => StampBounds(shown[p])

\* The version a tab has never goes back, across restarts and midnight.
VersionsNeverGoBack ==
    [][version # NoVersion => version'.rev >= version.rev /\ version'.day >= version.day]_vars

Current(p) == /\ ~Lacks(p)
              /\ \A s \in shown[p].seen : s[2] = Value(s[1])

\* Once everything is announced, a tab that is visible now and then shows it, or
\* says that it cannot.
AnnouncedDataIsShown ==
    []<>visible => <>[](stored = announced[counter] => \A p \in Panel : Current(p) \/ p \in failed)

\* Panels that show the version, by the stamp, saw the same data (the comments of
\* data_version.rs and dataVersion.ts).
PanelsShareOneSnapshot ==
    \A p, q \in Stamped :
        (/\ ~Lacks(p) /\ ~Lacks(q)
         /\ shown[p].stamp = version.rev /\ shown[q].stamp = version.rev)
        => \A s \in shown[p].seen, u \in shown[q].seen : s[1] = u[1] => s[2] = u[2]

=============================================================================
