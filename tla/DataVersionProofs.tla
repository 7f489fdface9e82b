------------------------- MODULE DataVersionProofs --------------------------
(* Proofs about DataVersion, for any requests, tables, panels, handlers and     *)
(* bounds.                                                                      *)
(*                                                                              *)
(* What is shown says nothing about the answers still in flight, and a bound    *)
(* by the next revision says nothing before that revision exists.  The          *)
(* inductive invariant therefore speaks of every answer, in flight or shown,    *)
(* and knows that an answer holds nothing the ledger does not hold yet.         *)
EXTENDS DataVersion, TLAPS

\* An answer a, judged by a ledger: the changes st, the announcements ann, the
\* revision n and the day d.
Sound(a, st, ann, n, d) ==
    /\ a.token \in [rev : 1..n, day : 0..d]
    /\ a.stamp \in 0..n
    /\ a.seen \in Seen
    /\ \A s \in a.seen : s[1] = "clock" => a.token.day <= s[2] /\ s[2] <= d
    /\ \A s \in a.seen : s[1] \in Table =>
          /\ ann[a.token.rev][s[1]] <= s[2]
          /\ s[2] <= st[s[1]]
          /\ a.stamp \in 1..(n - 1) => s[2] <= ann[a.stamp + 1][s[1]]

AnnouncedIsStored == \A r \in 1..counter : \A t \in Table : announced[r][t] <= stored[t]

AnswersAreSound ==
    /\ \A f \in fetches : Sound(f, stored, announced, counter, today)
    /\ \A f \in fetches : f.stamp # 0 => f.done = Len(Reads[f.panel])
    /\ \A p \in Panel : shown[p] # NoVersion
                           => Sound(shown[p], stored, announced, counter, today)

VersionInv == VersionTypeOK /\ AnnouncedIsStored /\ AnswersAreSound

\* What a step may do to the ledger: it grows, or its revision is bumped.
LedgerMove ==
    /\ stored' \in [Table -> Nat] /\ \A t \in Table : stored[t] <= stored'[t]
    /\ today' \in Nat /\ today <= today'
    /\ announced' \in [1..counter' -> [Table -> Nat]]
    /\ \/ counter' = counter /\ announced' = announced
       \/ /\ counter' = counter + 1 /\ stored' = stored
          /\ \A r \in 1..counter : announced'[r] = announced[r]
          /\ announced'[counter + 1] = stored

\* What a step may do to the requests in flight and to the panels.
FreshFetch(f) == f.token \in Token /\ f.seen = {} /\ f.stamp = 0 /\ f.done = 0
ReadMore(g, f) ==
    /\ g.done < Len(Reads[g.panel])
    /\ \E t \in Table \cup {"clock"} :
          f = [g EXCEPT !.done = g.done + 1, !.seen = g.seen \cup {<<t, Value(t)>>}]
Stamps(g, f) == /\ g.done = Len(Reads[g.panel]) /\ f = [g EXCEPT !.stamp = counter]

TabMove ==
    /\ \A f \in fetches' :
          \/ f \in fetches
          \/ FreshFetch(f)
          \/ /\ UNCHANGED ledgerVars
             /\ \E g \in fetches : ReadMore(g, f) \/ Stamps(g, f)
    /\ \A p \in Panel :
          \/ shown'[p] = shown[p]
          \/ /\ UNCHANGED ledgerVars
             /\ \E f \in fetches : shown'[p] = Answer(f, f.token)

-----------------------------------------------------------------------------
\* A bump records what is stored.
LEMMA BumpMoves ==
    ASSUME LedgerTypeOK, Bump
    PROVE  LedgerMove /\ counter' \in Nat \ {0}
  <1>1. announced' \in [1..counter' -> [Table -> Nat]]
    BY DEF LedgerTypeOK, Bump
  <1>2. /\ \A r \in 1..counter : announced'[r] = announced[r]
        /\ announced'[counter + 1] = stored
    BY DEF LedgerTypeOK, Bump
  <1> QED BY <1>1, <1>2 DEF LedgerTypeOK, Bump, LedgerMove

LEMMA LedgerStays ==
    ASSUME LedgerTypeOK, UNCHANGED ledgerVars
    PROVE  LedgerMove
  BY DEF LedgerTypeOK, LedgerMove, ledgerVars

LEMMA LedgerMoves ==
    ASSUME LedgerTypeOK, [Next]_vars
    PROVE  LedgerMove
  <1>1. ASSUME NEW w \in Writer, NEW change \in Changes, Commit(w, change)
        PROVE  LedgerMove
    BY <1>1 DEF LedgerTypeOK, Commit, LedgerMove
  <1>2. CASE Midnight
    BY <1>2 DEF LedgerTypeOK, Midnight, LedgerMove
  <1>3. ASSUME NEW w \in Writer, Announce(w) PROVE LedgerMove
    BY <1>3, BumpMoves DEF Announce
  <1>4. CASE Restart
    BY <1>4, BumpMoves DEF Restart
  <1>5. CASE \E w \in Writer : Begin(w) \/ AnswerUnannounced(w) \/ Abandon(w) \/ Settle(w)
    BY <1>5, LedgerStays DEF Begin, AnswerUnannounced, Abandon, Settle
  <1>6. CASE Crash \/ StartPoll \/ PollRevision \/ PollDay \/ PollDone \/ PollFails
                \/ Hide \/ Show
    BY <1>6, LedgerStays
       DEF Crash, StartPoll, PollRevision, PollDay, PollDone, PollFails, Hide, Show
  <1>7. CASE \E p \in Panel : Ask(p)
    BY <1>7, LedgerStays DEF Ask
  <1>8. CASE \E f \in fetches : FetchStep(f) \/ AttemptFails(f)
    BY <1>8, LedgerStays DEF FetchStep, Query, Stamp, StampWith, Deliver, AttemptFails
  <1>9. CASE UNCHANGED vars
    BY <1>9, LedgerStays DEF vars
  <1> QED BY <1>1, <1>2, <1>3, <1>4, <1>5, <1>6, <1>7, <1>8, <1>9 DEF Next, Ends

-----------------------------------------------------------------------------
\* An answer that is sound stays so whatever happens to the ledger.
LEMMA SoundStays ==
    ASSUME LedgerTypeOK, LedgerMove, NEW a, Sound(a, stored, announced, counter, today)
    PROVE  Sound(a, stored', announced', counter', today')
  <1>1. CASE counter' = counter /\ announced' = announced
    BY <1>1 DEF LedgerTypeOK, LedgerMove, Sound, Seen
  <1>2. CASE /\ counter' = counter + 1 /\ stored' = stored
             /\ \A r \in 1..counter : announced'[r] = announced[r]
             /\ announced'[counter + 1] = stored
    <2>1. a.token \in [rev : 1..counter', day : 0..today'] /\ a.stamp \in 0..counter'
      BY <1>2 DEF LedgerTypeOK, LedgerMove, Sound
    <2>2. ASSUME NEW s \in a.seen, s[1] \in Table
          PROVE  /\ announced'[a.token.rev][s[1]] <= s[2]
                 /\ s[2] <= stored'[s[1]]
                 /\ a.stamp \in 1..(counter' - 1) => s[2] <= announced'[a.stamp + 1][s[1]]
      <3>1. a.token.rev \in 1..counter
        BY DEF Sound
      <3>2. ASSUME a.stamp \in 1..(counter' - 1)
            PROVE  s[2] <= announced'[a.stamp + 1][s[1]]
        <4>1. CASE a.stamp = counter
          BY <4>1, <1>2, <2>2 DEF Sound
        <4>2. CASE a.stamp # counter
          <5>1. a.stamp \in 1..(counter - 1) /\ a.stamp + 1 \in 1..counter
            BY <4>2, <3>2, <1>2 DEF LedgerTypeOK
          <5> QED BY <5>1, <1>2, <2>2 DEF Sound
        <4> QED BY <4>1, <4>2
      <3> QED BY <3>1, <3>2, <1>2, <2>2 DEF Sound
    <2>3. ASSUME NEW s \in a.seen, s[1] = "clock"
          PROVE  a.token.day <= s[2] /\ s[2] <= today'
      BY <2>3 DEF LedgerTypeOK, LedgerMove, Sound, Seen
    <2> QED BY <2>1, <2>2, <2>3 DEF Sound
  <1> QED BY <1>1, <1>2 DEF LedgerMove

LEMMA AnnouncedStays ==
    ASSUME LedgerTypeOK, AnnouncedIsStored, LedgerMove
    PROVE  AnnouncedIsStored'
  <1> SUFFICES ASSUME NEW r \in 1..counter', NEW t \in Table
               PROVE  announced'[r][t] <= stored'[t]
    BY DEF AnnouncedIsStored
  <1>1. CASE r \in 1..counter
    <2>1. announced'[r] = announced[r]
      BY <1>1 DEF LedgerMove, LedgerTypeOK
    <2>2. announced[r][t] \in Nat /\ stored[t] \in Nat /\ stored'[t] \in Nat
      BY <1>1 DEF LedgerMove, LedgerTypeOK
    <2> QED BY <2>1, <2>2, <1>1 DEF LedgerMove, AnnouncedIsStored
  <1>2. CASE r \notin 1..counter
    BY <1>2 DEF LedgerMove, LedgerTypeOK
  <1> QED BY <1>1, <1>2

-----------------------------------------------------------------------------
\* Where the answers in flight and on show come from.
LEMMA TabMoves ==
    ASSUME VersionTypeOK, [Next]_vars
    PROVE  TabMove
  <1>1. CASE \E p \in Panel : Ask(p)
    <2>1. PICK p \in Panel : Ask(p)
      BY <1>1
    <2>2. FreshFetch(NewFetch(p, 0))
      BY <2>1 DEF Ask, NewFetch, FreshFetch, VersionTypeOK, ViewTypeOK
    <2> QED BY <2>1, <2>2 DEF Ask, TabMove
  <1>2. ASSUME NEW f \in fetches, FetchStep(f)
        PROVE  TabMove
    <2>1. CASE Query(f)
      <3> DEFINE t == Reads[f.panel][f.done + 1]
                 g == [f EXCEPT !.done = f.done + 1, !.seen = f.seen \cup {<<t, Value(t)>>}]
      <3>1. t \in Table \cup {"clock"}
        BY <2>1, VersionAssumption DEF Query, VersionTypeOK, FetchTypeOK
      <3>2. fetches' = (fetches \ {f}) \cup {g} /\ ReadMore(f, g)
        BY <2>1, <3>1 DEF Query, ReadMore
      <3> HIDE DEF g
      <3> QED BY <2>1, <3>2 DEF Query, TabMove
    <2>2. CASE Stamp(f)
      BY <2>2 DEF Stamp, StampWith, TabMove, Stamps
    <2>3. CASE Deliver(f)
      BY <2>3 DEF Deliver, TabMove, VersionTypeOK, FetchTypeOK
    <2> QED BY <1>2, <2>1, <2>2, <2>3 DEF FetchStep
  <1>3. ASSUME NEW g \in fetches PROVE FreshFetch(Again(g))
    BY DEF Again, FreshFetch, VersionTypeOK, FetchTypeOK
  <1>4. CASE \E f \in fetches : AttemptFails(f)
    BY <1>3, <1>4 DEF AttemptFails, TabMove
  <1>5. CASE Crash
    BY <1>3, <1>5 DEF Crash, TabMove
  <1>6. CASE UNCHANGED <<fetches, shown>>
    BY <1>6 DEF TabMove
  <1>7. CASE \/ \E w \in Writer : Begin(w) \/ Ends(w) \/ Settle(w)
             \/ \E w \in Writer : \E change \in Changes : Commit(w, change)
             \/ Midnight \/ Restart
    BY <1>6, <1>7 DEF Begin, Ends, Announce, AnswerUnannounced, Abandon, Settle, Commit,
                      Midnight, Restart, tabVars
  <1>8. CASE \/ StartPoll \/ PollRevision \/ PollDay \/ PollDone \/ PollFails
             \/ Hide \/ Show \/ UNCHANGED vars
    BY <1>6, <1>8 DEF StartPoll, PollRevision, PollDay, PollDone, PollFails, Hide, Show,
                      vars, tabVars
  <1> QED BY <1>1, <1>2, <1>4, <1>5, <1>7, <1>8 DEF Next

-----------------------------------------------------------------------------
(* Type correctness.                                                           *)

LEMMA HostTyped ==
    ASSUME VersionTypeOK, [Next]_vars
    PROVE  HostTypeOK'
  <1> USE DEF VersionTypeOK, HostTypeOK
  <1>1. ASSUME NEW w \in Writer,
               \/ Begin(w) \/ Ends(w) \/ Settle(w)
               \/ \E change \in Changes : Commit(w, change)
        PROVE  HostTypeOK'
    BY <1>1 DEF Begin, Ends, Announce, AnswerUnannounced, Abandon, Settle, Commit,
                 hostVars
  <1>2. CASE Crash \/ Restart
    <2>1. CASE Crash
      <3>1. crashes' \in Nat /\ up' = FALSE
        BY <2>1 DEF Crash
      <3>2. work' \in [Writer -> {"idle", "running", "answering"}]
        BY <2>1 DEF Crash
      <3> QED BY <3>1, <3>2
    <2>2. CASE Restart
      BY <2>2 DEF Restart
    <2> QED BY <1>2, <2>1, <2>2
  <1>3. CASE UNCHANGED hostVars
    BY <1>3 DEF hostVars
  <1>4. CASE \/ StartPoll \/ PollRevision \/ PollDay \/ PollDone \/ PollFails
             \/ Hide \/ Show \/ Midnight \/ UNCHANGED vars
    BY <1>3, <1>4 DEF StartPoll, PollRevision, PollDay, PollDone, PollFails, Hide, Show,
                      Midnight, vars
  <1>5. CASE \/ \E p \in Panel : Ask(p)
             \/ \E f \in fetches : FetchStep(f) \/ AttemptFails(f)
    BY <1>3, <1>5 DEF Ask, FetchStep, Query, Stamp, StampWith, Deliver, AttemptFails
  <1> QED BY <1>1, <1>2, <1>4, <1>5 DEF Next

\* What the client knows of the version stays within what there is.
LEMMA TokensStay ==
    ASSUME LedgerTypeOK, LedgerMove
    PROVE  /\ Token \subseteq Token'
           /\ 1..counter \subseteq 1..counter' /\ 0..counter \subseteq 0..counter'
  BY DEF LedgerTypeOK, LedgerMove, Token

LEMMA ViewTyped ==
    ASSUME VersionTypeOK, [Next]_vars
    PROVE  ViewTypeOK'
  <1>1. LedgerTypeOK /\ ViewTypeOK /\ LedgerMove
    BY LedgerMoves DEF VersionTypeOK
  <1>2. /\ Token \subseteq Token'
        /\ 1..counter \subseteq 1..counter' /\ 0..counter \subseteq 0..counter'
    BY <1>1, TokensStay
  <1>3. CASE UNCHANGED <<visible, version, poll, failed>>
    BY <1>1, <1>2, <1>3 DEF ViewTypeOK
  <1>4. CASE \/ \E w \in Writer : Begin(w) \/ Ends(w)
             \/ \E w \in Writer : \E change \in Changes : Commit(w, change)
             \/ Midnight \/ Restart \/ UNCHANGED vars
    BY <1>3, <1>4 DEF Begin, Ends, Announce, AnswerUnannounced, Abandon, Commit, Midnight,
                      Restart, vars, tabVars
  <1>5. CASE \E p \in Panel : Ask(p)
    BY <1>3, <1>5 DEF Ask
  <1>6. CASE \E w \in Writer : Settle(w)
    BY <1>1, <1>2, <1>6 DEF Settle, Recheck, ViewTypeOK
  <1>7. CASE StartPoll \/ PollFails \/ Hide \/ Show
    BY <1>1, <1>2, <1>7 DEF StartPoll, PollFails, Hide, Show, ViewTypeOK
  <1>8. CASE PollRevision
    BY <1>1, <1>2, <1>8 DEF PollRevision, ViewTypeOK, LedgerTypeOK
  <1>9. CASE PollDay
    <2>1. poll.rev \in 1..counter
      BY <1>1, <1>9 DEF PollDay, ViewTypeOK, NoPoll, SentPoll
    <2>2. [rev |-> poll.rev, day |-> today] \in Token
      BY <1>1, <2>1 DEF LedgerTypeOK, Token
    <2>3. poll' \in [at : {"answer"}, token : Token]
      BY <1>9, <2>2 DEF PollDay
    <2>4. UNCHANGED <<visible, version, failed, ledgerVars>> /\ Token' = Token
      BY <1>9 DEF PollDay, ledgerVars, Token
    <2> QED BY <1>1, <2>3, <2>4 DEF ViewTypeOK
  <1>10. CASE PollDone
    BY <1>1, <1>2, <1>10 DEF PollDone, ViewTypeOK, NoPoll, SentPoll
  <1>11. ASSUME NEW f \in fetches, FetchStep(f) \/ AttemptFails(f)
         PROVE  ViewTypeOK'
    <2>1. f.panel \in Panel /\ GivenUp({f}) \subseteq Panel
      BY DEF VersionTypeOK, FetchTypeOK, GivenUp
    <2> QED BY <1>1, <1>2, <1>11, <2>1
            DEF FetchStep, Query, Stamp, StampWith, Deliver, Recheck, AttemptFails, ViewTypeOK
  <1>12. CASE Crash
    <2>1. GivenUp(fetches) \subseteq Panel
      BY DEF VersionTypeOK, FetchTypeOK, GivenUp
    <2> QED BY <1>1, <1>2, <1>12, <2>1 DEF Crash, ViewTypeOK
  <1> QED BY <1>4, <1>5, <1>6, <1>7, <1>8, <1>9, <1>10, <1>11, <1>12 DEF Next

\* The requests in flight, and what panels show.
Fetch == [panel : Panel, token : Token, done : Nat, seen : Seen, stamp : 0..counter, tries : Nat]

LEMMA FetchTyped ==
    ASSUME VersionTypeOK, [Next]_vars
    PROVE  FetchTypeOK'
  <1>1. LedgerTypeOK /\ ViewTypeOK /\ FetchTypeOK /\ LedgerMove
    BY LedgerMoves DEF VersionTypeOK
  <1>2. /\ Token \subseteq Token'
        /\ 1..counter \subseteq 1..counter' /\ 0..counter \subseteq 0..counter'
    BY <1>1, TokensStay
  <1>3. Fetch \subseteq Fetch' /\ Seen' = Seen
    BY <1>2 DEF Fetch, Seen
  <1>4. /\ fetches \subseteq Fetch
        /\ \A f \in fetches : f.done <= Len(Reads[f.panel])
    BY <1>1 DEF FetchTypeOK, Fetch
  <1>5. ASSUME /\ fetches' \subseteq Fetch
               /\ \A f \in fetches' : f.done <= Len(Reads[f.panel])
               /\ \/ shown' = shown
                  \/ \E f \in fetches :
                        shown' = [shown EXCEPT ![f.panel] = Answer(f, f.token)]
        PROVE  FetchTypeOK'
    <2>1. fetches' \subseteq Fetch'
      BY <1>3, <1>5
    <2>2. ASSUME NEW f \in fetches
          PROVE  Answer(f, f.token) \in [token : Token, seen : Seen, stamp : 0..counter]
      BY <1>4 DEF Answer, Fetch
    <2>3. shown' \in [Panel -> [token : Token, seen : Seen, stamp : 0..counter] \cup {NoVersion}]
      BY <1>1, <1>5, <2>2 DEF FetchTypeOK
    <2>4. shown' \in [Panel -> [token : Token', seen : Seen', stamp : 0..counter'] \cup {NoVersion}]
      BY <1>2, <1>3, <2>3
    <2> QED BY <1>5, <2>1, <2>4 DEF FetchTypeOK, Fetch
  <1>6. CASE UNCHANGED <<fetches, shown>>
    BY <1>4, <1>5, <1>6
  <1>7. CASE \/ \E w \in Writer : Begin(w) \/ Ends(w) \/ Settle(w)
             \/ \E w \in Writer : \E change \in Changes : Commit(w, change)
             \/ Midnight \/ Restart
    BY <1>6, <1>7 DEF Begin, Ends, Announce, AnswerUnannounced, Abandon, Settle, Commit,
                      Midnight, Restart, tabVars
  <1>8. CASE \/ StartPoll \/ PollRevision \/ PollDay \/ PollDone \/ PollFails
             \/ Hide \/ Show \/ UNCHANGED vars
    BY <1>6, <1>8 DEF StartPoll, PollRevision, PollDay, PollDone, PollFails, Hide, Show,
                      vars, tabVars
  <1>9. ASSUME NEW p \in Panel, Ask(p)
        PROVE  FetchTypeOK'
    <2>1. NewFetch(p, 0) \in Fetch
      BY <1>1, <1>9 DEF Ask, NewFetch, Fetch, Seen, ViewTypeOK, LedgerTypeOK
    <2>2. NewFetch(p, 0).done <= Len(Reads[NewFetch(p, 0).panel])
      BY VersionAssumption DEF NewFetch
    <2> QED BY <1>4, <1>5, <1>9, <2>1, <2>2 DEF Ask
  <1>10. ASSUME NEW f \in fetches, Query(f)
         PROVE  FetchTypeOK'
    <2> DEFINE t == Reads[f.panel][f.done + 1]
               more == f.seen \cup {<<t, Value(t)>>}
               g == [f EXCEPT !.done = f.done + 1, !.seen = more]
    <2>1. t \in Table \cup {"clock"} /\ f.done + 1 <= Len(Reads[f.panel])
      BY <1>4, <1>10, VersionAssumption DEF Query, Fetch
    <2>2. Value(t) \in Nat
      BY <1>1, <2>1 DEF Value, LedgerTypeOK
    <2>3. more \in Seen
      BY <1>4, <2>1, <2>2 DEF Seen, Fetch
    <2>4. fetches' = (fetches \ {f}) \cup {g} /\ shown' = shown
      BY <1>10 DEF Query
    <2> HIDE DEF more
    <2>5. g \in Fetch /\ g.done = f.done + 1 /\ g.panel = f.panel
      <3>1. f \in Fetch /\ f.done + 1 \in Nat
        BY <1>4 DEF Fetch
      <3> QED BY <2>3, <3>1 DEF Fetch
    <2> HIDE DEF g, t
    <2> QED BY <1>4, <1>5, <2>1, <2>4, <2>5
  <1>11. ASSUME NEW f \in fetches, Stamp(f)
         PROVE  FetchTypeOK'
    <2>1. /\ [f EXCEPT !.stamp = counter] \in Fetch
          /\ [f EXCEPT !.stamp = counter].done = f.done
          /\ [f EXCEPT !.stamp = counter].panel = f.panel
      BY <1>1, <1>4 DEF Fetch, LedgerTypeOK
    <2> QED BY <1>4, <1>5, <1>11, <2>1 DEF Stamp, StampWith
  <1>12. ASSUME NEW f \in fetches, Deliver(f)
         PROVE  FetchTypeOK'
    BY <1>4, <1>5, <1>12 DEF Deliver
  <1>13. ASSUME NEW f \in fetches
         PROVE  Again(f) \in Fetch /\ Again(f).done <= Len(Reads[Again(f).panel])
    <2>1. {} \in Seen /\ 0 \in 0..counter /\ Len(Reads[f.panel]) >= 0
      BY <1>1, <1>4, VersionAssumption DEF Fetch, Seen, LedgerTypeOK
    <2>2. f \in Fetch /\ f.tries + 1 \in Nat
      BY <1>4 DEF Fetch
    <2>3. Again(f) \in Fetch /\ Again(f).done = 0 /\ Again(f).panel = f.panel
      BY <2>1, <2>2 DEF Again, Fetch
    <2> QED BY <2>1, <2>3
  <1>14. CASE Crash
    BY <1>5, <1>13, <1>14 DEF Crash
  <1>15. ASSUME NEW f \in fetches, AttemptFails(f)
         PROVE  FetchTypeOK'
    BY <1>4, <1>5, <1>13, <1>15 DEF AttemptFails
  <1> QED BY <1>7, <1>8, <1>9, <1>10, <1>11, <1>12, <1>14, <1>15
         DEF Next, FetchStep

LEMMA InitTyped == Init => VersionInv
  <1> SUFFICES ASSUME Init PROVE VersionInv
    OBVIOUS
  <1>1. VersionTypeOK
    BY DEF Init, VersionTypeOK, LedgerTypeOK, HostTypeOK, ViewTypeOK, FetchTypeOK
  <1>2. AnnouncedIsStored
    BY DEF Init, AnnouncedIsStored
  <1>3. AnswersAreSound
    BY DEF Init, AnswersAreSound
  <1> QED BY <1>1, <1>2, <1>3 DEF VersionInv

-----------------------------------------------------------------------------
(* The answers.                                                                *)

\* A query finds nothing older than what was announced when it was asked for.
LEMMA ReadIsSound ==
    ASSUME LedgerTypeOK, AnnouncedIsStored, NEW g \in Fetch, NEW f, ReadMore(g, f),
           Sound(g, stored, announced, counter, today), g.stamp = 0
    PROVE  Sound(f, stored, announced, counter, today)
  <1>1. PICK t \in Table \cup {"clock"} :
           f = [g EXCEPT !.done = g.done + 1, !.seen = g.seen \cup {<<t, Value(t)>>}]
    BY DEF ReadMore
  <1>2. /\ f.token = g.token /\ f.stamp = 0
        /\ f.seen = g.seen \cup {<<t, Value(t)>>}
    BY <1>1 DEF Fetch
  <1>3. Value(t) \in Nat /\ f.seen \in Seen
    BY <1>2 DEF Value, LedgerTypeOK, Seen, Fetch
  <1>4. g.token.rev \in 1..counter /\ g.token.day \in 0..today
    BY DEF Sound
  <1>5. t = "clock" => Value(t) = today
    BY DEF Value
  <1>6. t \in Table => Value(t) = stored[t] /\ announced[g.token.rev][t] <= stored[t]
    BY <1>4, VersionAssumption DEF Value, AnnouncedIsStored
  <1>7. \A s \in f.seen : s[1] = "clock" => g.token.day <= s[2] /\ s[2] <= today
    BY <1>2, <1>4, <1>5 DEF Sound, LedgerTypeOK
  <1>8. \A s \in f.seen : s[1] \in Table => /\ announced[g.token.rev][s[1]] <= s[2]
                                           /\ s[2] <= stored[s[1]]
    BY <1>2, <1>6 DEF Sound, LedgerTypeOK
  <1> QED BY <1>2, <1>3, <1>7, <1>8 DEF Sound

\* The stamp is the newest revision there is.
LEMMA StampIsSound ==
    ASSUME LedgerTypeOK, NEW g \in Fetch, NEW f, Stamps(g, f),
           Sound(g, stored, announced, counter, today)
    PROVE  Sound(f, stored, announced, counter, today)
  BY DEF Stamps, Sound, Fetch, LedgerTypeOK

LEMMA InvStep ==
    ASSUME VersionInv, [Next]_vars
    PROVE  VersionInv'
  <1>1. /\ VersionTypeOK /\ LedgerTypeOK /\ LedgerMove /\ TabMove
        /\ AnnouncedIsStored /\ AnswersAreSound /\ fetches \subseteq Fetch
    BY LedgerMoves, TabMoves DEF VersionInv, VersionTypeOK, FetchTypeOK, Fetch
  <1>2. VersionTypeOK'
    BY <1>1, HostTyped, ViewTyped, FetchTyped DEF VersionTypeOK, LedgerTypeOK, LedgerMove
  <1>3. AnnouncedIsStored'
    BY <1>1, AnnouncedStays
  <1>4. ASSUME NEW f \in fetches'
        PROVE  /\ Sound(f, stored', announced', counter', today')
               /\ f.stamp # 0 => f.done = Len(Reads[f.panel])
    <2>1. CASE f \in fetches
      BY <1>1, <2>1, SoundStays DEF AnswersAreSound
    <2>2. CASE FreshFetch(f)
      <3>1. f.token \in [rev : 1..counter', day : 0..today']
        BY <1>1, <2>2, TokensStay DEF FreshFetch, Token
      <3> QED BY <1>2, <2>2, <3>1 DEF FreshFetch, Sound, Seen, VersionTypeOK, LedgerTypeOK
    <2>3. ASSUME UNCHANGED ledgerVars, NEW g \in fetches, ReadMore(g, f) \/ Stamps(g, f)
          PROVE  /\ Sound(f, stored', announced', counter', today')
                 /\ f.stamp # 0 => f.done = Len(Reads[f.panel])
      <3>1. /\ g \in Fetch /\ Sound(g, stored, announced, counter, today)
            /\ g.stamp # 0 => g.done = Len(Reads[g.panel])
        BY <1>1 DEF AnswersAreSound
      <3>2. CASE ReadMore(g, f)
        <4>1. g.stamp = 0 /\ f.stamp = g.stamp
          BY <3>1, <3>2, VersionAssumption DEF ReadMore, Fetch
        <4> QED BY <1>1, <2>3, <3>1, <3>2, <4>1, ReadIsSound DEF ledgerVars
      <3>3. CASE Stamps(g, f)
        BY <1>1, <2>3, <3>1, <3>3, StampIsSound DEF ledgerVars, Stamps, Fetch
      <3> QED BY <2>3, <3>2, <3>3
    <2> QED BY <1>1, <2>1, <2>2, <2>3 DEF TabMove
  <1>5. ASSUME NEW p \in Panel, shown'[p] # NoVersion
        PROVE  Sound(shown'[p], stored', announced', counter', today')
    <2>1. CASE shown'[p] = shown[p]
      BY <1>1, <1>5, <2>1, SoundStays DEF AnswersAreSound
    <2>2. ASSUME UNCHANGED ledgerVars, NEW f \in fetches, shown'[p] = Answer(f, f.token)
          PROVE  Sound(shown'[p], stored', announced', counter', today')
      <3>1. Sound(f, stored, announced, counter, today)
        BY <1>1 DEF AnswersAreSound
      <3>2. Sound(Answer(f, f.token), stored, announced, counter, today)
        BY <3>1 DEF Sound, Answer
      <3> QED BY <2>2, <3>2 DEF ledgerVars
    <2> QED BY <1>1, <2>1, <2>2 DEF TabMove
  <1>6. AnswersAreSound'
    BY <1>4, <1>5 DEF AnswersAreSound
  <1> QED BY <1>2, <1>3, <1>6 DEF VersionInv

LEMMA VersionInvariance == Spec => []VersionInv
  <1>1. VersionInv /\ UNCHANGED vars => VersionInv'
    BY InvStep
  <1> QED BY InitTyped, InvStep, <1>1, PTL DEF Spec

-----------------------------------------------------------------------------
(* The theorems.                                                               *)

\* Every variable keeps its type, and no token is ahead of the ledger.
THEOREM VersionTypeCorrect == Spec => []VersionTypeOK
  BY VersionInvariance, PTL DEF VersionInv

\* A panel never shows under a version what is older than the version announced.
THEOREM AnswersAreFresh == Spec => []AnswersIncludeTheirVersion
  <1>1. VersionInv => AnswersIncludeTheirVersion
    <2> SUFFICES ASSUME VersionInv, NEW p \in Panel, shown[p] # NoVersion
                 PROVE  Includes(shown[p])
      BY DEF AnswersIncludeTheirVersion
    <2>1. Sound(shown[p], stored, announced, counter, today)
      BY DEF VersionInv, AnswersAreSound
    <2> QED BY <2>1 DEF Sound, Seen, Includes
  <1> QED BY VersionInvariance, <1>1, PTL

\* A stamp bounds how new an answer can be.
THEOREM StampsBound == Spec => []StampsBoundAnswers
  <1>1. VersionInv => StampsBoundAnswers
    <2> SUFFICES ASSUME VersionInv, NEW p \in Panel, shown[p] # NoVersion
                 PROVE  StampBounds(shown[p])
      BY DEF StampsBoundAnswers
    <2>1. Sound(shown[p], stored, announced, counter, today)
      BY DEF VersionInv, AnswersAreSound
    <2> QED BY <2>1 DEF Sound, Seen, StampBounds
  <1> QED BY VersionInvariance, <1>1, PTL

-----------------------------------------------------------------------------
(* The version a tab has.                                                      *)

\* A poll under way knows a version at least as new as the tab's.
PollIsAhead ==
    version # NoVersion =>
        /\ poll.at = "clock" => version.rev <= poll.rev
        /\ poll.at = "answer" => version.rev <= poll.token.rev /\ version.day <= poll.token.day

LEMMA PollStaysAhead ==
    ASSUME VersionTypeOK, PollIsAhead, [Next]_vars
    PROVE  PollIsAhead'
  <1>1. LedgerTypeOK /\ ViewTypeOK
    BY DEF VersionTypeOK
  <1>2. CASE UNCHANGED <<version, poll>>
    BY <1>2 DEF PollIsAhead
  <1>3. CASE version' = version /\ poll' \in {SentPoll, NoPoll}
    BY <1>3 DEF PollIsAhead, SentPoll, NoPoll
  <1>4. CASE PollRevision
    <2>1. version # NoVersion => version.rev <= counter
      BY <1>1 DEF ViewTypeOK, Token, LedgerTypeOK
    <2> QED BY <1>4, <2>1 DEF PollRevision, PollIsAhead
  <1>5. CASE PollDay
    <2>1. version # NoVersion => version.day <= today
      BY <1>1 DEF ViewTypeOK, Token, LedgerTypeOK
    <2> QED BY <1>5, <2>1 DEF PollDay, PollIsAhead
  <1>6. CASE PollDone
    BY <1>6 DEF PollDone, PollIsAhead, NoPoll
  <1>7. CASE \/ \E w \in Writer : Begin(w) \/ Ends(w) \/ Settle(w)
             \/ \E w \in Writer : \E change \in Changes : Commit(w, change)
             \/ Midnight \/ Restart \/ UNCHANGED vars
    BY <1>2, <1>3, <1>7 DEF Begin, Ends, Announce, AnswerUnannounced, Abandon, Settle, Recheck,
                            Commit, Midnight, Restart, vars, tabVars
  <1>8. CASE StartPoll \/ PollFails \/ Hide \/ Show \/ Crash
    BY <1>2, <1>3, <1>8 DEF StartPoll, PollFails, Hide, Show, Crash
  <1>9. CASE \/ \E p \in Panel : Ask(p)
             \/ \E f \in fetches : FetchStep(f) \/ AttemptFails(f)
    BY <1>2, <1>3, <1>9 DEF Ask, FetchStep, Query, Stamp, StampWith, Deliver, Recheck,
                            AttemptFails
  <1> QED BY <1>4, <1>5, <1>6, <1>7, <1>8, <1>9 DEF Next

\* Neither a restart nor midnight nor a poll cut short takes a tab's version back.
THEOREM VersionsMoveOn == Spec => VersionsNeverGoBack
  <1>1. Init => PollIsAhead
    BY DEF Init, PollIsAhead
  <1>2. Spec => []PollIsAhead
    <2>1. PollIsAhead /\ UNCHANGED vars => PollIsAhead'
      BY DEF PollIsAhead, vars, tabVars
    <2>2. VersionTypeOK /\ PollIsAhead /\ [Next]_vars => PollIsAhead'
      BY PollStaysAhead
    <2> QED BY <1>1, <2>1, <2>2, VersionTypeCorrect, PTL DEF Spec
  <1>3. ASSUME VersionTypeOK, PollIsAhead, [Next]_vars
        PROVE  [version # NoVersion => version'.rev >= version.rev
                                       /\ version'.day >= version.day]_vars
    <2>1. CASE PollDone
      BY <1>3, <2>1 DEF PollDone, PollIsAhead, VersionTypeOK, ViewTypeOK, Token
    <2>2. CASE version' = version
      BY <1>3, <2>2 DEF VersionTypeOK, ViewTypeOK, Token, LedgerTypeOK
    <2>3. CASE \/ \E w \in Writer : Begin(w) \/ Ends(w) \/ Settle(w)
               \/ \E w \in Writer : \E change \in Changes : Commit(w, change)
               \/ Midnight \/ Restart \/ UNCHANGED vars
      BY <2>2, <2>3 DEF Begin, Ends, Announce, AnswerUnannounced, Abandon, Settle, Commit,
                        Midnight, Restart, vars, tabVars
    <2>4. CASE StartPoll \/ PollRevision \/ PollDay \/ PollFails \/ Hide \/ Show \/ Crash
      BY <2>2, <2>4 DEF StartPoll, PollRevision, PollDay, PollFails, Hide, Show, Crash
    <2>5. CASE \/ \E p \in Panel : Ask(p)
               \/ \E f \in fetches : FetchStep(f) \/ AttemptFails(f)
      BY <2>2, <2>5 DEF Ask, FetchStep, Query, Stamp, StampWith, Deliver, AttemptFails
    <2> QED BY <1>3, <2>1, <2>3, <2>4, <2>5 DEF Next
  <1> QED BY <1>2, <1>3, VersionTypeCorrect, PTL DEF Spec, VersionsNeverGoBack

=============================================================================
