---------------------------- MODULE RebalancePage ----------------------------
(* The page that shows the rebalance ladder (components/RebalancePage.tsx):    *)
(* the amount, the ranking and the rung a user chose, what is kept of them in  *)
(* the browser, and the plan the query gives it meanwhile.                     *)
(*                                                                             *)
(* The query library is external: the latest plan stands in for one that is    *)
(* still to come, and a plan for the same question may be cached.  The server  *)
(* is any server.  Storage is taken to work and to be this page's own; an      *)
(* amount is what its text is normalized to.                                   *)
EXTENDS Naturals

CONSTANTS PageAmount, ZeroAmount,    \* amounts, and the one to start with
          MaxRungs,        \* bound: rungs of a plan
          Absent           \* no page, no amount, no plan, nothing kept

RankBy == {"sek", "percent"}
Position == Nat \ {0}
Plan == 0..MaxRungs        \* how many rungs a plan has, 0 if it is unavailable

\* PersistedRebalancePageState and RebalancePageState.
KeptPages == [amount : PageAmount, rankBy : RankBy, position : Position]
PageState == [input : PageAmount \cup {Absent}, committed : PageAmount \cup {Absent},
              rankBy : RankBy, position : Position, rungs : Position \cup {Absent},
              restored : BOOLEAN]

ASSUME PageAssumption == /\ ZeroAmount \in PageAmount /\ MaxRungs \in Nat \ {0}
                         /\ Absent \notin PageAmount \cup Nat \cup KeptPages \cup PageState

VARIABLES page,        \* the state of the page, while it is open
          kept,        \* what localStorage has of it
          plan,        \* the plan the query gives it
          lastPlan,    \* the latest plan it was given
          ownPlan      \* does the plan answer what is asked now?

pageVars == <<page, kept, plan, lastPlan, ownPlan>>

PageTypeOK == /\ page \in PageState \cup {Absent} /\ kept \in KeptPages \cup {Absent}
              /\ plan \in Plan \cup {Absent} /\ lastPlan \in Plan \cup {Absent}
              /\ ownPlan \in BOOLEAN

-----------------------------------------------------------------------------
(* The reducer, and what is kept of its state.                                 *)

InitialPage == [input |-> ZeroAmount, committed |-> ZeroAmount, rankBy |-> "sek", position |-> 1,
                rungs |-> Absent, restored |-> FALSE]

Load == IF kept = Absent THEN InitialPage
        ELSE [input |-> kept.amount, committed |-> kept.amount, rankBy |-> kept.rankBy,
              position |-> kept.position, rungs |-> Absent, restored |-> TRUE]

Save(p) == IF p.committed = Absent \/ (~p.restored /\ p.rungs = Absent) THEN kept
           ELSE [amount |-> p.committed, rankBy |-> p.rankBy, position |-> p.position]

\* clampInteger, of a position and a number of rungs.
Clamp(n, max) == CASE n < 1 -> 1
                   [] n > max -> max
                   [] OTHER -> n

FaultPlanChanged(p, n) ==  \* Fault: a smaller ladder leaves the position as it is.
    IF n \in {0, Absent} THEN p
    ELSE [p EXCEPT !.rungs = n,
                   !.position = IF p.rungs = Absent /\ ~p.restored THEN n ELSE p.position]

\* A new ladder: the first one is shown whole, unless a position was kept.
PlanChanged(p, n) ==
    IF n \in {0, Absent} THEN p
    ELSE [p EXCEPT !.rungs = n,
                   !.position = IF p.rungs = Absent /\ ~p.restored THEN n
                                ELSE Clamp(p.position, n)]

\* The page is shown with plan n, measures it, and saves what comes of that.  To
\* measure a plan again changes nothing.
Render(p, n) == /\ page' = PlanChanged(p, n)
                /\ kept' = Save(page')
                /\ plan' = n

-----------------------------------------------------------------------------
(* What is shown.                                                              *)

View == CASE page.committed = Absent -> "prompt"
          [] page.committed # Absent /\ plan = 0 -> "unavailable"
          [] page.committed # Absent /\ plan = Absent -> "no plan"    \* loading, or an error
          [] OTHER -> "available"

ShownPosition == Clamp(page.position, plan)

-----------------------------------------------------------------------------
(* The user.                                                                   *)

\* The plan that stands in for an answer to come, or an answer that was cached.
AskedAgain(p) ==
    \/ Render(p, lastPlan) /\ ownPlan' = FALSE /\ UNCHANGED lastPlan
    \/ /\ p.committed # Absent
       /\ \E n \in Plan : Render(p, n) /\ ownPlan' = TRUE /\ lastPlan' = n

PageOpen == page # Absent

\* Text that is no amount is Absent.
Type(a) == /\ PageOpen /\ page.input # a
           /\ Render([page EXCEPT !.input = a], plan)
           /\ UNCHANGED <<lastPlan, ownPlan>>

Commit == /\ PageOpen /\ page.committed # page.input
          /\ AskedAgain([page EXCEPT !.committed = page.input])

\* The ranking and the slider are there when a ladder is.
ChooseRank(r) == /\ PageOpen /\ View = "available" /\ page.rankBy # r
                 /\ AskedAgain([page EXCEPT !.rankBy = r])

Slide(n) == /\ PageOpen /\ View = "available" /\ n \in 1..plan
            /\ Render([page EXCEPT !.position =
                          Clamp(n, IF page.rungs = Absent THEN n ELSE page.rungs)], plan)
            /\ UNCHANGED <<lastPlan, ownPlan>>

\* To another page, or the window is closed.
Leave == /\ PageOpen
         /\ page' = Absent /\ plan' = Absent /\ lastPlan' = Absent /\ ownPlan' = FALSE
         /\ UNCHANGED kept

Enter == /\ ~PageOpen
         /\ \E n \in Plan \cup {Absent} :
               Render(Load, n) /\ lastPlan' = n /\ ownPlan' = (n # Absent)

-----------------------------------------------------------------------------
(* The query.                                                                  *)

Answer == /\ PageOpen /\ page.committed # Absent
          /\ \E n \in Plan : Render(page, n) /\ lastPlan' = n
          /\ ownPlan' = TRUE

\* Without an answer of its own, a query that failed has no plan.
Fail == /\ PageOpen /\ page.committed # Absent /\ ~ownPlan
        /\ Render(page, Absent)
        /\ UNCHANGED <<lastPlan, ownPlan>>

\* The data version changed, and with it the key.
NewSnapshot == /\ PageOpen
               /\ Render(page, lastPlan) /\ ownPlan' = FALSE
               /\ UNCHANGED lastPlan

PageInit == /\ page = Absent /\ plan = Absent /\ lastPlan = Absent /\ ownPlan = FALSE
            /\ kept = Absent

PageNext == \/ \E a \in PageAmount \cup {Absent} : Type(a)
            \/ Commit
            \/ \E r \in RankBy : ChooseRank(r)
            \/ \E n \in 1..MaxRungs : Slide(n)
            \/ Leave \/ Enter \/ Answer \/ Fail \/ NewSnapshot

PageSpec == PageInit /\ [][PageNext]_pageVars

-----------------------------------------------------------------------------
(* Properties.                                                                 *)

\* What a user sees on the page is what the page is opened with again: the amount and
\* the ranking asked for, and the rung that is shown.
ShownIsKept ==
    page # Absent /\ View = "available" =>
        kept = [amount |-> page.committed, rankBy |-> page.rankBy, position |-> ShownPosition]

\* Nothing is kept before a ladder was shown, and then it is the whole ladder (the test
\* "does not persist an un-restored default before the first available plan").
KeepsWholeFirst ==
    kept = Absent /\ kept' # Absent => View' = "available" /\ kept'.position = plan'

FirstKeptIsWhole == [][KeepsWholeFirst]_pageVars

\* Only the slider, or a ladder that ends before it, moves the position that is kept:
\* not another amount or ranking, a failure, or a page that is opened again.
MovesByChoice ==
    kept # Absent /\ kept'.position # kept.position =>
       \/ \E n \in 1..MaxRungs : Slide(n)
       \/ kept'.position = plan' /\ plan' < kept.position

PositionIsChosen == [][MovesByChoice]_pageVars

\* All three, of every step of every visit to the page (components/RebalancePage.tsx).
PageIsKept == [][ShownIsKept' /\ KeepsWholeFirst /\ MovesByChoice]_pageVars

=============================================================================
