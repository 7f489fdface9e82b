---------------------------- MODULE LedgerWrites ----------------------------
(* The hand-edited ledger: POST, PUT and DELETE on /api/transactions           *)
(* (backend/src/api/transactions.rs), with the instruments they refer to       *)
(* (backend/src/api/instruments.rs).                                           *)
(*                                                                             *)
(* A handler is a sequence of statements, each on a pooled connection of its   *)
(* own: it looks up the stored row, re-derives every ledger the edit touches   *)
(* with the edit applied, and only then writes.  No transaction spans those    *)
(* statements, so another request may write between any two of them.  Each     *)
(* statement is one action; `Slot` is the set of requests that may be in       *)
(* flight together.                                                            *)
EXTENDS LedgerRows

CONSTANTS Slot,      \* requests in flight
          Body,      \* the request bodies clients send
          MaxId,     \* bound: the last transaction id handed out
          NoRequest  \* a slot that serves nothing

ASSUME WriteBounds == MaxId \in Nat /\ MaxId < ProspectiveId /\ Instrument \subseteq Nat

ASSUME BodyColumns == \A b \in Body : HasColumns(b)

VARIABLES rows,         \* transactions: id -> row
          lastId,       \* its AUTOINCREMENT high-water mark
          instruments,  \* the ids in table instruments
          lastInst,     \* its AUTOINCREMENT high-water mark
          req,          \* what each slot is doing
          overtaken,    \* history: slots whose checked ledgers were written since
          raced         \* history: instruments an overtaken request wrote

ledger == <<rows, lastId, instruments, lastInst>>
vars == <<rows, lastId, instruments, lastInst, req, overtaken, raced>>

ValidBody == {b \in Body : Validates(b)}

Request == [op : {"create"}, at : {"check", "write"}, body : ValidBody]
      \cup [op : {"replace"}, at : {"find"}, id : 1..MaxId, body : ValidBody]
      \cup [op : {"replace"}, at : {"check", "checkOld", "write"}, id : 1..MaxId,
            body : ValidBody, from : Instrument]
      \cup [op : {"remove"}, at : {"find"}, id : 1..MaxId]
      \cup [op : {"remove"}, at : {"checkOld", "write"}, id : 1..MaxId, from : Instrument]

Serving(s, op, at) == req[s] # NoRequest /\ req[s].op \in op /\ req[s].at = at

Init == /\ rows = [n \in {} |-> n]
        /\ lastId = 0
        /\ instruments = {}
        /\ lastInst = 0
        /\ req = [s \in Slot |-> NoRequest]
        /\ overtaken = {}
        /\ raced = {}

-----------------------------------------------------------------------------
(* What a slot has already checked, and what one write does to the others.     *)

Checked(s) ==
    CASE req[s] = NoRequest        -> {}
      [] req[s] # NoRequest ->
         CASE Serving(s, {"create"}, "write")    -> {req[s].body.instrument}
           [] Serving(s, {"replace"}, "checkOld") -> {req[s].body.instrument}
           [] Serving(s, {"replace"}, "write")   -> {req[s].body.instrument, req[s].from}
           [] Serving(s, {"remove"}, "write")    -> {req[s].from}
           [] OTHER                              -> {}

\* The slot s commits a write that touches these instruments.
Wrote(s, touched, clean) ==
    /\ overtaken' = (overtaken \cup {z \in Slot : Checked(z) \cap touched # {}}) \ {s}
    /\ raced' = IF clean THEN raced ELSE raced \cup touched
    /\ req' = [req EXCEPT ![s] = NoRequest]

Advance(s, r) == req' = [req EXCEPT ![s] = r] /\ UNCHANGED <<ledger, overtaken, raced>>

\* The handler returns (or its future is dropped) without writing.
Finish(s) == /\ req' = [req EXCEPT ![s] = NoRequest]
             /\ overtaken' = overtaken \ {s}
             /\ UNCHANGED <<ledger, raced>>

-----------------------------------------------------------------------------
(* Arrivals.  A body that fails domain::validate is answered 422 at once.      *)

\* create, up to the instrument lookup (404 when it is not there).
Post(s, body) ==
    /\ req[s] = NoRequest
    /\ Validates(body)
    /\ body.instrument \in instruments
    /\ lastId < MaxId                            \* bound
    /\ Advance(s, [op |-> "create", at |-> "check", body |-> body])

Put(s, id, body) ==
    /\ req[s] = NoRequest
    /\ Validates(body)
    /\ Advance(s, [op |-> "replace", at |-> "find", id |-> id, body |-> body])

Delete(s, id) ==
    /\ req[s] = NoRequest
    /\ Advance(s, [op |-> "remove", at |-> "find", id |-> id])

-----------------------------------------------------------------------------
(* The lookups.                                                                *)

\* replace: transactions::find, then instruments::find; 404 when either misses.
FindForReplace(s) ==
    /\ Serving(s, {"replace"}, "find")
    /\ LET r == req[s] IN
       IF r.id \in DOMAIN rows /\ r.body.instrument \in instruments
       THEN Advance(s, [op |-> "replace", at |-> "check", id |-> r.id,
                        body |-> r.body, from |-> rows[r.id].instrument])
       ELSE Finish(s)

FindForRemove(s) ==
    /\ Serving(s, {"remove"}, "find")
    /\ IF req[s].id \in DOMAIN rows
       THEN Advance(s, [op |-> "remove", at |-> "checkOld", id |-> req[s].id,
                        from |-> rows[req[s].id].instrument])
       ELSE Finish(s)

-----------------------------------------------------------------------------
(* assert_ledger_valid, one read of the ledger each.                           *)

FaultCheckCreate(s) ==      \* Fault: the candidate sorts before its day's rows.
    /\ Serving(s, {"create"}, "check")
    /\ LET b == req[s].body IN
       IF LedgerStaysValid(rows, b.instrument, {}, {Entry(0, RowOf(b, NoBatch))})
       THEN Advance(s, [req[s] EXCEPT !.at = "write"]) ELSE Finish(s)

CheckCreate(s) ==
    /\ Serving(s, {"create"}, "check")
    /\ LET b == req[s].body IN
       IF LedgerStaysValid(rows, b.instrument, {}, {Entry(ProspectiveId, RowOf(b, NoBatch))})
       THEN Advance(s, [req[s] EXCEPT !.at = "write"]) ELSE Finish(s)

CheckReplace(s) ==
    /\ Serving(s, {"replace"}, "check")
    /\ LET r == req[s] IN
       IF LedgerStaysValid(rows, r.body.instrument, {r.id},
                           {Entry(r.id, RowOf(r.body, NoBatch))})
       THEN Advance(s, [r EXCEPT !.at = IF r.from = r.body.instrument
                                        THEN "write" ELSE "checkOld"])
       ELSE Finish(s)

\* The ledger the row leaves: a replace that moves it, or a remove.
CheckOld(s) ==
    /\ Serving(s, {"replace", "remove"}, "checkOld")
    /\ IF LedgerStaysValid(rows, req[s].from, {req[s].id}, {})
       THEN Advance(s, [req[s] EXCEPT !.at = "write"]) ELSE Finish(s)

-----------------------------------------------------------------------------
(* The writes, one autocommitted statement each.                               *)

Insert(s) ==
    /\ Serving(s, {"create"}, "write")
    /\ lastId < MaxId                            \* bound
    /\ LET b == req[s].body IN
       IF b.instrument \in instruments          \* REFERENCES instruments (id)
       THEN /\ lastId' = lastId + 1
            /\ rows' = [n \in DOMAIN rows \cup {lastId + 1} |->
                           IF n = lastId + 1 THEN RowOf(b, NoBatch) ELSE rows[n]]
            /\ Wrote(s, {b.instrument}, s \notin overtaken)
            /\ UNCHANGED <<instruments, lastInst>>
       ELSE Finish(s)

\* The request stayed clean: nothing it checked was written since, and its row
\* is still on the instrument the lookup saw.
CleanEdit(s) == s \notin overtaken /\ rows[req[s].id].instrument = req[s].from

\* UPDATE .. RETURNING: no row is an internal error.  The import batch stays.
Update(s) ==
    /\ Serving(s, {"replace"}, "write")
    /\ LET r == req[s] IN
       IF r.id \in DOMAIN rows /\ r.body.instrument \in instruments
       THEN /\ rows' = [rows EXCEPT ![r.id] = RowOf(r.body, rows[r.id].batch)]
            /\ Wrote(s, {rows[r.id].instrument, r.body.instrument}, CleanEdit(s))
            /\ UNCHANGED <<lastId, instruments, lastInst>>
       ELSE Finish(s)

\* DELETE: rows_affected = 0 is a 404.
Erase(s) ==
    /\ Serving(s, {"remove"}, "write")
    /\ LET r == req[s] IN
       IF r.id \in DOMAIN rows
       THEN /\ rows' = [n \in DOMAIN rows \ {r.id} |-> rows[n]]
            /\ Wrote(s, {rows[r.id].instrument}, CleanEdit(s))
            /\ UNCHANGED <<lastId, instruments, lastInst>>
       ELSE Finish(s)

\* The client goes away: the handler's future is dropped at an await.
Abandon(s) == req[s] # NoRequest /\ Finish(s)

-----------------------------------------------------------------------------
(* Instruments.  POST is an upsert: an existing identity changes nothing.      *)
(* DELETE reads the ledger and deletes inside one transaction.                 *)

CreateInstrument ==
    /\ lastInst + 1 \in Instrument
    /\ lastInst' = lastInst + 1
    /\ instruments' = instruments \cup {lastInst + 1}
    /\ UNCHANGED <<rows, lastId, req, overtaken, raced>>

RemoveInstrument(i) ==
    /\ i \in instruments
    /\ LedgerFor(rows, i) = {}
    /\ instruments' = instruments \ {i}
    /\ UNCHANGED <<rows, lastId, lastInst, req, overtaken, raced>>

-----------------------------------------------------------------------------
Step(s) ==
    \/ \E body \in Body : Post(s, body)
    \/ \E id \in 1..lastId : Delete(s, id) \/ \E body \in Body : Put(s, id, body)
    \/ FindForReplace(s) \/ FindForRemove(s)
    \/ CheckCreate(s) \/ CheckReplace(s) \/ CheckOld(s)
    \/ Insert(s) \/ Update(s) \/ Erase(s) \/ Abandon(s)

Next == \/ \E s \in Slot : Step(s)
        \/ CreateInstrument
        \/ \E i \in instruments : RemoveInstrument(i)

Spec == Init /\ [][Next]_vars

-----------------------------------------------------------------------------
(* Properties.                                                                 *)

TypeOK ==
    /\ lastId \in 0..MaxId
    /\ DOMAIN rows \subseteq 1..lastId
    /\ rows = [n \in DOMAIN rows |-> rows[n]]
    /\ \A n \in DOMAIN rows : \E b \in ValidBody : rows[n] = RowOf(b, NoBatch)
    /\ instruments \subseteq Instrument /\ lastInst \in Nat
    /\ req \in [Slot -> Request \cup {NoRequest}]
    /\ overtaken \subseteq Slot /\ raced \subseteq Instrument

\* What transactions.rs:354 promises of every write, for the whole table: each
\* instrument's ledger derives.  Holds of requests that come one at a time: then
\* nobody is overtaken, and the next property says the same.
LedgersDerivable == \A i \in Instrument : Derivable(LedgerFor(rows, i))

\* The same promise in the words of the decision log, without the fold and as far
\* as no overtaken write reached the instrument: at no point of its history does it
\* hold fewer than zero shares, and no split meets an empty position or leaves one.
SharesIn(ids) ==
    LET sum[S \in SUBSET ids] ==
            IF S = {} THEN 0
            ELSE LET m == CHOOSE n \in S : TRUE IN rows[m].quantity + sum[S \ {m}]
    IN  sum[ids]

SharesAfter(i, n) ==
    SharesIn({m \in DOMAIN rows : /\ rows[m].instrument = i
                                  /\ rows[m].kind # "Dividend"
                                  /\ m = n \/ Before(Entry(m, rows[m]), Entry(n, rows[n]))})

NeverOversold ==
    \A n \in {m \in DOMAIN rows : rows[m].instrument \notin raced} :
        /\ SharesAfter(rows[n].instrument, n) >= 0
        /\ rows[n].kind = "Split" =>
             /\ SharesAfter(rows[n].instrument, n) > 0
             /\ SharesAfter(rows[n].instrument, n) # rows[n].quantity

\* With any number of requests in flight, an instrument's ledger can stop
\* deriving only through a write that was overtaken: some other request wrote a
\* ledger it had checked, or moved its row, before it wrote.
OnlyRacesBreakLedgers ==
    \A i \in Instrument \ raced : Derivable(LedgerFor(rows, i))

\* A transaction never outlives its instrument, although a create looks its
\* instrument up several statements before it inserts, and the instrument's
\* removal (instruments.rs:168) may come between.
RowsHaveInstruments == \A n \in DOMAIN rows : rows[n].instrument \in instruments

\* All three: what the code's own derivation accepts is also never oversold, and what
\* it is derived for is there.
LedgersStaySound == OnlyRacesBreakLedgers /\ NeverOversold /\ RowsHaveInstruments

=============================================================================
