---------------------------- MODULE LedgerProofs ----------------------------
(* What holds of the ledger for any number of requests, importers, bodies,     *)
(* files, instruments and ids.                                                 *)
(*                                                                             *)
(* In this order: the types of the table and of the requests, and that no row  *)
(* outlives its instrument; the fold that derives a position, entry by entry;  *)
(* what a request has found, and so that only races break a ledger; that what  *)
(* derives was never oversold; and the imports beside the hand edits.          *)
EXTENDS ImportBatches, FiniteSetTheorems, TLAPS

LedgerTypes ==
    /\ lastId \in 0..MaxId
    /\ DOMAIN rows \subseteq 1..lastId
    /\ rows = [n \in DOMAIN rows |-> rows[n]]
    /\ \A n \in DOMAIN rows : HasColumns(rows[n])
    /\ instruments \subseteq Instrument

RequestTypes ==
    /\ req \in [Slot -> Request \cup {NoRequest}]
    /\ overtaken \subseteq Slot /\ raced \subseteq Instrument

\* What the hand edits alone put into the table.
RowsAreValid ==
    /\ \A n \in DOMAIN rows : \E b \in ValidBody : rows[n] = RowOf(b, NoBatch)
    /\ lastInst \in Nat

LEMMA TypeParts ==
  ASSUME LedgerTypes, RequestTypes, RowsAreValid
  PROVE  TypeOK
  BY DEF TypeOK, LedgerTypes, RequestTypes, RowsAreValid

LEMMA StoredColumns ==
  ASSUME NEW b, HasColumns(b), NEW batch
  PROVE  /\ HasColumns(RowOf(b, batch)) /\ RowOf(b, batch).instrument = b.instrument
         /\ RowOf(b, batch).batch = batch
  BY DEF HasColumns, RowOf, StoredQuantity

-----------------------------------------------------------------------------
(* What a request record holds, by what it is doing.                           *)

LEMMA CreateRequest ==
  ASSUME RequestTypes, NEW s \in Slot, NEW at, Serving(s, {"create"}, at)
  PROVE  req[s].body \in ValidBody
  BY DEF RequestTypes, Request, Serving

LEMMA ReplaceRequest ==
  ASSUME RequestTypes, NEW s \in Slot, NEW at, Serving(s, {"replace"}, at)
  PROVE  /\ req[s].id \in 1..MaxId /\ req[s].body \in ValidBody
         /\ at # "find" => req[s].from \in Instrument
  BY DEF RequestTypes, Request, Serving

LEMMA RemoveRequest ==
  ASSUME RequestTypes, NEW s \in Slot, NEW at, Serving(s, {"remove"}, at)
  PROVE  /\ req[s].id \in 1..MaxId
         /\ at # "find" => req[s].from \in Instrument
  BY DEF RequestTypes, Request, Serving

-----------------------------------------------------------------------------
(* The ways a step leaves a slot.                                              *)

LEMMA AdvanceTypes ==
  ASSUME LedgerTypes, RequestTypes, RowsHaveInstruments,
         NEW s \in Slot, NEW r \in Request, Advance(s, r)
  PROVE  LedgerTypes' /\ RequestTypes' /\ RowsHaveInstruments'
<1>1. LedgerTypes' /\ RowsHaveInstruments'
  BY DEF LedgerTypes, RowsHaveInstruments, Advance, ledger
<1>2. RequestTypes'
  BY DEF RequestTypes, Advance, ledger
<1>. QED  BY <1>1, <1>2

LEMMA FinishTypes ==
  ASSUME LedgerTypes, RequestTypes, RowsHaveInstruments, NEW s \in Slot, Finish(s)
  PROVE  LedgerTypes' /\ RequestTypes' /\ RowsHaveInstruments'
<1>1. LedgerTypes' /\ RowsHaveInstruments'
  BY DEF LedgerTypes, RowsHaveInstruments, Finish, ledger
<1>2. RequestTypes'
  BY DEF RequestTypes, Finish, ledger
<1>. QED  BY <1>1, <1>2

LEMMA WroteTypes ==
  ASSUME RequestTypes, NEW s \in Slot, NEW touched \in SUBSET Instrument,
         NEW clean \in BOOLEAN, Wrote(s, touched, clean)
  PROVE  RequestTypes'
<1>1. req' \in [Slot -> Request \cup {NoRequest}]
  BY DEF RequestTypes, Wrote
<1>2. overtaken' \subseteq Slot
  BY DEF RequestTypes, Wrote
<1>3. raced' \subseteq Instrument
  BY DEF RequestTypes, Wrote
<1>. QED  BY <1>1, <1>2, <1>3 DEF RequestTypes

\* An edit may only put valid rows of known instruments into the table.
LEMMA RowAdded ==
  ASSUME LedgerTypes, RowsHaveInstruments, NEW id \in 1..MaxId, NEW b \in ValidBody,
         b.instrument \in instruments, NEW last \in 0..MaxId, lastId <= last, id <= last,
         NEW batch,
         rows' = [n \in DOMAIN rows \cup {id} |->
                     IF n = id THEN RowOf(b, batch) ELSE rows[n]],
         lastId' = last, UNCHANGED <<instruments, lastInst>>
  PROVE  LedgerTypes' /\ RowsHaveInstruments'
<1>1. DOMAIN rows' = DOMAIN rows \cup {id}
  OBVIOUS
<1>2. \A n \in DOMAIN rows' : rows'[n] = IF n = id THEN RowOf(b, batch) ELSE rows[n]
  OBVIOUS
<1>3. RowOf(b, batch).instrument = b.instrument /\ HasColumns(RowOf(b, batch))
  BY BodyColumns, StoredColumns DEF ValidBody
<1>4. DOMAIN rows' \subseteq 1..last
  BY <1>1 DEF LedgerTypes
<1>5. rows' = [n \in DOMAIN rows' |-> rows'[n]]
  BY <1>1, <1>2
<1>6. \A n \in DOMAIN rows' : HasColumns(rows'[n])
  BY <1>1, <1>2, <1>3 DEF LedgerTypes
<1>7. RowsHaveInstruments'
  BY <1>1, <1>2, <1>3 DEF RowsHaveInstruments
<1>. QED  BY <1>4, <1>5, <1>6, <1>7 DEF LedgerTypes

-----------------------------------------------------------------------------
(* The actions of one slot.                                                    *)

LedgerInv == LedgerTypes /\ RequestTypes /\ RowsHaveInstruments

LEMMA ArrivalInv ==
  ASSUME LedgerInv, NEW s \in Slot,
         \/ \E body \in Body : Post(s, body)
         \/ \E id \in 1..lastId : Delete(s, id) \/ \E body \in Body : Put(s, id, body)
  PROVE  LedgerInv'
<1>. USE DEF LedgerInv
<1>1. lastId \in 0..MaxId /\ MaxId \in Nat
  BY WriteBounds DEF LedgerTypes
<1>2. CASE \E body \in Body : Post(s, body)
  <2> PICK body \in Body : Post(s, body)  BY <1>2
  <2>1. [op |-> "create", at |-> "check", body |-> body] \in Request
    BY DEF Post, Request, ValidBody
  <2>. QED  BY <2>1, AdvanceTypes DEF Post
<1>3. CASE \E id \in 1..lastId : Delete(s, id)
  <2> PICK id \in 1..lastId : Delete(s, id)  BY <1>3
  <2>1. [op |-> "remove", at |-> "find", id |-> id] \in Request
    BY <1>1 DEF Request
  <2>. QED  BY <2>1, AdvanceTypes DEF Delete
<1>4. CASE \E id \in 1..lastId, body \in Body : Put(s, id, body)
  <2> PICK id \in 1..lastId, body \in Body : Put(s, id, body)  BY <1>4
  <2>1. [op |-> "replace", at |-> "find", id |-> id, body |-> body] \in Request
    BY <1>1 DEF Put, Request, ValidBody
  <2>. QED  BY <2>1, AdvanceTypes DEF Put
<1>. QED  BY <1>2, <1>3, <1>4

\* The lookups: here the instrument of a stored row enters a request.
LEMMA LookupInv ==
  ASSUME LedgerInv, NEW s \in Slot, FindForReplace(s) \/ FindForRemove(s)
  PROVE  LedgerInv'
<1>. USE DEF LedgerInv
<1>1. \A n \in DOMAIN rows : rows[n].instrument \in Instrument
  BY DEF RowsHaveInstruments, LedgerTypes
<1>2. CASE FindForReplace(s)
  <2>1. CASE req[s].id \in DOMAIN rows /\ req[s].body.instrument \in instruments
    <3> DEFINE r == [op |-> "replace", at |-> "check", id |-> req[s].id,
                     body |-> req[s].body, from |-> rows[req[s].id].instrument]
    <3>1. req[s].id \in 1..MaxId /\ req[s].body \in ValidBody
      BY <1>2, ReplaceRequest DEF FindForReplace
    <3>2. r \in Request
      BY <1>1, <2>1, <3>1 DEF Request
    <3>. QED  BY <1>2, <2>1, <3>2, AdvanceTypes DEF FindForReplace
  <2>2. CASE ~(req[s].id \in DOMAIN rows /\ req[s].body.instrument \in instruments)
    BY <1>2, <2>2, FinishTypes DEF FindForReplace
  <2>. QED  BY <2>1, <2>2
<1>3. CASE FindForRemove(s)
  <2>1. CASE req[s].id \in DOMAIN rows
    <3> DEFINE r == [op |-> "remove", at |-> "checkOld", id |-> req[s].id,
                     from |-> rows[req[s].id].instrument]
    <3>1. req[s].id \in 1..MaxId
      BY <1>3, RemoveRequest DEF FindForRemove
    <3>2. r \in Request
      BY <1>1, <2>1, <3>1 DEF Request
    <3>. QED  BY <1>3, <2>1, <3>2, AdvanceTypes DEF FindForRemove
  <2>2. CASE req[s].id \notin DOMAIN rows
    BY <1>3, <2>2, FinishTypes DEF FindForRemove
  <2>. QED  BY <2>1, <2>2
<1>. QED  BY <1>2, <1>3

LEMMA CheckInv ==
  ASSUME LedgerInv, NEW s \in Slot, CheckCreate(s) \/ CheckReplace(s) \/ CheckOld(s)
  PROVE  LedgerInv'
<1>. USE DEF LedgerInv
<1>1. CASE CheckCreate(s)
  <2>1. [req[s] EXCEPT !.at = "write"] \in Request
    BY <1>1 DEF RequestTypes, Request, CheckCreate, Serving
  <2>. QED  BY <1>1, <2>1, AdvanceTypes, FinishTypes DEF CheckCreate
<1>2. CASE CheckReplace(s)
  <2> DEFINE next == IF req[s].from = req[s].body.instrument THEN "write" ELSE "checkOld"
             r == [req[s] EXCEPT !.at = next]
  <2>1. \A at \in {"write", "checkOld"} : [req[s] EXCEPT !.at = at] \in Request
    BY <1>2 DEF RequestTypes, Request, CheckReplace, Serving
  <2>2. r \in Request
    <3>1. next \in {"write", "checkOld"}  OBVIOUS
    <3>. QED  BY <2>1, <3>1
  <2>3. Advance(s, r) \/ Finish(s)
    BY <1>2, Zenon DEF CheckReplace
  <2>. HIDE DEF r
  <2>. QED  BY <2>2, <2>3, AdvanceTypes, FinishTypes
<1>3. CASE CheckOld(s)
  <2>1. [req[s] EXCEPT !.at = "write"] \in Request
    BY <1>3 DEF RequestTypes, Request, CheckOld, Serving
  <2>. QED  BY <1>3, <2>1, AdvanceTypes, FinishTypes DEF CheckOld
<1>. QED  BY <1>1, <1>2, <1>3

LEMMA InsertInv ==
  ASSUME LedgerInv, NEW s \in Slot, Insert(s)
  PROVE  LedgerInv'
<1>. USE DEF LedgerInv
<1>1. req[s].body \in ValidBody
  BY CreateRequest DEF Insert
<1>2. lastId \in 0..MaxId /\ MaxId \in Nat /\ lastId < MaxId
  BY WriteBounds DEF LedgerTypes, Insert
<1>3. CASE req[s].body.instrument \in instruments
  <2>1. LedgerTypes' /\ RowsHaveInstruments'
    <3>1. lastId + 1 \in 1..MaxId /\ lastId + 1 \in 0..MaxId /\ lastId <= lastId + 1
      BY <1>2
    <3>. QED  BY <1>1, <1>3, <3>1, RowAdded DEF Insert
  <2>2. RequestTypes'
    BY <1>3, WroteTypes DEF Insert, LedgerTypes
  <2>. QED  BY <2>1, <2>2
<1>4. CASE req[s].body.instrument \notin instruments
  BY <1>4, FinishTypes DEF Insert
<1>. QED  BY <1>3, <1>4

LEMMA UpdateInv ==
  ASSUME LedgerInv, NEW s \in Slot, Update(s)
  PROVE  LedgerInv'
<1>. USE DEF LedgerInv
<1>1. req[s].id \in 1..MaxId /\ req[s].body \in ValidBody
  BY ReplaceRequest DEF Update
<1>2. lastId \in 0..MaxId /\ MaxId \in Nat
  BY WriteBounds DEF LedgerTypes
<1> DEFINE id == req[s].id
           b == req[s].body
<1>3. CASE id \in DOMAIN rows /\ b.instrument \in instruments
  <2>1. PICK batch : batch = rows[id].batch
    OBVIOUS
  <2>2. /\ rows' = [rows EXCEPT ![id] = RowOf(b, batch)]
        /\ UNCHANGED <<lastId, instruments, lastInst>>
        /\ Wrote(s, {rows[id].instrument, b.instrument}, CleanEdit(s))
    BY <1>3, <2>1 DEF Update
  <2>3. rows' = [n \in DOMAIN rows \cup {id} |->
                    IF n = id THEN RowOf(b, batch) ELSE rows[n]]
    <3>1. rows = [n \in DOMAIN rows |-> rows[n]]
      BY DEF LedgerTypes
    <3>. HIDE DEF b
    <3>. QED  BY <1>3, <2>2, <3>1
  <2>4. id <= lastId
    BY <1>2, <1>3 DEF LedgerTypes
  <2>5. LedgerTypes' /\ RowsHaveInstruments'
    <3>1. lastId <= lastId /\ lastId' = lastId
      BY <1>2, <2>2
    <3>2. /\ id \in 1..MaxId /\ b \in ValidBody /\ b.instrument \in instruments
          /\ lastId \in 0..MaxId /\ UNCHANGED <<instruments, lastInst>>
      BY <1>1, <1>2, <1>3, <2>2
    <3>. HIDE DEF id, b
    <3>. QED  BY <2>3, <2>4, <3>1, <3>2, RowAdded
  <2>6. {rows[id].instrument, b.instrument} \in SUBSET Instrument
    BY <1>3 DEF RowsHaveInstruments, LedgerTypes
  <2>7. RequestTypes'
    BY <2>2, <2>6, WroteTypes DEF CleanEdit
  <2>. QED  BY <2>5, <2>7
<1>4. CASE ~(id \in DOMAIN rows /\ b.instrument \in instruments)
  BY <1>4, FinishTypes DEF Update
<1>. QED  BY <1>3, <1>4

LEMMA EraseInv ==
  ASSUME LedgerInv, NEW s \in Slot, Erase(s)
  PROVE  LedgerInv'
<1>. USE DEF LedgerInv
<1> DEFINE id == req[s].id
<1>1. CASE id \in DOMAIN rows
  <2>1. /\ rows' = [n \in DOMAIN rows \ {id} |-> rows[n]]
        /\ UNCHANGED <<lastId, instruments, lastInst>>
        /\ Wrote(s, {rows[id].instrument}, CleanEdit(s))
    BY <1>1 DEF Erase
  <2>2. DOMAIN rows' = DOMAIN rows \ {id} /\ \A n \in DOMAIN rows' : rows'[n] = rows[n]
    BY <2>1
  <2>3. LedgerTypes'
    BY <2>1, <2>2 DEF LedgerTypes
  <2>4. RowsHaveInstruments'
    BY <2>1, <2>2 DEF RowsHaveInstruments
  <2>5. {rows[id].instrument} \in SUBSET Instrument
    BY <1>1 DEF RowsHaveInstruments, LedgerTypes
  <2>6. RequestTypes'
    BY <2>1, <2>5, WroteTypes DEF CleanEdit
  <2>. QED  BY <2>3, <2>4, <2>6
<1>2. CASE id \notin DOMAIN rows
  BY <1>2, FinishTypes DEF Erase
<1>. QED  BY <1>1, <1>2

-----------------------------------------------------------------------------
(* The instruments: only one without rows is removed.                          *)

LEMMA InstrumentInv ==
  ASSUME LedgerInv, CreateInstrument \/ \E i \in instruments : RemoveInstrument(i)
  PROVE  LedgerInv'
<1>. USE DEF LedgerInv
<1>1. CASE CreateInstrument
  BY <1>1 DEF CreateInstrument, LedgerTypes, RequestTypes, RowsHaveInstruments
<1>2. ASSUME NEW i \in instruments, RemoveInstrument(i)
      PROVE  LedgerInv'
  <2>1. \A n \in DOMAIN rows : rows[n].instrument # i
    <3>1. {n \in DOMAIN rows : rows[n].instrument = i} = {}
      BY <1>2 DEF RemoveInstrument, LedgerFor
    <3>. QED  BY <3>1
  <2>2. LedgerTypes' /\ RequestTypes'
    BY <1>2 DEF RemoveInstrument, LedgerTypes, RequestTypes
  <2>3. RowsHaveInstruments'
    BY <1>2, <2>1 DEF RemoveInstrument, RowsHaveInstruments
  <2>. QED  BY <2>2, <2>3
<1>. QED  BY <1>1, <1>2

-----------------------------------------------------------------------------
LEMMA StepTypes ==
  ASSUME LedgerInv, NEW s \in Slot, Step(s)
  PROVE  LedgerInv'
<1>1. CASE Abandon(s)
  BY <1>1, FinishTypes DEF Abandon, LedgerInv
<1>. QED  BY <1>1, ArrivalInv, LookupInv, CheckInv, InsertInv, UpdateInv, EraseInv DEF Step

LEMMA StepKeepsValid ==
  ASSUME LedgerInv, RowsAreValid, NEW s \in Slot, Step(s)
  PROVE  RowsAreValid'
<1>1. CASE UNCHANGED ledger
  BY <1>1 DEF ledger, RowsAreValid
<1>2. CASE Insert(s) /\ ~UNCHANGED ledger
  <2>1. req[s].body \in ValidBody
    BY <1>2, CreateRequest DEF Insert, LedgerInv
  <2>2. /\ rows' = [n \in DOMAIN rows \cup {lastId + 1} |->
                        IF n = lastId + 1 THEN RowOf(req[s].body, NoBatch) ELSE rows[n]]
        /\ lastInst' = lastInst
    BY <1>2 DEF Insert, Finish
  <2>. QED  BY <2>1, <2>2 DEF RowsAreValid
<1>3. CASE Update(s) /\ ~UNCHANGED ledger
  <2>1. req[s].body \in ValidBody
    BY <1>3, ReplaceRequest DEF Update, LedgerInv
  <2>2. /\ rows' = [rows EXCEPT ![req[s].id] = RowOf(req[s].body, rows[req[s].id].batch)]
        /\ req[s].id \in DOMAIN rows /\ lastInst' = lastInst
    BY <1>3 DEF Update, Finish
  <2>3. rows[req[s].id].batch = NoBatch
    BY <2>2 DEF RowsAreValid, RowOf
  <2>. QED  BY <2>1, <2>2, <2>3 DEF RowsAreValid
<1>4. CASE Erase(s) /\ ~UNCHANGED ledger
  BY <1>4 DEF Erase, Finish, RowsAreValid
<1>. QED  BY <1>1, <1>2, <1>3, <1>4
          DEF Step, Post, Put, Delete, FindForReplace, FindForRemove, CheckCreate,
              CheckReplace, CheckOld, Abandon, Advance, Finish

LEMMA LedgerInvAlways == Spec => [](LedgerInv /\ RowsAreValid)
<1>1. Init => LedgerInv /\ RowsAreValid
  BY WriteBounds
     DEF Init, LedgerInv, LedgerTypes, RequestTypes, RowsHaveInstruments, RowsAreValid
<1>2. LedgerInv /\ RowsAreValid /\ [Next]_vars => LedgerInv' /\ RowsAreValid'
  <2> SUFFICES ASSUME LedgerInv, RowsAreValid, [Next]_vars
               PROVE  LedgerInv' /\ RowsAreValid'
    OBVIOUS
  <2>1. CASE UNCHANGED vars
    BY <2>1
       DEF vars, LedgerInv, LedgerTypes, RequestTypes, RowsHaveInstruments, RowsAreValid
  <2>2. CASE CreateInstrument \/ \E i \in instruments : RemoveInstrument(i)
    <3>1. RowsAreValid'
      BY <2>2, WriteBounds DEF RowsAreValid, CreateInstrument, RemoveInstrument
    <3>. QED  BY <2>2, <3>1, InstrumentInv
  <2>. QED  BY <2>1, <2>2, StepTypes, StepKeepsValid DEF Next
<1>. QED  BY <1>1, <1>2, PTL DEF Spec

\* Every stored row comes from a body that validate accepted (create and replace
\* both call it before anything else), under an id that was handed out, and every
\* request in flight names a row id and an instrument that exist or did.
THEOREM LedgerTypeCorrect == Spec => []TypeOK
<1>1. LedgerInv /\ RowsAreValid => TypeOK  BY TypeParts DEF LedgerInv
<1>. QED  BY <1>1, LedgerInvAlways, PTL

\* No transaction outlives its instrument, however many creates, moves and
\* instrument removals overlap (the foreign key at Insert and Update, and the
\* transaction around the emptiness test of the removal).
THEOREM RowsKeepInstruments == Spec => []RowsHaveInstruments
<1>1. LedgerInv => RowsHaveInstruments  BY DEF LedgerInv
<1>. QED  BY <1>1, LedgerInvAlways, PTL

-----------------------------------------------------------------------------
(* The fold.                                                                   *)

LEMMA SmallestBad ==
  ASSUME NEW L, IsFiniteSet(L), NEW Bad \in SUBSET (SUBSET L), Bad # {}
  PROVE  \E S \in Bad : \A T \in SUBSET S : T # S => T \notin Bad
<1>1. \A S \in SUBSET L : IsFiniteSet(S)
  BY FS_Subset
<1>2. IsWellFoundedOn(StrictSubsetOrdering(L), FiniteSubsetsOf(L))
  BY FS_StrictSubsetOrderingWellFounded
<1>3. Bad \subseteq FiniteSubsetsOf(L)
  BY <1>1 DEF FiniteSubsetsOf
<1>4. PICK S \in Bad : \A T \in Bad : ~(<<T, S>> \in StrictSubsetOrdering(L))
  BY <1>2, <1>3, WFMin
<1>5. ASSUME NEW T \in SUBSET S, T # S, T \in Bad
      PROVE  FALSE
  <2>1. <<T, S>> \in StrictSubsetOrdering(L)
    BY <1>5 DEF StrictSubsetOrdering
  <2>. QED  BY <1>4, <1>5, <2>1
<1>. QED  BY <1>5

IsEntry(t) == t.id \in Int /\ HasColumns(t)

IsLedger(L) == /\ IsFiniteSet(L)
               /\ \A t \in L : IsEntry(t)
               /\ \A t, u \in L : t.id = u.id => t = u

LEMMA Ordered ==
  ASSUME NEW L, IsLedger(L)
  PROVE  /\ \A t \in L : ~Before(t, t)
         /\ \A t, u \in L : t # u => Before(t, u) \/ Before(u, t)
         /\ \A t, u, v \in L : Before(t, u) /\ Before(u, v) => Before(t, v)
  BY DEF IsLedger, IsEntry, HasColumns, Before

LEMMA SubLedger ==
  ASSUME NEW L, IsLedger(L), NEW S \in SUBSET L
  PROVE  IsLedger(S)
  BY FS_Subset DEF IsLedger

LEMMA LastIsLast ==
  ASSUME NEW L, IsLedger(L), L # {}
  PROVE  LastOf(L) \in L /\ \A u \in L \ {LastOf(L)} : Before(u, LastOf(L))
<1> DEFINE HasLast(S) == \E t \in S : \A u \in S \ {t} : Before(u, t)
           Bad == {S \in SUBSET L : S # {} /\ ~HasLast(S)}
<1>1. Bad = {}
  <2> SUFFICES ASSUME Bad # {}  PROVE FALSE
    OBVIOUS
  <2>1. Bad \in SUBSET (SUBSET L) /\ IsFiniteSet(L)
    BY DEF IsLedger
  <2>2. PICK S \in Bad : \A T \in SUBSET S : T # S => T \notin Bad
    <3>. HIDE DEF Bad
    <3>. QED  BY <2>1, SmallestBad
  <2>3. PICK x : x \in S
    BY <2>2
  <2>4. S \ {x} # {}
    BY <2>2, <2>3
  <2>5. HasLast(S \ {x})
    <3>1. S \ {x} \in SUBSET L /\ S \ {x} \notin Bad
      BY <2>2, <2>3
    <3>. HIDE DEF HasLast
    <3>. QED  BY <2>4, <3>1
  <2>6. PICK t \in S \ {x} : \A u \in (S \ {x}) \ {t} : Before(u, t)
    BY <2>5
  <2>7. S \subseteq L
    BY <2>2
  <2>8. CASE Before(x, t)
    <3>1. \A u \in S \ {t} : Before(u, t)
      BY <2>6, <2>8
    <3>. QED  BY <2>2, <2>6, <3>1
  <2>9. CASE Before(t, x)
    <3>1. \A u \in S \ {x} : Before(u, x)
      BY <2>3, <2>6, <2>7, <2>9, Ordered
    <3>. QED  BY <2>2, <2>3, <3>1
  <2>. QED  BY <2>3, <2>6, <2>7, <2>8, <2>9, Ordered
<1>2. HasLast(L)
  BY <1>1
<1>. QED  BY <1>2 DEF LastOf

LEMMA OnlyLast ==
  ASSUME NEW L, IsLedger(L), NEW t \in L, \A u \in L \ {t} : Before(u, t)
  PROVE  LastOf(L) = t
  BY LastIsLast, Ordered

-----------------------------------------------------------------------------
(* The fold: its function exists, and so derivation goes entry by entry.       *)

FoldStep(h, S) == IF S = {} THEN 0 ELSE Apply(h[S \ {LastOf(S)}], LastOf(S))

Folds(L, h) == h = [S \in SUBSET L |-> FoldStep(h, S)]

LEMMA FoldExists ==
  ASSUME NEW L, IsLedger(L)
  PROVE  \E h : Folds(L, h)
<1> DEFINE Bad == {S \in SUBSET L : ~\E h : Folds(S, h)}
<1>1. Bad = {}
  <2> SUFFICES ASSUME Bad # {}  PROVE FALSE
    OBVIOUS
  <2>1. Bad \in SUBSET (SUBSET L) /\ IsFiniteSet(L)
    BY DEF IsLedger
  <2>2. PICK S \in Bad : \A T \in SUBSET S : T # S => T \notin Bad
    <3>. HIDE DEF Bad
    <3>. QED  BY <2>1, SmallestBad
  <2>3. S \in SUBSET L /\ IsLedger(S)
    BY <2>2, SubLedger
  <2>4. CASE S = {}
    <3> DEFINE h == [T \in SUBSET {} |-> 0]
    <3>1. h = [T \in SUBSET {} |-> FoldStep(h, T)]
      BY DEF FoldStep
    <3>. QED  BY <2>2, <2>4, <3>1 DEF Folds
  <2>5. CASE S # {}
    <3> DEFINE x == LastOf(S)
               R == S \ {x}
    <3>1. x \in S /\ \A u \in R : Before(u, x)
      BY <2>3, <2>5, LastIsLast
    <3>2. PICK h : Folds(R, h)
      BY <2>2, <3>1
    <3> DEFINE g == [T \in SUBSET S |-> FoldStep(h, T)]
    <3>3. \A T \in SUBSET R : g[T] = h[T]
      BY <3>2 DEF Folds
    <3>4. ASSUME NEW T \in SUBSET S, T # {}
          PROVE  T \ {LastOf(T)} \in SUBSET R
      <4>1. CASE x \in T
        <5>1. LastOf(T) = x
          BY <2>3, <3>1, <4>1, SubLedger, OnlyLast
        <5>. QED  BY <5>1
      <4>2. CASE x \notin T
        BY <4>2
      <4>. QED  BY <4>1, <4>2
    <3>5. \A T \in SUBSET S : FoldStep(g, T) = FoldStep(h, T)
      <4>. HIDE DEF g, R
      <4>. QED  BY <3>3, <3>4 DEF FoldStep
    <3>6. g = [T \in SUBSET S |-> FoldStep(g, T)]
      BY <3>5
    <3>. QED  BY <2>2, <3>6 DEF Folds
  <2>. QED  BY <2>4, <2>5
<1>. QED  BY <1>1

LEMMA DeriveIsFold ==
  ASSUME NEW L, IsLedger(L)
  PROVE  \E h : Folds(L, h) /\ DerivePosition(L) = h[L]
<1> DEFINE F == CHOOSE h : h = [S \in SUBSET L |->
                  IF S = {} THEN 0 ELSE Apply(h[S \ {LastOf(S)}], LastOf(S))]
<1>1. DerivePosition(L) = F[L]
  BY DEF DerivePosition
<1>2. \E h : h = [S \in SUBSET L |->
                  IF S = {} THEN 0 ELSE Apply(h[S \ {LastOf(S)}], LastOf(S))]
  BY FoldExists DEF Folds, FoldStep
<1>3. F = [S \in SUBSET L |->
                  IF S = {} THEN 0 ELSE Apply(F[S \ {LastOf(S)}], LastOf(S))]
  BY <1>2
<1>4. Folds(L, F)
  BY <1>3 DEF Folds, FoldStep
<1>. QED  BY <1>1, <1>4

LEMMA SameFold ==
  ASSUME NEW L, NEW M, NEW h, NEW g, Folds(L, h), Folds(M, g), IsLedger(L),
         NEW S \in SUBSET (L \cap M)
  PROVE  h[S] = g[S]
<1> DEFINE Bad == {T \in SUBSET (L \cap M) : h[T] # g[T]}
<1>1. Bad = {}
  <2> SUFFICES ASSUME Bad # {}  PROVE FALSE
    OBVIOUS
  <2>1. Bad \in SUBSET (SUBSET L) /\ IsFiniteSet(L)
    BY DEF IsLedger
  <2>2. PICK T \in Bad : \A U \in SUBSET T : U # T => U \notin Bad
    <3>. HIDE DEF Bad
    <3>. QED  BY <2>1, SmallestBad
  <2>3. T \in SUBSET L /\ T \in SUBSET M /\ h[T] # g[T]
    BY <2>2
  <2>4. h[T] = FoldStep(h, T) /\ g[T] = FoldStep(g, T)
    BY <2>3 DEF Folds
  <2>5. T # {}
    BY <2>3, <2>4 DEF FoldStep
  <2>6. IsLedger(T) /\ LastOf(T) \in T
    BY <2>3, <2>5, SubLedger, LastIsLast
  <2>7. h[T \ {LastOf(T)}] = g[T \ {LastOf(T)}]
    BY <2>2, <2>3, <2>6
  <2>. QED  BY <2>3, <2>4, <2>7 DEF FoldStep
<1>. QED  BY <1>1

LEMMA DeriveStep ==
  ASSUME NEW L, IsLedger(L)
  PROVE  DerivePosition(L) =
           IF L = {} THEN 0 ELSE Apply(DerivePosition(L \ {LastOf(L)}), LastOf(L))
<1>1. PICK h : Folds(L, h) /\ DerivePosition(L) = h[L]
  BY DeriveIsFold
<1>2. h[L] = FoldStep(h, L)
  BY <1>1 DEF Folds
<1>3. CASE L # {}
  <2> DEFINE R == L \ {LastOf(L)}
  <2>1. IsLedger(R) /\ R \in SUBSET (L \cap R)
    BY SubLedger
  <2>2. PICK g : Folds(R, g) /\ DerivePosition(R) = g[R]
    BY <2>1, DeriveIsFold
  <2>3. h[R] = g[R]
    BY <1>1, <2>1, <2>2, SameFold
  <2>. QED  BY <1>1, <1>2, <1>3, <2>2, <2>3 DEF FoldStep
<1>. QED  BY <1>1, <1>2, <1>3 DEF FoldStep

\* Derivation sees the order of the entries, their kinds and quantities, and no ids.
LEMMA SameOrder ==
  ASSUME NEW L, NEW M, IsLedger(L), IsLedger(M), NEW f \in [L -> M],
         \A t \in L : f[t].kind = t.kind /\ f[t].quantity = t.quantity,
         \A t, u \in L : Before(t, u) => Before(f[t], f[u])
  PROVE  DerivePosition({f[t] : t \in L}) = DerivePosition(L)
<1> DEFINE Image(S) == {f[t] : t \in S}
           Bad == {S \in SUBSET L : DerivePosition(Image(S)) # DerivePosition(S)}
<1>1. Bad = {}
  <2> SUFFICES ASSUME Bad # {}  PROVE FALSE
    OBVIOUS
  <2>1. Bad \in SUBSET (SUBSET L) /\ IsFiniteSet(L)
    BY DEF IsLedger
  <2>2. PICK S \in Bad : \A T \in SUBSET S : T # S => T \notin Bad
    <3>. HIDE DEF Bad
    <3>. QED  BY <2>1, SmallestBad
  <2>3. S \in SUBSET L /\ DerivePosition(Image(S)) # DerivePosition(S)
    BY <2>2
  <2>4. S # {}
    BY <2>3
  <2> DEFINE x == LastOf(S)
  <2>5. IsLedger(S) /\ x \in S /\ \A u \in S \ {x} : Before(u, x)
    BY <2>3, <2>4, SubLedger, LastIsLast
  <2>6. IsLedger(Image(S)) /\ f[x] \in Image(S)
    BY <2>3, <2>5, SubLedger
  <2>7. \A u \in S \ {x} : Before(f[u], f[x]) /\ f[u] # f[x]
    BY <2>3, <2>5, Ordered
  <2>8. LastOf(Image(S)) = f[x]
    <3>1. \A y \in Image(S) \ {f[x]} : Before(y, f[x])
      BY <2>7
    <3>. HIDE DEF Image, x
    <3>. QED  BY <2>6, <3>1, OnlyLast
  <2>9. Image(S) \ {f[x]} = Image(S \ {x})
    BY <2>5, <2>7
  <2>10. DerivePosition(Image(S \ {x})) = DerivePosition(S \ {x})
    <3>1. S \ {x} \in SUBSET L /\ S \ {x} \notin Bad
      BY <2>2, <2>3, <2>5
    <3>. HIDE DEF Image, x
    <3>. QED  BY <3>1
  <2>11. DerivePosition(Image(S)) = Apply(DerivePosition(Image(S \ {x})), f[x])
    <3>1. Image(S) # {}
      BY <2>6
    <3>. HIDE DEF Image, x
    <3>. QED  BY <2>6, <2>8, <2>9, <3>1, DeriveStep
  <2>12. DerivePosition(S) = Apply(DerivePosition(S \ {x}), x)
    BY <2>4, <2>5, DeriveStep
  <2>13. f[x].kind = x.kind /\ f[x].quantity = x.quantity /\ x.kind \in Kind
    BY <2>3, <2>5 DEF IsLedger, IsEntry, HasColumns
  <2>14. \A held : Apply(held, f[x]) = Apply(held, x)
    <3>. HIDE DEF x
    <3>. QED  BY <2>13 DEF Apply, Kind
  <2>. HIDE DEF Image, x
  <2>. QED  BY <2>3, <2>10, <2>11, <2>12, <2>14
<1>. QED  BY <1>1

-----------------------------------------------------------------------------
(* The ledgers of the table.                                                   *)

LEMMA RowEntry ==
  ASSUME NEW row, HasColumns(row), NEW id \in Int
  PROVE  /\ IsEntry(Entry(id, row)) /\ Entry(id, row).id = id
         /\ Entry(id, row).date = row.date /\ Entry(id, row).kind = row.kind
         /\ Entry(id, row).quantity = row.quantity
  BY DEF IsEntry, Entry, HasColumns

LEMMA EntryIgnoresBatch ==
  ASSUME NEW b, NEW id, NEW batch
  PROVE  Entry(id, RowOf(b, batch)) = Entry(id, RowOf(b, NoBatch))
  BY DEF Entry, RowOf

LEMMA TableLedgers ==
  ASSUME LedgerTypes, NEW i
  PROVE  /\ IsLedger(LedgerFor(rows, i))
         /\ \A t \in LedgerFor(rows, i) : t.id \in DOMAIN rows /\ t = Entry(t.id, rows[t.id])
<1> DEFINE D == {n \in DOMAIN rows : rows[n].instrument = i}
           f == [n \in D |-> Entry(n, rows[n])]
           L == LedgerFor(rows, i)
<1>1. lastId \in Nat /\ DOMAIN rows \subseteq 1..lastId
  BY WriteBounds DEF LedgerTypes
<1>2. IsFiniteSet(D)
  <2>1. IsFiniteSet(1..lastId)
    BY <1>1, FS_Interval
  <2>. QED  BY <1>1, <2>1, FS_Subset
<1>3. L = {Entry(n, rows[n]) : n \in D}
  BY DEF LedgerFor
<1>4. IsFiniteSet(L)
  <2>1. f \in Surjection(D, L)
    BY <1>3 DEF Surjection
  <2>. HIDE DEF D, f, L
  <2>. QED  BY <1>2, <2>1, FS_Surjection
<1>5. \A n \in D : Entry(n, rows[n]).id = n /\ IsEntry(Entry(n, rows[n]))
  <2> SUFFICES ASSUME NEW n \in D
               PROVE  Entry(n, rows[n]).id = n /\ IsEntry(Entry(n, rows[n]))
    OBVIOUS
  <2>1. n \in Int
    BY <1>1
  <2>. QED  BY <2>1, RowEntry DEF LedgerTypes
<1>6. \A t \in L : t.id \in D /\ t = Entry(t.id, rows[t.id]) /\ IsEntry(t)
  BY <1>3, <1>5
<1>7. \A t, u \in L : t.id = u.id => t = u
  BY <1>6
<1>. HIDE DEF L
<1>8. IsLedger(L) /\ \A t \in L : t.id \in DOMAIN rows /\ t = Entry(t.id, rows[t.id])
  BY <1>4, <1>6, <1>7 DEF IsLedger
<1>. QED  BY <1>8 DEF L

\* A row that was checked under an id above all others may be stored under the next.
LEMMA NextIdDerives ==
  ASSUME LedgerTypes, NEW i, NEW b \in ValidBody, lastId < MaxId,
         LedgerStaysValid(rows, i, {}, {Entry(ProspectiveId, RowOf(b, NoBatch))})
  PROVE  Derivable(LedgerFor(rows, i) \cup {Entry(lastId + 1, RowOf(b, NoBatch))})
<1> DEFINE L == LedgerFor(rows, i)
           e == Entry(ProspectiveId, RowOf(b, NoBatch))
           d == Entry(lastId + 1, RowOf(b, NoBatch))
           f == [t \in L \cup {e} |-> IF t = e THEN d ELSE t]
<1>1. lastId \in Nat /\ DOMAIN rows \subseteq 1..lastId /\ lastId + 1 < ProspectiveId
      /\ ProspectiveId \in Nat
  BY WriteBounds, ProspectiveIdAssumption DEF LedgerTypes
<1>2. IsLedger(L) /\ \A t \in L : t.id \in 1..lastId /\ IsEntry(t)
  <2>. HIDE DEF L
  <2>1. IsLedger(L) /\ \A t \in L : t.id \in DOMAIN rows
    BY TableLedgers DEF L
  <2>. QED  BY <1>1, <2>1 DEF IsLedger
<1>3. /\ IsEntry(e) /\ e.id = ProspectiveId
      /\ IsEntry(d) /\ d.id = lastId + 1
      /\ d.kind = e.kind /\ d.quantity = e.quantity /\ d.date = e.date
  BY <1>1, BodyColumns, StoredColumns, RowEntry DEF ValidBody
<1>. HIDE DEF L, e, d
<1>4. IsLedger(L \cup {e}) /\ IsLedger(L \cup {d})
  BY <1>1, <1>2, <1>3, FS_AddElement DEF IsLedger
<1>5. e \notin L /\ d \notin L
  BY <1>1, <1>2, <1>3
<1>6. f \in [L \cup {e} -> L \cup {d}]
  OBVIOUS
<1>7. \A t \in L \cup {e} : f[t].kind = t.kind /\ f[t].quantity = t.quantity
  BY <1>3
<1>8. \A t, u \in L \cup {e} : Before(t, u) => Before(f[t], f[u])
  BY <1>1, <1>2, <1>3 DEF Before, IsEntry, HasColumns
<1>9. {f[t] : t \in L \cup {e}} = L \cup {d}
  BY <1>5
<1>10. DerivePosition(L \cup {d}) = DerivePosition(L \cup {e})
  <2>. HIDE DEF f
  <2>. QED  BY <1>4, <1>6, <1>7, <1>8, <1>9, SameOrder
<1>11. {t \in L : t.id \notin {}} = L
  OBVIOUS
<1>. QED  BY <1>10, <1>11 DEF LedgerStaysValid, Derivable, L, e, d
-----------------------------------------------------------------------------
(* What a request in flight has found: the ledgers it checked would derive     *)
(* with its edit, as long as nobody has written them.                          *)

NewEntry(s) == Entry(ProspectiveId, RowOf(req[s].body, NoBatch))
EditedEntry(s) == Entry(req[s].id, RowOf(req[s].body, NoBatch))

Found(s) ==
    /\ Serving(s, {"create"}, "write") =>
         LedgerStaysValid(rows, req[s].body.instrument, {}, {NewEntry(s)})
    /\ (Serving(s, {"replace"}, "checkOld") \/ Serving(s, {"replace"}, "write")) =>
         LedgerStaysValid(rows, req[s].body.instrument, {req[s].id}, {EditedEntry(s)})
    /\ (\/ Serving(s, {"replace"}, "write") /\ req[s].from # req[s].body.instrument
        \/ Serving(s, {"remove"}, "write")) =>
         LedgerStaysValid(rows, req[s].from, {req[s].id}, {})

FindingsHold == \A s \in Slot \ overtaken : Found(s)

DerivationInv == LedgerInv /\ FindingsHold /\ OnlyRacesBreakLedgers

LEMMA FindingsKept ==
  ASSUME NEW z \in Slot, Found(z), req'[z] = req[z],
         \A i \in Checked(z) : LedgerFor(rows', i) = LedgerFor(rows, i)
  PROVE  Found(z)'
<1>1. ASSUME NEW op, NEW at  PROVE Serving(z, op, at)' = Serving(z, op, at)
  BY DEF Serving
<1>2. \A i \in Checked(z) : \A gone, extra :
         LedgerStaysValid(rows', i, gone, extra) = LedgerStaysValid(rows, i, gone, extra)
  BY DEF LedgerStaysValid
<1>3. NewEntry(z)' = NewEntry(z) /\ EditedEntry(z)' = EditedEntry(z)
  BY DEF NewEntry, EditedEntry
<1>4. /\ Serving(z, {"create"}, "write") => req[z].body.instrument \in Checked(z)
      /\ Serving(z, {"replace"}, "checkOld") => req[z].body.instrument \in Checked(z)
      /\ Serving(z, {"replace"}, "write") =>
           req[z].body.instrument \in Checked(z) /\ req[z].from \in Checked(z)
      /\ Serving(z, {"remove"}, "write") => req[z].from \in Checked(z)
  BY DEF Checked, Serving
<1>. QED  BY <1>1, <1>2, <1>3, <1>4 DEF Found

LEMMA IdleFound ==
  ASSUME NEW z \in Slot, req'[z] = NoRequest
  PROVE  Found(z)'
  BY DEF Found, Serving

LEMMA AdvanceDerives ==
  ASSUME LedgerInv, FindingsHold, OnlyRacesBreakLedgers, NEW s \in Slot, NEW r, Advance(s, r),
         s \notin overtaken => Found(s)'
  PROVE  FindingsHold' /\ OnlyRacesBreakLedgers'
<1>1. rows' = rows /\ overtaken' = overtaken /\ raced' = raced
  BY DEF Advance, ledger
<1>2. \A z \in Slot \ {s} : req'[z] = req[z]
  BY DEF Advance, LedgerInv, RequestTypes
<1>3. \A z \in Slot \ overtaken : Found(z)'
  BY <1>1, <1>2, FindingsKept DEF FindingsHold
<1>. QED  BY <1>1, <1>3 DEF FindingsHold, OnlyRacesBreakLedgers

LEMMA FinishDerives ==
  ASSUME LedgerInv, FindingsHold, OnlyRacesBreakLedgers, NEW s \in Slot, Finish(s)
  PROVE  FindingsHold' /\ OnlyRacesBreakLedgers'
<1>1. rows' = rows /\ overtaken' = overtaken \ {s} /\ raced' = raced
  BY DEF Finish, ledger
<1>2. (\A z \in Slot \ {s} : req'[z] = req[z]) /\ req'[s] = NoRequest
  BY DEF Finish, LedgerInv, RequestTypes
<1>3. \A z \in Slot \ overtaken' : Found(z)'
  BY <1>1, <1>2, FindingsKept, IdleFound DEF FindingsHold
<1>. QED  BY <1>1, <1>3 DEF FindingsHold, OnlyRacesBreakLedgers

LEMMA WroteDerives ==
  ASSUME LedgerInv, FindingsHold, OnlyRacesBreakLedgers, NEW s \in Slot,
         NEW touched, NEW clean \in BOOLEAN, Wrote(s, touched, clean),
         \A i : i \notin touched => LedgerFor(rows', i) = LedgerFor(rows, i),
         clean => \A i \in touched : Derivable(LedgerFor(rows', i))
  PROVE  FindingsHold' /\ OnlyRacesBreakLedgers'
<1>1. /\ overtaken' = (overtaken \cup {z \in Slot : Checked(z) \cap touched # {}}) \ {s}
      /\ raced' = IF clean THEN raced ELSE raced \cup touched
      /\ (\A z \in Slot \ {s} : req'[z] = req[z]) /\ req'[s] = NoRequest
  BY DEF Wrote, LedgerInv, RequestTypes
<1>2. \A z \in Slot \ overtaken' : Found(z)'
  BY <1>1, FindingsKept, IdleFound DEF FindingsHold
<1>3. OnlyRacesBreakLedgers'
  BY <1>1 DEF OnlyRacesBreakLedgers
<1>. QED  BY <1>2, <1>3 DEF FindingsHold

-----------------------------------------------------------------------------
(* The checks, and the writes they are for.                                    *)

LEMMA CheckDerives ==
  ASSUME DerivationInv, NEW s \in Slot, CheckCreate(s) \/ CheckReplace(s) \/ CheckOld(s)
  PROVE  FindingsHold' /\ OnlyRacesBreakLedgers'
<1>. USE DEF DerivationInv
<1>1. rows' = rows /\ req[s] # NoRequest
  BY DEF CheckCreate, CheckReplace, CheckOld, Advance, Finish, ledger, Serving
<1>2. req \in [Slot -> Request \cup {NoRequest}] /\ req[s] \in Request
  BY <1>1 DEF LedgerInv, RequestTypes
<1>3. CASE CheckCreate(s)
  <2> DEFINE r == [req[s] EXCEPT !.at = "write"]
  <2>1. CASE LedgerStaysValid(rows, req[s].body.instrument, {}, {NewEntry(s)})
    <3>1. Advance(s, r)
      BY <1>3, <2>1 DEF CheckCreate, NewEntry
    <3>2. /\ r.op = "create" /\ r.body = req[s].body
      BY <1>2, <1>3 DEF CheckCreate, Serving, Request
    <3>3. req'[s] = r
      BY <1>2, <3>1 DEF Advance
    <3>. HIDE DEF r
    <3>4. Found(s)'
      BY <1>1, <2>1, <3>2, <3>3 DEF Found, Serving, NewEntry
    <3>. QED  BY <3>1, <3>4, AdvanceDerives
  <2>2. CASE ~LedgerStaysValid(rows, req[s].body.instrument, {}, {NewEntry(s)})
    BY <1>3, <2>2, FinishDerives DEF CheckCreate, NewEntry
  <2>. QED  BY <2>1, <2>2
<1>4. CASE CheckReplace(s)
  <2> DEFINE same == req[s].from = req[s].body.instrument
             r == [req[s] EXCEPT !.at = IF same THEN "write" ELSE "checkOld"]
             ok == LedgerStaysValid(rows, req[s].body.instrument, {req[s].id}, {EditedEntry(s)})
  <2>1. CASE ok
    <3>1. Advance(s, r)
      BY <1>4, <2>1 DEF CheckReplace, EditedEntry
    <3>2. /\ r.op = "replace" /\ r.body = req[s].body /\ r.id = req[s].id
          /\ r.from = req[s].from /\ r.at = IF same THEN "write" ELSE "checkOld"
      BY <1>2, <1>4 DEF CheckReplace, Serving, Request
    <3>3. req'[s] = r
      BY <1>2, <3>1 DEF Advance
    <3>. HIDE DEF r
    <3>4. Found(s)'
      BY <1>1, <2>1, <3>2, <3>3 DEF Found, Serving, EditedEntry
    <3>. QED  BY <3>1, <3>4, AdvanceDerives
  <2>2. CASE ~ok
    BY <1>4, <2>2, FinishDerives DEF CheckReplace, EditedEntry
  <2>. QED  BY <2>1, <2>2
<1>5. CASE CheckOld(s)
  <2> DEFINE r == [req[s] EXCEPT !.at = "write"]
             ok == LedgerStaysValid(rows, req[s].from, {req[s].id}, {})
  <2>1. CASE ok
    <3>1. Advance(s, r)
      BY <1>5, <2>1 DEF CheckOld
    <3>2. /\ r.op = req[s].op /\ r.op \in {"replace", "remove"} /\ r.at = "write"
          /\ r.id = req[s].id /\ r.from = req[s].from
          /\ r.op = "replace" => r.body = req[s].body
      BY <1>2, <1>5 DEF CheckOld, Serving, Request
    <3>3. req'[s] = r
      BY <1>2, <3>1 DEF Advance
    <3>. HIDE DEF r
    <3>4. s \notin overtaken => Found(s)'
      <4>1. req[s].op = "replace" => Serving(s, {"replace"}, "checkOld")
        BY <1>5 DEF CheckOld, Serving
      <4>. QED  BY <1>1, <2>1, <3>2, <3>3, <4>1 DEF Found, FindingsHold, Serving, EditedEntry
    <3>. QED  BY <3>1, <3>4, AdvanceDerives
  <2>2. CASE ~ok
    BY <1>5, <2>2, FinishDerives DEF CheckOld
  <2>. QED  BY <2>1, <2>2
<1>. QED  BY <1>3, <1>4, <1>5

LEMMA InsertDerives ==
  ASSUME DerivationInv, NEW s \in Slot, Insert(s)
  PROVE  FindingsHold' /\ OnlyRacesBreakLedgers'
<1>. USE DEF DerivationInv
<1> DEFINE b == req[s].body
           id == lastId + 1
<1>1. b \in ValidBody /\ LedgerTypes /\ lastId < MaxId /\ Serving(s, {"create"}, "write")
  BY CreateRequest DEF LedgerInv, Insert
<1>2. CASE b.instrument \in instruments
  <2>1. /\ rows' = [n \in DOMAIN rows \cup {id} |-> IF n = id THEN RowOf(b, NoBatch) ELSE rows[n]]
        /\ Wrote(s, {b.instrument}, s \notin overtaken)
    BY <1>2 DEF Insert
  <2>2. id \notin DOMAIN rows /\ RowOf(b, NoBatch).instrument = b.instrument
    BY <1>1, WriteBounds DEF LedgerTypes, RowOf
  <2>. HIDE DEF b, id
  <2>3. \A i : LedgerFor(rows', i) = LedgerFor(rows, i) \cup
                 (IF i = b.instrument THEN {Entry(id, RowOf(b, NoBatch))} ELSE {})
    BY <2>1, <2>2 DEF LedgerFor
  <2>4. s \notin overtaken => Derivable(LedgerFor(rows', b.instrument))
    <3>1. s \notin overtaken =>
            LedgerStaysValid(rows, b.instrument, {}, {Entry(ProspectiveId, RowOf(b, NoBatch))})
      BY <1>1 DEF FindingsHold, Found, NewEntry, b
    <3>. QED  BY <1>1, <2>3, <3>1, NextIdDerives DEF id
  <2>. QED  BY <2>1, <2>3, <2>4, WroteDerives
<1>3. CASE b.instrument \notin instruments
  BY <1>3, FinishDerives DEF Insert
<1>. QED  BY <1>2, <1>3

LEMMA UpdateDerives ==
  ASSUME DerivationInv, NEW s \in Slot, Update(s)
  PROVE  FindingsHold' /\ OnlyRacesBreakLedgers'
<1>. USE DEF DerivationInv
<1> DEFINE id == req[s].id
           b == req[s].body
           from == req[s].from
           old == rows[id].instrument
<1>1. Serving(s, {"replace"}, "write") /\ b \in ValidBody /\ id \in 1..MaxId /\ LedgerTypes
  BY ReplaceRequest DEF LedgerInv, Update
<1>2. CASE id \in DOMAIN rows /\ b.instrument \in instruments
  <2>1. /\ rows' = [rows EXCEPT ![id] = RowOf(b, rows[id].batch)]
        /\ Wrote(s, {old, b.instrument}, CleanEdit(s))
    BY <1>2 DEF Update
  <2>2. CleanEdit(s) <=> s \notin overtaken /\ old = from
    BY DEF CleanEdit
  <2>3. RowOf(b, rows[id].batch).instrument = b.instrument
        /\ Entry(id, RowOf(b, rows[id].batch)) = Entry(id, RowOf(b, NoBatch))
    BY DEF RowOf, Entry, StoredQuantity
  <2>4. \A n : Entry(n, rows[n]).id = n
    BY DEF Entry
  <2>5. s \notin overtaken =>
          /\ LedgerStaysValid(rows, b.instrument, {id}, {Entry(id, RowOf(b, NoBatch))})
          /\ from # b.instrument => LedgerStaysValid(rows, from, {id}, {})
    BY <1>1 DEF FindingsHold, Found, EditedEntry
  <2>. HIDE DEF b, id, from, old
  <2>6. \A i : LedgerFor(rows', i) =
               {t \in LedgerFor(rows, i) : t.id # id} \cup
               (IF i = b.instrument THEN {Entry(id, RowOf(b, NoBatch))} ELSE {})
    BY <1>2, <2>1, <2>3, <2>4 DEF LedgerFor
  <2>7. \A i : i \notin {old, b.instrument} => LedgerFor(rows', i) = LedgerFor(rows, i)
    <3>1. \A i : i # old => \A t \in LedgerFor(rows, i) : t.id # id
      BY <2>4 DEF LedgerFor, old
    <3>. QED  BY <2>6, <3>1
  <2>8. CleanEdit(s) => \A i \in {old, b.instrument} : Derivable(LedgerFor(rows', i))
    BY <2>2, <2>5, <2>6 DEF LedgerStaysValid
  <2>. QED  BY <2>1, <2>7, <2>8, WroteDerives DEF CleanEdit
<1>3. CASE ~(id \in DOMAIN rows /\ b.instrument \in instruments)
  BY <1>3, FinishDerives DEF Update
<1>. QED  BY <1>2, <1>3

LEMMA EraseDerives ==
  ASSUME DerivationInv, NEW s \in Slot, Erase(s)
  PROVE  FindingsHold' /\ OnlyRacesBreakLedgers'
<1>. USE DEF DerivationInv
<1> DEFINE id == req[s].id
           from == req[s].from
           old == rows[id].instrument
<1>1. Serving(s, {"remove"}, "write") /\ LedgerTypes
  BY DEF LedgerInv, Erase
<1>2. CASE id \in DOMAIN rows
  <2>1. /\ rows' = [n \in DOMAIN rows \ {id} |-> rows[n]]
        /\ Wrote(s, {old}, CleanEdit(s))
    BY <1>2 DEF Erase
  <2>2. CleanEdit(s) <=> s \notin overtaken /\ old = from
    BY DEF CleanEdit
  <2>3. s \notin overtaken => LedgerStaysValid(rows, from, {id}, {})
    BY <1>1 DEF FindingsHold, Found
  <2>4. \A n : Entry(n, rows[n]).id = n
    BY DEF Entry
  <2>. HIDE DEF id, from, old
  <2>5. \A i : LedgerFor(rows', i) = {t \in LedgerFor(rows, i) : t.id # id}
    BY <2>1, <2>4 DEF LedgerFor
  <2>6. \A i : i \notin {old} => LedgerFor(rows', i) = LedgerFor(rows, i)
    <3>1. \A i : i # old => \A t \in LedgerFor(rows, i) : t.id # id
      BY <2>4 DEF LedgerFor, old
    <3>. QED  BY <2>5, <3>1
  <2>7. CleanEdit(s) => Derivable(LedgerFor(rows', old))
    BY <2>2, <2>3, <2>5 DEF LedgerStaysValid
  <2>. QED  BY <2>1, <2>6, <2>7, WroteDerives DEF CleanEdit
<1>3. CASE id \notin DOMAIN rows
  BY <1>3, FinishDerives DEF Erase
<1>. QED  BY <1>2, <1>3

LEMMA StepDerives ==
  ASSUME DerivationInv, NEW s \in Slot, Step(s)
  PROVE  FindingsHold' /\ OnlyRacesBreakLedgers'
<1>. USE DEF DerivationInv
<1>1. ASSUME NEW r, Advance(s, r), s \notin overtaken,
             r.at \in {"find", "check"} \/ (r.op = "remove" /\ r.at = "checkOld")
      PROVE  Found(s)'
  BY <1>1 DEF Advance, Found, Serving, LedgerInv, RequestTypes
<1>2. CASE \E body \in Body : Post(s, body)
  BY <1>1, <1>2, AdvanceDerives DEF Post
<1>3. CASE \E id \in 1..lastId : Delete(s, id) \/ \E body \in Body : Put(s, id, body)
  BY <1>1, <1>3, AdvanceDerives DEF Delete, Put
<1>4. CASE FindForReplace(s)
  BY <1>1, <1>4, AdvanceDerives, FinishDerives DEF FindForReplace
<1>5. CASE FindForRemove(s)
  BY <1>1, <1>5, AdvanceDerives, FinishDerives DEF FindForRemove
<1>6. CASE Abandon(s)
  BY <1>6, FinishDerives DEF Abandon
<1>. QED  BY <1>2, <1>3, <1>4, <1>5, <1>6, CheckDerives, InsertDerives, UpdateDerives,
             EraseDerives DEF Step

LEMMA StillDerives ==
  ASSUME DerivationInv, UNCHANGED <<rows, req, overtaken, raced>>
  PROVE  FindingsHold' /\ OnlyRacesBreakLedgers'
<1>1. \A z \in Slot \ overtaken : Found(z)'
  BY FindingsKept DEF DerivationInv, FindingsHold
<1>. QED  BY <1>1 DEF DerivationInv, FindingsHold, OnlyRacesBreakLedgers

LEMMA EmptyDerives ==
  ASSUME \A i : LedgerFor(rows, i) = {}, req = [s \in Slot |-> NoRequest]
  PROVE  FindingsHold /\ OnlyRacesBreakLedgers
<1>1. Derivable({})
  <2>1. IsLedger({})
    BY FS_EmptySet DEF IsLedger
  <2>. QED  BY <2>1, DeriveStep DEF Derivable, Broken
<1>2. FindingsHold
  BY DEF FindingsHold, Found, Serving
<1>. QED  BY <1>1, <1>2 DEF OnlyRacesBreakLedgers

LEMMA DerivationInvAlways == Spec => []DerivationInv
<1>1. Init => DerivationInv
  <2> SUFFICES ASSUME Init  PROVE DerivationInv
    OBVIOUS
  <2>1. LedgerInv
    BY WriteBounds DEF Init, LedgerInv, LedgerTypes, RequestTypes, RowsHaveInstruments
  <2>2. \A i : LedgerFor(rows, i) = {}
    BY DEF Init, LedgerFor
  <2>. QED  BY <2>1, <2>2, EmptyDerives DEF Init, DerivationInv
<1>2. DerivationInv /\ [Next]_vars => FindingsHold' /\ OnlyRacesBreakLedgers'
  BY StepDerives, StillDerives DEF Next, vars, CreateInstrument, RemoveInstrument
<1>. QED  BY <1>1, <1>2, LedgerInvAlways, PTL DEF Spec, DerivationInv

-----------------------------------------------------------------------------
(* What derives was never oversold.                                            *)

SumStep(h, S) == IF S = {} THEN 0
                 ELSE LET m == CHOOSE n \in S : TRUE IN rows[m].quantity + h[S \ {m}]

Sums(U, h) == h = [S \in SUBSET U |-> SumStep(h, S)]

LEMMA SameSum ==
  ASSUME NEW U, NEW V, NEW h, NEW g, Sums(U, h), Sums(V, g), IsFiniteSet(U),
         NEW S \in SUBSET (U \cap V)
  PROVE  h[S] = g[S]
<1> DEFINE Bad == {T \in SUBSET (U \cap V) : h[T] # g[T]}
<1>1. Bad = {}
  <2> SUFFICES ASSUME Bad # {}  PROVE FALSE
    OBVIOUS
  <2>1. Bad \in SUBSET (SUBSET U)
    OBVIOUS
  <2>2. PICK T \in Bad : \A R \in SUBSET T : R # T => R \notin Bad
    <3>. HIDE DEF Bad
    <3>. QED  BY <2>1, SmallestBad
  <2>3. T \in SUBSET U /\ T \in SUBSET V /\ h[T] # g[T]
    BY <2>2
  <2>4. h[T] = SumStep(h, T) /\ g[T] = SumStep(g, T)
    BY <2>3 DEF Sums
  <2>5. T # {}
    BY <2>3, <2>4 DEF SumStep
  <2>6. PICK m : m = CHOOSE n \in T : TRUE
    OBVIOUS
  <2>7. m \in T
    BY <2>5, <2>6
  <2>8. h[T \ {m}] = g[T \ {m}]
    BY <2>2, <2>3, <2>7
  <2>. QED  BY <2>3, <2>4, <2>6, <2>8 DEF SumStep
<1>. QED  BY <1>1

LEMMA SumExists ==
  ASSUME NEW U, IsFiniteSet(U)
  PROVE  \E h : Sums(U, h)
<1> DEFINE Bad == {S \in SUBSET U : ~\E h : Sums(S, h)}
<1>1. Bad = {}
  <2> SUFFICES ASSUME Bad # {}  PROVE FALSE
    OBVIOUS
  <2>1. Bad \in SUBSET (SUBSET U)
    OBVIOUS
  <2>2. PICK S \in Bad : \A T \in SUBSET S : T # S => T \notin Bad
    <3>. HIDE DEF Bad
    <3>. QED  BY <2>1, SmallestBad
  <2>3. S \in SUBSET U
    BY <2>2
  <2> DEFINE own(T) == CHOOSE h : Sums(T, h)
             f == [T \in SUBSET S |-> own(T)[T]]
             g == [T \in SUBSET S |-> SumStep(f, T)]
  <2>4. \A T \in SUBSET S : T # S => Sums(T, own(T)) /\ IsFiniteSet(T)
    <3>1. \A T \in SUBSET S : T # S => T \in SUBSET U /\ T \notin Bad
      BY <2>2, <2>3
    <3>2. \A T \in SUBSET S : T # S => \E h : Sums(T, h)
      BY <3>1
    <3>. QED  BY <3>1, <3>2, FS_Subset
  <2>5. ASSUME NEW T \in SUBSET S, T # S
        PROVE  f[T] = SumStep(f, T)
    <3>1. Sums(T, own(T)) /\ IsFiniteSet(T) /\ f[T] = own(T)[T]
      BY <2>4, <2>5
    <3>. HIDE DEF f, own
    <3>2. own(T)[T] = SumStep(own(T), T)
      BY <3>1 DEF Sums
    <3>3. CASE T # {}
      <4>1. PICK m : m = CHOOSE n \in T : TRUE
        OBVIOUS
      <4> DEFINE R == T \ {m}
      <4>2. m \in T /\ R \in SUBSET S /\ R # S
        BY <2>5, <3>3, <4>1
      <4>3. Sums(R, own(R)) /\ f[R] = own(R)[R]
        BY <2>4, <4>2 DEF f
      <4>4. own(T)[R] = own(R)[R]
        BY <3>1, <4>3, SameSum
      <4>. QED  BY <3>1, <3>2, <3>3, <4>1, <4>3, <4>4 DEF SumStep
    <3>. QED  BY <3>1, <3>2, <3>3 DEF SumStep
  <2>6. \A T \in SUBSET S : SumStep(g, T) = SumStep(f, T)
    <3> SUFFICES ASSUME NEW T \in SUBSET S, T # {}  PROVE SumStep(g, T) = SumStep(f, T)
      BY DEF SumStep
    <3>1. PICK m : m = CHOOSE n \in T : TRUE
      OBVIOUS
    <3>2. m \in T /\ T \ {m} \in SUBSET S /\ T \ {m} # S
      BY <3>1
    <3>3. g[T \ {m}] = f[T \ {m}]
      <4>. HIDE DEF f
      <4>. QED  BY <2>5, <3>2
    <3>. HIDE DEF f, g
    <3>. QED  BY <3>1, <3>3 DEF SumStep
  <2>7. g = [T \in SUBSET S |-> SumStep(g, T)]
    <3>. HIDE DEF f
    <3>. QED  BY <2>6
  <2>. HIDE DEF g
  <2>. QED  BY <2>2, <2>7 DEF Sums
<1>. QED  BY <1>1

LEMMA SharesIsSum ==
  ASSUME NEW U, IsFiniteSet(U)
  PROVE  \E h : Sums(U, h) /\ SharesIn(U) = h[U]
<1> DEFINE F == CHOOSE h : h = [S \in SUBSET U |->
                  IF S = {} THEN 0
                  ELSE LET m == CHOOSE n \in S : TRUE IN rows[m].quantity + h[S \ {m}]]
<1>1. SharesIn(U) = F[U]
  BY DEF SharesIn
<1>2. \E h : h = [S \in SUBSET U |->
                  IF S = {} THEN 0
                  ELSE LET m == CHOOSE n \in S : TRUE IN rows[m].quantity + h[S \ {m}]]
  BY SumExists DEF Sums, SumStep
<1>3. F = [S \in SUBSET U |->
                  IF S = {} THEN 0
                  ELSE LET m == CHOOSE n \in S : TRUE IN rows[m].quantity + F[S \ {m}]]
  BY <1>2
<1>4. Sums(U, F)
  BY <1>3 DEF Sums, SumStep
<1>. QED  BY <1>1, <1>4

\* The sum does not depend on the order it is taken in.
LEMMA SumOfRest ==
  ASSUME NEW U, IsFiniteSet(U), \A n \in U : rows[n].quantity \in Int
  PROVE  /\ SharesIn({}) = 0
         /\ SharesIn(U) \in Int
         /\ \A m \in U : SharesIn(U) = rows[m].quantity + SharesIn(U \ {m})
<1> DEFINE Good(S) == /\ SharesIn(S) \in Int
                      /\ \A m \in S : SharesIn(S) = rows[m].quantity + SharesIn(S \ {m})
           Bad == {S \in SUBSET U : ~Good(S)}
<1>1. SharesIn({}) = 0
  BY SharesIsSum, FS_EmptySet DEF Sums, SumStep
<1>2. ASSUME NEW S \in SUBSET U, S # {}
      PROVE  \E m \in S : SharesIn(S) = rows[m].quantity + SharesIn(S \ {m})
  <2>1. PICK m : m = CHOOSE n \in S : TRUE
    OBVIOUS
  <2> DEFINE R == S \ {m}
  <2>2. m \in S /\ IsFiniteSet(S) /\ IsFiniteSet(R)
    BY <1>2, <2>1, FS_Subset
  <2>3. PICK h : Sums(S, h) /\ SharesIn(S) = h[S]
    BY <2>2, SharesIsSum
  <2>4. PICK g : Sums(R, g) /\ SharesIn(R) = g[R]
    BY <2>2, SharesIsSum
  <2>5. h[S] = rows[m].quantity + h[R]
    BY <1>2, <2>1, <2>3 DEF Sums, SumStep
  <2>6. h[R] = g[R]
    BY <2>2, <2>3, <2>4, SameSum
  <2>. QED  BY <2>2, <2>3, <2>4, <2>5, <2>6
<1>3. Bad = {}
  <2> SUFFICES ASSUME Bad # {}  PROVE FALSE
    OBVIOUS
  <2>1. Bad \in SUBSET (SUBSET U)
    OBVIOUS
  <2>2. PICK S \in Bad : \A T \in SUBSET S : T # S => T \notin Bad
    <3>. HIDE DEF Bad
    <3>. QED  BY <2>1, SmallestBad
  <2>3. S \in SUBSET U /\ ~Good(S)
    BY <2>2
  <2>4. \A T \in SUBSET S : T # S => Good(T)
    <3>. HIDE DEF Good
    <3>. QED  BY <2>2, <2>3
  <2>5. S # {}
    <3>1. Good({})
      BY <1>1
    <3>. HIDE DEF Good
    <3>. QED  BY <2>3, <3>1
  <2>6. PICK c \in S : SharesIn(S) = rows[c].quantity + SharesIn(S \ {c})
    BY <1>2, <2>3, <2>5
  <2>7. \A n \in S : rows[n].quantity \in Int /\ Good(S \ {n})
    <3>. HIDE DEF Good
    <3>. QED  BY <2>3, <2>4
  <2>8. ASSUME NEW m \in S, m # c
        PROVE  SharesIn(S) = rows[m].quantity + SharesIn(S \ {m})
    <3>1. (S \ {c}) \ {m} = (S \ {m}) \ {c}
      OBVIOUS
    <3>2. SharesIn(S \ {c}) = rows[m].quantity + SharesIn((S \ {c}) \ {m})
      BY <2>7, <2>8
    <3>3. SharesIn(S \ {m}) = rows[c].quantity + SharesIn((S \ {m}) \ {c})
      BY <2>7, <2>8
    <3>4. SharesIn((S \ {c}) \ {m}) \in Int
      <4>1. (S \ {c}) \ {m} \in SUBSET S /\ (S \ {c}) \ {m} # S
        OBVIOUS
      <4>2. Good((S \ {c}) \ {m})
        <5>. HIDE DEF Good
        <5>. QED  BY <2>4, <4>1
      <4>. QED  BY <4>2
    <3>5. PICK rest \in Int, own \in Int, chosen \in Int :
             /\ rest = SharesIn((S \ {c}) \ {m})
             /\ own = rows[m].quantity /\ chosen = rows[c].quantity
      BY <2>3, <3>4
    <3>6. SharesIn(S) = chosen + (own + rest) /\ SharesIn(S \ {m}) = chosen + rest
      BY <2>6, <3>1, <3>2, <3>3, <3>5
    <3>7. chosen + (own + rest) = own + (chosen + rest)
      OBVIOUS
    <3>. QED  BY <3>5, <3>6, <3>7
  <2>9. SharesIn(S) \in Int
    <3>1. rows[c].quantity \in Int /\ SharesIn(S \ {c}) \in Int
      BY <2>7
    <3>. HIDE DEF Bad
    <3>. QED  BY <2>6, <3>1
  <2>. QED  BY <2>3, <2>6, <2>8, <2>9
<1>4. Good(U)
  <2>. HIDE DEF Good
  <2>. QED  BY <1>3
<1>. QED  BY <1>1, <1>4

Traded(L) == {t.id : t \in {u \in L : u.kind # "Dividend"}}

\* What the columns promise the fold: a buy adds.
LEMMA BuysAdd ==
  ASSUME LedgerTypes, RowsAreValid, NEW i, NEW t \in LedgerFor(rows, i)
  PROVE  /\ rows[t.id].quantity = t.quantity /\ t.quantity \in Int
         /\ t.kind \in Kind /\ (t.kind = "Buy" => t.quantity > 0)
<1>1. t.id \in DOMAIN rows /\ t = Entry(t.id, rows[t.id])
  BY TableLedgers
<1>2. PICK b \in ValidBody : rows[t.id] = RowOf(b, NoBatch)
  BY <1>1 DEF RowsAreValid
<1>3. /\ t.quantity = StoredQuantity(b) /\ t.kind = b.kind
      /\ rows[t.id].quantity = StoredQuantity(b)
  BY <1>1, <1>2 DEF Entry, RowOf
<1>. QED  BY <1>3, BodyColumns DEF HasColumns, ValidBody, Validates, StoredQuantity

\* The fold of any part of a ledger is the sum of its trades, and never below zero.
LEMMA HeldIsSum ==
  ASSUME LedgerTypes, RowsAreValid, NEW i, NEW P \in SUBSET LedgerFor(rows, i), Derivable(P)
  PROVE  DerivePosition(P) = SharesIn(Traded(P)) /\ DerivePosition(P) \in Nat
<1> DEFINE Good(S) == DerivePosition(S) = SharesIn(Traded(S)) /\ DerivePosition(S) \in Nat
           L == LedgerFor(rows, i)
           Bad == {S \in SUBSET L : Derivable(S) /\ ~Good(S)}
<1>1. IsLedger(L)
  BY TableLedgers
<1>2. Bad = {}
  <2> SUFFICES ASSUME Bad # {}  PROVE FALSE
    OBVIOUS
  <2>1. Bad \in SUBSET (SUBSET L) /\ IsFiniteSet(L)
    BY <1>1 DEF IsLedger
  <2>2. PICK S \in Bad : \A T \in SUBSET S : T # S => T \notin Bad
    <3>. HIDE DEF Bad
    <3>. QED  BY <2>1, SmallestBad
  <2>3. S \in SUBSET L /\ Derivable(S) /\ ~Good(S)
    BY <2>2
  <2>4. IsLedger(S)
    <3>. HIDE DEF L
    <3>. QED  BY <1>1, <2>3, SubLedger
  <2>5. S # {}
    <3> SUFFICES ASSUME S = {}  PROVE FALSE
      OBVIOUS
    <3>1. DerivePosition({}) = 0
      BY <2>4, DeriveStep
    <3>2. Traded({}) = {} /\ SharesIn({}) = 0
      BY SumOfRest, FS_EmptySet DEF Traded
    <3>. QED  BY <2>3, <3>1, <3>2
  <2> DEFINE x == LastOf(S)
             R == S \ {x}
             held == DerivePosition(R)
  <2>6. x \in S /\ DerivePosition(S) = Apply(held, x)
    BY <2>4, <2>5, LastIsLast, DeriveStep
  <2>7. rows[x.id].quantity = x.quantity /\ x.quantity \in Int
        /\ x.kind \in Kind /\ (x.kind = "Buy" => x.quantity > 0)
    BY <2>3, <2>6, BuysAdd
  <2>8. held # Broken
    BY <2>3, <2>6 DEF Apply, Derivable
  <2>9. Good(R)
    <3>1. R \in SUBSET L /\ R \in SUBSET S /\ R # S
      BY <2>3, <2>6
    <3>. HIDE DEF R, Good, L
    <3>. QED  BY <2>2, <2>8, <3>1 DEF Derivable
  <2>10. /\ IsFiniteSet(Traded(S)) /\ \A n \in Traded(S) : rows[n].quantity \in Int
    <3>1. IsFiniteSet(DOMAIN rows)
      <4>1. lastId \in Nat /\ DOMAIN rows \subseteq 1..lastId
        BY WriteBounds DEF LedgerTypes
      <4>2. IsFiniteSet(1..lastId)
        BY <4>1, FS_Interval
      <4>. QED  BY <4>1, <4>2, FS_Subset
    <3>2. \A t \in S : t.id \in DOMAIN rows /\ rows[t.id].quantity \in Int
      BY <2>3, TableLedgers, BuysAdd
    <3>3. Traded(S) \subseteq DOMAIN rows
      BY <3>2 DEF Traded
    <3>. QED  BY <3>1, <3>2, <3>3, FS_Subset DEF Traded
  <2>11. SharesIn(Traded(S)) = IF x.kind = "Dividend" THEN held ELSE held + x.quantity
    <3>1. \A t \in S : t.id = x.id => t = x
      BY <2>4, <2>6 DEF IsLedger
    <3>2. Traded(R) = IF x.kind = "Dividend" THEN Traded(S) ELSE Traded(S) \ {x.id}
      <4>. HIDE DEF x
      <4>. QED  BY <2>6, <3>1 DEF Traded
    <3>3. x.kind # "Dividend" => x.id \in Traded(S)
      BY <2>6 DEF Traded
    <3>. HIDE DEF x, R
    <3>. QED  BY <2>7, <2>9, <2>10, <3>2, <3>3, SumOfRest
  <2>12. Apply(held, x) # Broken
    BY <2>3, <2>6 DEF Derivable
  <2>13. held \in Nat
    BY <2>9
  <2>. HIDE DEF x, R, held
  <2>14. Apply(held, x) = (IF x.kind = "Dividend" THEN held ELSE held + x.quantity)
         /\ Apply(held, x) \in Nat
    BY <2>7, <2>8, <2>12, <2>13 DEF Apply, Kind, Broken
  <2>. QED  BY <2>3, <2>6, <2>11, <2>14
<1>. HIDE DEF Good, L
<1>3. P \in SUBSET L
  BY DEF L
<1>. QED  BY <1>2, <1>3 DEF Good

UpTo(L, n) == {t \in L : t = n \/ Before(t, n)}

\* What breaks a fold early breaks it for good.
LEMMA BeginningsDerive ==
  ASSUME NEW L, IsLedger(L), Derivable(L), NEW n \in L
  PROVE  Derivable(UpTo(L, n))
<1> DEFINE Bad == {S \in SUBSET L : n \in S /\ Derivable(S) /\ ~Derivable(UpTo(S, n))}
<1>1. Bad = {}
  <2> SUFFICES ASSUME Bad # {}  PROVE FALSE
    OBVIOUS
  <2>1. Bad \in SUBSET (SUBSET L) /\ IsFiniteSet(L)
    BY DEF IsLedger
  <2>2. PICK S \in Bad : \A T \in SUBSET S : T # S => T \notin Bad
    <3>. HIDE DEF Bad
    <3>. QED  BY <2>1, SmallestBad
  <2>3. S \in SUBSET L /\ n \in S /\ Derivable(S) /\ ~Derivable(UpTo(S, n))
    BY <2>2
  <2>4. IsLedger(S)
    BY <2>3, SubLedger
  <2> DEFINE x == LastOf(S)
  <2>5. x \in S /\ \A u \in S \ {x} : Before(u, x)
    BY <2>3, <2>4, LastIsLast
  <2>6. DerivePosition(S) = Apply(DerivePosition(S \ {x}), x)
    BY <2>3, <2>4, DeriveStep
  <2>. HIDE DEF x
  <2>7. Derivable(S \ {x})
    BY <2>3, <2>6 DEF Derivable, Apply
  <2>8. x # n
    <3>1. x = n => UpTo(S, n) = S
      BY <2>3, <2>5 DEF UpTo
    <3>. QED  BY <2>3, <3>1
  <2>9. UpTo(S \ {x}, n) = UpTo(S, n)
    <3>1. ~Before(x, n)
      BY <2>3, <2>4, <2>5, <2>8, Ordered
    <3>. QED  BY <2>8, <3>1 DEF UpTo
  <2>. QED  BY <2>2, <2>3, <2>5, <2>7, <2>8, <2>9
<1>. QED  BY <1>1

LEMMA DerivableIsSound ==
  ASSUME LedgerTypes, RowsAreValid, RowsHaveInstruments, OnlyRacesBreakLedgers
  PROVE  NeverOversold
<1> SUFFICES ASSUME NEW n \in DOMAIN rows, rows[n].instrument \notin raced
             PROVE  /\ SharesAfter(rows[n].instrument, n) >= 0
                    /\ rows[n].kind = "Split" =>
                         /\ SharesAfter(rows[n].instrument, n) > 0
                         /\ SharesAfter(rows[n].instrument, n) # rows[n].quantity
  BY DEF NeverOversold
<1>1. PICK i : i = rows[n].instrument
  OBVIOUS
<1>2. PICK e : e = Entry(n, rows[n])
  OBVIOUS
<1> DEFINE L == LedgerFor(rows, i)
           P == UpTo(L, e)
<1>3. /\ e \in L /\ e.id = n /\ e.kind = rows[n].kind /\ e.quantity = rows[n].quantity
      /\ \A t \in L : t.id \in DOMAIN rows /\ t = Entry(t.id, rows[t.id])
      /\ IsLedger(L)
  <2>1. e \in L
    BY <1>1, <1>2 DEF LedgerFor
  <2>2. e.id = n /\ e.kind = rows[n].kind /\ e.quantity = rows[n].quantity
    BY <1>2 DEF Entry
  <2>. HIDE DEF L
  <2>. QED  BY <2>1, <2>2, TableLedgers DEF L
<1>4. Derivable(L)
  <2>1. i \in Instrument \ raced
    BY <1>1 DEF RowsHaveInstruments, LedgerTypes
  <2>. QED  BY <2>1 DEF OnlyRacesBreakLedgers
<1>5. /\ P \in SUBSET L /\ e \in P /\ IsLedger(P)
      /\ \A u \in P \ {e} : Before(u, e)
  <2>. HIDE DEF L
  <2>. QED  BY <1>3, SubLedger DEF UpTo
<1>6. Derivable(P)
  <2>. HIDE DEF L
  <2>. QED  BY <1>3, <1>4, BeginningsDerive
<1>7. SharesAfter(i, n) = DerivePosition(P) /\ DerivePosition(P) \in Nat
  <2> DEFINE ids == {m \in DOMAIN rows :
                       /\ rows[m].instrument = i
                       /\ rows[m].kind # "Dividend"
                       /\ m = n \/ Before(Entry(m, rows[m]), Entry(n, rows[n]))}
  <2>1. ASSUME NEW m \in DOMAIN rows, rows[m].instrument = i
        PROVE  /\ Entry(m, rows[m]) \in L
               /\ Entry(m, rows[m]).id = m /\ Entry(m, rows[m]).kind = rows[m].kind
    BY <2>1 DEF LedgerFor, Entry
  <2>2. \A t \in L : rows[t.id].instrument = i
    BY DEF LedgerFor, Entry
  <2>3. Traded(P) = ids
    <3>. HIDE DEF L
    <3>1. \A m \in ids : m \in Traded(P)
      BY <1>2, <2>1 DEF Traded, UpTo
    <3>2. \A t \in P : t.kind # "Dividend" => t.id \in ids
      BY <1>2, <1>3, <2>1, <2>2 DEF UpTo
    <3>. QED  BY <3>1, <3>2 DEF Traded
  <2>4. SharesAfter(i, n) = SharesIn(ids)
    BY DEF SharesAfter
  <2>. HIDE DEF ids, P
  <2>. QED  BY <1>5, <1>6, <2>3, <2>4, HeldIsSum
<1>8. e.kind = "Split" => DerivePosition(P) > 0 /\ DerivePosition(P) # e.quantity
  <2>1. DerivePosition(P) = Apply(DerivePosition(P \ {e}), e)
    <3>. HIDE DEF P
    <3>1. LastOf(P) = e /\ P # {}
      BY <1>5, OnlyLast
    <3>. QED  BY <1>5, <3>1, DeriveStep
  <2>2. Derivable(P \ {e})
    <3>. HIDE DEF P
    <3>. QED  BY <1>6, <2>1 DEF Derivable, Apply
  <2>3. DerivePosition(P \ {e}) \in Nat
    <3>1. P \ {e} \in SUBSET L
      BY <1>5
    <3>. HIDE DEF P
    <3>. QED  BY <2>2, <3>1, HeldIsSum
  <2>4. e.quantity \in Int
    BY <1>3 DEF IsLedger, IsEntry, HasColumns
  <2>. HIDE DEF P
  <2>. QED  BY <1>6, <2>1, <2>3, <2>4 DEF Derivable, Apply, Broken
<1>. QED  BY <1>1, <1>3, <1>7, <1>8

\* With any number of requests in flight, an instrument's ledger stops deriving only
\* through a write whose checks another write had overtaken (create, replace and remove
\* check in one statement and write in another).
THEOREM OnlyRacesBreak == Spec => []OnlyRacesBreakLedgers
<1>1. DerivationInv => OnlyRacesBreakLedgers  BY DEF DerivationInv
<1>. QED  BY <1>1, DerivationInvAlways, PTL

\* And then no position was ever short, in the plain count of the shares traded, and no
\* split met or left an empty one: what derive_position accepts is what it promises.
\* And what the rows are of is there.
THEOREM LedgersSound == Spec => []LedgersStaySound
<1>1. DerivationInv /\ RowsAreValid => LedgersStaySound
  BY DerivableIsSound DEF DerivationInv, LedgerInv, LedgersStaySound
<1>. QED  BY <1>1, DerivationInvAlways, LedgerInvAlways, PTL

-----------------------------------------------------------------------------
(* Imports.  The lines of a file, and the ids they get.                        *)

Rank(S, k) == Cardinality({j \in S : j <= k})

LEMMA Ranks ==
  ASSUME NEW S \in SUBSET Int, IsFiniteSet(S)
  PROVE  /\ Cardinality(S) \in Nat
         /\ \A k \in S : Rank(S, k) \in 1..Cardinality(S)
         /\ \A j, k \in S : j < k => Rank(S, j) < Rank(S, k)
<1> DEFINE Low(k) == {j \in S : j <= k}
<1>1. Cardinality(S) \in Nat
  BY FS_CardinalityType
<1>2. ASSUME NEW k \in S
      PROVE  /\ IsFiniteSet(Low(k)) /\ Cardinality(Low(k)) \in Nat
             /\ Cardinality(Low(k)) <= Cardinality(S) /\ Cardinality(Low(k)) # 0
  <2>1. Low(k) \in SUBSET S /\ k \in Low(k)
    OBVIOUS
  <2>. HIDE DEF Low
  <2>2. IsFiniteSet(Low(k)) /\ Cardinality(Low(k)) <= Cardinality(S)
    BY <2>1, FS_Subset
  <2>. QED  BY <2>1, <2>2, FS_CardinalityType, FS_EmptySet
<1>3. ASSUME NEW j \in S, NEW k \in S, j < k
      PROVE  Cardinality(Low(j)) < Cardinality(Low(k))
  <2>1. Low(j) \in SUBSET Low(k) /\ k \in Low(k) /\ k \notin Low(j)
    <3>1. j \in Int /\ k \in Int /\ j < k /\ \A i \in S : i \in Int
      BY <1>3
    <3>2. \A i \in Low(j) : i \in Low(k)
      BY <3>1
    <3>3. k \in Low(k) /\ k \notin Low(j)
      BY <3>1
    <3>. HIDE DEF Low
    <3>. QED  BY <3>2, <3>3
  <2>. HIDE DEF Low
  <2>2. Cardinality(Low(j)) <= Cardinality(Low(k)) /\ Cardinality(Low(j)) # Cardinality(Low(k))
    BY <1>2, <2>1, FS_Subset
  <2>. QED  BY <1>2, <2>2
<1>. QED  BY <1>1, <1>2, <1>3 DEF Rank

LEMMA RankInjective ==
  ASSUME NEW S \in SUBSET Int, IsFiniteSet(S), NEW j \in S, NEW k \in S,
         Rank(S, j) = Rank(S, k)
  PROVE  j = k
<1>1. Rank(S, j) \in Int /\ Rank(S, k) \in Int
  BY Ranks
<1>2. ~(j < k) /\ ~(k < j)
  BY <1>1, Ranks
<1>. QED  BY <1>2

LEMMA RankReached ==
  ASSUME NEW S \in SUBSET Int, IsFiniteSet(S), NEW r \in 1..Cardinality(S)
  PROVE  \E k \in S : Rank(S, k) = r
<1> DEFINE f == [k \in S |-> Rank(S, k)]
           T == 1..Cardinality(S)
<1>1. f \in Injection(S, T)
  <2>1. f \in [S -> T]
    BY Ranks
  <2>2. \A j, k \in S : f[j] = f[k] => j = k
    BY RankInjective
  <2>. QED  BY <2>1, <2>2 DEF Injection, IsInjective
<1>2. IsFiniteSet(T) /\ Cardinality(T) = Cardinality(S)
  <2>1. Cardinality(S) \in Nat
    BY FS_CardinalityType
  <2>. QED  BY <2>1, FS_Interval
<1>3. f \in Surjection(S, T)
  <2>. HIDE DEF f, T
  <2>. QED  BY <1>1, <1>2, FS_Injection
<1>. QED  BY <1>3 DEF Surjection

\* Of a set's first m elements there are m, or all.
LEMMA FirstOnes ==
  ASSUME NEW S \in SUBSET Int, IsFiniteSet(S), NEW m \in Nat
  PROVE  Cardinality({k \in S : Rank(S, k) <= m})
           = IF m < Cardinality(S) THEN m ELSE Cardinality(S)
<1> DEFINE low == {k \in S : Rank(S, k) <= m}
           n == IF m < Cardinality(S) THEN m ELSE Cardinality(S)
           T == 1..n
           f == [k \in low |-> Rank(S, k)]
<1>1. /\ Cardinality(S) \in Nat /\ n \in Nat
      /\ \A k \in S : Rank(S, k) \in 1..Cardinality(S)
  BY Ranks
<1>2. f \in Injection(low, T)
  <2>1. f \in [low -> T]
    <3>1. \A k \in low : Rank(S, k) \in T
      <4> SUFFICES ASSUME NEW k \in low  PROVE Rank(S, k) \in T
        OBVIOUS
      <4>1. Rank(S, k) \in 1..Cardinality(S) /\ Rank(S, k) <= m
        BY <1>1
      <4>. QED  BY <1>1, <4>1
    <3>. HIDE DEF low, T
    <3>. QED  BY <3>1
  <2>2. \A j, k \in low : f[j] = f[k] => j = k
    BY RankInjective
  <2>. QED  BY <2>1, <2>2 DEF Injection, IsInjective
<1>3. IsFiniteSet(T) /\ Cardinality(T) = n
  <2>. HIDE DEF n
  <2>. QED  BY <1>1, FS_Interval
<1>4. f \in Surjection(low, T)
  <2>1. \A r \in T : \E k \in low : f[k] = r
    <3> SUFFICES ASSUME NEW r \in T  PROVE \E k \in low : f[k] = r
      OBVIOUS
    <3>1. r \in 1..Cardinality(S) /\ r <= m
      BY <1>1
    <3>2. PICK k \in S : Rank(S, k) = r
      BY <3>1, RankReached
    <3>. QED  BY <3>1, <3>2
  <2>2. f \in [low -> T]
    BY <1>2 DEF Injection
  <2>. HIDE DEF f, low, T
  <2>. QED  BY <2>1, <2>2 DEF Surjection
<1>5. Cardinality(low) = Cardinality(T)
  <2>. HIDE DEF f, low, T, n
  <2>. QED  BY <1>2, <1>3, <1>4, FS_Injection
<1>. QED  BY <1>3, <1>5

LEMMA LinesOfFile ==
  ASSUME NEW f \in File, NEW lines \in SUBSET DOMAIN Content[f]
  PROVE  lines \in SUBSET Int /\ IsFiniteSet(lines)
<1>1. Len(Content[f]) \in Nat /\ DOMAIN Content[f] = 1..Len(Content[f])
  BY FilesAreLists
<1>2. IsFiniteSet(1..Len(Content[f]))
  BY <1>1, FS_Interval
<1>. QED  BY <1>1, <1>2, FS_Subset

NewId(lines, k) == lastId + Rank(lines, k)
NewIds(lines) == {NewId(lines, k) : k \in lines}

Appends(T, table, f, lines, b) ==
    /\ T = Appended(table, f, lines, b)
    /\ lastId \in Nat /\ DOMAIN table \subseteq 1..lastId
    /\ f \in File /\ lines \in SUBSET DOMAIN Content[f]

LEMMA NewIdsAreNew ==
  ASSUME NEW T, NEW table, NEW f, NEW lines, NEW b, Appends(T, table, f, lines, b)
  PROVE  /\ \A k \in lines : NewId(lines, k) \in (lastId + 1)..(lastId + Cardinality(lines))
         /\ \A j, k \in lines : j < k => NewId(lines, j) < NewId(lines, k)
         /\ \A j, k \in lines : NewId(lines, j) = NewId(lines, k) => j = k
         /\ Cardinality(lines) \in Nat
<1>. USE DEF Appends
<1>1. lines \in SUBSET Int /\ IsFiniteSet(lines)
  BY LinesOfFile
<1>2. /\ Cardinality(lines) \in Nat
      /\ \A k \in lines : Rank(lines, k) \in 1..Cardinality(lines)
      /\ \A j, k \in lines : j < k => Rank(lines, j) < Rank(lines, k)
  BY <1>1, Ranks
<1>3. \A j, k \in lines : NewId(lines, j) = NewId(lines, k) => j = k
  <2> SUFFICES ASSUME NEW j \in lines, NEW k \in lines, NewId(lines, j) = NewId(lines, k)
               PROVE  j = k
    OBVIOUS
  <2>1. Rank(lines, j) = Rank(lines, k)
    BY <1>2 DEF NewId
  <2>. QED  BY <1>1, <2>1, RankInjective
<1>. QED  BY <1>2, <1>3 DEF NewId

LEMMA AppendedIds ==
  ASSUME NEW T, NEW table, NEW f, NEW lines, NEW b, Appends(T, table, f, lines, b)
  PROVE  DOMAIN T = DOMAIN table \cup NewIds(lines)
BY DEF Appends, Appended, NewIds, NewId, Rank

LEMMA AppendedKeeps ==
  ASSUME NEW T, NEW table, NEW f, NEW lines, NEW b, Appends(T, table, f, lines, b)
  PROVE  T = [n \in DOMAIN T |-> T[n]] /\ \A n \in DOMAIN table : T[n] = table[n]
<1> DEFINE row(n) == IF n \in DOMAIN table THEN table[n]
                     ELSE RowOf(Content[f][CHOOSE k \in lines : NewId(lines, k) = n], b)
<1>1. T = [n \in DOMAIN table \cup NewIds(lines) |-> row(n)]
  BY DEF Appends, Appended, NewIds, NewId, Rank
<1>2. \A n \in DOMAIN table : row(n) = table[n]
  OBVIOUS
<1>. HIDE DEF row
<1>. QED  BY <1>1, <1>2

LEMMA AppendedLines ==
  ASSUME NEW T, NEW table, NEW f, NEW lines, NEW b, Appends(T, table, f, lines, b)
  PROVE  \A k \in lines : T[NewId(lines, k)] = RowOf(Content[f][k], b)
<1>1. /\ \A k \in lines : NewId(lines, k) \in (lastId + 1)..(lastId + Cardinality(lines))
      /\ \A j, k \in lines : NewId(lines, j) = NewId(lines, k) => j = k
  BY NewIdsAreNew
<1>2. T = [n \in DOMAIN table \cup NewIds(lines) |->
             IF n \in DOMAIN table THEN table[n]
             ELSE RowOf(Content[f][CHOOSE k \in lines : NewId(lines, k) = n], b)]
  BY DEF Appends, Appended, NewIds, NewId, Rank
<1>3. ASSUME NEW k \in lines
      PROVE  T[NewId(lines, k)] = RowOf(Content[f][k], b)
  <2>1. NewId(lines, k) \notin DOMAIN table
    BY <1>1, NewIdsAreNew DEF Appends
  <2>2. (CHOOSE j \in lines : NewId(lines, j) = NewId(lines, k)) = k
    BY <1>1
  <2>. QED  BY <1>2, <2>1, <2>2 DEF NewIds
<1>. QED  BY <1>3

LEMMA AppendedStays ==
  ASSUME NEW T, NEW table, NEW f, NEW lines, NEW b, Appends(T, table, f, lines, b)
  PROVE  \A n \in DOMAIN table : n \in DOMAIN T /\ T[n] = table[n]
<1>1. DOMAIN T = DOMAIN table \cup NewIds(lines)
  BY AppendedIds
<1>2. \A n \in DOMAIN table : T[n] = table[n]
  BY AppendedKeeps
<1>. QED  BY <1>1, <1>2

LEMMA AppendedLedgers ==
  ASSUME NEW T, NEW table, NEW f, NEW lines, NEW b, Appends(T, table, f, lines, b)
  PROVE  \A i : LedgerFor(T, i) = LedgerFor(table, i) \cup
             {Entry(NewId(lines, k), Line(f, k)) :
                k \in {j \in lines : Content[f][j].instrument = i}}
<1> SUFFICES ASSUME NEW i
             PROVE  LedgerFor(T, i) = LedgerFor(table, i) \cup
                      {Entry(NewId(lines, k), Line(f, k)) :
                         k \in {j \in lines : Content[f][j].instrument = i}}
  OBVIOUS
<1>1. /\ DOMAIN T = DOMAIN table \cup NewIds(lines)
      /\ \A n \in DOMAIN table : T[n] = table[n]
      /\ \A k \in lines : T[NewId(lines, k)] = RowOf(Content[f][k], b)
  <2>1. DOMAIN T = DOMAIN table \cup NewIds(lines)
    BY AppendedIds
  <2>2. \A n \in DOMAIN table : T[n] = table[n]
    BY AppendedKeeps
  <2>3. \A k \in lines : T[NewId(lines, k)] = RowOf(Content[f][k], b)
    BY AppendedLines
  <2>. QED  BY <2>1, <2>2, <2>3
<1>2. ASSUME NEW k \in lines
      PROVE  /\ T[NewId(lines, k)].instrument = Content[f][k].instrument
             /\ Entry(NewId(lines, k), T[NewId(lines, k)]) = Entry(NewId(lines, k), Line(f, k))
  <2>1. RowOf(Content[f][k], b).instrument = Content[f][k].instrument
    BY DEF RowOf
  <2>. QED  BY <1>1, <2>1, EntryIgnoresBatch DEF Line
<1> DEFINE Mine == {j \in lines : Content[f][j].instrument = i}
<1>3. {n \in DOMAIN T : T[n].instrument = i}
        = {n \in DOMAIN table : table[n].instrument = i} \cup {NewId(lines, k) : k \in Mine}
  BY <1>1, <1>2 DEF NewIds
<1>4. LedgerFor(T, i) = {Entry(n, T[n]) : n \in {m \in DOMAIN T : T[m].instrument = i}}
  BY DEF LedgerFor
<1>5. LedgerFor(table, i) = {Entry(n, T[n]) : n \in {m \in DOMAIN table : table[m].instrument = i}}
  BY <1>1 DEF LedgerFor
<1>6. {Entry(n, T[n]) : n \in {NewId(lines, k) : k \in Mine}}
        = {Entry(NewId(lines, k), Line(f, k)) : k \in Mine}
  BY <1>2
<1>. HIDE DEF Mine
<1>. QED  BY <1>3, <1>4, <1>5, <1>6 DEF Mine

-----------------------------------------------------------------------------
(* What importers hold and what the batches say.                               *)

Job == [op : {"append"}, at : {"dup", "write"}, file : File, lines : SUBSET Nat,
        allow : BOOLEAN, new : SUBSET Nat, stored : BOOLEAN]
  \cup [op : {"refresh"}, at : {"look", "write"}, file : File, lines : SUBSET Nat,
        batch : Nat, new : SUBSET Nat, keep : SUBSET Instrument]
  \cup [op : {"rollback"}, at : {"write"}, batch : Nat]

JobFits(j) ==
    j.op # "rollback" =>
       /\ j.lines \subseteq DOMAIN Content[j.file]
       /\ j.new \subseteq j.lines
       /\ j.op = "refresh" => SourceOf[j.file] = "AVANZA"

JobTypes ==
    /\ job \in [Importer -> Job \cup {NoRequest}] /\ outdated \subseteq Importer
    /\ \A s \in Importer : job[s] # NoRequest => JobFits(job[s])

Batch == [source : {SourceOf[f] : f \in File}, file : File,
          how : {"append", "allowed", "raced", "refresh"}]

BatchTypes ==
    /\ lastBatch \in 0..MaxBatch /\ DOMAIN batches \subseteq 1..lastBatch
    /\ batches \in [DOMAIN batches -> Batch]
    /\ \A b \in DOMAIN batches : batches[b].source = SourceOf[batches[b].file]

ImportTypes == LedgerInv /\ instruments = Instrument /\ JobTypes /\ BatchTypes

LEMMA PlannedJob ==
  ASSUME JobTypes, NEW s \in Importer, NEW op \in {"append", "refresh"}, NEW at,
         Doing(s, op, at)
  PROVE  /\ job[s].file \in File
         /\ job[s].lines \in SUBSET DOMAIN Content[job[s].file]
         /\ job[s].new \in SUBSET DOMAIN Content[job[s].file]
         /\ job[s].new \subseteq job[s].lines
         /\ op = "append" => job[s].allow \in BOOLEAN
         /\ op = "refresh" => /\ job[s].batch \in Nat /\ job[s].keep \subseteq Instrument
                             /\ SourceOf[job[s].file] = "AVANZA"
<1>1. job[s] \in Job /\ job[s].op = op
  BY DEF JobTypes, Doing
<1>2. /\ job[s].file \in File
      /\ op = "append" => job[s].allow \in BOOLEAN
      /\ op = "refresh" => job[s].batch \in Nat /\ job[s].keep \subseteq Instrument
  BY <1>1 DEF Job
<1>. QED  BY <1>1, <1>2 DEF JobTypes, JobFits, Doing

LEMMA MappedLines ==
  ASSUME NEW f \in File, NEW exclude
  PROVE  /\ Mapped(f, exclude) \subseteq DOMAIN Content[f]
         /\ Mapped(f, exclude) \subseteq Nat
<1>1. Len(Content[f]) \in Nat /\ DOMAIN Content[f] = 1..Len(Content[f])
  BY FilesAreLists
<1>. QED  BY <1>1 DEF Mapped

LEMMA ContinueTypes ==
  ASSUME ImportTypes, NEW s \in Importer, NEW j \in Job, JobFits(j), Continue(s, j)
  PROVE  ImportTypes'
<1>1. LedgerInv' /\ instruments' = Instrument /\ BatchTypes'
  BY DEF Continue, vars, ImportTypes, LedgerInv, LedgerTypes, RequestTypes,
         RowsHaveInstruments, BatchTypes
<1>2. JobTypes'
  <2>1. /\ job' \in [Importer -> Job \cup {NoRequest}] /\ outdated' = outdated
        /\ \A z \in Importer : job'[z] = IF z = s THEN j ELSE job[z]
    BY DEF Continue, ImportTypes, JobTypes
  <2>. QED  BY <2>1 DEF ImportTypes, JobTypes, JobFits
<1>. QED  BY <1>1, <1>2 DEF ImportTypes

LEMMA RefuseTypes ==
  ASSUME ImportTypes, NEW s \in Importer, Refuse(s)
  PROVE  ImportTypes'
<1>1. LedgerInv' /\ instruments' = Instrument /\ BatchTypes'
  BY DEF Refuse, vars, ImportTypes, LedgerInv, LedgerTypes, RequestTypes,
         RowsHaveInstruments, BatchTypes
<1>2. JobTypes'
  <2>1. /\ job' \in [Importer -> Job \cup {NoRequest}] /\ outdated' \subseteq outdated
        /\ \A z \in Importer : job'[z] = IF z = s THEN NoRequest ELSE job[z]
    BY DEF Refuse, ImportTypes, JobTypes
  <2>. QED  BY <2>1 DEF ImportTypes, JobTypes, JobFits
<1>. QED  BY <1>1, <1>2 DEF ImportTypes

\* A commit leaves a table of the same kind, and nobody's job but its own changes.
TableFits(table, last) ==
    /\ last \in 0..MaxId /\ DOMAIN table \subseteq 1..last
    /\ table = [n \in DOMAIN table |-> table[n]]
    /\ \A n \in DOMAIN table : HasColumns(table[n]) /\ table[n].instrument \in Instrument

LEMMA CommitTypes ==
  ASSUME ImportTypes, NEW s \in Importer, NEW table, NEW last, NEW touched,
         NEW unchecked \in SUBSET Instrument, TableFits(table, last),
         Commit(s, table, last, touched, unchecked)
  PROVE  LedgerInv' /\ instruments' = Instrument /\ JobTypes'
<1>1. LedgerTypes' /\ RowsHaveInstruments' /\ instruments' = Instrument
  BY DEF Commit, TableFits, ImportTypes, LedgerInv, LedgerTypes, RowsHaveInstruments
<1>2. RequestTypes'
  <2>1. overtaken' \subseteq Slot
    BY DEF Commit, ImportTypes, LedgerInv, RequestTypes
  <2>2. raced' \subseteq Instrument
    BY DEF Commit, ImportTypes, LedgerInv, RequestTypes
  <2>. QED  BY <2>1, <2>2 DEF Commit, ImportTypes, LedgerInv, RequestTypes
<1>3. JobTypes'
  <2>1. outdated' \subseteq Importer
    BY DEF Commit, Planned, ImportTypes, JobTypes
  <2>2. /\ job' \in [Importer -> Job \cup {NoRequest}]
        /\ \A z \in Importer : job'[z] = IF z = s THEN NoRequest ELSE job[z]
    BY DEF Commit, ImportTypes, JobTypes
  <2>. QED  BY <2>1, <2>2 DEF ImportTypes, JobTypes, JobFits
<1>. QED  BY <1>1, <1>2, <1>3 DEF LedgerInv

LEMMA AppendedFits ==
  ASSUME NEW T, NEW table, NEW f, NEW lines, NEW b, Appends(T, table, f, lines, b),
         TableFits(table, lastId), lastId + Cardinality(lines) <= MaxId
  PROVE  TableFits(T, lastId + Cardinality(lines))
<1>1. /\ Cardinality(lines) \in Nat /\ lastId \in Nat /\ MaxId \in Nat
      /\ \A k \in lines : NewId(lines, k) \in (lastId + 1)..(lastId + Cardinality(lines))
  BY NewIdsAreNew, WriteBounds DEF Appends
<1>2. lastId + Cardinality(lines) \in 0..MaxId
  BY <1>1
<1>3. DOMAIN T = DOMAIN table \cup NewIds(lines)
  BY AppendedIds
<1>4. T = [n \in DOMAIN T |-> T[n]] /\ \A n \in DOMAIN table : T[n] = table[n]
  BY AppendedKeeps
<1>5. \A k \in lines : T[NewId(lines, k)] = RowOf(Content[f][k], b)
  BY AppendedLines
<1>6. DOMAIN T \subseteq 1..(lastId + Cardinality(lines))
  <2>1. DOMAIN table \subseteq 1..lastId
    BY DEF TableFits
  <2>2. \A n \in NewIds(lines) : n \in (lastId + 1)..(lastId + Cardinality(lines))
    BY <1>1 DEF NewIds
  <2>. QED  BY <1>1, <1>3, <2>1, <2>2
<1>7. \A k \in lines : /\ HasColumns(RowOf(Content[f][k], b))
                       /\ RowOf(Content[f][k], b).instrument \in Instrument
  <2> SUFFICES ASSUME NEW k \in lines
               PROVE  /\ HasColumns(RowOf(Content[f][k], b))
                      /\ RowOf(Content[f][k], b).instrument \in Instrument
    OBVIOUS
  <2>1. HasColumns(Content[f][k]) /\ Content[f][k].instrument \in Instrument
    BY ImportBounds DEF Appends
  <2>. QED  BY <2>1, StoredColumns
<1>8. \A n \in DOMAIN T : HasColumns(T[n]) /\ T[n].instrument \in Instrument
  BY <1>3, <1>4, <1>5, <1>7 DEF TableFits, NewIds
<1>. QED  BY <1>2, <1>4, <1>6, <1>8 DEF TableFits

LEMMA PartFits ==
  ASSUME ImportTypes, NEW gone, NEW table, table = [n \in DOMAIN rows \ gone |-> rows[n]]
  PROVE  TableFits(table, lastId) /\ lastId \in Nat /\ DOMAIN table \subseteq 1..lastId
<1>1. /\ lastId \in 0..MaxId /\ DOMAIN rows \subseteq 1..lastId
      /\ \A n \in DOMAIN rows : HasColumns(rows[n]) /\ rows[n].instrument \in Instrument
  BY DEF ImportTypes, LedgerInv, LedgerTypes, RowsHaveInstruments
<1>2. DOMAIN table = DOMAIN rows \ gone /\ \A n \in DOMAIN table : table[n] = rows[n]
  OBVIOUS
<1>3. table = [n \in DOMAIN table |-> table[n]]
  BY <1>2
<1>. QED  BY <1>1, <1>2, <1>3 DEF TableFits

-----------------------------------------------------------------------------
(* The actions of one importer.                                                *)

LEMMA PlanTypes ==
  ASSUME ImportTypes, NEW s \in Importer, NEW f \in File, NEW exclude,
         \/ \E allow \in BOOLEAN : PlanAppend(s, f, exclude, allow)
         \/ \E b \in 1..lastBatch : PlanRefresh(s, f, exclude, b)
  PROVE  ImportTypes'
<1> DEFINE lines == Mapped(f, exclude)
           new == NewLines(f, lines)
           keep == Protected(f, lines)
<1>1. lines \subseteq DOMAIN Content[f] /\ lines \subseteq Nat /\ new \subseteq lines
  BY MappedLines DEF NewLines
<1>2. keep \subseteq Instrument
  BY <1>1, ImportBounds DEF Protected, InstrumentsOf
<1>3. ASSUME NEW allow \in BOOLEAN, PlanAppend(s, f, exclude, allow)
      PROVE  ImportTypes'
  <2>1. PICK stored \in BOOLEAN :
          Continue(s, [op |-> "append", at |-> "dup", file |-> f, lines |-> lines,
                       allow |-> allow, new |-> new, stored |-> stored])
    BY <1>3 DEF PlanAppend
  <2> DEFINE j == [op |-> "append", at |-> "dup", file |-> f, lines |-> lines,
                   allow |-> allow, new |-> new, stored |-> stored]
  <2>2. j \in Job /\ JobFits(j)
    <3>. HIDE DEF lines, new
    <3>. QED  BY <1>1 DEF Job, JobFits
  <2>. HIDE DEF j
  <2>. QED  BY <2>1, <2>2, ContinueTypes DEF j
<1>4. ASSUME NEW b \in 1..lastBatch, PlanRefresh(s, f, exclude, b)
      PROVE  ImportTypes'
  <2> DEFINE j == [op |-> "refresh", at |-> "look", file |-> f, lines |-> lines,
                   batch |-> b, new |-> new, keep |-> keep]
  <2>1. Continue(s, j) /\ SourceOf[f] = "AVANZA"
    BY <1>4 DEF PlanRefresh
  <2>2. b \in Nat
    BY DEF ImportTypes, BatchTypes
  <2>3. j \in Job /\ JobFits(j)
    <3>. HIDE DEF lines, new, keep
    <3>. QED  BY <1>1, <1>2, <2>1, <2>2 DEF Job, JobFits
  <2>. HIDE DEF j
  <2>. QED  BY <2>1, <2>3, ContinueTypes
<1>. QED  BY <1>3, <1>4

LEMMA LookTypes ==
  ASSUME ImportTypes, NEW s \in Importer,
         \/ \E b \in 1..lastBatch : StartRollback(s, b)
         \/ CheckDuplicate(s) \/ LookForBatch(s) \/ DropImport(s)
  PROVE  ImportTypes'
<1>1. ASSUME NEW b \in 1..lastBatch, StartRollback(s, b)
      PROVE  ImportTypes'
  <2>1. b \in Nat
    BY DEF ImportTypes, BatchTypes
  <2>2. [op |-> "rollback", at |-> "write", batch |-> b] \in Job
    BY <2>1 DEF Job
  <2>. QED  BY <1>1, <2>2, ContinueTypes DEF StartRollback, JobFits
<1>2. \A at \in {"write"} : Doing(s, "append", "dup") \/ Doing(s, "refresh", "look")
        => [job[s] EXCEPT !.at = at] \in Job /\ JobFits([job[s] EXCEPT !.at = at])
  BY DEF Doing, ImportTypes, JobTypes, Job, JobFits
<1>3. CASE CheckDuplicate(s)
  BY <1>2, <1>3, ContinueTypes, RefuseTypes DEF CheckDuplicate
<1>4. CASE LookForBatch(s)
  BY <1>2, <1>4, ContinueTypes, RefuseTypes DEF LookForBatch
<1>5. CASE DropImport(s)
  BY <1>5, RefuseTypes DEF DropImport
<1>. QED  BY <1>1, <1>3, <1>4, <1>5

\* The three commits, each as the table and the batches it leaves.
NewBatch(s) ==
    [c \in DOMAIN batches \cup {lastBatch + 1} |->
        IF c \in DOMAIN batches THEN batches[c]
        ELSE [source |-> SourceOf[job[s].file], file |-> job[s].file,
              how |-> CASE job[s].allow -> "allowed"
                        [] ~job[s].allow /\ s \in outdated -> "raced"
                        [] OTHER -> "append"]]

WritesBatch(s, T) ==
    /\ Doing(s, "append", "write")
    /\ Appends(T, rows, job[s].file, job[s].new, lastBatch + 1)
    /\ lastBatch < MaxBatch /\ lastId + Cardinality(job[s].new) <= MaxId
    /\ AllDerive(T, InstrumentsOf(job[s].file, job[s].new))
    /\ Commit(s, T, lastId + Cardinality(job[s].new),
              InstrumentsOf(job[s].file, job[s].new), {})
    /\ batches' = NewBatch(s) /\ lastBatch' = lastBatch + 1

LEMMA WriteCases ==
  ASSUME ImportTypes, NEW s \in Importer, WriteBatch(s)
  PROVE  Refuse(s) \/ \E T : WritesBatch(s, T)
<1>1. /\ job[s].file \in File /\ job[s].new \in SUBSET DOMAIN Content[job[s].file]
      /\ lastId \in Nat /\ DOMAIN rows \subseteq 1..lastId
  <2>1. Doing(s, "append", "write") /\ JobTypes
    BY DEF WriteBatch, ImportTypes
  <2>2. job[s].file \in File /\ job[s].new \in SUBSET DOMAIN Content[job[s].file]
    BY <2>1, PlannedJob
  <2>3. lastId \in Nat /\ DOMAIN rows \subseteq 1..lastId
    BY WriteBounds DEF ImportTypes, LedgerInv, LedgerTypes
  <2>. QED  BY <2>2, <2>3
<1> DEFINE T == Appended(rows, job[s].file, job[s].new, lastBatch + 1)
<1>2. Appends(T, rows, job[s].file, job[s].new, lastBatch + 1)
  BY <1>1 DEF Appends
<1>3. ASSUME ~Refuse(s)  PROVE  WritesBatch(s, T)
  <2>1. /\ lastBatch < MaxBatch /\ lastId + Cardinality(job[s].new) <= MaxId
        /\ AllDerive(T, InstrumentsOf(job[s].file, job[s].new))
        /\ Commit(s, T, lastId + Cardinality(job[s].new),
                  InstrumentsOf(job[s].file, job[s].new), {})
        /\ lastBatch' = lastBatch + 1
    BY <1>3 DEF WriteBatch, WriteLines
  <2>2. batches' = NewBatch(s)
    BY <1>3 DEF WriteBatch, WriteLines, NewBatch
  <2>. HIDE DEF T
  <2>. QED  BY <1>2, <2>1, <2>2 DEF WritesBatch, WriteBatch
<1>. QED  BY <1>3

Without(gone) == [n \in DOMAIN rows \ gone |-> rows[n]]

Touched(s) == {rows[n].instrument : n \in BatchRows(job[s].batch)}
                 \cup InstrumentsOf(job[s].file, job[s].lines)

Unplanned(s, insert) == IF s \in outdated THEN insert ELSE insert \ job[s].new

RefreshesBatch(s, T, drop, insert) ==
    /\ Doing(s, "refresh", "write") /\ Latest(job[s].batch, "AVANZA")
    /\ drop = Unmatched(BatchRows(job[s].batch), job[s].file, job[s].lines, job[s].keep)
    /\ insert = Missing(job[s].batch, job[s].file, job[s].lines)
    /\ Appends(T, Without(drop), job[s].file, insert, job[s].batch)
    /\ lastId + Cardinality(insert) <= MaxId
    /\ AllDerive(T, Touched(s) \ job[s].keep)
    /\ Commit(s, T, lastId + Cardinality(insert), Touched(s),
              InstrumentsOf(job[s].file, Unplanned(s, insert)) \cap job[s].keep)
    /\ batches' = [batches EXCEPT ![job[s].batch].file = job[s].file,
                                  ![job[s].batch].how = "refresh"]
    /\ UNCHANGED lastBatch

LEMMA RefreshCases ==
  ASSUME ImportTypes, NEW s \in Importer, RefreshBatch(s)
  PROVE  Refuse(s) \/ \E T, drop, insert : RefreshesBatch(s, T, drop, insert)
<1>1. Doing(s, "refresh", "write") /\ JobTypes
  BY DEF RefreshBatch, ImportTypes
<1>2. job[s].file \in File /\ job[s].lines \in SUBSET DOMAIN Content[job[s].file]
  BY <1>1, PlannedJob
<1> DEFINE drop == Unmatched(BatchRows(job[s].batch), job[s].file, job[s].lines, job[s].keep)
           insert == Missing(job[s].batch, job[s].file, job[s].lines)
           T == Appended(Without(drop), job[s].file, insert, job[s].batch)
<1>3. Appends(T, Without(drop), job[s].file, insert, job[s].batch)
  <2>1. insert \subseteq job[s].lines
    BY DEF Missing
  <2>2. lastId \in Nat /\ DOMAIN Without(drop) \subseteq 1..lastId
    <3>. HIDE DEF drop
    <3>. QED  BY PartFits DEF Without
  <2>. HIDE DEF drop, insert
  <2>. QED  BY <1>2, <2>1, <2>2 DEF Appends
<1>4. ASSUME ~Refuse(s)  PROVE  RefreshesBatch(s, T, drop, insert)
  <2>1. Latest(job[s].batch, "AVANZA") /\ ReplaceRows(s, drop, insert)
    BY <1>4 DEF RefreshBatch
  <2>. HIDE DEF drop, insert
  <2>2. /\ lastId + Cardinality(insert) <= MaxId
        /\ AllDerive(T, Touched(s) \ job[s].keep)
        /\ Commit(s, T, lastId + Cardinality(insert), Touched(s),
                  InstrumentsOf(job[s].file, Unplanned(s, insert)) \cap job[s].keep)
        /\ batches' = [batches EXCEPT ![job[s].batch].file = job[s].file,
                                      ![job[s].batch].how = "refresh"]
        /\ UNCHANGED lastBatch
    BY <1>4, <2>1, Zenon DEF ReplaceRows, Touched, Unplanned, Without
  <2>. HIDE DEF T
  <2>. QED  BY <1>1, <1>3, <2>1, <2>2 DEF RefreshesBatch, drop, insert
<1>. QED  BY <1>4

RollsBack(s, T) ==
    /\ Doing(s, "rollback", "write") /\ job[s].batch \in DOMAIN batches
    /\ T = Without(BatchRows(job[s].batch))
    /\ AllDerive(T, {rows[n].instrument : n \in BatchRows(job[s].batch)})
    /\ Commit(s, T, lastId, {rows[n].instrument : n \in BatchRows(job[s].batch)}, {})
    /\ batches' = [c \in DOMAIN batches \ {job[s].batch} |-> batches[c]]
    /\ UNCHANGED lastBatch

LEMMA RollbackCases ==
  ASSUME NEW s \in Importer, Rollback(s)
  PROVE  Refuse(s) \/ \E T : RollsBack(s, T)
<1> DEFINE T == Without(BatchRows(job[s].batch))
<1>1. ASSUME ~Refuse(s)  PROVE  RollsBack(s, T)
  BY <1>1, Zenon DEF Rollback, RollsBack, Without
<1>. QED  BY <1>1

LEMMA WriteTypes ==
  ASSUME ImportTypes, NEW s \in Importer, NEW T, WritesBatch(s, T)
  PROVE  ImportTypes'
<1>1. TableFits(rows, lastId)
  BY DEF ImportTypes, LedgerInv, LedgerTypes, RowsHaveInstruments, TableFits
<1>2. TableFits(T, lastId + Cardinality(job[s].new))
  BY <1>1, AppendedFits DEF WritesBatch
<1>3. LedgerInv' /\ instruments' = Instrument /\ JobTypes'
  BY <1>2, CommitTypes DEF WritesBatch
<1>4. BatchTypes'
  <2>1. job[s].file \in File
    BY PlannedJob DEF WritesBatch, ImportTypes
  <2> DEFINE new == [source |-> SourceOf[job[s].file], file |-> job[s].file,
                     how |-> CASE job[s].allow -> "allowed"
                               [] ~job[s].allow /\ s \in outdated -> "raced"
                               [] OTHER -> "append"]
  <2>2. new \in Batch /\ new.source = SourceOf[new.file]
    BY <2>1 DEF Batch
  <2>3. /\ batches' = [c \in DOMAIN batches \cup {lastBatch + 1} |->
                         IF c \in DOMAIN batches THEN batches[c] ELSE new]
        /\ lastBatch' = lastBatch + 1 /\ lastBatch < MaxBatch
    BY DEF WritesBatch, NewBatch
  <2>. HIDE DEF new
  <2>4. MaxBatch \in Nat
    BY ImportBounds
  <2>5. lastBatch' \in 0..MaxBatch /\ DOMAIN batches' \subseteq 1..lastBatch'
    BY <2>3, <2>4 DEF ImportTypes, BatchTypes
  <2>. QED  BY <2>2, <2>3, <2>5 DEF ImportTypes, BatchTypes
<1>. QED  BY <1>3, <1>4 DEF ImportTypes

LEMMA RefreshTypes ==
  ASSUME ImportTypes, NEW s \in Importer, NEW T, NEW drop, NEW insert,
         RefreshesBatch(s, T, drop, insert)
  PROVE  ImportTypes'
<1>1. TableFits(Without(drop), lastId)
  BY PartFits DEF Without
<1>2. TableFits(T, lastId + Cardinality(insert))
  BY <1>1, AppendedFits DEF RefreshesBatch
<1>3. /\ job[s].file \in File /\ SourceOf[job[s].file] = "AVANZA"
      /\ job[s].keep \subseteq Instrument
  BY PlannedJob DEF RefreshesBatch, ImportTypes
<1>4. LedgerInv' /\ instruments' = Instrument /\ JobTypes'
  BY <1>2, <1>3, CommitTypes DEF RefreshesBatch
<1>5. BatchTypes'
  <2> DEFINE b == job[s].batch
  <2>1. b \in DOMAIN batches /\ batches[b].source = "AVANZA"
    BY DEF RefreshesBatch, Latest
  <2>2. /\ batches' = [batches EXCEPT ![b].file = job[s].file, ![b].how = "refresh"]
        /\ lastBatch' = lastBatch
    BY DEF RefreshesBatch
  <2>. HIDE DEF b
  <2>3. batches[b] \in Batch
    BY <2>1 DEF ImportTypes, BatchTypes
  <2> DEFINE r == [batches[b] EXCEPT !.file = job[s].file, !.how = "refresh"]
  <2>4. r \in Batch /\ r.source = SourceOf[r.file]
    BY <1>3, <2>1, <2>3 DEF Batch
  <2>5. batches' = [batches EXCEPT ![b] = r]
    BY <2>1, <2>2 DEF ImportTypes, BatchTypes
  <2>. HIDE DEF r
  <2>. QED  BY <2>1, <2>2, <2>4, <2>5 DEF ImportTypes, BatchTypes
<1>. QED  BY <1>4, <1>5 DEF ImportTypes

LEMMA RollbackTypes ==
  ASSUME ImportTypes, NEW s \in Importer, NEW T, RollsBack(s, T)
  PROVE  ImportTypes'
<1>1. TableFits(T, lastId)
  BY PartFits DEF RollsBack, Without
<1>2. LedgerInv' /\ instruments' = Instrument /\ JobTypes'
  BY <1>1, CommitTypes DEF RollsBack
<1>3. BatchTypes'
  BY DEF RollsBack, ImportTypes, BatchTypes
<1>. QED  BY <1>2, <1>3 DEF ImportTypes

LEMMA StepKeepsInstruments ==
  ASSUME NEW s \in Slot, Step(s)
  PROVE  UNCHANGED instruments
BY DEF Step, Post, Put, Delete, FindForReplace, FindForRemove, CheckCreate, CheckReplace,
       CheckOld, Insert, Update, Erase, Abandon, Advance, Finish, ledger

LEMMA EditTypes ==
  ASSUME ImportTypes, NEW s \in Slot, EditStep(s)
  PROVE  ImportTypes'
<1>1. LedgerInv'
  BY StepTypes DEF EditStep, ImportTypes
<1>2. instruments' = Instrument
  BY StepKeepsInstruments DEF EditStep, ImportTypes
<1>3. JobTypes' /\ BatchTypes'
  BY DEF EditStep, ImportTypes, JobTypes, BatchTypes, Planned
<1>. QED  BY <1>1, <1>2, <1>3 DEF ImportTypes

\* What an importer does besides committing: nothing is written.
Looks(s) == \/ \E f \in File : \E exclude \in SUBSET InstrumentsOf(f, DOMAIN Content[f]) :
                  \/ \E allow \in BOOLEAN : PlanAppend(s, f, exclude, allow)
                  \/ \E b \in 1..lastBatch : PlanRefresh(s, f, exclude, b)
            \/ \E b \in 1..lastBatch : StartRollback(s, b)
            \/ CheckDuplicate(s) \/ LookForBatch(s) \/ DropImport(s)

LEMMA ImportCases ==
  ASSUME ImportTypes, NEW s \in Importer, ImportStep(s)
  PROVE  \/ Looks(s)
         \/ Refuse(s)
         \/ \E T : WritesBatch(s, T)
         \/ \E T, drop, insert : RefreshesBatch(s, T, drop, insert)
         \/ \E T : RollsBack(s, T)
<1>1. CASE WriteBatch(s)    BY <1>1, WriteCases
<1>2. CASE RefreshBatch(s)  BY <1>2, RefreshCases
<1>3. CASE Rollback(s)      BY <1>3, RollbackCases
<1>. QED  BY <1>1, <1>2, <1>3 DEF ImportStep, Looks

LEMMA LooksTypes ==
  ASSUME ImportTypes, NEW s \in Importer, Looks(s)
  PROVE  ImportTypes'
  BY PlanTypes, LookTypes DEF Looks

LEMMA ImportTypesStep ==
  ASSUME ImportTypes, [ImportNext]_allVars
  PROVE  ImportTypes'
<1>1. CASE UNCHANGED allVars
  BY <1>1 DEF allVars, vars, importVars, ImportTypes, LedgerInv, LedgerTypes, RequestTypes,
              RowsHaveInstruments, JobTypes, BatchTypes
<1>2. ASSUME NEW s \in Importer, ImportStep(s)
      PROVE  ImportTypes'
  BY <1>2, ImportCases, LooksTypes, RefuseTypes, WriteTypes, RefreshTypes, RollbackTypes
<1>3. ASSUME NEW s \in Slot, EditStep(s)
      PROVE  ImportTypes'
  BY <1>3, EditTypes
<1>. QED  BY <1>1, <1>2, <1>3 DEF ImportNext

LEMMA ImportTypesInit == ImportInit => ImportTypes
<1> SUFFICES ASSUME ImportInit  PROVE ImportTypes
  OBVIOUS
<1>1. LedgerInv /\ instruments = Instrument
  BY WriteBounds DEF ImportInit, LedgerInv, LedgerTypes, RequestTypes, RowsHaveInstruments
<1>2. JobTypes /\ BatchTypes
  BY ImportBounds DEF ImportInit, JobTypes, BatchTypes
<1>. QED  BY <1>1, <1>2 DEF ImportTypes

LEMMA ImportTypesAlways == ImportSpec => []ImportTypes
<1>. QED  BY ImportTypesInit, ImportTypesStep, PTL DEF ImportSpec

-----------------------------------------------------------------------------
(* Repeats.                                                                    *)

\* What the duplicate check found still holds when its importer writes, unless another
\* commit came between: that commit outdates the plan.
ChecksHold ==
    \A s \in Importer \ outdated : Doing(s, "append", "write") /\ ~job[s].allow =>
        \A b \in DOMAIN batches : batches[b].file # job[s].file

RepeatsInv == ImportTypes /\ ChecksHold /\ RepeatsAreAllowed

LEMMA LooksOrRefuses ==
  ASSUME ImportTypes, NEW s \in Importer, Looks(s) \/ Refuse(s)
  PROVE  /\ UNCHANGED <<vars, batches, lastBatch>>
         /\ outdated \ {s} \subseteq outdated'
         /\ \A z \in Importer \ {s} : job'[z] = job[z]
BY DEF Looks, PlanAppend, PlanRefresh, StartRollback, CheckDuplicate, LookForBatch,
       DropImport, Continue, Refuse, ImportTypes, JobTypes

LEMMA CheckedRepeats ==
  ASSUME RepeatsInv, NEW s \in Importer, Looks(s) \/ Refuse(s),
         Doing(s, "append", "write")', ~job'[s].allow
  PROVE  \A b \in DOMAIN batches : batches[b].file # job'[s].file
<1>1. CASE CheckDuplicate(s)
  <2>1. job'[s] # NoRequest
    BY DEF Doing
  <2>2. ~Refuse(s)
    BY <2>1 DEF Refuse, RepeatsInv, ImportTypes, JobTypes
  <2>3. /\ job[s].file = job'[s].file /\ job[s].allow = job'[s].allow
        /\ ~(/\ \E b \in DOMAIN batches : batches[b].file = job[s].file
             /\ ~job[s].allow)
    BY <1>1, <2>2 DEF CheckDuplicate, Continue, Doing, RepeatsInv, ImportTypes, JobTypes, Job
  <2>. QED  BY <2>3
<1>2. CASE \E f \in File : \E exclude \in SUBSET InstrumentsOf(f, DOMAIN Content[f]) :
              \/ \E allow \in BOOLEAN : PlanAppend(s, f, exclude, allow)
              \/ \E b \in 1..lastBatch : PlanRefresh(s, f, exclude, b)
  <2>1. job'[s].at # "write"
    BY <1>2 DEF PlanAppend, PlanRefresh, Continue, RepeatsInv, ImportTypes, JobTypes
  <2>. QED  BY <2>1 DEF Doing
<1>3. CASE \E b \in 1..lastBatch : StartRollback(s, b)
  <2>1. job'[s].op # "append"
    BY <1>3 DEF StartRollback, Continue, RepeatsInv, ImportTypes, JobTypes
  <2>. QED  BY <2>1 DEF Doing
<1>4. CASE Refuse(s)
  BY <1>4 DEF Refuse, Doing, RepeatsInv, ImportTypes, JobTypes
<1>5. CASE LookForBatch(s) /\ ~Refuse(s)
  <2>1. job'[s].op # "append"
    BY <1>5 DEF LookForBatch, Continue, Doing, RepeatsInv, ImportTypes, JobTypes, Job
  <2>. QED  BY <2>1 DEF Doing
<1>. QED  BY <1>1, <1>2, <1>3, <1>4, <1>5 DEF Looks, DropImport

LEMMA LooksKeepRepeats ==
  ASSUME RepeatsInv, NEW s \in Importer, Looks(s) \/ Refuse(s)
  PROVE  ChecksHold' /\ RepeatsAreAllowed'
<1>1. /\ UNCHANGED batches /\ outdated \ {s} \subseteq outdated'
      /\ \A z \in Importer \ {s} : job'[z] = job[z]
  BY LooksOrRefuses DEF RepeatsInv
<1>2. RepeatsAreAllowed'
  BY <1>1 DEF RepeatsInv, RepeatsAreAllowed
<1>3. ASSUME NEW z \in Importer \ outdated', Doing(z, "append", "write")', ~job'[z].allow
      PROVE  \A b \in DOMAIN batches' : batches'[b].file # job'[z].file
  <2>1. CASE z = s
    BY <1>1, <1>3, <2>1, CheckedRepeats
  <2>2. CASE z # s
    BY <1>1, <1>3, <2>2 DEF RepeatsInv, ChecksHold, Doing
  <2>. QED  BY <2>1, <2>2
<1>. QED  BY <1>2, <1>3 DEF ChecksHold

\* After a commit every plan still to be written is outdated.
LEMMA CommitOutdates ==
  ASSUME ImportTypes, NEW s \in Importer, NEW table, NEW last, NEW touched, NEW unchecked,
         Commit(s, table, last, touched, unchecked)
  PROVE  ChecksHold'
<1>1. /\ \A z \in Importer : job'[z] = IF z = s THEN NoRequest ELSE job[z]
      /\ \A z \in Importer \ {s} : job[z] # NoRequest /\ job[z].op # "rollback"
            => z \in outdated'
  BY DEF Commit, Planned, ImportTypes, JobTypes
<1>. QED  BY <1>1 DEF ChecksHold, Doing

LEMMA WriteKeepsRepeats ==
  ASSUME RepeatsInv, NEW s \in Importer, NEW T, WritesBatch(s, T)
  PROVE  RepeatsAreAllowed'
<1> DEFINE how == CASE job[s].allow -> "allowed"
                    [] ~job[s].allow /\ s \in outdated -> "raced"
                    [] OTHER -> "append"
           new == [source |-> SourceOf[job[s].file], file |-> job[s].file, how |-> how]
<1>1. batches' = [c \in DOMAIN batches \cup {lastBatch + 1} |->
                    IF c \in DOMAIN batches THEN batches[c] ELSE new]
  BY DEF WritesBatch, NewBatch
<1>2. new.file = job[s].file /\ new.how = how
  OBVIOUS
<1>3. how = "append" => \A b \in DOMAIN batches : batches[b].file # job[s].file
  <2>1. how = "append" => s \notin outdated /\ ~job[s].allow
    OBVIOUS
  <2>2. Doing(s, "append", "write")
    BY DEF WritesBatch
  <2>. HIDE DEF how
  <2>. QED  BY <2>1, <2>2 DEF RepeatsInv, ChecksHold
<1>4. DOMAIN batches \subseteq 1..lastBatch /\ lastBatch \in Int
  BY DEF RepeatsInv, ImportTypes, BatchTypes
<1>. HIDE DEF new, how
<1>5. ASSUME NEW b \in DOMAIN batches', NEW c \in DOMAIN batches', b < c,
             batches'[b].file = batches'[c].file
      PROVE  batches'[c].how # "append"
  <2>1. CASE c \in DOMAIN batches
    <3>1. b \in DOMAIN batches
      BY <1>1, <1>4, <1>5, <2>1
    <3>. QED  BY <1>1, <1>5, <2>1, <3>1 DEF RepeatsInv, RepeatsAreAllowed
  <2>2. CASE c \notin DOMAIN batches
    <3>1. c = lastBatch + 1 /\ b \in DOMAIN batches
      BY <1>1, <1>4, <1>5, <2>2
    <3>. QED  BY <1>1, <1>2, <1>3, <1>5, <2>2, <3>1
  <2>. QED  BY <2>1, <2>2
<1>. QED  BY <1>5 DEF RepeatsAreAllowed

\* A refresh takes the latest batch of its broker, and its file is that broker's: no
\* later batch can hold the file it brings.
LEMMA RefreshKeepsRepeats ==
  ASSUME RepeatsInv, NEW s \in Importer, NEW T, NEW drop, NEW insert,
         RefreshesBatch(s, T, drop, insert)
  PROVE  RepeatsAreAllowed'
<1> DEFINE b == job[s].batch
<1>1. SourceOf[job[s].file] = "AVANZA"
  BY PlannedJob DEF RefreshesBatch, RepeatsInv, ImportTypes
<1>2. /\ b \in DOMAIN batches
      /\ \A c \in DOMAIN batches : batches[c].source = "AVANZA" => c <= b
      /\ batches' = [batches EXCEPT ![b].file = job[s].file, ![b].how = "refresh"]
  BY DEF RefreshesBatch, Latest
<1>. HIDE DEF b
<1>3. /\ batches \in [DOMAIN batches -> Batch] /\ DOMAIN batches \subseteq Int
      /\ \A c \in DOMAIN batches : batches[c].source = SourceOf[batches[c].file]
  BY DEF RepeatsInv, ImportTypes, BatchTypes
<1>4. /\ DOMAIN batches' = DOMAIN batches
      /\ \A c \in DOMAIN batches \ {b} : batches'[c] = batches[c]
      /\ batches'[b].file = job[s].file /\ batches'[b].how = "refresh"
  BY <1>2, <1>3 DEF Batch
<1>5. ASSUME NEW a \in DOMAIN batches, NEW c \in DOMAIN batches, a < c,
             batches'[a].file = batches'[c].file
      PROVE  batches'[c].how # "append"
  <2>1. CASE c = b
    BY <1>4, <2>1
  <2>2. CASE a = b
    <3>1. c # b
      BY <1>3, <1>5, <2>2
    <3>2. batches[c].source = "AVANZA"
      BY <1>1, <1>3, <1>4, <1>5, <2>2, <3>1
    <3>. QED  BY <1>2, <1>3, <1>5, <2>2, <3>2
  <2>3. CASE a # b /\ c # b
    BY <1>4, <1>5, <2>3 DEF RepeatsInv, RepeatsAreAllowed
  <2>. QED  BY <2>1, <2>2, <2>3
<1>. QED  BY <1>4, <1>5 DEF RepeatsAreAllowed

LEMMA RepeatsStep ==
  ASSUME RepeatsInv, [ImportNext]_allVars
  PROVE  RepeatsInv'
<1>1. ImportTypes'
  BY ImportTypesStep DEF RepeatsInv
<1>2. CASE UNCHANGED allVars
  BY <1>1, <1>2 DEF allVars, importVars, RepeatsInv, ChecksHold, Doing, RepeatsAreAllowed
<1>3. ASSUME NEW s \in Slot, EditStep(s)
      PROVE  RepeatsInv'
  <2>1. UNCHANGED <<batches, job>> /\ outdated \subseteq outdated'
    BY <1>3 DEF EditStep
  <2>. QED  BY <1>1, <2>1 DEF RepeatsInv, ChecksHold, Doing, RepeatsAreAllowed
<1>4. ASSUME NEW s \in Importer, ImportStep(s)
      PROVE  RepeatsInv'
  <2>1. CASE Looks(s) \/ Refuse(s)
    BY <1>1, <2>1, LooksKeepRepeats DEF RepeatsInv
  <2>2. ASSUME NEW T, WritesBatch(s, T)  PROVE  RepeatsInv'
    BY <1>1, <2>2, WriteKeepsRepeats, CommitOutdates DEF WritesBatch, RepeatsInv
  <2>3. ASSUME NEW T, NEW drop, NEW insert, RefreshesBatch(s, T, drop, insert)
        PROVE  RepeatsInv'
    BY <1>1, <2>3, RefreshKeepsRepeats, CommitOutdates DEF RefreshesBatch, RepeatsInv
  <2>4. ASSUME NEW T, RollsBack(s, T)  PROVE  RepeatsInv'
    <3>1. RepeatsAreAllowed'
      BY <2>4 DEF RollsBack, RepeatsInv, RepeatsAreAllowed
    <3>. QED  BY <1>1, <2>4, <3>1, CommitOutdates DEF RollsBack, RepeatsInv
  <2>. QED  BY <1>4, <2>1, <2>2, <2>3, <2>4, ImportCases DEF RepeatsInv
<1>. QED  BY <1>2, <1>3, <1>4 DEF ImportNext

\* duplicate_import: two live batches hold the same file only where the user allowed it, a
\* refresh brought it, or another commit came between an import's plan and its write.
THEOREM RepeatsNeedLeave == ImportSpec => []RepeatsAreAllowed
<1>1. ImportInit => RepeatsInv
  BY ImportTypesInit DEF ImportInit, RepeatsInv, ChecksHold, Doing, RepeatsAreAllowed
<1>2. RepeatsInv => RepeatsAreAllowed
  BY DEF RepeatsInv
<1>. QED  BY <1>1, <1>2, RepeatsStep, PTL DEF ImportSpec

\* An import, whatever came between its plan and its write, takes only rows of the batch
\* it refreshes or rolls back, and a refresh none of an instrument it protects.
THEOREM BatchesKeepApart == ImportSpec => ImportsTouchOnlyTheirBatch
<1>1. ASSUME ImportTypes, [ImportNext]_allVars
      PROVE  \A s \in Importer : job'[s] # job[s] =>
               \A n \in DOMAIN rows :
                  \/ n \in DOMAIN rows' /\ rows'[n] = rows[n]
                  \/ /\ job[s].op \in {"refresh", "rollback"} /\ rows[n].batch = job[s].batch
                     /\ job[s].op = "refresh" => rows[n].instrument \notin job[s].keep
  <2>1. CASE UNCHANGED allVars
    BY <2>1 DEF allVars, importVars
  <2>2. CASE \E s \in Slot : EditStep(s)
    BY <2>2 DEF EditStep
  <2>3. ASSUME NEW s \in Importer, ImportStep(s),
               NEW z \in Importer, job'[z] # job[z], NEW n \in DOMAIN rows
        PROVE  \/ n \in DOMAIN rows' /\ rows'[n] = rows[n]
               \/ /\ job[z].op \in {"refresh", "rollback"} /\ rows[n].batch = job[z].batch
                  /\ job[z].op = "refresh" => rows[n].instrument \notin job[z].keep
    <3>1. CASE Looks(s) \/ Refuse(s)
      BY <1>1, <3>1, LooksOrRefuses DEF vars
    <3>2. ASSUME NEW T, NEW last, NEW touched, NEW unchecked,
                 Commit(s, T, last, touched, unchecked)
          PROVE  z = s /\ rows' = T
      BY <1>1, <2>3, <3>2 DEF Commit, ImportTypes, JobTypes
    <3>3. ASSUME NEW T, WritesBatch(s, T)
          PROVE  n \in DOMAIN rows' /\ rows'[n] = rows[n]
      <4>1. Appends(T, rows, job[s].file, job[s].new, lastBatch + 1) /\ rows' = T
        BY <3>2, <3>3 DEF WritesBatch
      <4>. QED  BY <4>1, AppendedStays
    <3>4. ASSUME NEW T, NEW drop, NEW insert, RefreshesBatch(s, T, drop, insert)
          PROVE  \/ n \in DOMAIN rows' /\ rows'[n] = rows[n]
                 \/ /\ job[s].op = "refresh" /\ rows[n].batch = job[s].batch
                    /\ rows[n].instrument \notin job[s].keep
      <4>1. Appends(T, Without(drop), job[s].file, insert, job[s].batch) /\ rows' = T
        BY <3>2, <3>4 DEF RefreshesBatch
      <4>2. \A m \in DOMAIN rows \ drop : m \in DOMAIN rows' /\ rows'[m] = rows[m]
        <5>1. \A m \in DOMAIN Without(drop) : m \in DOMAIN rows' /\ rows'[m] = Without(drop)[m]
          BY <4>1, AppendedStays
        <5>. QED  BY <5>1 DEF Without
      <4>3. \A m \in drop : rows[m].batch = job[s].batch /\ rows[m].instrument \notin job[s].keep
        BY <3>4 DEF RefreshesBatch, Unmatched, BatchRows
      <4>4. job[s].op = "refresh"
        BY <3>4 DEF RefreshesBatch, Doing
      <4>. QED  BY <4>2, <4>3, <4>4
    <3>5. ASSUME NEW T, RollsBack(s, T)
          PROVE  \/ n \in DOMAIN rows' /\ rows'[n] = rows[n]
                 \/ job[s].op = "rollback" /\ rows[n].batch = job[s].batch
      BY <3>2, <3>5 DEF RollsBack, Without, BatchRows, Doing
    <3>. QED  BY <1>1, <2>3, <3>1, <3>2, <3>3, <3>4, <3>5, ImportCases
                 DEF WritesBatch, RefreshesBatch, RollsBack
  <2>. QED  BY <1>1, <2>1, <2>2, <2>3 DEF ImportNext
<1>. QED  BY <1>1, ImportTypesAlways, PTL DEF ImportSpec, ImportsTouchOnlyTheirBatch

-----------------------------------------------------------------------------
(* Counting: the lines and the rows of one trade, by fingerprint and exactly.  *)

TradeLines(f, lines, v) == {k \in lines : Fingerprint(Line(f, k)) = v}
TradeRows(v) == {n \in DOMAIN rows : Fingerprint(rows[n]) = v}
EqualLines(f, lines, c) == {k \in lines : Canonical(Line(f, k)) = c}
EqualRows(b, c) == {n \in BatchRows(b) : Canonical(rows[n]) = c}

LEMMA NewInClass ==
  ASSUME NEW f, NEW lines, NEW v
  PROVE  \A k \in TradeLines(f, lines, v) :
            k \in NewLines(f, lines) <=>
               ~(Rank(TradeLines(f, lines, v), k) <= Cardinality(TradeRows(v)))
<1> SUFFICES ASSUME NEW k \in TradeLines(f, lines, v)
             PROVE  k \in NewLines(f, lines) <=>
                      ~(Rank(TradeLines(f, lines, v), k) <= Cardinality(TradeRows(v)))
  OBVIOUS
<1>1. k \in lines /\ Fingerprint(Line(f, k)) = v
  BY DEF TradeLines
<1>2. {j \in lines : j <= k /\ Fingerprint(Line(f, j)) = v}
        = {j \in TradeLines(f, lines, v) : j <= k}
  BY DEF TradeLines
<1>3. k \in NewLines(f, lines) <=>
        ~(Cardinality({j \in lines : j <= k /\ Fingerprint(Line(f, j)) = v})
            <= Cardinality({n \in DOMAIN rows : Fingerprint(rows[n]) = v}))
  BY <1>1 DEF NewLines, Matched
<1>. QED  BY <1>2, <1>3 DEF Rank, TradeRows

LEMMA MissingInClass ==
  ASSUME NEW b, NEW f, NEW lines, NEW c
  PROVE  \A k \in EqualLines(f, lines, c) :
            k \in Missing(b, f, lines) <=>
               ~(Rank(EqualLines(f, lines, c), k) <= Cardinality(EqualRows(b, c)))
<1> SUFFICES ASSUME NEW k \in EqualLines(f, lines, c)
             PROVE  k \in Missing(b, f, lines) <=>
                      ~(Rank(EqualLines(f, lines, c), k) <= Cardinality(EqualRows(b, c)))
  OBVIOUS
<1>1. k \in lines /\ Canonical(Line(f, k)) = c
  BY DEF EqualLines
<1>2. {j \in lines : j <= k /\ Canonical(Line(f, j)) = c}
        = {j \in EqualLines(f, lines, c) : j <= k}
  BY DEF EqualLines
<1> DEFINE own == [n \in BatchRows(b) |-> rows[n]]
<1>3. {n \in DOMAIN own : Canonical(own[n]) = c} = EqualRows(b, c)
  BY DEF EqualRows
<1>. HIDE DEF own
<1>4. k \in Missing(b, f, lines) <=>
        ~(Cardinality({j \in lines : j <= k /\ Canonical(Line(f, j)) = c})
            <= Cardinality({n \in DOMAIN own : Canonical(own[n]) = c}))
  BY <1>1 DEF Missing, Matched, own
<1>. QED  BY <1>2, <1>3, <1>4 DEF Rank

LEMMA TableIsFinite ==
  ASSUME LedgerTypes
  PROVE  rows = [n \in DOMAIN rows |-> rows[n]] /\ DOMAIN rows \in SUBSET Int
         /\ IsFiniteSet(DOMAIN rows)
<1>1. lastId \in Nat /\ DOMAIN rows \subseteq 1..lastId
  BY WriteBounds DEF LedgerTypes
<1>2. IsFiniteSet(1..lastId)
  BY <1>1, FS_Interval
<1>3. IsFiniteSet(DOMAIN rows)
  BY <1>1, <1>2, FS_Subset
<1>. QED  BY <1>1, <1>3 DEF LedgerTypes

LEMMA SomeRows ==
  ASSUME LedgerTypes, NEW S \in SUBSET DOMAIN rows
  PROVE  S \in SUBSET Int /\ IsFiniteSet(S) /\ Cardinality(S) \in Nat
<1>1. DOMAIN rows \in SUBSET Int /\ IsFiniteSet(DOMAIN rows)
  BY TableIsFinite
<1>2. IsFiniteSet(S)
  BY <1>1, FS_Subset
<1>. QED  BY <1>1, <1>2, FS_CardinalityType

LEMMA SomeLines ==
  ASSUME NEW f \in File, NEW lines \in SUBSET DOMAIN Content[f]
  PROVE  lines \in SUBSET Int /\ IsFiniteSet(lines) /\ Cardinality(lines) \in Nat
<1>1. lines \subseteq Int /\ IsFiniteSet(lines)
  BY LinesOfFile
<1>. QED  BY <1>1, FS_CardinalityType

\* Equal rows are the same trade.
LEMMA EqualIsTrade ==
  ASSUME NEW r, NEW q, Canonical(r) = Canonical(q)
  PROVE  Fingerprint(r) = Fingerprint(q)
BY DEF Canonical, Fingerprint

\* The lines a refresh finds in its batch are at most the stored rows of their trade.
LEMMA FoundLinesAreStored ==
  ASSUME LedgerTypes, NEW b, NEW f \in File, NEW lines \in SUBSET DOMAIN Content[f], NEW v,
         NEW M, M = TradeLines(f, lines, v) \ Missing(b, f, lines)
  PROVE  Cardinality(M) <= Cardinality(TradeRows(v))
<1> DEFINE class(k) == EqualLines(f, lines, Canonical(Line(f, k)))
           stored(k) == EqualRows(b, Canonical(Line(f, k)))
           Place(k, n) == n \in stored(k) /\ Rank(stored(k), n) = Rank(class(k), k)
           g == [k \in M |-> CHOOSE n : Place(k, n)]
<1>1. ASSUME NEW k \in M
      PROVE  \E n : Place(k, n)
  <2>1. k \in class(k)
    BY <1>1 DEF TradeLines, EqualLines
  <2>2. Rank(class(k), k) <= Cardinality(stored(k))
    BY <1>1, <2>1, MissingInClass
  <2>3. class(k) \in SUBSET Int /\ IsFiniteSet(class(k))
    <3>1. class(k) \in SUBSET DOMAIN Content[f]
      BY DEF EqualLines
    <3>. HIDE DEF class
    <3>. QED  BY <3>1, SomeLines
  <2>4. stored(k) \in SUBSET Int /\ IsFiniteSet(stored(k)) /\ Cardinality(stored(k)) \in Nat
    <3>1. stored(k) \in SUBSET DOMAIN rows
      BY DEF EqualRows, BatchRows
    <3>. HIDE DEF stored
    <3>. QED  BY <3>1, SomeRows
  <2>5. Rank(class(k), k) \in 1..Cardinality(class(k)) /\ Cardinality(class(k)) \in Nat
    <3>. HIDE DEF class
    <3>. QED  BY <2>1, <2>3, Ranks
  <2>6. Rank(class(k), k) \in 1..Cardinality(stored(k))
    <3>. HIDE DEF class, stored
    <3>. QED  BY <2>2, <2>4, <2>5
  <2>. HIDE DEF class, stored
  <2>. QED  BY <2>4, <2>6, RankReached DEF Place
<1>2. \A k \in M : Place(k, g[k])
  <2>. HIDE DEF Place
  <2>. QED  BY <1>1
<1>3. \A k \in M : g[k] \in TradeRows(v)
  <2> SUFFICES ASSUME NEW k \in M  PROVE g[k] \in TradeRows(v)
    OBVIOUS
  <2>1. /\ g[k] \in DOMAIN rows /\ Canonical(rows[g[k]]) = Canonical(Line(f, k))
        /\ Fingerprint(Line(f, k)) = v
    <3>. HIDE DEF g
    <3>. QED  BY <1>2 DEF EqualRows, BatchRows, TradeLines
  <2>. HIDE DEF g
  <2>. QED  BY <2>1, EqualIsTrade DEF TradeRows
<1>4. ASSUME NEW j \in M, NEW k \in M, g[j] = g[k]
      PROVE  j = k
  <2>. HIDE DEF g
  <2>1. Canonical(Line(f, j)) = Canonical(Line(f, k))
    BY <1>2, <1>4 DEF EqualRows
  <2>2. class(j) = class(k) /\ Rank(class(k), j) = Rank(class(k), k)
    BY <1>2, <1>4, <2>1
  <2>3. j \in class(k) /\ k \in class(k)
    BY <2>1 DEF EqualLines, TradeLines
  <2>4. class(k) \in SUBSET Int /\ IsFiniteSet(class(k))
    <3>1. class(k) \in SUBSET DOMAIN Content[f]
      BY DEF EqualLines
    <3>. HIDE DEF class
    <3>. QED  BY <3>1, SomeLines
  <2>. HIDE DEF class
  <2>. QED  BY <2>2, <2>3, <2>4, RankInjective
<1>5. g \in Injection(M, TradeRows(v))
  <2>1. g \in [M -> TradeRows(v)]
    BY <1>3
  <2>. HIDE DEF g
  <2>. QED  BY <1>4, <2>1 DEF Injection, IsInjective
<1>6. IsFiniteSet(TradeRows(v))
  <2>1. TradeRows(v) \in SUBSET DOMAIN rows
    BY DEF TradeRows
  <2>. QED  BY <2>1, SomeRows
<1>. HIDE DEF g
<1>. QED  BY <1>5, <1>6, FS_Injection

\* So a refresh that adds no line of a trade the plan called stored adds all the new ones.
LEMMA NewLinesAreMissing ==
  ASSUME LedgerTypes, NEW b, NEW f \in File, NEW lines \in SUBSET DOMAIN Content[f], NEW v,
         TradeLines(f, lines, v) \cap Missing(b, f, lines) \subseteq NewLines(f, lines)
  PROVE  TradeLines(f, lines, v) \cap NewLines(f, lines) \subseteq Missing(b, f, lines)
<1> DEFINE L == TradeLines(f, lines, v)
           N == Cardinality(TradeRows(v))
           M == L \ Missing(b, f, lines)
           old == {k \in L : Rank(L, k) <= N}
<1> SUFFICES ASSUME NEW k \in L, k \in NewLines(f, lines), k \notin Missing(b, f, lines)
             PROVE  FALSE
  OBVIOUS
<1>1. \A j \in L : j \in NewLines(f, lines) <=> ~(Rank(L, j) <= N)
  BY NewInClass
<1>2. L \in SUBSET Int /\ IsFiniteSet(L) /\ Cardinality(L) \in Nat
  <2>1. L \in SUBSET DOMAIN Content[f]
    BY DEF TradeLines
  <2>. HIDE DEF L
  <2>. QED  BY <2>1, SomeLines
<1>3. N \in Nat
  <2>1. TradeRows(v) \in SUBSET DOMAIN rows
    BY DEF TradeRows
  <2>. QED  BY <2>1, SomeRows
<1>4. Cardinality(M) <= N
  BY FoundLinesAreStored
<1>5. old \cup {k} \in SUBSET M /\ M \in SUBSET L /\ k \notin old
  <2>. HIDE DEF L, N
  <2>. QED  BY <1>1 DEF L
<1>6. Rank(L, k) \in 1..Cardinality(L) /\ ~(Rank(L, k) <= N)
  <2>. HIDE DEF L, N
  <2>. QED  BY <1>1, <1>2, Ranks
<1>7. Cardinality(old) = N /\ IsFiniteSet(old)
  <2>. HIDE DEF L, N
  <2>1. N < Cardinality(L)
    BY <1>2, <1>3, <1>6
  <2>2. old \in SUBSET L
    OBVIOUS
  <2>. QED  BY <1>2, <1>3, <2>1, <2>2, FirstOnes, FS_Subset
<1>. HIDE DEF L, N, M, old
<1>8. Cardinality(old \cup {k}) = N + 1
  BY <1>5, <1>7, FS_AddElement
<1>9. IsFiniteSet(M) /\ Cardinality(old \cup {k}) <= Cardinality(M) /\ Cardinality(M) \in Nat
  BY <1>2, <1>5, FS_Subset, FS_CardinalityType
<1>. QED  BY <1>3, <1>4, <1>8, <1>9

-----------------------------------------------------------------------------
(* The entries a plan derives, and the ones a commit stores: the same trades   *)
(* in the same order, under other ids.                                         *)

PlanEntries(f, lines, i) ==
    {Entry(lastId + k, Line(f, k)) : k \in {j \in lines : Content[f][j].instrument = i}}
StoredEntries(f, insert, lines, i) ==
    {Entry(NewId(insert, k), Line(f, k)) : k \in {j \in lines : Content[f][j].instrument = i}}

LEMMA LineEntry ==
  ASSUME NEW f \in File, NEW k \in DOMAIN Content[f], NEW id \in Int
  PROVE  /\ IsEntry(Entry(id, Line(f, k))) /\ Entry(id, Line(f, k)).id = id
         /\ Entry(id, Line(f, k)).date = Line(f, k).date
         /\ Entry(id, Line(f, k)).kind = Line(f, k).kind
         /\ Entry(id, Line(f, k)).quantity = Line(f, k).quantity
         /\ Line(f, k).date \in Int
<1>1. HasColumns(Content[f][k])
  BY ImportBounds
<1>2. HasColumns(Line(f, k))
  BY <1>1, StoredColumns DEF Line
<1>. QED  BY <1>2, RowEntry DEF HasColumns

\* A ledger with the entries of some lines added, numbered above it in their order.
LEMMA ExtendedLedger ==
  ASSUME NEW L, IsLedger(L), NEW last \in Nat, \A t \in L : t.id <= last,
         NEW f \in File, NEW K \in SUBSET DOMAIN Content[f], NEW id \in [K -> Int],
         \A k \in K : last < id[k],
         \A j, k \in K : j < k => id[j] < id[k]
  PROVE  IsLedger(L \cup {Entry(id[k], Line(f, k)) : k \in K})
<1> DEFINE E == {Entry(id[k], Line(f, k)) : k \in K}
           g == [k \in K |-> Entry(id[k], Line(f, k))]
<1>1. K \in SUBSET Int /\ IsFiniteSet(K)
  BY SomeLines
<1>2. IsFiniteSet(E)
  <2>1. g \in Surjection(K, E)
    BY DEF Surjection
  <2>. HIDE DEF g, E
  <2>. QED  BY <1>1, <2>1, FS_Surjection
<1>3. \A k \in K : /\ IsEntry(Entry(id[k], Line(f, k)))
                   /\ Entry(id[k], Line(f, k)).id = id[k]
  BY LineEntry
<1>4. \A j, k \in K : id[j] = id[k] => j = k
  <2> SUFFICES ASSUME NEW j \in K, NEW k \in K, id[j] = id[k]  PROVE j = k
    OBVIOUS
  <2>1. ~(j < k) /\ ~(k < j)
    OBVIOUS
  <2>. QED  BY <1>1, <2>1
<1>5. \A t \in E : IsEntry(t) /\ last < t.id
  BY <1>3
<1>6. \A t, u \in E : t.id = u.id => t = u
  BY <1>3, <1>4
<1>. HIDE DEF E
<1>7. IsFiniteSet(L \cup E)
  BY <1>2, FS_Union DEF IsLedger
<1>8. \A t \in L, u \in E : t.id # u.id
  BY <1>5 DEF IsLedger, IsEntry
<1>. QED  BY <1>5, <1>6, <1>7, <1>8 DEF IsLedger, E

LEMMA Renumbered ==
  ASSUME NEW L, IsLedger(L), NEW last \in Nat, \A t \in L : t.id <= last,
         NEW f \in File, NEW K \in SUBSET DOMAIN Content[f],
         NEW id \in [K -> Int], NEW jd \in [K -> Int],
         \A k \in K : last < id[k] /\ last < jd[k],
         \A j, k \in K : j < k => id[j] < id[k] /\ jd[j] < jd[k]
  PROVE  DerivePosition(L \cup {Entry(jd[k], Line(f, k)) : k \in K})
           = DerivePosition(L \cup {Entry(id[k], Line(f, k)) : k \in K})
<1> DEFINE A == {Entry(id[k], Line(f, k)) : k \in K}
           B == {Entry(jd[k], Line(f, k)) : k \in K}
           Of(t) == CHOOSE k \in K : id[k] = t.id
           h == [t \in L \cup A |-> IF t \in L THEN t
                                    ELSE Entry(jd[Of(t)], Line(f, Of(t)))]
<1>1. K \in SUBSET Int
  BY SomeLines
<1>2. \A j, k \in K : id[j] = id[k] => j = k
  <2> SUFFICES ASSUME NEW j \in K, NEW k \in K, id[j] = id[k]  PROVE j = k
    OBVIOUS
  <2>1. ~(j < k) /\ ~(k < j)
    OBVIOUS
  <2>. QED  BY <1>1, <2>1
<1>3. IsLedger(L \cup A) /\ IsLedger(L \cup B)
  BY ExtendedLedger
<1>4. \A k \in K : /\ Entry(id[k], Line(f, k)).id = id[k]
                   /\ Entry(jd[k], Line(f, k)).id = jd[k]
                   /\ Entry(id[k], Line(f, k)).date = Line(f, k).date
                   /\ Entry(jd[k], Line(f, k)).date = Line(f, k).date
                   /\ Entry(id[k], Line(f, k)).kind = Line(f, k).kind
                   /\ Entry(jd[k], Line(f, k)).kind = Line(f, k).kind
                   /\ Entry(id[k], Line(f, k)).quantity = Line(f, k).quantity
                   /\ Entry(jd[k], Line(f, k)).quantity = Line(f, k).quantity
                   /\ Line(f, k).date \in Int
  BY LineEntry
<1>5. \A t \in L : t.id \in Int /\ t.date \in Int /\ t.id <= last
  BY DEF IsLedger, IsEntry, HasColumns
<1>6. \A k \in K : Entry(id[k], Line(f, k)) \notin L
  BY <1>4, <1>5
<1>7. \A k \in K : h[Entry(id[k], Line(f, k))] = Entry(jd[k], Line(f, k))
  <2> SUFFICES ASSUME NEW k \in K
               PROVE  h[Entry(id[k], Line(f, k))] = Entry(jd[k], Line(f, k))
    OBVIOUS
  <2>1. Of(Entry(id[k], Line(f, k))) = k
    BY <1>2, <1>4
  <2>2. Entry(id[k], Line(f, k)) \in A
    OBVIOUS
  <2>. HIDE DEF Of, A
  <2>. QED  BY <1>6, <2>1, <2>2
<1>8. \A t \in L : h[t] = t
  OBVIOUS
<1>9. DOMAIN h = L \cup A /\ h = [t \in L \cup A |-> h[t]]
  OBVIOUS
<1>. HIDE DEF h
<1>10. h \in [L \cup A -> L \cup B]
  BY <1>7, <1>8, <1>9
<1>11. \A t \in L \cup A : h[t].kind = t.kind /\ h[t].quantity = t.quantity
  BY <1>4, <1>7, <1>8
<1>12. \A t, u \in L \cup A : Before(t, u) => Before(h[t], h[u])
  <2>1. \A t \in L, k \in K :
          /\ Before(t, Entry(id[k], Line(f, k))) <=> Before(t, Entry(jd[k], Line(f, k)))
          /\ Before(Entry(id[k], Line(f, k)), t) <=> Before(Entry(jd[k], Line(f, k)), t)
    BY <1>4, <1>5 DEF Before
  <2>2. \A j, k \in K : Before(Entry(id[j], Line(f, j)), Entry(id[k], Line(f, k)))
           => Before(Entry(jd[j], Line(f, j)), Entry(jd[k], Line(f, k)))
    <3> SUFFICES ASSUME NEW j \in K, NEW k \in K,
                        Before(Entry(id[j], Line(f, j)), Entry(id[k], Line(f, k)))
                 PROVE  Before(Entry(jd[j], Line(f, j)), Entry(jd[k], Line(f, k)))
      OBVIOUS
    <3>1. CASE Line(f, j).date < Line(f, k).date
      BY <1>4, <3>1 DEF Before
    <3>2. CASE Line(f, j).date = Line(f, k).date /\ id[j] < id[k]
      <4>1. ~(k < j) /\ j # k
        BY <3>2
      <4>2. j < k
        BY <1>1, <4>1
      <4>. QED  BY <1>4, <3>2, <4>2 DEF Before
    <3>. QED  BY <1>4, <3>1, <3>2 DEF Before
  <2>3. \A t \in A : \E k \in K : t = Entry(id[k], Line(f, k)) /\ h[t] = Entry(jd[k], Line(f, k))
    BY <1>7
  <2>. HIDE DEF A
  <2>. QED  BY <1>8, <2>1, <2>2, <2>3
<1>13. {h[t] : t \in L \cup A} = L \cup B
  <2>1. \A t \in L \cup A : h[t] \in L \cup B
    BY <1>10
  <2>2. \A u \in L \cup B : \E t \in L \cup A : h[t] = u
    BY <1>7, <1>8
  <2>. QED  BY <2>1, <2>2
<1>. HIDE DEF A, B
<1>14. DerivePosition(L \cup B) = DerivePosition(L \cup A)
  BY <1>3, <1>10, <1>11, <1>12, <1>13, SameOrder
<1>. QED  BY <1>14 DEF A, B

-----------------------------------------------------------------------------
(* The imports and the ledgers.                                                *)

\* What a plan found holds until another write comes between.
PlanHolds(s) ==
    LET f == job[s].file  new == job[s].new IN
    /\ new = NewLines(f, job[s].lines)
    /\ \A i \in InstrumentsOf(f, new) :
          Derivable(LedgerFor(rows, i) \cup PlanEntries(f, new, i))

PlansHold ==
    \A s \in Importer \ outdated :
        job[s] # NoRequest /\ job[s].op # "rollback" => PlanHolds(s)

ImportInv == ImportTypes /\ FindingsHold /\ OnlyRacesBreakLedgers /\ PlansHold

LEMMA PlanStays ==
  ASSUME NEW s \in Importer, PlanHolds(s), UNCHANGED <<rows, lastId>>,
         job'[s].file = job[s].file, job'[s].lines = job[s].lines, job'[s].new = job[s].new
  PROVE  PlanHolds(s)'
<1>1. \A f, lines : NewLines(f, lines)' = NewLines(f, lines)
  BY DEF NewLines, Matched
<1>2. \A f, lines, i : PlanEntries(f, lines, i)' = PlanEntries(f, lines, i)
  BY DEF PlanEntries
<1>. QED  BY <1>1, <1>2 DEF PlanHolds

LEMMA CommitDerives ==
  ASSUME ImportInv, NEW s \in Importer, NEW T, NEW last, NEW touched, NEW unchecked,
         Commit(s, T, last, touched, unchecked),
         \A i : i \notin touched => LedgerFor(T, i) = LedgerFor(rows, i),
         \A i \in Instrument \ (raced \cup unchecked) : Derivable(LedgerFor(T, i))
  PROVE  FindingsHold' /\ OnlyRacesBreakLedgers' /\ PlansHold'
<1>1. /\ rows' = T /\ req' = req /\ raced' = raced \cup unchecked
      /\ overtaken' = overtaken \cup {z \in Slot : Checked(z) \cap touched # {}}
  BY DEF Commit
<1>2. FindingsHold'
  <2>1. \A z \in Slot \ overtaken' : Found(z)'
    BY <1>1, FindingsKept DEF ImportInv, FindingsHold
  <2>. QED  BY <2>1 DEF FindingsHold
<1>3. OnlyRacesBreakLedgers'
  BY <1>1 DEF OnlyRacesBreakLedgers
<1>4. PlansHold'
  <2>1. /\ \A z \in Importer : job'[z] = IF z = s THEN NoRequest ELSE job[z]
        /\ \A z \in Importer \ {s} : job[z] # NoRequest /\ job[z].op # "rollback"
              => z \in outdated'
    BY DEF Commit, Planned, ImportInv, ImportTypes, JobTypes
  <2>. QED  BY <2>1 DEF PlansHold
<1>. QED  BY <1>2, <1>3, <1>4

LEMMA WriteDerives ==
  ASSUME ImportInv, NEW s \in Importer, NEW T, WritesBatch(s, T)
  PROVE  FindingsHold' /\ OnlyRacesBreakLedgers' /\ PlansHold'
<1> DEFINE f == job[s].file
           lines == job[s].new
           affected == InstrumentsOf(f, lines)
<1>1. /\ Appends(T, rows, f, lines, lastBatch + 1) /\ AllDerive(T, affected)
      /\ Commit(s, T, lastId + Cardinality(lines), affected, {})
  BY DEF WritesBatch
<1>. HIDE DEF lines, f
<1>2. \A i : i \notin affected => LedgerFor(T, i) = LedgerFor(rows, i)
  <2> SUFFICES ASSUME NEW i, i \notin affected  PROVE LedgerFor(T, i) = LedgerFor(rows, i)
    OBVIOUS
  <2>1. {j \in lines : Content[f][j].instrument = i} = {}
    BY DEF InstrumentsOf
  <2>2. LedgerFor(T, i) = LedgerFor(rows, i) \cup
             {Entry(NewId(lines, k), Line(f, k)) :
                k \in {j \in lines : Content[f][j].instrument = i}}
    BY <1>1, AppendedLedgers
  <2>. QED  BY <2>1, <2>2
<1>3. \A i \in Instrument \ (raced \cup {}) : Derivable(LedgerFor(T, i))
  BY <1>1, <1>2 DEF AllDerive, ImportInv, OnlyRacesBreakLedgers
<1>. QED  BY <1>1, <1>2, <1>3, CommitDerives

LEMMA WithoutLedgers ==
  ASSUME NEW gone, NEW i, \A n \in gone \cap DOMAIN rows : rows[n].instrument # i
  PROVE  LedgerFor(Without(gone), i) = LedgerFor(rows, i)
<1>1. {n \in DOMAIN Without(gone) : Without(gone)[n].instrument = i}
        = {n \in DOMAIN rows : rows[n].instrument = i}
  BY DEF Without
<1>2. \A n \in DOMAIN Without(gone) : Without(gone)[n] = rows[n]
  BY DEF Without
<1>. QED  BY <1>1, <1>2 DEF LedgerFor

LEMMA RollbackDerives ==
  ASSUME ImportInv, NEW s \in Importer, NEW T, RollsBack(s, T)
  PROVE  FindingsHold' /\ OnlyRacesBreakLedgers' /\ PlansHold'
<1> DEFINE b == job[s].batch
           affected == {rows[n].instrument : n \in BatchRows(b)}
<1>1. /\ T = Without(BatchRows(b)) /\ AllDerive(T, affected)
      /\ Commit(s, T, lastId, affected, {})
  BY DEF RollsBack
<1>2. \A i : i \notin affected => LedgerFor(T, i) = LedgerFor(rows, i)
  <2> SUFFICES ASSUME NEW i, i \notin affected  PROVE LedgerFor(T, i) = LedgerFor(rows, i)
    OBVIOUS
  <2>1. \A n \in BatchRows(b) \cap DOMAIN rows : rows[n].instrument # i
    OBVIOUS
  <2>. HIDE DEF b
  <2>. QED  BY <1>1, <2>1, WithoutLedgers
<1>. HIDE DEF affected
<1>3. \A i \in Instrument \ (raced \cup {}) : Derivable(LedgerFor(T, i))
  BY <1>1, <1>2 DEF AllDerive, ImportInv, OnlyRacesBreakLedgers
<1>. QED  BY <1>1, <1>2, <1>3, CommitDerives

\* A plan nobody overtook derives what the refresh stores of the lines it called new.
LEMMA PlannedDerives ==
  ASSUME LedgerTypes, NEW f \in File, NEW insert \in SUBSET DOMAIN Content[f],
         NEW new \in SUBSET DOMAIN Content[f], NEW i,
         {j \in insert : Content[f][j].instrument = i} = {j \in new : Content[f][j].instrument = i},
         Derivable(LedgerFor(rows, i) \cup PlanEntries(f, new, i))
  PROVE  Derivable(LedgerFor(rows, i) \cup
                   {Entry(NewId(insert, k), Line(f, k)) :
                      k \in {j \in insert : Content[f][j].instrument = i}})
<1> DEFINE K == {j \in insert : Content[f][j].instrument = i}
           id == [k \in K |-> lastId + k]
           jd == [k \in K |-> NewId(insert, k)]
           L == LedgerFor(rows, i)
<1>1. lastId \in Nat /\ DOMAIN rows \subseteq 1..lastId
  BY WriteBounds DEF LedgerTypes
<1>2. IsLedger(L) /\ \A t \in L : t.id <= lastId
  <2>1. IsLedger(L) /\ \A t \in L : t.id \in DOMAIN rows
    BY TableLedgers
  <2>. QED  BY <1>1, <2>1
<1>3. K \in SUBSET DOMAIN Content[f] /\ \A k \in K : k \in Nat /\ 0 < k
  <2>1. Len(Content[f]) \in Nat /\ DOMAIN Content[f] = 1..Len(Content[f])
    BY FilesAreLists
  <2>. QED  BY <2>1
<1>4. /\ \A k \in insert : Rank(insert, k) \in Nat /\ 0 < Rank(insert, k)
      /\ \A j, k \in insert : j < k => Rank(insert, j) < Rank(insert, k)
  <2>1. insert \in SUBSET Int /\ IsFiniteSet(insert)
    BY SomeLines
  <2>2. /\ Cardinality(insert) \in Nat
        /\ \A k \in insert : Rank(insert, k) \in 1..Cardinality(insert)
        /\ \A j, k \in insert : j < k => Rank(insert, j) < Rank(insert, k)
    BY <2>1, Ranks
  <2>. QED  BY <2>2
<1>5. id \in [K -> Int] /\ jd \in [K -> Int]
  BY <1>1, <1>3, <1>4 DEF NewId
<1>6. /\ \A k \in K : lastId < id[k] /\ lastId < jd[k]
      /\ \A j, k \in K : j < k => id[j] < id[k] /\ jd[j] < jd[k]
  BY <1>1, <1>3, <1>4 DEF NewId
<1>7. PlanEntries(f, new, i) = {Entry(id[k], Line(f, k)) : k \in K}
  BY DEF PlanEntries
<1>8. {Entry(NewId(insert, k), Line(f, k)) : k \in K} = {Entry(jd[k], Line(f, k)) : k \in K}
  OBVIOUS
<1>9. DerivePosition(L \cup {Entry(jd[k], Line(f, k)) : k \in K})
        = DerivePosition(L \cup {Entry(id[k], Line(f, k)) : k \in K})
  <2>. HIDE DEF K, id, jd, L
  <2>. QED  BY <1>1, <1>2, <1>3, <1>5, <1>6, Renumbered
<1>. HIDE DEF id, jd, L
<1>. QED  BY <1>7, <1>8, <1>9 DEF Derivable, L

\* Of a protected instrument nothing goes, and what is added is nothing or what the plan
\* derived; every other instrument the refresh touches is derived again.
LEMMA RefreshDerives ==
  ASSUME ImportInv, NEW s \in Importer, NEW T, NEW drop, NEW insert,
         RefreshesBatch(s, T, drop, insert)
  PROVE  FindingsHold' /\ OnlyRacesBreakLedgers' /\ PlansHold'
<1> DEFINE f == job[s].file
           b == job[s].batch
           lines == job[s].lines
           new == job[s].new
           keep == job[s].keep
           unchecked == InstrumentsOf(f, Unplanned(s, insert)) \cap keep
           Added(i) == {Entry(NewId(insert, k), Line(f, k)) :
                          k \in {j \in insert : Content[f][j].instrument = i}}
<1>1. /\ drop = Unmatched(BatchRows(b), f, lines, keep) /\ insert = Missing(b, f, lines)
      /\ Appends(T, Without(drop), f, insert, b) /\ AllDerive(T, Touched(s) \ keep)
      /\ Commit(s, T, lastId + Cardinality(insert), Touched(s), unchecked)
      /\ Doing(s, "refresh", "write")
  BY DEF RefreshesBatch
<1>2. /\ f \in File /\ lines \in SUBSET DOMAIN Content[f] /\ new \in SUBSET DOMAIN Content[f]
      /\ new \subseteq lines
  BY <1>1, PlannedJob DEF ImportInv, ImportTypes
<1>3. Touched(s) = {rows[n].instrument : n \in BatchRows(b)} \cup InstrumentsOf(f, lines)
  BY DEF Touched
<1>4. s \notin outdated => PlanHolds(s)
  <2>1. job[s] # NoRequest /\ job[s].op # "rollback"
    BY <1>1 DEF Doing
  <2>. QED  BY <2>1 DEF ImportInv, PlansHold
<1>5. LedgerTypes
  BY DEF ImportInv, ImportTypes, LedgerInv
<1>6. insert \in SUBSET lines
  BY <1>1 DEF Missing
<1>. HIDE DEF f, b, lines, new, keep
<1>7. \A i : LedgerFor(T, i) = LedgerFor(Without(drop), i) \cup Added(i)
  BY <1>1, AppendedLedgers
<1>8. \A i : i \in keep \/ i \notin Touched(s) =>
        LedgerFor(T, i) = LedgerFor(rows, i) \cup Added(i)
  <2> SUFFICES ASSUME NEW i, i \in keep \/ i \notin Touched(s)
               PROVE  LedgerFor(T, i) = LedgerFor(rows, i) \cup Added(i)
    OBVIOUS
  <2>1. \A n \in drop \cap DOMAIN rows : rows[n].instrument # i
    BY <1>1, <1>3 DEF Unmatched
  <2>2. LedgerFor(Without(drop), i) = LedgerFor(rows, i)
    BY <2>1, WithoutLedgers
  <2>. QED  BY <1>7, <2>2
<1>9. \A i : {j \in insert : Content[f][j].instrument = i} = {} => Added(i) = {}
  OBVIOUS
<1>. HIDE DEF Added
<1>10. \A i : i \notin Touched(s) => LedgerFor(T, i) = LedgerFor(rows, i)
  <2> SUFFICES ASSUME NEW i, i \notin Touched(s)  PROVE LedgerFor(T, i) = LedgerFor(rows, i)
    OBVIOUS
  <2>1. {j \in insert : Content[f][j].instrument = i} = {}
    BY <1>3, <1>6 DEF InstrumentsOf
  <2>. QED  BY <1>8, <1>9, <2>1
<1>11. ASSUME NEW i \in Instrument, i \notin raced, i \notin unchecked, i \in keep
       PROVE  Derivable(LedgerFor(T, i))
  <2> DEFINE K == {j \in insert : Content[f][j].instrument = i}
  <2>1. CASE K = {}
    <3>1. LedgerFor(T, i) = LedgerFor(rows, i)
      BY <1>8, <1>9, <1>11, <2>1
    <3>. QED  BY <1>11, <3>1 DEF ImportInv, OnlyRacesBreakLedgers
  <2>2. CASE K # {}
    <3>1. \A k \in K : k \notin Unplanned(s, insert)
      BY <1>11 DEF InstrumentsOf
    <3>2. s \notin outdated /\ K \subseteq new
      BY <2>2, <3>1 DEF Unplanned, new
    <3>3. /\ new = NewLines(f, lines)
          /\ \A a \in InstrumentsOf(f, new) :
                Derivable(LedgerFor(rows, a) \cup PlanEntries(f, new, a))
      BY <1>4, <3>2 DEF PlanHolds, f, new, lines
    <3>4. \A k \in lines : Fingerprint(Line(f, k)).instrument = Content[f][k].instrument
      BY DEF Fingerprint, Line, RowOf
    <3>5. {j \in new : Content[f][j].instrument = i} \subseteq K
      <4> SUFFICES ASSUME NEW k \in new, Content[f][k].instrument = i
                   PROVE  k \in insert
        OBVIOUS
      <4> DEFINE v == Fingerprint(Line(f, k))
      <4>1. k \in TradeLines(f, lines, v) /\ v.instrument = i
        BY <1>2, <3>4 DEF TradeLines
      <4>2. \A j \in TradeLines(f, lines, v) \cap insert : j \in K
        BY <1>6, <3>4, <4>1 DEF TradeLines
      <4>. HIDE DEF v, K
      <4>3. TradeLines(f, lines, v) \cap Missing(b, f, lines) \subseteq NewLines(f, lines)
        BY <1>1, <3>2, <3>3, <4>2
      <4>4. TradeLines(f, lines, v) \cap NewLines(f, lines) \subseteq Missing(b, f, lines)
        BY <1>2, <1>5, <4>3, NewLinesAreMissing
      <4>. QED  BY <1>1, <3>3, <4>1, <4>4
    <3>6. K = {j \in new : Content[f][j].instrument = i}
      BY <3>2, <3>5
    <3>7. i \in InstrumentsOf(f, new)
      BY <2>2, <3>6 DEF InstrumentsOf
    <3>8. insert \in SUBSET DOMAIN Content[f]
      BY <1>2, <1>6
    <3>9. Derivable(LedgerFor(rows, i) \cup {Entry(NewId(insert, k), Line(f, k)) : k \in K})
      BY <1>2, <1>5, <3>3, <3>6, <3>7, <3>8, PlannedDerives
    <3>. QED  BY <1>8, <1>11, <3>9 DEF Added
  <2>. QED  BY <2>1, <2>2
<1>12. ASSUME NEW i \in Instrument, i \notin raced, i \notin keep
       PROVE  Derivable(LedgerFor(T, i))
  BY <1>1, <1>10, <1>12 DEF AllDerive, ImportInv, OnlyRacesBreakLedgers
<1>. HIDE DEF unchecked
<1>13. \A i \in Instrument \ (raced \cup unchecked) : Derivable(LedgerFor(T, i))
  BY <1>11, <1>12
<1>. QED  BY <1>1, <1>10, <1>13, CommitDerives

LEMMA LooksPlan ==
  ASSUME ImportInv, NEW s \in Importer, Looks(s) \/ Refuse(s), s \notin outdated',
         job'[s] # NoRequest, job'[s].op # "rollback"
  PROVE  PlanHolds(s)'
<1>. USE DEF ImportInv
<1>1. UNCHANGED <<rows, lastId>>
  BY LooksOrRefuses DEF vars
<1>2. ~Refuse(s)
  BY DEF Refuse, ImportTypes, JobTypes
<1>3. ASSUME NEW f \in File, NEW exclude,
             \/ \E allow \in BOOLEAN : PlanAppend(s, f, exclude, allow)
             \/ \E b \in 1..lastBatch : PlanRefresh(s, f, exclude, b)
      PROVE  PlanHolds(s)'
  <2>1. PICK lines : lines = Mapped(f, exclude)
    OBVIOUS
  <2>2. PICK new : new = NewLines(f, lines)
    OBVIOUS
  <2>3. job'[s].file = f /\ job'[s].lines = lines /\ job'[s].new = new
    BY <1>3, <2>1, <2>2 DEF PlanAppend, PlanRefresh, Continue, ImportTypes, JobTypes
  <2>4. ~PlanFails(f, new)
    BY <1>3, <2>1, <2>2 DEF PlanAppend, PlanRefresh
  <2>5. \A i \in InstrumentsOf(f, new) : Derivable(LedgerFor(rows, i) \cup PlanEntries(f, new, i))
    BY <2>4 DEF PlanFails, PlanEntries
  <2>6. NewLines(f, lines)' = new
    BY <1>1, <2>2 DEF NewLines, Matched
  <2>7. \A i : PlanEntries(f, new, i)' = PlanEntries(f, new, i)
    BY <1>1 DEF PlanEntries
  <2>8. \A i \in InstrumentsOf(f, new) :
              Derivable(LedgerFor(rows', i) \cup PlanEntries(f, new, i)')
    BY <1>1, <2>5, <2>7
  <2>. QED  BY <2>3, <2>6, <2>8 DEF PlanHolds
<1>4. CASE LookForBatch(s) \/ CheckDuplicate(s)
  <2>1. /\ Continue(s, [job[s] EXCEPT !.at = "write"])
        /\ Doing(s, "refresh", "look") \/ Doing(s, "append", "dup")
    BY <1>2, <1>4 DEF LookForBatch, CheckDuplicate
  <2>2. job[s] \in Job /\ job[s].op \in {"append", "refresh"} /\ outdated' = outdated
    BY <2>1 DEF Doing, Continue, ImportTypes, JobTypes
  <2>3. job'[s].file = job[s].file /\ job'[s].lines = job[s].lines /\ job'[s].new = job[s].new
    BY <2>1, <2>2 DEF Continue, ImportTypes, JobTypes, Job
  <2>4. PlanHolds(s)
    BY <2>1, <2>2 DEF PlansHold, Doing
  <2>. QED  BY <1>1, <2>3, <2>4, PlanStays
<1>5. ASSUME NEW b, StartRollback(s, b)
      PROVE  job'[s].op = "rollback"
  BY <1>5 DEF StartRollback, Continue, ImportTypes, JobTypes
<1>6. ~DropImport(s)
  BY <1>2 DEF DropImport
<1>. QED  BY <1>2, <1>3, <1>4, <1>5, <1>6 DEF Looks

LEMMA LooksDerive ==
  ASSUME ImportInv, NEW s \in Importer, Looks(s) \/ Refuse(s)
  PROVE  FindingsHold' /\ OnlyRacesBreakLedgers' /\ PlansHold'
<1>1. /\ UNCHANGED vars /\ outdated \ {s} \subseteq outdated'
      /\ \A z \in Importer \ {s} : job'[z] = job[z]
  BY LooksOrRefuses DEF ImportInv
<1>2. FindingsHold' /\ OnlyRacesBreakLedgers'
  BY <1>1, StillDerives DEF vars, ImportInv, ImportTypes, DerivationInv
<1>3. ASSUME NEW z \in Importer \ outdated', job'[z] # NoRequest, job'[z].op # "rollback"
      PROVE  PlanHolds(z)'
  <2>1. CASE z = s
    BY <1>3, <2>1, LooksPlan
  <2>2. CASE z # s
    <3>1. PlanHolds(z)
      BY <1>1, <1>3, <2>2 DEF ImportInv, PlansHold
    <3>. QED  BY <1>1, <2>2, <3>1, PlanStays DEF vars
  <2>. QED  BY <2>1, <2>2
<1>. QED  BY <1>2, <1>3 DEF PlansHold

\* A hand edit that writes no row hands out no id.
LEMMA NoRowNoId ==
  ASSUME LedgerTypes, NEW s \in Slot, Step(s), rows' = rows
  PROVE  lastId' = lastId
<1>1. lastId \in Nat /\ DOMAIN rows \subseteq 1..lastId
  BY WriteBounds DEF LedgerTypes
<1>2. CASE Insert(s)
  <2>1. ASSUME rows' = [n \in DOMAIN rows \cup {lastId + 1} |->
                          IF n = lastId + 1 THEN RowOf(req[s].body, NoBatch) ELSE rows[n]]
        PROVE  FALSE
    <3>1. lastId + 1 \in DOMAIN rows'
      BY <2>1
    <3>. QED  BY <1>1, <3>1
  <2>. QED  BY <1>2, <2>1 DEF Insert, Finish, ledger
<1>3. CASE ~Insert(s)
  BY <1>3 DEF Step, Post, Put, Delete, FindForReplace, FindForRemove, CheckCreate,
       CheckReplace, CheckOld, Update, Erase, Abandon, Advance, Finish, ledger
<1>. QED  BY <1>2, <1>3

LEMMA EditDerives ==
  ASSUME ImportInv, NEW s \in Slot, EditStep(s)
  PROVE  FindingsHold' /\ OnlyRacesBreakLedgers' /\ PlansHold'
<1>1. Step(s) /\ UNCHANGED job
  BY DEF EditStep
<1>2. FindingsHold' /\ OnlyRacesBreakLedgers'
  BY <1>1, StepDerives DEF ImportInv, ImportTypes, DerivationInv
<1>3. ASSUME NEW z \in Importer \ outdated', job'[z] # NoRequest, job'[z].op # "rollback"
      PROVE  PlanHolds(z)'
  <2>1. z \notin outdated /\ rows' = rows
    BY <1>1, <1>3 DEF EditStep, Planned
  <2>2. lastId' = lastId
    BY <1>1, <2>1, NoRowNoId DEF ImportInv, ImportTypes, LedgerInv
  <2>3. PlanHolds(z)
    BY <1>1, <1>3, <2>1 DEF ImportInv, PlansHold
  <2>. QED  BY <1>1, <2>1, <2>2, <2>3, PlanStays
<1>. QED  BY <1>2, <1>3 DEF PlansHold

LEMMA ImportInvStep ==
  ASSUME ImportInv, [ImportNext]_allVars
  PROVE  ImportInv'
<1>1. ImportTypes'
  BY ImportTypesStep DEF ImportInv
<1>2. CASE UNCHANGED allVars
  <2>1. UNCHANGED vars /\ UNCHANGED <<job, outdated>>
    BY <1>2 DEF allVars, importVars
  <2>2. FindingsHold' /\ OnlyRacesBreakLedgers'
    BY <2>1, StillDerives DEF vars, ImportInv, ImportTypes, DerivationInv
  <2>3. PlansHold'
    BY <2>1, PlanStays DEF ImportInv, PlansHold, vars
  <2>. QED  BY <1>1, <2>2, <2>3 DEF ImportInv
<1>3. ASSUME NEW s \in Slot, EditStep(s)  PROVE ImportInv'
  BY <1>1, <1>3, EditDerives DEF ImportInv
<1>4. ASSUME NEW s \in Importer, ImportStep(s)  PROVE ImportInv'
  BY <1>1, <1>4, ImportCases, LooksDerive, WriteDerives, RefreshDerives, RollbackDerives
     DEF ImportInv
<1>. QED  BY <1>2, <1>3, <1>4 DEF ImportNext

LEMMA ImportInvAlways == ImportSpec => []ImportInv
<1>1. ImportInit => ImportInv
  <2> SUFFICES ASSUME ImportInit  PROVE ImportInv
    OBVIOUS
  <2>1. \A i : LedgerFor(rows, i) = {}
    BY DEF ImportInit, LedgerFor
  <2>2. FindingsHold /\ OnlyRacesBreakLedgers
    BY <2>1, EmptyDerives DEF ImportInit
  <2>. QED  BY <2>2, ImportTypesInit DEF ImportInit, ImportInv, PlansHold
<1>. QED  BY <1>1, ImportInvStep, PTL DEF ImportSpec

\* With imports beside the hand edits too, an instrument's ledger stops deriving only
\* through a write whose checks another write had overtaken, or by lines that a refresh
\* adds to an instrument it protects and that its plan had not derived.
THEOREM OnlyUncheckedBreak == ImportSpec => []OnlyRacesBreakLedgers
<1>1. ImportInv => OnlyRacesBreakLedgers
  BY DEF ImportInv
<1>. QED  BY <1>1, ImportInvAlways, PTL

-----------------------------------------------------------------------------
(* What an append and a refresh leave of each trade.                           *)

\* Some rows of a table and some of the lines appended to it, counted together.
LEMMA AppendedCount ==
  ASSUME NEW T, NEW table, NEW f, NEW lines, NEW b, Appends(T, table, f, lines, b),
         NEW R \in SUBSET DOMAIN table, IsFiniteSet(R), NEW K \in SUBSET lines
  PROVE  Cardinality(R \cup {NewId(lines, k) : k \in K}) = Cardinality(R) + Cardinality(K)
<1> DEFINE E == {NewId(lines, k) : k \in K}
           g == [k \in K |-> NewId(lines, k)]
<1>1. /\ \A k \in lines : NewId(lines, k) \in (lastId + 1)..(lastId + Cardinality(lines))
      /\ \A j, k \in lines : NewId(lines, j) = NewId(lines, k) => j = k
      /\ lastId \in Nat /\ R \subseteq 1..lastId
  <2>1. lastId \in Nat /\ R \subseteq 1..lastId
    BY DEF Appends
  <2>2. /\ \A k \in lines : NewId(lines, k) \in (lastId + 1)..(lastId + Cardinality(lines))
        /\ \A j, k \in lines : NewId(lines, j) = NewId(lines, k) => j = k
    BY NewIdsAreNew
  <2>. QED  BY <2>1, <2>2
<1>2. IsFiniteSet(K)
  <2>1. K \in SUBSET DOMAIN Content[f] /\ f \in File
    BY DEF Appends
  <2>. QED  BY <2>1, SomeLines
<1>3. g \in Surjection(K, E) /\ g \in Injection(K, E)
  BY <1>1 DEF Surjection, Injection, IsInjective
<1>4. IsFiniteSet(E) /\ Cardinality(E) = Cardinality(K)
  <2>. HIDE DEF g, E
  <2>. QED  BY <1>2, <1>3, FS_Surjection
<1>5. R \cap E = {}
  <2> SUFFICES ASSUME NEW k \in K, NewId(lines, k) \in R  PROVE FALSE
    OBVIOUS
  <2>1. NewId(lines, k) \in 1..lastId /\ NewId(lines, k) \in (lastId + 1)..(lastId + Cardinality(lines))
    BY <1>1
  <2>2. NewId(lines, k) \in Int /\ NewId(lines, k) <= lastId /\ lastId + 1 <= NewId(lines, k)
    BY <2>1
  <2>. QED  BY <1>1, <2>2
<1>6. Cardinality(R) \in Nat /\ Cardinality(K) \in Nat /\ Cardinality(R \cap E) = 0
  BY <1>2, <1>5, FS_CardinalityType, FS_EmptySet
<1>7. Cardinality(R \cup E) = Cardinality(R) + Cardinality(E) - Cardinality(R \cap E)
  <2>. HIDE DEF E
  <2>. QED  BY <1>4, FS_Union
<1>. HIDE DEF E
<1>. QED  BY <1>4, <1>6, <1>7 DEF E

\* Of the lines beyond the first m there are as many as are not among them.
LEMMA LastOnes ==
  ASSUME NEW S \in SUBSET Int, IsFiniteSet(S), NEW m \in Nat
  PROVE  Cardinality({k \in S : ~(Rank(S, k) <= m)})
           = IF m < Cardinality(S) THEN Cardinality(S) - m ELSE 0
<1> DEFINE low == {k \in S : Rank(S, k) <= m}
<1>1. Cardinality(low) = IF m < Cardinality(S) THEN m ELSE Cardinality(S)
  BY FirstOnes
<1>2. {k \in S : ~(Rank(S, k) <= m)} = S \ low /\ S \cap low = low
  OBVIOUS
<1>3. Cardinality(S \ low) = Cardinality(S) - Cardinality(S \cap low)
  <2>. HIDE DEF low
  <2>. QED  BY FS_Difference
<1>4. Cardinality(S) \in Nat
  BY FS_CardinalityType
<1>. HIDE DEF low
<1>. QED  BY <1>1, <1>2, <1>3, <1>4

LEMMA StoredKeys ==
  ASSUME NEW f, NEW k, NEW b
  PROVE  /\ Fingerprint(RowOf(Content[f][k], b)) = Fingerprint(Line(f, k))
         /\ Canonical(RowOf(Content[f][k], b)) = Canonical(Line(f, k))
BY DEF Fingerprint, Canonical, Line, RowOf

LEMMA AppendCompletes ==
  ASSUME ImportInv, NEW s \in Importer, s \notin outdated, NEW T, WritesBatch(s, T),
         NEW k \in job[s].lines, NEW v, v = Fingerprint(Line(job[s].file, k))
  PROVE  Count(T, Fingerprint, v)
           = IF Count(rows, Fingerprint, v) > Lines(job[s].file, job[s].lines, Fingerprint, v)
             THEN Count(rows, Fingerprint, v)
             ELSE Lines(job[s].file, job[s].lines, Fingerprint, v)
<1> DEFINE f == job[s].file
           lines == job[s].lines
           new == job[s].new
           b == lastBatch + 1
           L == TradeLines(f, lines, v)
           N == Cardinality(TradeRows(v))
           more == {j \in L : ~(Rank(L, j) <= N)}
<1>1. /\ Doing(s, "append", "write") /\ Appends(T, rows, f, new, b)
  BY DEF WritesBatch
<1>2. f \in File /\ lines \in SUBSET DOMAIN Content[f] /\ new \subseteq lines
  BY <1>1, PlannedJob DEF ImportInv, ImportTypes
<1>3. new = NewLines(f, lines)
  <2>1. job[s] # NoRequest /\ job[s].op # "rollback"
    BY <1>1 DEF Doing
  <2>. QED  BY <2>1 DEF ImportInv, PlansHold, PlanHolds
<1>4. LedgerTypes
  BY DEF ImportInv, ImportTypes, LedgerInv
<1>. HIDE DEF f, lines, new, b
<1>5. Count(rows, Fingerprint, v) = N /\ Lines(f, lines, Fingerprint, v) = Cardinality(L)
  BY DEF Count, Lines, TradeRows, TradeLines
<1>6. L \in SUBSET Int /\ IsFiniteSet(L) /\ Cardinality(L) \in Nat
  <2>1. L \in SUBSET DOMAIN Content[f]
    BY <1>2 DEF TradeLines
  <2>. HIDE DEF L
  <2>. QED  BY <1>2, <2>1, SomeLines
<1>7. TradeRows(v) \in SUBSET DOMAIN rows /\ IsFiniteSet(TradeRows(v)) /\ N \in Nat
  <2>1. TradeRows(v) \in SUBSET DOMAIN rows
    BY DEF TradeRows
  <2>. QED  BY <1>4, <2>1, SomeRows
<1>8. more = {j \in new : Fingerprint(Line(f, j)) = v}
  <2>1. \A j \in L : j \in new <=> ~(Rank(L, j) <= N)
    BY <1>3, NewInClass
  <2>. HIDE DEF N
  <2>. QED  BY <1>2, <2>1 DEF TradeLines
<1>9. {n \in DOMAIN T : Fingerprint(T[n]) = v}
        = TradeRows(v) \cup {NewId(new, j) : j \in more}
  <2>1. DOMAIN T = DOMAIN rows \cup NewIds(new)
    BY <1>1, AppendedIds
  <2>2. \A n \in DOMAIN rows : T[n] = rows[n]
    BY <1>1, AppendedKeeps
  <2>3. \A j \in new : T[NewId(new, j)] = RowOf(Content[f][j], b)
    BY <1>1, AppendedLines
  <2>4. \A j \in new : Fingerprint(T[NewId(new, j)]) = Fingerprint(Line(f, j))
    BY <2>3, StoredKeys
  <2>. HIDE DEF more
  <2>. QED  BY <1>8, <2>1, <2>2, <2>4 DEF TradeRows, NewIds
<1>10. Cardinality(TradeRows(v) \cup {NewId(new, j) : j \in more}) = N + Cardinality(more)
  <2>1. more \in SUBSET new
    BY <1>8
  <2>. HIDE DEF more
  <2>. QED  BY <1>1, <1>7, <2>1, AppendedCount
<1>11. Cardinality(more) = IF N < Cardinality(L) THEN Cardinality(L) - N ELSE 0
  <2>. HIDE DEF L, N
  <2>. QED  BY <1>6, <1>7, LastOnes
<1>12. Count(T, Fingerprint, v) = N + Cardinality(more)
  BY <1>9, <1>10 DEF Count
<1>. HIDE DEF L, N, more
<1>13. Count(T, Fingerprint, v) = IF N > Cardinality(L) THEN N ELSE Cardinality(L)
  BY <1>6, <1>7, <1>11, <1>12
<1>. QED  BY <1>5, <1>13 DEF f, lines

\* What a refresh finds and leaves of the rows equal to c: those of its batch, the lines
\* of its file, and how many of the rows may stay.
MergeOf(s, c, b, old, wanted, stay) ==
    /\ b = job[s].batch
    /\ old = EqualRows(b, c)
    /\ wanted = Lines(job[s].file, job[s].lines, Canonical, c)
    /\ stay = IF c.instrument \in job[s].keep \/ Cardinality(old) < wanted
              THEN Cardinality(old) ELSE wanted

LEMMA RefreshMerges ==
  ASSUME ImportInv, NEW s \in Importer, NEW T, NEW drop, NEW insert,
         RefreshesBatch(s, T, drop, insert), NEW c,
         NEW b, NEW old, NEW wanted, NEW stay, MergeOf(s, c, b, old, wanted, stay)
  PROVE  /\ Cardinality(old \cap DOMAIN T) = stay
         /\ Cardinality({n \in DOMAIN T : T[n].batch = b /\ Canonical(T[n]) = c})
              = IF wanted < stay THEN stay ELSE wanted
<1> DEFINE f == job[s].file
           lines == job[s].lines
           keep == job[s].keep
           L == EqualLines(f, lines, c)
           more == {j \in L : ~(Rank(L, j) <= Cardinality(old))}
           left == old \ drop
<1>. /\ b = job[s].batch /\ old = EqualRows(b, c)
     /\ wanted = Lines(job[s].file, job[s].lines, Canonical, c)
     /\ stay = IF c.instrument \in job[s].keep \/ Cardinality(old) < wanted
               THEN Cardinality(old) ELSE wanted
  BY DEF MergeOf
<1>1. /\ Doing(s, "refresh", "write")
      /\ drop = Unmatched(BatchRows(b), f, lines, keep) /\ insert = Missing(b, f, lines)
      /\ Appends(T, Without(drop), f, insert, b)
  BY DEF RefreshesBatch
<1>2. f \in File /\ lines \in SUBSET DOMAIN Content[f] /\ insert \in SUBSET lines
  BY <1>1, PlannedJob DEF ImportInv, ImportTypes, Missing
<1>3. LedgerTypes
  BY DEF ImportInv, ImportTypes, LedgerInv
<1>. HIDE DEF f, lines, keep
<1>4. wanted = Cardinality(L)
  BY DEF Lines, EqualLines, f, lines
<1>5. L \in SUBSET Int /\ IsFiniteSet(L) /\ Cardinality(L) \in Nat
  <2>1. L \in SUBSET DOMAIN Content[f]
    BY <1>2 DEF EqualLines
  <2>. HIDE DEF L
  <2>. QED  BY <1>2, <2>1, SomeLines
<1>6. /\ old \in SUBSET DOMAIN rows /\ old \in SUBSET Int /\ IsFiniteSet(old)
      /\ Cardinality(old) \in Nat
  <2>1. old \in SUBSET DOMAIN rows
    BY DEF EqualRows, BatchRows
  <2>. QED  BY <1>3, <2>1, SomeRows
<1>7. DOMAIN rows \subseteq 1..lastId /\ lastId \in Nat
  BY <1>3, WriteBounds DEF LedgerTypes
<1>8. /\ DOMAIN T = (DOMAIN rows \ drop) \cup NewIds(insert)
      /\ \A n \in DOMAIN rows \ drop : T[n] = rows[n]
      /\ \A j \in insert : /\ T[NewId(insert, j)].batch = b
                           /\ Canonical(T[NewId(insert, j)]) = Canonical(Line(f, j))
  <2>1. DOMAIN Without(drop) = DOMAIN rows \ drop
    BY DEF Without
  <2>2. DOMAIN T = DOMAIN Without(drop) \cup NewIds(insert)
    <3>1. PICK table : table = Without(drop)
      OBVIOUS
    <3>2. Appends(T, table, f, insert, b)
      BY <1>1, <3>1
    <3>3. DOMAIN T = DOMAIN table \cup NewIds(insert)
      BY <3>2, AppendedIds
    <3>. QED  BY <3>1, <3>3
  <2>3. \A n \in DOMAIN Without(drop) : T[n] = Without(drop)[n]
    BY <1>1, AppendedKeeps
  <2>4. \A n \in DOMAIN rows \ drop : T[n] = rows[n]
    BY <2>1, <2>3 DEF Without
  <2>5. \A j \in insert : T[NewId(insert, j)] = RowOf(Content[f][j], b)
    BY <1>1, AppendedLines
  <2>6. \A j \in insert : RowOf(Content[f][j], b).batch = b
    BY DEF RowOf
  <2>7. \A j \in insert : Canonical(T[NewId(insert, j)]) = Canonical(Line(f, j))
    BY <2>5, StoredKeys
  <2>. QED  BY <2>1, <2>2, <2>4, <2>5, <2>6, <2>7
<1>9. \A j \in insert : NewId(insert, j) \notin DOMAIN rows
  <2>1. \A j \in insert : NewId(insert, j) \in (lastId + 1)..(lastId + Cardinality(insert))
    BY <1>1, NewIdsAreNew
  <2> SUFFICES ASSUME NEW j \in insert, NewId(insert, j) \in DOMAIN rows  PROVE FALSE
    OBVIOUS
  <2>2. /\ NewId(insert, j) \in Int /\ lastId + 1 <= NewId(insert, j)
        /\ NewId(insert, j) <= lastId
    BY <1>7, <2>1
  <2>. QED  BY <1>7, <2>2
<1>10. old \cap DOMAIN T = left
  BY <1>6, <1>8, <1>9 DEF NewIds
<1>11. \A n \in old : rows[n].instrument = c.instrument /\ Canonical(rows[n]) = c
  <2>1. \A n \in old : Canonical(rows[n]) = c
    BY DEF EqualRows
  <2>2. \A r : Canonical(r).instrument = r.instrument
    BY DEF Canonical
  <2>. QED  BY <2>1, <2>2
<1>12. c.instrument \in keep => left = old
  BY <1>1, <1>11 DEF Unmatched
<1>13. c.instrument \notin keep => left = {n \in old : Rank(old, n) <= Cardinality(L)}
  <2>1. \A n \in old : rows[n].instrument = c.instrument /\ Canonical(rows[n]) = c
    BY <1>11
  <2>2. \A n \in old : {m \in BatchRows(b) : m <= n /\ Canonical(rows[m]) = Canonical(rows[n])}
                         = {m \in old : m <= n}
    BY <2>1 DEF EqualRows
  <2>3. \A n \in old : {k \in lines : Canonical(Line(f, k)) = Canonical(rows[n])} = L
    BY <2>1 DEF EqualLines
  <2>4. \A n \in old : n \in BatchRows(b)
    BY DEF EqualRows
  <2>5. c.instrument \notin keep =>
           \A n \in old : n \in drop <=> Rank(old, n) > Cardinality(L)
    BY <1>1, <2>1, <2>2, <2>3, <2>4 DEF Unmatched, Rank
  <2>6. \A n \in old : Rank(old, n) \in Nat
    BY <1>6, Ranks
  <2>. HIDE DEF L
  <2>. QED  BY <1>5, <2>5, <2>6
<1>14. Cardinality(left) = stay
  <2>1. Cardinality({n \in old : Rank(old, n) <= Cardinality(L)})
          = IF Cardinality(L) < Cardinality(old) THEN Cardinality(L) ELSE Cardinality(old)
    <3>. HIDE DEF L
    <3>. QED  BY <1>5, <1>6, FirstOnes
  <2>. HIDE DEF L, left
  <2>. QED  BY <1>4, <1>5, <1>6, <1>12, <1>13, <2>1 DEF keep
<1>15. more = {j \in insert : Canonical(Line(f, j)) = c}
  <2>1. \A j \in L : j \in insert <=> ~(Rank(L, j) <= Cardinality(old))
    BY <1>1, MissingInClass
  <2>. QED  BY <1>2, <2>1 DEF EqualLines
<1>16. {n \in DOMAIN T : T[n].batch = b /\ Canonical(T[n]) = c}
         = left \cup {NewId(insert, j) : j \in more}
  <2>1. \A n \in DOMAIN rows : n \in old <=> rows[n].batch = b /\ Canonical(rows[n]) = c
    BY DEF EqualRows, BatchRows
  <2>. HIDE DEF more
  <2>. QED  BY <1>6, <1>8, <1>15, <2>1 DEF NewIds
<1>17. Cardinality(left \cup {NewId(insert, j) : j \in more})
         = Cardinality(left) + Cardinality(more)
  <2>1. more \in SUBSET insert /\ left \in SUBSET DOMAIN Without(drop)
    BY <1>6, <1>15 DEF Without
  <2>2. IsFiniteSet(left)
    BY <1>6, FS_Subset
  <2>. HIDE DEF more, left
  <2>. QED  BY <1>1, <2>1, <2>2, AppendedCount
<1>18. Cardinality(more) = IF Cardinality(old) < Cardinality(L)
                           THEN Cardinality(L) - Cardinality(old) ELSE 0
  <2>. HIDE DEF L
  <2>. QED  BY <1>5, <1>6, LastOnes
<1>. HIDE DEF L, more, left
<1>19. Cardinality(left) + Cardinality(more) = IF wanted < stay THEN stay ELSE wanted
  <2>1. wanted \in Nat /\ Cardinality(old) \in Nat
    BY <1>4, <1>5, <1>6
  <2>2. Cardinality(more) = IF Cardinality(old) < wanted THEN wanted - Cardinality(old) ELSE 0
    BY <1>4, <1>18
  <2>3. CASE stay = Cardinality(old)
    BY <1>14, <2>1, <2>2, <2>3
  <2>4. CASE stay = wanted /\ ~(Cardinality(old) < wanted)
    BY <1>14, <2>1, <2>2, <2>4
  <2>. QED  BY <2>3, <2>4
<1>. QED  BY <1>10, <1>14, <1>16, <1>17, <1>19

\* Only its own write changes the ledger or the batches as an importer ends.
LEMMA WhoCommits ==
  ASSUME ImportInv, [ImportNext]_allVars, NEW s \in Importer,
         NEW op \in {"append", "refresh"}, Commits(s, op)
  PROVE  \/ op = "append" /\ \E T : WritesBatch(s, T)
         \/ op = "refresh" /\ \E T, drop, insert : RefreshesBatch(s, T, drop, insert)
<1>1. /\ job[s] # NoRequest /\ job[s].op = op /\ job'[s] = NoRequest
      /\ rows' # rows \/ batches' # batches
  BY DEF Commits, Doing
<1>2. ~UNCHANGED allVars /\ ~(\E z \in Slot : EditStep(z))
  BY <1>1 DEF allVars, importVars, EditStep
<1>3. PICK z \in Importer : ImportStep(z)
  BY <1>2 DEF ImportNext
<1>4. ~(Looks(z) \/ Refuse(z))
  BY <1>1, LooksOrRefuses DEF ImportInv, vars
<1>5. ASSUME NEW T, NEW last, NEW touched, NEW unchecked, Commit(z, T, last, touched, unchecked)
      PROVE  z = s
  BY <1>1, <1>5 DEF Commit, ImportInv, ImportTypes, JobTypes
<1>6. ASSUME NEW T, WritesBatch(z, T)
      PROVE  z = s /\ op = "append"
  BY <1>1, <1>5, <1>6 DEF WritesBatch, Doing
<1>7. ASSUME NEW T, NEW drop, NEW insert, RefreshesBatch(z, T, drop, insert)
      PROVE  z = s /\ op = "refresh"
  BY <1>1, <1>5, <1>7 DEF RefreshesBatch, Doing
<1>8. ASSUME NEW T, RollsBack(z, T)
      PROVE  FALSE
  BY <1>1, <1>5, <1>8 DEF RollsBack, Doing
<1>. QED  BY <1>3, <1>4, <1>6, <1>7, <1>8, ImportCases DEF ImportInv

\* An append whose plan nobody overtook stores what is missing of the file and no more,
\* trade by trade, although it was planned in an earlier request's look at the ledger.
THEOREM AppendsComplete == ImportSpec => AppendCompletesFile
<1>1. ASSUME ImportInv, [ImportNext]_allVars
      PROVE  \A s \in Importer \ outdated : Commits(s, "append") =>
               \A k \in job[s].lines :
                  LET v == Fingerprint(Line(job[s].file, k))
                      before == Count(rows, Fingerprint, v)
                      wanted == Lines(job[s].file, job[s].lines, Fingerprint, v)
                  IN  Count(rows', Fingerprint, v)
                        = IF before > wanted THEN before ELSE wanted
  <2> SUFFICES ASSUME NEW s \in Importer, s \notin outdated, Commits(s, "append"),
                      NEW k \in job[s].lines,
                      NEW v, v = Fingerprint(Line(job[s].file, k))
               PROVE  Count(rows', Fingerprint, v)
                        = IF Count(rows, Fingerprint, v)
                               > Lines(job[s].file, job[s].lines, Fingerprint, v)
                          THEN Count(rows, Fingerprint, v)
                          ELSE Lines(job[s].file, job[s].lines, Fingerprint, v)
    OBVIOUS
  <2>1. PICK T : WritesBatch(s, T)
    BY <1>1, WhoCommits
  <2>2. rows' = T
    BY <2>1 DEF WritesBatch, Commit
  <2>. QED  BY <1>1, <2>1, <2>2, AppendCompletes
<1>. QED  BY <1>1, ImportInvAlways, PTL DEF ImportSpec, AppendCompletesFile

\* A refresh, whatever came between its plan and its write, leaves the batch with as many
\* equal rows as the file has lines, and with more only of an instrument it protects; the
\* rows that stay keep their ids.
THEOREM RefreshesMerge == ImportSpec => RefreshMergesTheFile
<1> DEFINE Merged(s, v) ==
       LET j == job[s]
           own(table) == [n \in {m \in DOMAIN table : table[m].batch = j.batch} |-> table[n]]
           old == {n \in BatchRows(j.batch) : Canonical(rows[n]) = v}
           wanted == Lines(j.file, j.lines, Canonical, v)
           stay == IF v.instrument \in j.keep \/ Cardinality(old) < wanted
                   THEN Cardinality(old) ELSE wanted
       IN  /\ Cardinality(old \cap DOMAIN rows') = stay
           /\ Count(own(rows'), Canonical, v) = IF wanted < stay THEN stay ELSE wanted
<1>1. ASSUME ImportInv, [ImportNext]_allVars, NEW s \in Importer, Commits(s, "refresh"), NEW v
      PROVE  Merged(s, v)
  <2>1. PICK T, drop, insert : RefreshesBatch(s, T, drop, insert)
    BY <1>1, WhoCommits
  <2>2. rows' = T
    BY <2>1 DEF RefreshesBatch, Commit
  <2>3. PICK b : b = job[s].batch
    OBVIOUS
  <2>4. PICK wanted : wanted = Lines(job[s].file, job[s].lines, Canonical, v)
    OBVIOUS
  <2>5. PICK old : old = EqualRows(b, v)
    OBVIOUS
  <2>6. PICK stay : stay = IF v.instrument \in job[s].keep \/ Cardinality(old) < wanted
                           THEN Cardinality(old) ELSE wanted
    OBVIOUS
  <2>7. /\ Cardinality(old \cap DOMAIN T) = stay
        /\ Cardinality({n \in DOMAIN T : T[n].batch = b /\ Canonical(T[n]) = v})
             = IF wanted < stay THEN stay ELSE wanted
    <3>. HIDE DEF Merged
    <3>1. ImportInv /\ s \in Importer
      BY <1>1
    <3>2. SUFFICES ASSUME MergeOf(s, v, b, old, wanted, stay)
          PROVE  /\ Cardinality(old \cap DOMAIN T) = stay
                 /\ Cardinality({n \in DOMAIN T : T[n].batch = b /\ Canonical(T[n]) = v})
                      = IF wanted < stay THEN stay ELSE wanted
      BY <2>3, <2>4, <2>5, <2>6 DEF MergeOf
    <3>. QED  BY <2>1, <3>1, <3>2, RefreshMerges
  <2> DEFINE own == [n \in {m \in DOMAIN T : T[m].batch = b} |-> T[n]]
  <2>8. {n \in DOMAIN own : Canonical(own[n]) = v}
          = {n \in DOMAIN T : T[n].batch = b /\ Canonical(T[n]) = v}
    OBVIOUS
  <2>9. Count(own, Canonical, v) = IF wanted < stay THEN stay ELSE wanted
    <3>. HIDE DEF own
    <3>. QED  BY <2>7, <2>8 DEF Count
  <2>. QED  BY <2>2, <2>3, <2>4, <2>5, <2>6, <2>7, <2>9 DEF EqualRows
<1>2. ASSUME ImportInv, [ImportNext]_allVars
      PROVE  \A s \in Importer : Commits(s, "refresh") =>
          LET j == job[s]
              own(table) == [n \in {m \in DOMAIN table : table[m].batch = j.batch} |-> table[n]]
              keys == {Canonical(rows[n]) : n \in BatchRows(j.batch)}
                      \cup {Canonical(Line(j.file, k)) : k \in j.lines}
          IN  \A v \in keys :
                LET old == {n \in BatchRows(j.batch) : Canonical(rows[n]) = v}
                    wanted == Lines(j.file, j.lines, Canonical, v)
                    stay == IF v.instrument \in j.keep \/ Cardinality(old) < wanted
                            THEN Cardinality(old) ELSE wanted
                IN  /\ Cardinality(old \cap DOMAIN rows') = stay
                    /\ Count(own(rows'), Canonical, v)
                         = IF wanted < stay THEN stay ELSE wanted
  BY <1>1, <1>2
<1>. QED  BY <1>2, ImportInvAlways, PTL DEF ImportSpec, RefreshMergesTheFile
=============================================================================
