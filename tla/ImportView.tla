------------------------------ MODULE ImportView ------------------------------
(* The page a user imports a file with (frontend/src/components/ImportView.tsx). *)
(*                                                                               *)
(* Choosing a file starts a chain of calls: its bytes are read, then previewed,  *)
(* then, after the user's choices, committed.  Each call ends on its own and     *)
(* goes on with what it captured, while the page shows what the reducer holds;   *)
(* only the controls that a busy page disables keep the two in step.             *)
(*                                                                               *)
(* The server is any server: a preview is any that its types allow, a call may   *)
(* fail after it took effect.  What a commit does is in ImportBatches.           *)

CONSTANTS Upload,      \* files, each with its name and bytes
          Asset,       \* asset keys
          Nothing      \* no file, no preview

ASSUME NothingIsNoFile == Nothing \notin Upload

Broker == {"avanza", "sharesight"}
Confirming == {"none", "duplicate", "append"}
Choice == {"none", "keep", "other"}

\* What a preview may say of a file: `locked` assets have a skipped_reason, `global`
\* tells of an error outside the assets, `known` of assets already imported,
\* `candidate` of a batch to refresh, `closing` of convicted positions it would close.
Preview ==
    {p \in [file : Upload, source : Broker, assets : SUBSET Asset, locked : SUBSET Asset,
            errors : SUBSET Asset, global : BOOLEAN, known : BOOLEAN, duplicate : BOOLEAN,
            candidate : BOOLEAN, closing : SUBSET Asset] :
        /\ p.locked \cup p.errors \subseteq p.assets
        /\ p.source = "sharesight" => ~p.candidate}

VARIABLES phase,       \* State.phase
          source,
          name,        \* fileName
          preview,     \* the preview shown, or Nothing
          confirming,  \* confirmingDuplicate and confirmingAppend, never both
          selected,    \* the assets that are checked
          choices,     \* convictionChoices
          bytes,       \* fileBytes: whose bytes a commit would send
          pending      \* calls that have not come back, with what they captured

shownVars == <<phase, source, name, preview, confirming, selected, choices>>
viewVars == <<shownVars, bytes, pending>>

Unchosen == [a \in Asset |-> "none"]

ViewInit == /\ phase = "idle" /\ source = "avanza" /\ name = Nothing /\ preview = Nothing
            /\ confirming = "none" /\ selected = {} /\ choices = Unchosen
            /\ bytes = Nothing /\ pending = {}

-----------------------------------------------------------------------------
(* What the page shows, and which controls it enables.                          *)

FaultBusy == \E c \in pending : c.call # "read"     \* Fault: a read leaves the page free.

\* A read is no mutation: it is busy only by the phase.
Busy == \/ phase \in {"previewing", "committing"}
        \/ \E c \in pending : c.call # "read"

Shown == preview # Nothing /\ phase # "previewing"
Refreshing == source = "avanza" /\ preview.candidate
Duplicate == preview.duplicate /\ ~Refreshing

Selectable == preview.assets \ preview.locked     \* assets the user may check
AllSelected == Selectable # {} /\ Selectable \subseteq selected

Blocking == preview.global \/ selected \cap preview.errors # {}

\* Positions of assets that are left out of the commit need no choice.
Closing == preview.closing \ (preview.assets \ selected)
AllChosen == \A a \in Closing : choices[a] # "none"

Ready == Shown /\ ~Busy /\ ~Blocking /\ AllChosen
Writable == preview.assets # {} \/ ~preview.known

-----------------------------------------------------------------------------
(* Dispatches that several actions share.                                        *)

Clear == /\ preview' = Nothing /\ selected' = {} /\ choices' = Unchosen
         /\ confirming' = IF confirming = "duplicate" THEN "none" ELSE confirming

Failed == /\ phase' = "error" /\ confirming' = "none"
          /\ UNCHANGED <<source, name, preview, selected, choices>>

Reset == /\ phase' = "idle" /\ source' = "avanza" /\ name' = Nothing /\ preview' = Nothing
         /\ confirming' = "none" /\ selected' = {} /\ choices' = Unchosen

-----------------------------------------------------------------------------
(* The user.                                                                     *)

SelectSource(s) == /\ ~Busy /\ s # source
                   /\ Clear /\ source' = s /\ phase' = "idle" /\ name' = Nothing
                   /\ bytes' = Nothing /\ UNCHANGED pending

ChooseFile(f) == /\ ~Busy
                 /\ Clear /\ phase' = "previewing" /\ name' = f
                 /\ pending' = pending \cup {[call |-> "read", file |-> f, source |-> source]}
                 /\ UNCHANGED <<source, bytes>>

ToggleAsset(a) == /\ Shown /\ ~Busy /\ a \in Selectable
                  /\ selected' = IF a \in selected THEN selected \ {a} ELSE selected \cup {a}
                  /\ UNCHANGED <<phase, source, name, preview, confirming, choices, bytes, pending>>

SetAllAssets == /\ Shown /\ ~Busy /\ Selectable # {}
                /\ selected' = IF AllSelected THEN selected \ Selectable ELSE selected \cup Selectable
                /\ UNCHANGED <<phase, source, name, preview, confirming, choices, bytes, pending>>

SetConvictionChoice(a, c) ==
    /\ Shown /\ ~Busy /\ a \in Closing
    /\ choices' = [choices EXCEPT ![a] = c]
    /\ UNCHANGED <<phase, source, name, preview, confirming, selected, bytes, pending>>

\* "Append as new batch..." and "Import anyway..." ask once more, "Back" takes it back.
Confirm(question) ==
    /\ \/ /\ question = "append" /\ Ready /\ Writable /\ Refreshing /\ confirming # "append"
       \/ /\ question = "none" /\ Shown /\ ~Busy /\ Refreshing /\ confirming = "append"
       \/ /\ question = "duplicate" /\ Ready /\ Duplicate /\ confirming # "duplicate"
    /\ confirming' = question
    /\ UNCHANGED <<phase, source, name, preview, selected, choices, bytes, pending>>

\* onCommit: what the page holds when the button is pressed.
Commit(allow, refresh) ==
    /\ bytes # Nothing /\ preview # Nothing
    /\ phase' = "committing"
    /\ pending' = pending \cup
          {[call |-> "commit", file |-> bytes, source |-> source,
            allow |-> allow, refresh |-> refresh,
            exclude |-> preview.assets \ selected,
            keep |-> {a \in Closing : choices[a] = "keep"},
            other |-> {a \in Closing : choices[a] = "other"},
            shown |-> preview]}
    /\ UNCHANGED <<source, name, preview, confirming, selected, choices, bytes>>

PressCommit ==
    /\ Ready
    /\ \/ /\ Refreshing /\ confirming = "append" /\ Writable
          /\ Commit(preview.duplicate, FALSE)
       \/ /\ Refreshing /\ confirming # "append"
          /\ Commit(FALSE, TRUE)
       \/ /\ ~Refreshing /\ (Duplicate => confirming = "duplicate") /\ Writable
          /\ Commit(Duplicate, FALSE)

Undo == /\ phase = "committed" /\ \A c \in pending : c.call # "rollback"
        /\ pending' = pending \cup {[call |-> "rollback"]}
        /\ UNCHANGED <<shownVars, bytes>>

\* "Cancel", "Choose another CSV" and "Import another file".
StartAnew == /\ \/ Shown /\ ~Busy
                \/ phase = "error" /\ preview = Nothing
                \/ phase = "committed" /\ \A c \in pending : c.call # "rollback"
             /\ Reset /\ bytes' = Nothing /\ UNCHANGED pending

\* The user opens another page: what comes back finds no page.
LeavePage == Reset /\ bytes' = Nothing /\ pending' = {}

-----------------------------------------------------------------------------
(* What comes back.                                                              *)

BytesRead(c) == /\ c.call = "read"
                /\ bytes' = c.file
                /\ pending' = (pending \ {c}) \cup
                                 {[call |-> "preview", file |-> c.file, source |-> c.source]}
                /\ UNCHANGED shownVars

PreviewReady(c, p) ==
    /\ c.call = "preview" /\ p.file = c.file /\ p.source = c.source
    /\ phase' = "previewReady" /\ name' = c.file /\ preview' = p
    /\ selected' = p.assets \ p.locked /\ choices' = Unchosen
    /\ confirming' = IF confirming = "duplicate" THEN "none" ELSE confirming
    /\ pending' = pending \ {c}
    /\ UNCHANGED <<source, bytes>>

Committed(c) == /\ c.call = "commit"
                /\ phase' = "committed" /\ preview' = Nothing /\ confirming' = "none"
                /\ selected' = {} /\ choices' = Unchosen
                /\ pending' = pending \ {c}
                /\ UNCHANGED <<source, name, bytes>>

RolledBack(c) == c.call = "rollback" /\ Reset /\ bytes' = Nothing /\ pending' = pending \ {c}

CallFailed(c) == Failed /\ pending' = pending \ {c} /\ UNCHANGED bytes

ViewNext ==
    \/ \E s \in Broker : SelectSource(s)
    \/ \E f \in Upload : ChooseFile(f)
    \/ \E a \in Asset : ToggleAsset(a) \/ \E c \in {"keep", "other"} : SetConvictionChoice(a, c)
    \/ SetAllAssets
    \/ \E q \in Confirming : Confirm(q)
    \/ PressCommit \/ Undo \/ StartAnew \/ LeavePage
    \/ \E c \in pending : \/ BytesRead(c) \/ Committed(c) \/ RolledBack(c) \/ CallFailed(c)
                          \/ \E p \in Preview : PreviewReady(c, p)

ViewSpec == ViewInit /\ [][ViewNext]_viewVars

-----------------------------------------------------------------------------
(* Properties.                                                                   *)

ReadCall == [call : {"read"}, file : Upload, source : Broker]
PreviewCall == [call : {"preview"}, file : Upload, source : Broker]
CommitCall == [call : {"commit"}, file : Upload, source : Broker,
               allow : BOOLEAN, refresh : BOOLEAN, exclude : SUBSET Asset,
               keep : SUBSET Asset, other : SUBSET Asset, shown : Preview]
UndoCall == [call : {"rollback"}]

Phase == {"idle", "previewing", "previewReady", "committing", "committed", "error"}

\* The page and its calls are what State and Action allow.
ViewTypeOK ==
    /\ phase \in Phase /\ source \in Broker
    /\ name \in Upload \cup {Nothing} /\ bytes \in Upload \cup {Nothing}
    /\ preview \in Preview \cup {Nothing}
    /\ confirming \in Confirming
    /\ selected \subseteq Asset /\ choices \in [Asset -> Choice]
    /\ pending \subseteq ReadCall \cup PreviewCall \cup CommitCall \cup UndoCall

\* A commit sends the bytes that were previewed, to the broker they were previewed for,
\* and only what that preview showed and the user decided by it: a repeat or a refresh
\* it announced, a choice for each position it closes, no row it found an error in
\* (onCommit reads the bytes, the preview and the choices from three places).
CommitsAreAsShown ==
    \A c \in pending : c.call = "commit" =>
       /\ c.file = c.shown.file /\ c.source = c.shown.source
       /\ c.allow => c.shown.duplicate
       /\ c.refresh => c.shown.candidate /\ c.source = "avanza"
       /\ c.shown.errors \subseteq c.exclude /\ ~c.shown.global
       /\ c.shown.closing \ c.exclude = c.keep \cup c.other /\ c.keep \cap c.other = {}

\* A busy page waits for a call that comes back, and for one alone: no control that the
\* page disables stays disabled, and no late answer replaces a newer one.
BusyPagesWait ==
    /\ phase \in {"previewing", "committing"} => pending # {}
    /\ \A c, d \in pending : c = d

PagesAreInStep == CommitsAreAsShown /\ BusyPagesWait
=============================================================================
