----------------------------- MODULE RuntimeLog -----------------------------
(* Processes append to one log file and rotate it (backend/src/engine_logging.rs).*)
(* `<base>` is slot 0, `<base>.k` slot k.  A record is written by looking whether *)
(* the handle still is the live file, weighing it, rotating under the lock if the *)
(* record does not fit, and appending to the handle.  Every call may fail, and    *)
(* then the record is given up; a process may stop and come back anywhere.        *)
EXTENDS Integers

CONSTANTS Writer, Nobody,
          Kept,           \* archives
          MaxBytes,       \* of a file, in units of a record
          Lengths,        \* of a record
          MaxFiles,       \* bound: files ever made
          MaxLogFailures  \* bound: failing calls

ASSUME LogBounds == /\ {Kept, MaxBytes, MaxFiles} \subseteq Nat \ {0}
                    /\ Lengths \subseteq Nat \ {0}
                    /\ MaxLogFailures \in Nat

ASSUME NobodyIsNoWriter == Nobody \notin Writer

NoFile == 0
File == 1..MaxFiles
Slot == 0..Kept

VARIABLES slot,     \* Slot -> the file of that name, or NoFile
          size,     \* file -> bytes in it
          made,     \* files made so far, numbered as they were made
          gone,     \* history: files that lost their name
          writer,   \* Writer -> [at, file: its handle, len: of its record, k: the next rename]
          lock,     \* who has the rotation lock
          faults

logVars == <<slot, size, made, gone, writer, lock, faults>>

Closed == [at |-> "closed", file |-> NoFile, len |-> 0, k |-> 0]

LogInit == /\ slot = [s \in Slot |-> NoFile] /\ size = [f \in File |-> 0]
           /\ made = 0 /\ gone = {} /\ faults = 0
           /\ writer = [w \in Writer |-> Closed] /\ lock = Nobody

-----------------------------------------------------------------------------
Doing(w, at) == writer[w].at = at
Becomes(w, state) == writer' = [writer EXCEPT ![w] = state]
Steps(w, at) == Becomes(w, [writer[w] EXCEPT !.at = at])

\* w is done with its record, and keeps its handle.
Idle(w) == [at |-> "idle", file |-> writer[w].file, len |-> 0, k |-> 0]

Release(w) == lock' = IF lock = w THEN Nobody ELSE lock

\* open_append: the file of slot 0, a new one if there is none; w goes on `at`.
OpenLive(w, at) ==
    /\ slot[0] = NoFile => made < MaxFiles
    /\ made' = IF slot[0] = NoFile THEN made + 1 ELSE made
    /\ slot' = IF slot[0] = NoFile THEN [slot EXCEPT ![0] = made + 1] ELSE slot
    /\ Becomes(w, [writer[w] EXCEPT !.at = at, !.file = slot'[0]])
    /\ UNCHANGED <<size, gone, faults>>

\* open_tagged.
Open(w) == Doing(w, "closed") /\ OpenLive(w, "idle") /\ UNCHANGED lock

\* write_record, from here: follow_foreign_rotation.
Record(w) ==
    /\ Doing(w, "idle")
    /\ \E len \in Lengths : Becomes(w, [writer[w] EXCEPT !.at = "follow", !.len = len])
    /\ UNCHANGED <<slot, size, made, gone, lock, faults>>

\* holds_live_file.
HoldsLive(w) == writer[w].file = slot[0]

Follow(w) ==
    /\ Doing(w, "follow")
    /\ IF HoldsLive(w) THEN Steps(w, "weigh") /\ UNCHANGED <<slot, size, made, gone, faults>>
       ELSE OpenLive(w, "weigh")
    /\ UNCHANGED lock

Overflows(w) == /\ size[writer[w].file] > 0
                /\ size[writer[w].file] + writer[w].len > MaxBytes

Weigh(w) ==
    /\ Doing(w, "weigh")
    /\ Steps(w, IF Overflows(w) THEN "lock" ELSE "append")
    /\ UNCHANGED <<slot, size, made, gone, lock, faults>>

Lock(w) ==
    /\ Doing(w, "lock") /\ lock = Nobody
    /\ lock' = w /\ Steps(w, "recheck")
    /\ UNCHANGED <<slot, size, made, gone, faults>>

\* Fault: not asked again under the lock.
FaultRecheck(w) == /\ Doing(w, "recheck") /\ Steps(w, "drop")
                   /\ UNCHANGED <<slot, size, made, gone, faults, lock>>

\* Somebody else may have rotated meanwhile.
Recheck(w) ==
    /\ Doing(w, "recheck")
    /\ IF HoldsLive(w)
       THEN Steps(w, "drop") /\ UNCHANGED <<slot, size, made, gone, faults, lock>>
       ELSE OpenLive(w, "append") /\ Release(w)

\* The oldest archive goes.
Drop(w) ==
    /\ Doing(w, "drop")
    /\ slot' = [slot EXCEPT ![Kept] = NoFile]
    /\ gone' = gone \cup ({slot[Kept]} \ {NoFile})
    /\ Becomes(w, [writer[w] EXCEPT !.at = "shift", !.k = 1])
    /\ UNCHANGED <<size, made, lock, faults>>

\* plan_rotation: the k-th rename moves the file of slot Kept - k one up, and replaces
\* what has that name; a missing file is passed over.
Shift(w) ==
    /\ Doing(w, "shift") /\ writer[w].k <= Kept
    /\ LET from == Kept - writer[w].k IN
       IF slot[from] = NoFile THEN UNCHANGED <<slot, gone>>
       ELSE /\ slot' = [slot EXCEPT ![from] = NoFile, ![from + 1] = slot[from]]
            /\ gone' = gone \cup ({slot[from + 1]} \ {NoFile})
    /\ Becomes(w, [writer[w] EXCEPT !.k = @ + 1])
    /\ UNCHANGED <<size, made, lock, faults>>

Rotated(w) == Doing(w, "shift") /\ writer[w].k > Kept /\ OpenLive(w, "append") /\ Release(w)

\* write_all: to the handle, whatever that file is called by now.
AppendRecord(w) ==
    /\ Doing(w, "append")
    /\ size' = [size EXCEPT ![writer[w].file] = @ + writer[w].len]
    /\ Becomes(w, Idle(w))
    /\ UNCHANGED <<slot, made, gone, lock, faults>>

\* A call fails, or the lock is not free for a second.
LogFails(w) ==
    /\ ~Doing(w, "closed") /\ ~Doing(w, "idle")
    /\ faults < MaxLogFailures /\ faults' = faults + 1
    /\ Becomes(w, Idle(w))
    /\ Release(w)
    /\ UNCHANGED <<slot, size, made, gone>>

Crash(w) == /\ ~Doing(w, "closed") /\ Becomes(w, Closed) /\ Release(w)
            /\ UNCHANGED <<slot, size, made, gone, faults>>

LogNext == \E w \in Writer :
    \/ Open(w) \/ Record(w) \/ Follow(w) \/ Weigh(w) \/ Lock(w) \/ Recheck(w) \/ Drop(w)
    \/ Shift(w) \/ Rotated(w) \/ AppendRecord(w) \/ LogFails(w) \/ Crash(w)

LogSpec == LogInit /\ [][LogNext]_logVars
-----------------------------------------------------------------------------
\* Of the archives `.1` is the newest, only files that are full become archives, and what
\* is given up is older than everything that is kept: also when a rotation stops
\* half-way, when the live file was rotated by somebody else after this process last
\* looked, and when a late record lands in an archive.  (An archive is full if some
\* record would not have fitted.)
LogKeepsRecords ==
    LET files == {slot[s] : s \in Slot} \ {NoFile}
    IN  /\ \A s, t \in Slot : s < t /\ slot[s] # NoFile => slot[t] < slot[s]
        /\ \A s \in Slot \ {0} : slot[s] # NoFile =>
              \E len \in Lengths : size[slot[s]] + len > MaxBytes
        /\ \A f \in files, g \in gone : g < f
=============================================================================
