--------------------------- MODULE FailureSession ---------------------------
(***************************************************************************)
(* The failure records of the collector: who may change them, how the GUI  *)
(* thread sees them, and when a failed file is tried again.                *)
(*                                                                         *)
(* The worker thread owns the records (FailureUpdates), loads them at the  *)
(* start of a run, changes them while it works and saves them.  The GUI    *)
(* never reads the owner's map: it drains a mailbox (baseline, changes,    *)
(* terminal) from a timer and before each start, and calls a cycle over    *)
(* when its terminal is in and the thread has ended (FailureView).  Starts *)
(* come from buttons, from the idle timer and from the watcher for the     *)
(* user's return (IdleScheduler), all through Bridge._worker_write_guard.  *)
(* Sources: knowmate/collector/failure_state.py, failure_updates.py and    *)
(* scheduler.py, knowmate/app/failure_view.py, bridge.py and main.py.      *)
(*                                                                         *)
(* Cycle ids and revisions are kept as the comparisons made with them, and *)
(* times as the age of a record, so the system runs for ever in finitely   *)
(* many states.  A tick stands for minutes: a worker that is about to scan *)
(* gets there within one.                                                  *)
(***************************************************************************)
EXTENDS Naturals, Sequences, FiniteSets

CONSTANTS
    Paths,          \* documents
    Drm,            \* those of them _is_drm_suspected holds for
    Causes,         \* the <<exception, watchdog stage, failed stage>> of a failed attempt
    BusyWait,       \* failure_backoff.temporary_busy_sec and its jitter, in ticks
    Ladder,         \* timeout_ladder_sec and unknown_ladder_sec (taken equal), in ticks
    ActionWait,     \* needs_user_action_max_sec, in ticks
    RepeatAt, ActionAt,     \* escalation_repeat_at, escalation_action_at
    IdleSec, DrmSec,        \* collector.idle_seconds, drm_idle_threshold_sec, in ticks
    MaxIdle,        \* bound: idle time is not told apart beyond it
    Faults,         \* the fault kinds a run lets happen
    MaxFaults,      \* bound: how many faults happen in a behaviour
    None

FaultKinds == {"crash", "save", "cancel", "edit", "remove", "postpone", "error"}

Kinds == {"TEMPORARY_BUSY", "OPEN_TIMEOUT", "READ_TIMEOUT", "OPEN_ERROR", "READ_ERROR",
          "NEEDS_USER_ACTION", "FILE_CHANGED", "UNKNOWN_TRANSIENT"}
Revs == {1, 2}                  \* (mtime, size); 0 where there is no file

ASSUME ConstantsAssumption ==
    /\ Drm \subseteq Paths
    /\ Causes \subseteq {"OfficeBusyError", "busy_code", "UnreadableFormatError", "other"}
                        \X {None, "open", "read"} \X {None, "open", "read"}
    /\ {BusyWait, ActionWait, RepeatAt, ActionAt, IdleSec, DrmSec, MaxIdle, MaxFaults} \subseteq Nat
    /\ Ladder \in Seq(Nat)
    /\ 0 < RepeatAt /\ RepeatAt < ActionAt              \* _is_valid_escalation_pair
    /\ DrmSec <= MaxIdle /\ IdleSec <= MaxIdle
    /\ Faults \subseteq FaultKinds
    /\ None \notin Paths

MaxAge == ActionWait + BusyWait         \* no wait is longer
Record == [rev : Revs, kind : Kinds, count : 1..ActionAt, age : 0..MaxAge, force : BOOLEAN]

NoRec == [kind |-> "none"]              \* a path without a record
Same  == [kind |-> "same"]              \* a path without a pending change
Map   == [Paths -> Record \cup {NoRec}]
Empty == [p \in Paths |-> NoRec]

\* Python's None is no map, terminal or task.
ASSUME NoneAssumption ==
    /\ None \notin [Paths -> Record \cup {NoRec, Same}] /\ None \notin [persisted : BOOLEAN]
    /\ None \notin [path : Paths, rev : Revs]

VARIABLES
    file, indexed,  \* the revision of each file; is this revision in the index
    idle, wasLong,  \* the user's idle time; IdleScheduler._was_long_idle
    disk,           \* index_failure.json
    records, dirty, \* FailureUpdates: the owner's map (None before the first run), _dirty
    box,            \* FailureUpdates: the mailbox
    view,           \* FailureView
    reqs,           \* _retry_requested, _single_retry_requested, _persist_only_requested
    pc,             \* where the worker thread is; "off" when it does not run
    target, original,   \* _active_target, _single_original_record
    cancelled,      \* _cancelled
    queue,          \* task_queue: how often each path is queued, and at which revision
    cur,            \* the task the consumer works on
    asked, askedDisk,   \* history: bypasses the user asked for, and those on the disk
    faults

owner   == <<records, dirty, box, disk>>
worker  == <<target, original, cancelled, queue, cur>>
desk    == <<file, indexed, idle, wasLong>>
history == <<asked, askedDisk>>
vars == <<desk, owner, view, reqs, pc, worker, history, faults>>

NewBox  == [ready |-> FALSE, newer |-> FALSE, baseline |-> None,
            changes |-> [p \in Paths |-> Same], terminal |-> None]
NewView == [records |-> None, seen |-> TRUE, finalized |-> TRUE, active |-> FALSE, terminal |-> None]
NoReqs  == [retry |-> FALSE, single |-> None, persist |-> FALSE]
NoTasks == [p \in Paths |-> [times |-> 0, rev |-> 0]]
NoAsk   == [p \in Paths |-> FALSE]

Terminal == [persisted : BOOLEAN]

TypeOK ==
    /\ file \in [Paths -> Revs \cup {0}] /\ indexed \in [Paths -> BOOLEAN]
    /\ idle \in 0..MaxIdle /\ wasLong \in BOOLEAN
    /\ disk \in Map /\ records \in Map \cup {None} /\ dirty \in BOOLEAN
    /\ box \in [ready : BOOLEAN, newer : BOOLEAN, baseline : Map \cup {None},
                changes : [Paths -> Record \cup {NoRec, Same}], terminal : Terminal \cup {None}]
    /\ view \in [records : Map \cup {None}, seen : BOOLEAN, finalized : BOOLEAN,
                 active : BOOLEAN, terminal : Terminal \cup {None}]
    /\ reqs \in [retry : BOOLEAN, single : Paths \cup {None}, persist : BOOLEAN]
    /\ pc \in {"off", "run", "load", "cycle", "scan", "take", "attempt", "persist", "flush", "save", "finish", "exit"}
    /\ target \in Paths \cup {None} /\ original \in Record \cup {NoRec}
    /\ cancelled \in BOOLEAN
    /\ queue \in [Paths -> [times : 0..2, rev : Revs \cup {0}]]
    /\ cur \in [path : Paths, rev : Revs] \cup {None}
    /\ asked \in [Paths -> BOOLEAN] /\ askedDisk \in [Paths -> BOOLEAN]
    /\ faults \in 0..MaxFaults

Init ==
    /\ file \in [Paths -> {1}] /\ indexed = [p \in Paths |-> FALSE]
    /\ idle = 0 /\ wasLong = FALSE
    /\ disk = Empty /\ records = None /\ dirty = FALSE
    /\ box = NewBox /\ view = NewView /\ reqs = NoReqs
    /\ pc = "off" /\ target = None /\ original = NoRec /\ cancelled = FALSE
    /\ queue = NoTasks /\ cur = None
    /\ asked = NoAsk /\ askedDisk = NoAsk /\ faults = 0

Fault(kind) == kind \in Faults /\ faults < MaxFaults /\ faults' = faults + 1

isRunning == pc # "off"

-----------------------------------------------------------------------------
(* failure_state: what a failure is, and how long the file then waits.      *)

classify(exc, watchdog, failed) ==
    CASE watchdog = "open"               -> "OPEN_TIMEOUT"
      [] watchdog = "read"               -> "READ_TIMEOUT"
      [] exc \in {"OfficeBusyError", "busy_code"} -> "TEMPORARY_BUSY"
      [] exc = "UnreadableFormatError"   -> "NEEDS_USER_ACTION"
      [] failed = "open"                 -> "OPEN_ERROR"
      [] failed = "read"                 -> "READ_ERROR"
      [] OTHER                           -> "UNKNOWN_TRANSIENT"

escalation_state(r) ==
    IF r.count >= ActionAt THEN "NEEDS_ACTION"
    ELSE IF r.count >= RepeatAt THEN "REPEATED" ELSE "NORMAL"

\* Mutant: three failures in a row end all retries.
NeverAgain(r) == IF r.count >= ActionAt THEN MaxAge + 1 ELSE BusyWait

backoff_seconds(r) ==
    CASE r.kind = "TEMPORARY_BUSY"    -> BusyWait
      [] r.kind = "FILE_CHANGED"      -> 0
      [] r.kind = "NEEDS_USER_ACTION" -> ActionWait
      [] OTHER ->
           IF escalation_state(r) = "NEEDS_ACTION" THEN ActionWait
           ELSE IF Ladder = <<>> THEN 0
           ELSE Ladder[IF r.count < Len(Ladder) THEN r.count ELSE Len(Ladder)]

Waiting(r) == r.age < backoff_seconds(r)

should_defer(r, rev) ==
    /\ r # NoRec
    /\ r.rev = rev
    /\ ~r.force
    /\ Waiting(r)

\* The stage of a kind is open or read, so that comparing kinds compares stages.
note_failure(prev, kind, rev) ==
    [rev |-> rev, kind |-> kind, age |-> 0, force |-> FALSE,
     count |-> IF prev # NoRec /\ prev.rev = rev /\ prev.kind = kind
               THEN IF prev.count < ActionAt THEN prev.count + 1 ELSE ActionAt
               ELSE 1]

Forced(r) == IF r = NoRec THEN r ELSE [r EXCEPT !.force = TRUE]     \* request_retry_one

request_retry_all(m) == [p \in Paths |-> Forced(m[p])]

prune(m) == [p \in Paths |-> IF file[p] = 0 THEN NoRec ELSE m[p]]

-----------------------------------------------------------------------------
(* FailureUpdates: the owner's map and the mailbox.                         *)

\* ObservedFailures: each changed path is coalesced into one pending record.
Replace(m) ==
    /\ records' = m
    /\ dirty' = (dirty \/ m # records)
    /\ box' = [box EXCEPT !.newer = @ \/ m # records,
                          !.changes = [p \in Paths |-> IF m[p] # records[p] THEN m[p] ELSE @[p]]]

begin == box' = NewBox

\* The durable records, unless some are still unsaved; then the mailbox opens.
Open ==
    LET m == IF records = None \/ ~dirty THEN disk ELSE records
    IN  /\ records' = m
        /\ box' = [NewBox EXCEPT !.ready = TRUE, !.newer = TRUE, !.baseline = m]

save ==
    \/ /\ disk' = records /\ dirty' = FALSE
       /\ askedDisk' = [p \in Paths |-> asked[p] \/ (pc = "persist" /\ p = target)]
       /\ UNCHANGED faults
    \/ /\ Fault("save")
       /\ dirty' = TRUE
       /\ UNCHANGED <<disk, askedDisk>>

finish == box' = [box EXCEPT !.terminal = [persisted |-> ~dirty], !.ready = TRUE]

-----------------------------------------------------------------------------
(* FailureView, on the GUI thread.                                          *)

\* Mutant: the baseline stays in the mailbox when it has been handed over.
BaselineStays == IF box.ready THEN [box EXCEPT !.newer = FALSE, !.changes = [p \in Paths |-> Same]] ELSE box

drained == IF box.ready THEN [box EXCEPT !.baseline = None, !.newer = FALSE,
                                         !.changes = [p \in Paths |-> Same]]
           ELSE box

Merged(base, changes) ==
    [p \in Paths |-> IF changes[p] = Same THEN base[p] ELSE changes[p]]

\* What poll makes of the view: merge, then finalise once the thread has ended.
polled ==
    LET start   == IF view.seen THEN view
                   ELSE [view EXCEPT !.seen = TRUE, !.active = TRUE, !.terminal = None, !.finalized = FALSE]
        base    == IF box.baseline # None THEN box.baseline
                   ELSE IF view.records = None THEN Empty ELSE view.records
        merged  == [start EXCEPT
                       !.records  = IF box.newer THEN Merged(base, box.changes)
                                    ELSE IF box.baseline # None THEN box.baseline ELSE @,
                       !.terminal = IF box.terminal # None THEN box.terminal ELSE @]
        current == IF box.ready THEN merged ELSE view
    IN  IF current.terminal # None /\ ~current.finalized /\ ~isRunning
        THEN [current EXCEPT !.finalized = TRUE, !.active = FALSE]
        ELSE current

drain == view' = polled /\ box' = drained

\* The 500 ms timer of the bridge.
PollTimer ==
    /\ drain
    /\ UNCHANGED <<desk, records, dirty, disk, reqs, pc, worker, history, faults>>

-----------------------------------------------------------------------------
(* Starting a run.  Every start polls first, is refused while a run is not  *)
(* over, and turns into a run that only saves while records are unsaved.    *)

request_failure_persist == reqs' = [retry |-> FALSE, single |-> None, persist |-> TRUE]

\* One start with the given requests behind the write guard.
request_start(retry, single) ==
    /\ drain
    /\ IF isRunning \/ polled.active
       THEN UNCHANGED <<reqs, pc>>
       ELSE /\ pc' = "run"
            /\ IF dirty
               THEN request_failure_persist
               ELSE reqs' = [retry |-> retry \/ (reqs.retry /\ single = None),
                             single |-> single, persist |-> FALSE]
    /\ UNCHANGED <<records, dirty, disk, worker, history, faults>>

\* A click is an input: the user is not idle.
startReindex == idle = 0 /\ request_start(TRUE, None) /\ UNCHANGED desk

retryFile(p) == idle = 0 /\ request_start(FALSE, p) /\ UNCHANGED desk

\* IdleScheduler._on_idle, when it finds the user away long enough.
on_idle ==
    /\ ~isRunning
    /\ idle >= IdleSec
    /\ request_start(FALSE, None)
    /\ UNCHANGED desk

\* IdleScheduler._on_recovery_check: remember a long absence ...
NoteLongIdle ==
    /\ ~isRunning
    /\ idle >= DrmSec /\ ~wasLong
    /\ wasLong' = TRUE
    /\ UNCHANGED <<file, indexed, idle, owner, view, reqs, pc, worker, history, faults>>

\* ... and catch up with what was skipped as soon as the user is back.
CatchUp ==
    /\ ~isRunning
    /\ wasLong /\ idle = 0
    /\ wasLong' = FALSE
    /\ request_start(FALSE, None)
    /\ UNCHANGED <<file, indexed, idle>>

cancel ==
    /\ isRunning /\ ~cancelled
    /\ idle = 0
    /\ Fault("cancel")
    /\ cancelled' = TRUE
    /\ UNCHANGED <<desk, owner, view, reqs, pc, target, original, queue, cur, history>>

-----------------------------------------------------------------------------
(* The worker thread.                                                       *)

\* run: take the requests, close the mailbox of the run before.
Run ==
    /\ pc = "run"
    /\ begin
    /\ view' = [view EXCEPT !.seen = FALSE]
    /\ target' = reqs.single
    /\ reqs' = [reqs EXCEPT !.single = None]
    /\ pc' = "load"
    /\ UNCHANGED <<desk, records, dirty, disk, original, cancelled, queue, cur, history, faults>>

\* A run that only saves does nothing else; none goes on over unsaved records.
Load ==
    /\ pc = "load"
    /\ Open
    /\ pc' = IF reqs.persist THEN "save" ELSE IF dirty THEN "finish" ELSE "cycle"
    /\ reqs' = [reqs EXCEPT !.persist = FALSE]
    /\ UNCHANGED <<desk, dirty, disk, view, worker, history, faults>>

\* The target of a retry must have a record, be there and, if protected, readable now.
Admissible(p) == records[p] # NoRec /\ file[p] # 0 /\ ~(p \in Drm /\ idle >= DrmSec)

\* The start of _run_cycle: the cancellation flag is cleared here, and the
\* bypasses the user asked for are set.
StartCycle ==
    /\ pc = "cycle"
    /\ cancelled' = FALSE
    /\ reqs' = [reqs EXCEPT !.retry = FALSE]
    /\ IF target # None
       THEN IF Admissible(target)
            THEN /\ original' = records[target]
                 /\ Replace([records EXCEPT ![target] = Forced(@)])
                 /\ pc' = "scan"
            ELSE /\ pc' = "flush"
                 /\ UNCHANGED <<records, dirty, box, original>>
       ELSE /\ Replace(IF reqs.retry THEN request_retry_all(records) ELSE records)
            /\ pc' = "scan"
            /\ UNCHANGED original
    /\ asked' = [p \in Paths |-> asked[p] \/ (target = None /\ reqs.retry /\ records[p] # NoRec)]
    /\ UNCHANGED <<desk, disk, view, target, queue, cur, askedDisk, faults>>

\* The producer: every changed file that need not wait, twice where watched
\* folders overlap; protected ones only while the user is around.
Scan ==
    /\ pc = "scan"
    /\ queue' \in [Paths -> [times : 0..2, rev : Revs \cup {0}]]
    /\ \A p \in Paths :
        IF /\ file[p] # 0 /\ ~indexed[p]
           /\ target \in {None, p}
           /\ ~should_defer(records[p], file[p])
           /\ ~(p \in Drm /\ idle >= DrmSec)
        THEN queue'[p].times \in (IF target = p THEN {1} ELSE {1, 2}) /\ queue'[p].rev = file[p]
        ELSE queue'[p] = [times |-> 0, rev |-> 0]
    /\ pc' = "take"
    /\ UNCHANGED <<desk, owner, view, reqs, target, original, cancelled, cur, history, faults>>

Dequeue(p) == queue' = [queue EXCEPT ![p] = IF @.times = 1 THEN [times |-> 0, rev |-> 0]
                                            ELSE [@ EXCEPT !.times = 1]]

\* The consumer decides again before it starts Office for a file.
Take(p) ==
    /\ pc = "take" /\ ~cancelled
    /\ queue[p].times > 0
    /\ Dequeue(p)
    /\ IF should_defer(records[p], queue[p].rev)
       THEN UNCHANGED <<cur, pc>>
       ELSE cur' = [path |-> p, rev |-> queue[p].rev] /\ pc' = "attempt"
    /\ UNCHANGED <<desk, owner, view, reqs, target, original, cancelled, history, faults>>

\* What was asked for has been done once an attempt has a result.
Conclude(p, r) ==
    /\ Replace([records EXCEPT ![p] = r])
    /\ asked' = [asked EXCEPT ![p] = FALSE]
    /\ pc' = "take" /\ cur' = None
    /\ UNCHANGED <<file, idle, wasLong, disk, view, reqs, target, original, cancelled, queue, askedDisk>>

Succeed ==
    /\ pc = "attempt" /\ file[cur.path] = cur.rev
    /\ Conclude(cur.path, NoRec)
    /\ indexed' = [indexed EXCEPT ![cur.path] = TRUE]
    /\ UNCHANGED faults

\* The file is another one by the time it has been read.
Changed ==
    /\ pc = "attempt" /\ file[cur.path] \notin {0, cur.rev}
    /\ Conclude(cur.path, note_failure(records[cur.path], "FILE_CHANGED", cur.rev))
    /\ UNCHANGED <<indexed, faults>>

Fail(cause) ==
    /\ pc = "attempt"
    /\ Conclude(cur.path, note_failure(records[cur.path], classify(cause[1], cause[2], cause[3]), cur.rev))
    /\ UNCHANGED <<indexed, faults>>

\* PowerPoint is not prepared, Office is still going down, no COM, or the
\* embedding was cancelled: the file is left for a later cycle without a record.
Postpone ==
    /\ pc = "attempt"
    /\ IF cancelled THEN UNCHANGED faults ELSE Fault("postpone")
    /\ pc' = "take" /\ cur' = None
    /\ UNCHANGED <<desk, owner, view, reqs, target, original, cancelled, queue, history>>

\* An exception no handler of the cycle takes.
Escape ==
    /\ pc \in {"take", "attempt"}
    /\ Fault("error")
    /\ pc' = "flush" /\ cur' = None /\ queue' = NoTasks
    /\ UNCHANGED <<desk, owner, view, reqs, target, original, cancelled, history>>

\* The end of the documents: a full, uncancelled cycle drops records of files
\* that are gone.  Then the records are saved a first time.
EndDocuments ==
    /\ pc = "take"
    /\ cancelled \/ \A p \in Paths : queue[p].times = 0
    /\ Replace(IF cancelled \/ target # None THEN records ELSE prune(records))
    /\ queue' = NoTasks
    /\ pc' = "persist"
    /\ UNCHANGED <<desk, disk, view, reqs, target, original, cancelled, cur, history, faults>>

\* The records are saved after the documents and once more on the way out.
Persist ==
    /\ pc \in {"persist", "save"}
    /\ save
    /\ pc' = IF pc = "persist" THEN "flush" ELSE "finish"
    /\ UNCHANGED <<desk, records, box, view, reqs, worker, asked>>

\* Mutant: the flag of a retry that was cancelled stays set.
FlagStays == records

\* _restore_single_retry_flag: a bypass that was not used does not last.
Restored ==
    IF target # None /\ original # NoRec /\ records[target] = Forced(original)
    THEN [records EXCEPT ![target] = original] ELSE records

\* The way out of a cycle, whatever ended it.
Flush ==
    /\ pc = "flush"
    /\ Replace(Restored)
    /\ original' = NoRec
    /\ pc' = "save"
    /\ UNCHANGED <<desk, disk, view, reqs, target, cancelled, queue, cur, history, faults>>

Finish ==
    /\ pc = "finish"
    /\ finish
    /\ target' = None
    /\ reqs' = [reqs EXCEPT !.retry = FALSE]
    /\ pc' = "exit"
    /\ UNCHANGED <<desk, records, dirty, disk, view, original, cancelled, queue, cur, history, faults>>

\* The native thread ends after it has published its end.
Exit ==
    /\ pc = "exit"
    /\ pc' = "off"
    /\ UNCHANGED <<desk, owner, view, reqs, worker, history, faults>>

-----------------------------------------------------------------------------
(* The user, the clock and the end of the process.                          *)

older(r) == IF r \in {NoRec, Same} THEN r ELSE [r EXCEPT !.age = IF @ < MaxAge THEN @ + 1 ELSE @]
Older(m) == IF m = None THEN m ELSE [p \in Paths |-> older(m[p])]

\* A worker that has been started reaches its scan before the next tick.
Tick ==
    /\ pc \in {"off", "take", "attempt"}
    /\ idle' = IF idle < MaxIdle THEN idle + 1 ELSE idle
    /\ records' = Older(records) /\ disk' = Older(disk)
    /\ box' = [box EXCEPT !.baseline = Older(@), !.changes = Older(@)]
    /\ view' = [view EXCEPT !.records = Older(@)]
    /\ original' = older(original)
    /\ UNCHANGED <<file, indexed, wasLong, dirty, reqs, pc, target, cancelled, queue, cur, history, faults>>

UserInput ==
    /\ idle # 0
    /\ idle' = 0
    /\ UNCHANGED <<file, indexed, wasLong, owner, view, reqs, pc, worker, history, faults>>

\* The user edits a file, or removes it.
Edit(p) ==
    /\ file[p] # 0
    /\ \/ Fault("edit") /\ file' = [file EXCEPT ![p] = 3 - @]
       \/ Fault("remove") /\ file' = [file EXCEPT ![p] = 0]
    /\ indexed' = [indexed EXCEPT ![p] = FALSE]
    /\ UNCHANGED <<idle, wasLong, owner, view, reqs, pc, worker, history>>

\* The process dies and is started again; index_failure.json is what is left.
Crash ==
    /\ Fault("crash")
    /\ records' = None /\ dirty' = FALSE /\ box' = NewBox /\ view' = NewView
    /\ reqs' = NoReqs /\ pc' = "off" /\ target' = None /\ original' = NoRec
    /\ cancelled' = FALSE /\ queue' = NoTasks /\ cur' = None /\ wasLong' = FALSE
    /\ asked' = askedDisk
    /\ UNCHANGED <<file, indexed, idle, disk, askedDisk>>

Step ==
    \/ Run \/ Load \/ StartCycle \/ Scan
    \/ \E p \in Paths : Take(p)
    \/ Succeed \/ Changed \/ \E c \in Causes : Fail(c)
    \/ EndDocuments \/ Persist \/ Flush \/ Finish \/ Exit

Next ==
    \/ Step \/ Postpone \/ Escape
    \/ PollTimer \/ startReindex \/ on_idle \/ NoteLongIdle \/ CatchUp \/ cancel
    \/ \E p \in Paths : retryFile(p) \/ Edit(p)
    \/ Tick \/ UserInput \/ Crash

Spec == Init /\ [][Next]_vars

\* The worker thread runs, the bridge's timer fires, time goes on.  The idle
\* timer is re-armed for the moment the threshold is reached and the watcher
\* polls every 15 s, so neither misses its condition for ever.
FairSpec ==
    /\ Spec
    /\ WF_vars(Step) /\ WF_vars(PollTimer) /\ WF_vars(Tick)
    /\ SF_vars(on_idle) /\ SF_vars(NoteLongIdle) /\ SF_vars(CatchUp)

-----------------------------------------------------------------------------
(* Properties.                                                              *)

\* What the GUI has, or will have after its next poll, is the owner's map:
\* handing over a baseline and coalesced changes loses no change and applies
\* none twice, across cycles, failed saves and polls at any moment
\* (failure_updates.py drain, begin, _changed; failure_view.py poll).
ViewFollowsOwner ==
    box.ready => polled.records = records

\* The GUI learns of the end of every cycle: no run starts before the view has
\* finalised the one before it, so no terminal is overwritten unseen
\* (bridge.py _worker_write_guard, failure_view.py poll).
NoCycleSkipped == pc = "run" => view.seen /\ view.finalized

\* A file inside its wait is attempted again only if the user asked for it and
\* no attempt has had a result since: a bypass is used once, by a file queued
\* twice as well, and a retry of one file leaves no bypass behind
\* (scheduler.py consumer's should_defer, _restore_single_retry_flag).
BypassWasAsked ==
    [][\A p \in Paths :
          /\ Take(p) /\ pc' = "attempt"
          /\ records[p] # NoRec /\ records[p].rev = queue[p].rev /\ Waiting(records[p])
          => asked[p] \/ p = target]_vars

\* No back-off is for ever, and a protected document skipped while the user was
\* away is not forgotten: if the user keeps leaving and is back now and then while
\* no cycle runs, every file that is there and not indexed is attempted again
\* (failure_state.py: the time of a retry is adjusted, no file is ignored for
\* ever; IdleScheduler._on_recovery_check).
RetriedEventually ==
    ([]<>(idle >= IdleSec) /\ []<>(idle = 0 /\ ~isRunning)) =>
        \A p \in Paths : []<>(indexed[p] \/ file[p] = 0 \/ (cur # None /\ cur.path = p))
=============================================================================
