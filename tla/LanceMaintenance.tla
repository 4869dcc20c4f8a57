-------------------------- MODULE LanceMaintenance --------------------------
(***************************************************************************)
(* When a LanceDB table is compacted (LanceTableMaintenance).  Every write  *)
(* leaves a small fragment.  A cycle that writes opens a backlog, marked in *)
(* a sidecar file; while it is open only a hard limit makes the table       *)
(* compact, after the index state is saved; a cycle that ends exhausted     *)
(* closes it.  Failures cool down, successes close a gate for a long time;  *)
(* both survive a restart as wall-clock times.                              *)
(*                                                                          *)
(* Times are kept as what is left of them: a saved time as its distance     *)
(* from the present wall clock, so that time and clock changes move it, a   *)
(* monotonic deadline as a remaining wait.                                  *)
(* Sources: knowmate/rag/lance_maintenance.py, with its calls in            *)
(* collector/scheduler.py, collector/mail_scanner.py, rag/indexer.py.       *)
(***************************************************************************)
EXTENDS Integers

CONSTANTS
    Reach, Finalize, Hard,    \* the three thresholds of small fragments
    MinInterval,              \* min_optimize_interval_sec
    Cooldown,                 \* failure_cooldown_sec
    MaxSmall,                 \* bound: small fragments
    MaxJump,                  \* bound: how far the clock is set at once
    MaxFaults,                \* bound: failures, cancellations, crashes, clock changes
    None

ASSUME ConstantsAssumption ==
    /\ {Reach, Finalize, Hard, MinInterval, Cooldown, MaxSmall} \subseteq Nat \ {0}
    /\ MaxJump \in Nat /\ MaxFaults \in Nat /\ None \notin Int

VARIABLES
    small,      \* num_small_fragments of the table
    dirty,      \* the table is ahead of the saved index state
    state,      \* _state of the running process
    sidecar,    \* the file it is saved in
    steady,     \* what is left until _steady_deadline
    failure,    \* what is left until _failure_deadline
    budget,     \* _mutations_since_fragment_check, up to the interval
    pc, cancelled,
    before,     \* what _run_optimize was called with
    quiet,      \* time since a compaction failed and since one succeeded
    excused,    \* the clock was set forward, or the record of a compaction was lost
    faults

vars == <<small, dirty, state, sidecar, steady, failure, budget, pc, cancelled, before, quiet, excused, faults>>
time == <<steady, failure, quiet>>

Lowest == -(MaxJump * MaxFaults)
Latest == MinInterval + Cooldown + MaxJump * MaxFaults
Left   == Lowest..Latest \cup {None}

empty_state == [backlog |-> FALSE, steadyIn |-> None, failureIn |-> None, noEffect |-> None]
CheckInterval == IF Reach < Hard THEN Reach ELSE Hard       \* _fragment_check_interval

State == [backlog : BOOLEAN, steadyIn : Left, failureIn : Left, noEffect : (0..MaxSmall) \cup {None}]

TypeOK ==
    /\ small \in 0..MaxSmall /\ dirty \in BOOLEAN /\ cancelled \in BOOLEAN
    /\ state \in State /\ sidecar \in State \cup {None}
    /\ steady \in 0..MinInterval /\ failure \in 0..Cooldown
    /\ budget \in 0..CheckInterval
    /\ pc \in {"off", "idle", "working", "item", "hard", "close", "final", "steady", "optimize",
               "noted", "useless", "unknown", "failed"}
    /\ before \in 0..MaxSmall
    /\ quiet \in [failed : 0..Cooldown, done : 0..MinInterval] /\ excused \in BOOLEAN
    /\ faults \in 0..MaxFaults

Fault == faults < MaxFaults /\ faults' = faults + 1

Smaller(a, b) == IF a < b THEN a ELSE b
Larger(a, b)  == IF a > b THEN a ELSE b

Init ==
    /\ small \in 0..Hard /\ dirty = FALSE
    /\ state = empty_state /\ sidecar = None
    /\ steady = 0 /\ failure = 0 /\ budget = 0
    /\ pc = "off" /\ cancelled = FALSE /\ before = 0
    /\ quiet = [failed |-> Cooldown, done |-> MinInterval] /\ excused = FALSE
    /\ faults = 0

\* _persist_state: the sidecar follows the state, or a failed save leaves it.
Saved(new) == sidecar' = new /\ UNCHANGED faults
Unsaved    == Fault /\ UNCHANGED sidecar
Persist(new) == Saved(new) \/ Unsaved

-----------------------------------------------------------------------------
(* The start, time, the clock.                                              *)

Capped(left, most) == IF left # None /\ left > most THEN most ELSE left

\* _restore_deadlines: a saved time in the future was written by another clock.
Clamped(s) == [s EXCEPT !.steadyIn = Capped(@, MinInterval), !.failureIn = Capped(@, Cooldown)]

FailureWait(left) == IF left = None THEN 0 ELSE Larger(left, 0)
SteadyWait(left)  == IF left = None THEN 0 ELSE Larger(left, 0)

\* __init__: a table that was recreated or is empty begins anew; the save of
\* that, or of a clamped time, may fail.
Start(reset) ==
    /\ pc = "off" /\ pc' = "idle"
    /\ reset => small = 0 \/ Fault
    /\ LET loaded == IF reset \/ sidecar = None THEN empty_state ELSE sidecar
           kept   == Clamped(loaded)
       IN  /\ state' = kept
           /\ sidecar' \in {sidecar} \cup (IF reset \/ kept # loaded THEN {kept} ELSE {})
           /\ steady' = SteadyWait(kept.steadyIn) /\ failure' = FailureWait(kept.failureIn)
           /\ budget' = IF kept.backlog THEN CheckInterval ELSE 0
    /\ small' = IF reset THEN 0 ELSE small
    /\ excused' = (excused \/ reset)
    /\ (~reset \/ small = 0) => UNCHANGED faults
    /\ UNCHANGED <<dirty, cancelled, before, quiet>>

Moved(left, d) == IF left = None THEN None ELSE Larger(left - d, Lowest)
MovedAll(s, d) == [s EXCEPT !.steadyIn = Moved(@, d), !.failureIn = Moved(@, d)]
MoveClock(d)   == /\ state' = MovedAll(state, d)
                  /\ sidecar' = IF sidecar = None THEN None ELSE MovedAll(sidecar, d)

Tick ==
    /\ MoveClock(1)
    /\ steady' = Larger(steady - 1, 0) /\ failure' = Larger(failure - 1, 0)
    /\ quiet' = [failed |-> Smaller(quiet.failed + 1, Cooldown), done |-> Smaller(quiet.done + 1, MinInterval)]
    /\ UNCHANGED <<small, dirty, budget, pc, cancelled, before, excused, faults>>

SetClock(d) ==
    /\ Fault /\ MoveClock(d)
    /\ excused' = (excused \/ d > 0)
    /\ UNCHANGED <<small, dirty, time, budget, pc, cancelled, before>>

Crash ==
    /\ Fault /\ pc # "off" /\ pc' = "off"
    /\ state' = empty_state /\ steady' = 0 /\ failure' = 0 /\ budget' = 0 /\ cancelled' = FALSE /\ before' = 0
    /\ excused' = (excused \/ pc \in {"noted", "useless", "unknown", "failed"})
    /\ UNCHANGED <<small, dirty, sidecar, quiet>>

Cancel ==
    /\ Fault /\ pc \notin {"off", "idle"} /\ ~cancelled
    /\ cancelled' = TRUE
    /\ UNCHANGED <<small, dirty, state, sidecar, time, budget, pc, before, excused>>

-----------------------------------------------------------------------------
(* A cycle: items that write, each followed by the hard-limit checkpoint.   *)

BeginCycle ==
    /\ pc = "idle" /\ pc' = "working" /\ cancelled' = FALSE
    /\ UNCHANGED <<small, dirty, state, sidecar, time, budget, before, excused, faults>>

\* mark_backlog_active, before the first write: the flag is set whether or not
\* it could be saved, and a set flag is not saved again.
MarkBacklog ==
    /\ pc = "working" /\ pc' = "item"
    /\ IF state.backlog THEN UNCHANGED <<state, sidecar, budget, faults>>
       ELSE /\ state' = [state EXCEPT !.backlog = TRUE]
            /\ budget' = CheckInterval
            /\ Persist(state')
    /\ UNCHANGED <<small, dirty, time, cancelled, before, excused>>

\* An item adds a fragment, only deletes rows (record_mutation), or fails.
Item ==
    /\ pc = "item" /\ pc' = "hard"
    /\ \E adds, writes \in 0..1 :
          /\ adds <= writes /\ small + adds <= MaxSmall
          /\ small' = small + adds
          /\ budget' = Smaller(budget + writes, CheckInterval)
          /\ dirty' = (dirty \/ writes = 1)
    /\ UNCHANGED <<state, sidecar, time, cancelled, before, excused, faults>>

\* Mutant: what was of no use once is never tried again.
NeverAgain(n) == failure = 0 /\ state.noEffect = None
Allowed(n) == failure = 0 /\ (state.noEffect # None => n >= state.noEffect + Finalize)

Optimize(n, from) == before' = n /\ pc' = "optimize"
Back(to)          == pc' = to /\ UNCHANGED before

Durable(saved)   == saved

\* checkpoint_hard_limit.  The budget is spent when the statistics were read
\* for nothing, and kept when the cooldown or the checkpoint came in between.
HardLimit ==
    /\ pc = "hard"
    /\ \/ /\ ~state.backlog \/ cancelled \/ failure > 0 \/ budget < CheckInterval
          /\ Back("working") /\ UNCHANGED <<budget, dirty, faults>>
       \/ /\ state.backlog /\ ~cancelled /\ failure = 0 /\ budget = CheckInterval
          /\ \/ Fault /\ budget' = 0 /\ Back("working") /\ UNCHANGED dirty      \* stats failed
             \/ /\ small < Hard \/ ~Allowed(small)
                /\ budget' = 0 /\ Back("working") /\ UNCHANGED <<dirty, faults>>
             \/ /\ small >= Hard /\ Allowed(small)
                /\ \E saved \in BOOLEAN :
                      /\ IF saved THEN dirty' = FALSE /\ UNCHANGED faults ELSE Fault /\ UNCHANGED dirty
                      /\ IF Durable(saved) THEN Optimize(small, pc) ELSE Back("working")
                /\ UNCHANGED budget
    /\ UNCHANGED <<small, state, sidecar, time, cancelled, excused>>

\* The end of a cycle saves the index state; only a scan that is known to be
\* exhausted goes on to finish_backlog.
EndCycle(exhausted) ==
    /\ pc = "working"
    /\ \E saved \in BOOLEAN :
          /\ IF saved THEN dirty' = FALSE /\ UNCHANGED faults ELSE Fault /\ UNCHANGED dirty
          /\ pc' = IF exhausted /\ saved /\ ~cancelled THEN "close" ELSE "idle"
    /\ UNCHANGED <<small, state, sidecar, time, budget, cancelled, before, excused>>

Closed(s) == [s EXCEPT !.backlog = FALSE]

\* finish_backlog: a backlog that cannot be closed on disk is not finalised.
CloseBacklog ==
    /\ pc = "close"
    /\ state' = Closed(state)
    /\ \/ Saved(state') /\ pc' = IF state.backlog THEN "final" ELSE "steady"
       \/ Unsaved /\ pc' = "idle"
    /\ UNCHANGED <<small, dirty, time, budget, cancelled, before, excused>>

Gate == /\ state' = [state EXCEPT !.steadyIn = MinInterval]
        /\ steady' = MinInterval
        /\ Persist(state')

FinalizeBacklog ==
    /\ pc = "final"
    /\ \/ Fault /\ Back("idle") /\ UNCHANGED <<state, sidecar, steady>>
       \/ small < Finalize /\ Gate /\ Back("idle")
       \/ /\ small >= Finalize
          /\ IF Allowed(small) THEN Optimize(small, pc) ELSE Back("idle")
          /\ UNCHANGED <<state, sidecar, steady, faults>>
    /\ UNCHANGED <<small, dirty, failure, budget, cancelled, quiet, excused>>

\* checkpoint_steady of a table without a backlog.
CheckSteady ==
    /\ pc = "steady"
    /\ \/ Fault /\ Back("idle")
       \/ /\ UNCHANGED faults
          /\ IF ~cancelled /\ small >= Reach /\ steady = 0 /\ Allowed(small)
             THEN Optimize(small, pc) ELSE Back("idle")
    /\ UNCHANGED <<small, dirty, state, sidecar, time, budget, cancelled, excused>>

-----------------------------------------------------------------------------
(* _run_optimize: the table first, then what is remembered of it.           *)

RunOptimize ==
    /\ pc = "optimize"
    /\ \/ cancelled /\ pc' = "idle" /\ UNCHANGED <<small, quiet, faults>>
       \/ /\ ~cancelled /\ \E n \in 0..(before - 1) : n < Reach /\ small' = n
          /\ pc' = "noted" /\ quiet' = [quiet EXCEPT !.done = 0] /\ UNCHANGED faults
       \/ /\ ~cancelled /\ Fault /\ pc' \in {"useless", "unknown"}      \* no effect; stats failed
          /\ quiet' = [quiet EXCEPT !.done = 0] /\ UNCHANGED small
       \/ /\ ~cancelled /\ Fault /\ pc' = "failed"
          /\ quiet' = [quiet EXCEPT !.failed = 0] /\ UNCHANGED small
    /\ UNCHANGED <<dirty, state, sidecar, steady, failure, budget, cancelled, before, excused>>

Success == [state EXCEPT !.failureIn = None, !.steadyIn = MinInterval,
                         !.noEffect = IF pc = "useless" THEN small ELSE None]
Failure == [state EXCEPT !.failureIn = Cooldown]

NoteOptimize ==
    /\ pc \in {"noted", "useless", "unknown", "failed"} /\ pc' = "idle"
    /\ IF pc = "failed"
       THEN state' = Failure /\ failure' = Cooldown /\ UNCHANGED <<steady, budget>>
       ELSE state' = Success /\ failure' = 0 /\ steady' = MinInterval /\ budget' = 0
    /\ \/ Saved(state') /\ UNCHANGED excused
       \/ Unsaved /\ excused' = TRUE
    /\ UNCHANGED <<small, dirty, cancelled, before, quiet>>
-----------------------------------------------------------------------------
Worker ==
    \/ Start(FALSE) \/ Start(TRUE) \/ BeginCycle \/ MarkBacklog \/ Item \/ HardLimit
    \/ EndCycle(TRUE) \/ EndCycle(FALSE) \/ CloseBacklog \/ FinalizeBacklog \/ CheckSteady
    \/ RunOptimize \/ NoteOptimize

Next == Worker \/ Tick \/ Cancel \/ Crash \/ \E d \in (-MaxJump)..MaxJump \ {0} : SetClock(d)

Spec == Init /\ [][Next]_vars

\* Time passes, cycles come, and again and again one of them is exhausted.
FairSpec == Spec /\ WF_vars(Tick) /\ WF_vars(Worker) /\ SF_vars(EndCycle(TRUE))

-----------------------------------------------------------------------------
(* Properties.                                                              *)

\* The table is compacted only when the saved index state knows all its rows:
\* the row ids a crash would make the state look for are never rewritten ahead
\* of it (ensure_durable, checkpoint_succeeded).
CompactedAfterCheckpoint == pc = "optimize" => ~dirty

\* A compaction that failed is not tried again within the cooldown, nor the
\* routine one within the interval of the last success, restarts and clocks
\* that are set back included (_restore_deadlines, _allowed); excused are clocks
\* set forward and records that were never saved.
NoEarlyCompaction ==
    [][pc # "optimize" /\ pc' = "optimize" /\ ~excused
          => quiet.failed >= Cooldown /\ (pc = "steady" => quiet.done >= MinInterval)]_vars

\* Whatever cycles, failures and clocks do, small fragments do not stay at the
\* number that closing a backlog compacts; if compacting was of no use, it is
\* tried again when as many have been added.
\* (Below it a table may stay: every backlog that is closed there sets the gate
\* of the routine compaction again.)
KeepsCompact ==
    []<>(small < Finalize \/ (state.noEffect # None /\ small < state.noEffect + Finalize))
=============================================================================
