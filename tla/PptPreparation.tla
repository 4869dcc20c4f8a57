--------------------------- MODULE PptPreparation ---------------------------
(***************************************************************************)
(* The gate in front of the collector: before the worker object is made,    *)
(* the GUI thread checks whether the PowerPoint add-in is installed, may     *)
(* start a detached setup helper once and observes it for a limited time.    *)
(* Starts that are asked for meanwhile are kept as one reservation.  The     *)
(* result is the policy with which PowerPoint files are read.                *)
(*                                                                          *)
(* One read-only check is under way at a time, so its generation number is   *)
(* left out; which start was reserved (a cycle, a retry, one file) too.      *)
(* The module is the installed program: Windows with the Office reader.  On  *)
(* another platform or with a plain or fake reader begin() makes the worker   *)
(* at once, and no PowerPoint is ever read (ppt_preparation.py:108-109).      *)
(* Source: knowmate/app/ppt_preparation.py.                                  *)
(***************************************************************************)
EXTENDS Naturals

CONSTANTS
    ReaderModes,   \* the values of ppt_reader_mode to consider
    MaxTrips       \* bound: steps of the preparation that fail

ASSUME TripsAssumption == MaxTrips \in Nat

VARIABLES
    mode,       \* ppt_reader_mode of this installation
    declined,   \* the file that says the user declined the installation
    setup,      \* the helper this run started
    prep,       \* PptPreparationCoordinator
    policy,     \* AutoReader._ppt_policy
    start,      \* _pending_start
    worker,     \* _worker: not made, could not be made, made, running
    trips

preparing == <<mode, declined, setup, prep, policy, start, worker, trips>>

NewPrep == [state |-> "new", checking |-> FALSE, attempted |-> FALSE, after |-> FALSE,
            unconfirmed |-> FALSE, observed |-> FALSE, closed |-> FALSE]

PrepInit ==
    /\ mode \in ReaderModes /\ declined \in BOOLEAN /\ setup = "none"
    /\ prep = NewPrep /\ policy = "ready" /\ start = FALSE /\ worker = "none" /\ trips = 0

PrepTypeOK ==
    /\ mode \in {"auto", "com", "addin"} /\ setup \in {"none", "running", "over"}
    /\ prep.state \in {"new", "checking", "installing", "rechecking", "ready", "com_only", "ppt_pending"}
    /\ policy \in {"ready", "com_only", "ppt_pending"}
    /\ {declined, start} \subseteq BOOLEAN
    /\ worker \in {"none", "failed", "idle", "running"} /\ trips \in 0..MaxTrips

Trip == trips < MaxTrips /\ trips' = trips + 1
Safe == UNCHANGED trips

\* What /check may answer; "lacking" is an installation the helper may repair.
SetupResults == {r \in [status : {"ready", "lacking", "other"}, machine_safe : BOOLEAN] :
                    r.status = "ready" => r.machine_safe}

\* preparation_policy
preparation_policy(r) ==
    CASE ~r.machine_safe                        -> "ppt_pending"
      [] r.machine_safe /\ mode = "com"         -> "com_only"
      [] r.status = "ready" /\ mode # "com"     -> "ready"
      [] OTHER -> IF mode = "addin" THEN "ppt_pending" ELSE "com_only"

\* _drain_start for the worker just made or idle: it runs, or it is busy with
\* an exclusion or refuses the single file
Drained == start' = FALSE /\ worker' \in {"running", "idle"}

\* _finish: the worker is made and the reserved start handed to it, or making
\* it fails and the reservation ends.
Finish(p, after) ==
    /\ prep' = [after EXCEPT !.state = p] /\ policy' = p
    /\ \/ start /\ Drained /\ Safe
       \/ ~start /\ worker' = "idle" /\ UNCHANGED start /\ Safe
       \/ worker' = "failed" /\ start' = FALSE /\ Trip

Begin ==
    /\ ~prep.closed /\ prep.state = "new"
    /\ prep' = [prep EXCEPT !.state = "checking", !.checking = TRUE]
    /\ UNCHANGED <<mode, declined, setup, policy, start, worker, trips>>

Recheck(p) == [p EXCEPT !.state = "rechecking", !.checking = TRUE, !.after = TRUE, !.observed = FALSE]

\* _suppressed; a record that cannot be read counts as one
Suppressed == declined

\* _checked
Installable(r) == mode # "com" /\ r.machine_safe /\ r.status = "lacking" /\ ~prep.attempted

\* The helper starts, did not start, or raises when it may have started.
Install ==
    LET tried == [prep EXCEPT !.checking = FALSE, !.attempted = TRUE] IN
    /\ \/ setup' = "running" /\ Safe
          /\ prep' = [tried EXCEPT !.state = "installing", !.observed = TRUE]
       \/ setup' = setup /\ Trip /\ prep' = Recheck(tried)
       \/ setup' = "running" /\ Trip /\ prep' = Recheck([tried EXCEPT !.unconfirmed = TRUE])
    /\ UNCHANGED <<policy, start, worker>>

Checked == \E r \in SetupResults :
    /\ prep.checking /\ ~prep.closed
    /\ LET done == [prep EXCEPT !.checking = FALSE] IN
       \/ /\ prep.after /\ UNCHANGED setup
          /\ Finish(IF prep.unconfirmed THEN "ppt_pending" ELSE preparation_policy(r), done)
       \/ ~prep.after /\ Installable(r) /\ ~Suppressed /\ Install
       \/ /\ ~prep.after /\ (Installable(r) => Suppressed) /\ UNCHANGED setup
          /\ Finish(preparation_policy(r), done)
    /\ UNCHANGED <<mode, declined>>

SetupEnds ==
    /\ setup = "running" /\ setup' = "over"
    /\ UNCHANGED <<mode, declined, prep, policy, start, worker, trips>>

\* _poll_setup: the helper ended; a refusal is recorded, if the file can be written.
SetupSeen ==
    /\ prep.observed /\ ~prep.closed /\ setup = "over"
    /\ \/ declined' \in {declined, TRUE} /\ Safe
       \/ UNCHANGED declined /\ Trip
    /\ prep' = Recheck(prep)
    /\ UNCHANGED <<mode, setup, policy, start, worker>>

\* mutant of SetupOverdue: the observation just ends
SetupOverdueForgotten ==
    /\ prep.observed /\ ~prep.closed /\ prep' = [prep EXCEPT !.observed = FALSE]
    /\ UNCHANGED <<mode, declined, setup, policy, start, worker, trips>>

\* _poll_setup: the deadline passed, or the helper cannot be queried any more.
SetupOverdue ==
    /\ prep.observed /\ ~prep.closed
    /\ Finish("ppt_pending", [prep EXCEPT !.observed = FALSE])
    /\ UNCHANGED <<mode, declined, setup>>

-----------------------------------------------------------------------------
(* Requests of the window, the tray and the idle scheduler.                  *)

\* request_start and, with a worker that is made, _drain_start.
request_start ==
    /\ ~prep.closed /\ ~start /\ worker # "running"
    /\ IF worker = "idle" THEN Drained ELSE start' = TRUE /\ UNCHANGED worker
    /\ UNCHANGED <<mode, declined, setup, prep, policy, trips>>

cancel_start ==
    /\ start /\ start' = FALSE
    /\ UNCHANGED <<mode, declined, setup, prep, policy, worker, trips>>

\* shutdown: the helper goes on, unobserved
Shutdown ==
    /\ ~prep.closed /\ start' = FALSE
    /\ prep' = [prep EXCEPT !.closed = TRUE, !.observed = FALSE]
    /\ UNCHANGED <<mode, declined, setup, policy, worker, trips>>

PrepNext == \/ Begin \/ Checked \/ SetupEnds \/ SetupSeen \/ SetupOverdue
            \/ request_start \/ cancel_start \/ Shutdown

\* Qt's timers and queued signals arrive; /check has a timeout of its own.  The
\* helper need not end.
PrepFairness == WF_preparing(Begin) /\ WF_preparing(Checked) /\ WF_preparing(SetupSeen \/ SetupOverdue)

\* A reserved start is handed to the worker, refused or cancelled, whatever the
\* helper does; only if the worker object cannot be made nothing will take it.
StartEnds == (start /\ worker # "failed") ~> ~start
=============================================================================
