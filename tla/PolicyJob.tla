------------------------------ MODULE PolicyJob ------------------------------
(***************************************************************************)
(* Excluding files and taking exclusions back: one command at a time,      *)
(* reserved on the GUI thread (FailurePolicyController), carried out on    *)
(* the collector's thread (PolicyJob.run, policy_service) and released     *)
(* when the GUI has seen the end of the command and of the thread.         *)
(*                                                                         *)
(* The job changes the settings every thread shares (config): it copies    *)
(* them, saves the copy and swaps the section in, without a lock.  Nothing *)
(* but the GUI's refusals (blocked) keeps a folder edit or a query out of  *)
(* the middle.  A save that raised may have happened; if reading it back   *)
(* fails too, the exclusions are unknown and only a reconcile may follow.  *)
(* Sources: knowmate/collector/policy_job.py, policy_service.py,           *)
(* scheduler.py, knowmate/app/failure_policy_controller.py, bridge.py and  *)
(* knowmate/config.py.                                                     *)
(***************************************************************************)
EXTENDS Naturals, FiniteSets

CONSTANTS
    Paths,          \* files
    Mails,          \* those of them with a mail extension
    Folders,        \* folders that may be watched
    Faults,         \* the fault kinds a run lets happen
    MaxFaults,      \* bound: how many faults happen in a behaviour
    None

FaultKinds == {"save", "read", "delete", "state", "mail", "error",
               "start", "observe", "crash"}

ASSUME ConstantsAssumption ==
    /\ Mails \subseteq Paths
    /\ Faults \subseteq FaultKinds
    /\ MaxFaults \in Nat
    /\ None \notin Paths \cup Folders

Actions == {"exclude", "unexclude", "reconcile"}
JobIds  == 1..3         \* uuid4: told apart from the one before and the stored one
Command == [id : JobIds, action : Actions, was : {"exclude", "unexclude"}, paths : SUBSET Paths]
Status  == {"running", "success", "partial", "cancelled", "error", "reconciled"}
Config  == [excl : SUBSET Paths, folders : SUBSET Folders]

VARIABLES
    cfg, disk,      \* the shared settings object and config.yaml
    wanted,         \* history: the folders as the user last left them
    rows, entries,  \* searchable files, files index_state.json claims
    job,            \* PolicyJob: command, pending, started, unknown, uncertain, snapshot
    ctl,            \* FailurePolicyController: lease, job id, unknown, closing, rollback
    pc,             \* the collector's thread
    loc,            \* run_policy's locals; the cycle's exclude_files
    cancelled,      \* CollectorWorker._cancelled
    query,          \* a query is being worked on
    faults

settings == <<cfg, disk, wanted>>
data == <<rows, entries>>
vars == <<settings, data, job, ctl, pc, loc, cancelled, query, faults>>

NoSnap == [id |-> None, action |-> None, terminal |-> TRUE, status |-> "running",
           unknown |-> FALSE, changed |-> {}]
NoJob  == [command |-> None, pending |-> FALSE, started |-> FALSE, unknown |-> FALSE,
           uncertain |-> None, snap |-> NoSnap]
NoCtl  == [lease |-> FALSE, id |-> None, unknown |-> FALSE, closing |-> FALSE, rollback |-> FALSE]
NoLoc  == [cmd |-> None, changed |-> {}, next |-> None, todo |-> {}, done |-> {}, clean |-> TRUE]

Stages == {"settings", "save", "replace", "confirm", "documents", "state", "mail", "readback"}

TypeOK ==
    /\ cfg \in Config /\ disk \in Config /\ wanted \subseteq Folders
    /\ rows \subseteq Paths /\ entries \subseteq Paths
    /\ job \in [command : Command \cup {None}, pending : BOOLEAN, started : BOOLEAN, unknown : BOOLEAN,
                uncertain : [was : {"exclude", "unexclude"}, paths : SUBSET Paths] \cup {None},
                snap : [id : JobIds \cup {None}, action : Actions \cup {None}, terminal : BOOLEAN,
                        status : Status, unknown : BOOLEAN, changed : SUBSET Paths]]
    /\ ctl \in [lease : BOOLEAN, id : JobIds \cup {None}, unknown : BOOLEAN,
                closing : BOOLEAN, rollback : BOOLEAN]
    /\ pc \in Stages \cup {"off", "start", "index", "exit", "ending"}
    /\ loc \in [cmd : Command \cup {None}, changed : SUBSET Paths, next : Config \cup {None},
                todo : SUBSET Paths, done : SUBSET Paths, clean : BOOLEAN]
    /\ pc \in Stages => loc.cmd # None
    /\ cancelled \in BOOLEAN /\ query \in BOOLEAN
    /\ faults \in 0..MaxFaults

Init ==
    /\ cfg \in [excl : {{}}, folders : {{}, Folders}] /\ disk = cfg /\ wanted = cfg.folders
    /\ rows = Paths /\ entries = Paths
    /\ job = NoJob /\ ctl = NoCtl
    /\ pc = "off" /\ loc = NoLoc /\ cancelled = FALSE /\ query = FALSE
    /\ faults = 0

Fault(kind) == kind \in Faults /\ faults < MaxFaults /\ faults' = faults + 1

isRunning == pc \notin {"off", "ending"}
joined == pc = "off"                    \* wait(0)

-----------------------------------------------------------------------------
(* The mailbox.                                                             *)

\* What reserve answers, and what it leaves behind when it answers ok.
reserve(action) ==
    CASE isRunning                                        -> "busy"
      [] job.pending                                      -> "busy"
      [] job.unknown /\ action # "reconcile"              -> "policy_unconfirmed"
      [] action = "reconcile" /\ job.uncertain = None     -> "error"
      [] OTHER                                            -> "ok"

Reserved(id, action, paths) ==
    LET was == IF action = "reconcile" THEN job.uncertain.was ELSE action
        of  == IF action = "reconcile" THEN job.uncertain.paths ELSE paths
    IN  [job EXCEPT !.command = [id |-> id, action |-> action, was |-> was, paths |-> of],
                    !.pending = TRUE, !.started = FALSE,
                    !.snap = [NoSnap EXCEPT !.id = id, !.action = action, !.terminal = FALSE,
                                            !.unknown = job.unknown]]

\* Mutant: the command of a start that failed stays in the mailbox.
CommandStays(j) ==
    [j EXCEPT !.pending = FALSE, !.snap.terminal = TRUE, !.snap.status = "error"]

Cleared(j) ==
    [j EXCEPT !.command = None, !.pending = FALSE,
              !.snap.terminal = TRUE, !.snap.status = "error"]

\* Mutant: the command of a start that failed is never given back.
NeverClearable(j, id) == FALSE

Clearable(j, id) == ~j.started /\ j.snap.id = id

-----------------------------------------------------------------------------
(* FailurePolicyController, on the GUI thread.                              *)

acknowledge == job' = [job EXCEPT !.pending = FALSE]

busy == ctl.lease

\* Mutant: other settings are open while a command runs.
UnknownOnly == ctl.unknown \/ ctl.closing
blocked == busy \/ ctl.unknown \/ ctl.closing

Released(c) == [c EXCEPT !.lease = FALSE, !.rollback = FALSE]

\* A reservation is undone only when neither thread nor command has begun.
ClearUnstarted(j, id) == IF Clearable(j, id) THEN Cleared(j) ELSE j
Undone(j, id) == joined /\ (Clearable(j, id) \/ ~j.pending)

\* Bridge.startFailurePolicyJob and the controller's start.
Admitted(action) ==
    /\ ~query /\ ~busy /\ ~ctl.closing
    /\ ctl.unknown => action = "reconcile"
    /\ ~isRunning

startFailurePolicyJob(action, paths) ==
    /\ Admitted(action)
    /\ reserve(action) = "ok"
    /\ LET id == CHOOSE i \in JobIds : i \notin {ctl.id, job.snap.id}
           j  == Reserved(id, action, paths)
       IN  \/ \* the thread starts
              /\ job' = j
              /\ ctl' = [ctl EXCEPT !.lease = TRUE, !.id = id]
              /\ pc' = "start" /\ cancelled' = FALSE
              /\ UNCHANGED faults
           \/ \* start raises although the thread was created
              /\ Fault("start")
              /\ job' = j
              /\ ctl' = [ctl EXCEPT !.lease = TRUE, !.id = id, !.rollback = TRUE]
              /\ pc' = "start" /\ cancelled' = FALSE
           \/ \* start raises, or reserve does, with the command stored or not; the
              \* reservation is undone, or the lease is kept and poll tries again
              /\ Fault("start")
              /\ \E stored \in {j, job} :
                    /\ \/ /\ Undone(stored, id)
                          /\ job' = ClearUnstarted(stored, id)
                          /\ ctl' = Released([ctl EXCEPT !.id = id])
                       \/ /\ job' = stored
                          /\ ctl' = [ctl EXCEPT !.lease = TRUE, !.id = id, !.rollback = TRUE]
                    /\ cancelled' = (stored = job /\ cancelled)
              /\ UNCHANGED pc
    /\ UNCHANGED <<settings, data, loc, query>>

\* The timer of the bridge: roll back, or take over the snapshot and let go of
\* the lease once the command has ended and the thread has been joined.
poll ==
    /\ busy
    /\ IF ctl.rollback /\ Undone(job, ctl.id)
       THEN /\ job' = ClearUnstarted(job, ctl.id)
            /\ ctl' = Released(ctl)
            /\ UNCHANGED faults
       ELSE \/ Fault("observe") /\ UNCHANGED <<job, ctl>>
            \/ /\ job.snap.id = ctl.id
               /\ LET seen == [ctl EXCEPT !.unknown = job.snap.unknown]
                  IN  IF job.snap.terminal /\ joined
                      THEN /\ acknowledge
                           /\ \/ ctl' = Released(seen) /\ UNCHANGED faults
                              \/ ctl' = seen /\ Fault("observe")     \* acknowledged, then raised
                      ELSE ctl' = seen /\ UNCHANGED <<job, faults>>
    /\ UNCHANGED <<settings, data, pc, loc, cancelled, query>>

-----------------------------------------------------------------------------
(* What the bridge refuses while the controller is blocked.                 *)

update_watch_folders(folders) ==
    /\ cfg' = [cfg EXCEPT !.folders = folders]
    /\ disk' = cfg'

\* addWatchFolder, removeWatchFolder.
EditFolders(folders) ==
    /\ ~blocked /\ ~query
    /\ wanted' = folders
    /\ update_watch_folders(folders)
    /\ UNCHANGED <<data, job, ctl, pc, loc, cancelled, query, faults>>

sendQuery ==
    /\ ~blocked /\ ~query
    /\ query' = TRUE
    /\ UNCHANGED <<settings, data, job, ctl, pc, loc, cancelled, faults>>

QueryEnds ==
    /\ query
    /\ query' = FALSE
    /\ UNCHANGED <<settings, data, job, ctl, pc, loc, cancelled, faults>>

\* _worker_write_guard: an indexing cycle.
StartIndexing ==
    /\ ~blocked /\ ~isRunning
    /\ ~job.pending /\ ~job.unknown
    /\ pc' = "start"
    /\ UNCHANGED <<settings, data, job, ctl, loc, cancelled, query, faults>>

\* begin_query_shutdown, and the cancellation of what is still running.
BeginShutdown ==
    /\ ~ctl.closing
    /\ ctl' = [ctl EXCEPT !.closing = TRUE]
    /\ cancelled' = (cancelled \/ isRunning)
    /\ UNCHANGED <<settings, data, job, pc, loc, query, faults>>

-----------------------------------------------------------------------------
(* The collector's thread.                                                  *)

\* A command is consumed once.  A thread without one does nothing while a job
\* is pending or unknown, and an indexing cycle otherwise.
Run ==
    /\ pc = "start"
    /\ IF job.command = None
       THEN /\ pc' = IF job.pending \/ job.unknown THEN "exit" ELSE "index"
            /\ cancelled' = IF pc' = "index" THEN FALSE ELSE cancelled
            /\ loc' = [NoLoc EXCEPT !.changed = cfg.excl]
            /\ UNCHANGED job
       ELSE /\ job' = [job EXCEPT !.command = None, !.started = TRUE]
            /\ loc' = [NoLoc EXCEPT !.cmd = job.command]
            /\ pc' = IF job.command.action = "reconcile" THEN "readback" ELSE "settings"
            /\ UNCHANGED cancelled
    /\ UNCHANGED <<settings, data, ctl, query, faults>>

\* A cycle reads the exclusions when it begins.
Index(p) ==
    /\ pc = "index" /\ ~cancelled
    /\ p \notin loc.changed /\ p \notin entries
    /\ rows' = rows \cup {p} /\ entries' = entries \cup {p}
    /\ UNCHANGED <<settings, job, ctl, pc, loc, cancelled, query, faults>>

EndIndexing ==
    /\ pc = "index"
    /\ pc' = "exit"
    /\ UNCHANGED <<settings, data, job, ctl, loc, cancelled, query, faults>>

\* The end of PolicyJob.run, in its finally.
Terminal(status, unknown) ==
    /\ job' = [job EXCEPT !.unknown = unknown,
                          !.uncertain = IF unknown THEN [was |-> loc.cmd.was, paths |-> loc.cmd.paths]
                                        ELSE IF loc.cmd.action = "reconcile" THEN None ELSE @,
                          !.snap.terminal = TRUE, !.snap.status = status,
                          !.snap.unknown = unknown, !.snap.changed = loc.changed]
    /\ pc' = "exit"

Desired == IF loc.cmd.action = "exclude" THEN cfg.excl \cup loc.cmd.paths ELSE cfg.excl \ loc.cmd.paths
Changed == IF loc.cmd.action = "exclude" THEN loc.cmd.paths \ cfg.excl ELSE loc.cmd.paths \cap cfg.excl

\* Once the setting is in force: a file is deleted only when it is excluded.
AfterSettings == [loc EXCEPT !.changed = Changed, !.todo = IF loc.cmd.action = "exclude" THEN Changed \ Mails ELSE {}]

Settings ==
    /\ pc = "settings"
    /\ IF cancelled
       THEN Terminal("cancelled", job.unknown) /\ UNCHANGED loc
       ELSE /\ loc' = [AfterSettings EXCEPT !.next = [cfg EXCEPT !.excl = Desired]]   \* deepcopy
            /\ pc' = IF Changed = {} THEN "documents" ELSE "save"
            /\ UNCHANGED job
    /\ UNCHANGED <<settings, data, ctl, cancelled, query, faults>>

read_exclude_files == disk.excl
publish_exclude_files == cfg' = [cfg EXCEPT !.excl = read_exclude_files]

\* A save that raises has replaced the file or has not.
Save ==
    /\ pc = "save"
    /\ \/ disk' = loc.next /\ pc' = "replace" /\ UNCHANGED faults
       \/ Fault("save") /\ disk' \in {disk, loc.next} /\ pc' = "confirm"
    /\ UNCHANGED <<cfg, wanted, data, job, ctl, loc, cancelled, query>>

\* The whole collector section is swapped for the copy.
Replace ==
    /\ pc = "replace"
    /\ cfg' = loc.next
    /\ pc' = "documents"
    /\ UNCHANGED <<disk, wanted, data, job, ctl, loc, cancelled, query, faults>>

\* Mutant: a failed read-back counts as a failed save only.
TakenForFailed(unread) == FALSE

Unconfirmed(unread) == unread

Confirm ==
    /\ pc = "confirm"
    /\ \/ /\ publish_exclude_files
          /\ IF read_exclude_files = loc.next.excl
             THEN pc' = "documents" /\ UNCHANGED job
             ELSE Terminal("error", FALSE)
          /\ UNCHANGED faults
       \/ /\ Fault("read")
          /\ Terminal("error", Unconfirmed(TRUE))
          /\ UNCHANGED cfg
    /\ UNCHANGED <<disk, wanted, data, ctl, loc, cancelled, query>>

\* reconcile_policy only reads; when that fails the latch stays.
ReadBack ==
    /\ pc = "readback"
    /\ \/ publish_exclude_files /\ Terminal("reconciled", FALSE) /\ UNCHANGED faults
       \/ Fault("read") /\ Terminal("error", job.unknown) /\ UNCHANGED cfg
    /\ UNCHANGED <<disk, wanted, data, ctl, loc, cancelled, query>>

\* The rows of one file after the other, until cancelled.
Delete(p) ==
    /\ pc = "documents" /\ ~cancelled
    /\ p \in loc.todo
    /\ \/ /\ rows' = rows \ {p}
          /\ loc' = [loc EXCEPT !.todo = @ \ {p}, !.done = @ \cup {p}]
          /\ UNCHANGED faults
       \/ /\ Fault("delete")
          /\ loc' = [loc EXCEPT !.todo = @ \ {p}, !.clean = FALSE]
          /\ UNCHANGED rows
    /\ UNCHANGED <<settings, entries, job, ctl, pc, cancelled, query>>

EndDocuments ==
    /\ pc = "documents"
    /\ cancelled \/ loc.todo = {}
    /\ pc' = "state"
    /\ UNCHANGED <<settings, data, job, ctl, loc, cancelled, query, faults>>

\* The entries of the deleted files leave the state file together.
CleanState ==
    /\ pc = "state"
    /\ \/ entries' = entries \ loc.done /\ UNCHANGED <<loc, faults>>
       \/ loc.done # {} /\ Fault("state") /\ loc' = [loc EXCEPT !.clean = FALSE] /\ UNCHANGED entries
    /\ pc' = "mail"
    /\ UNCHANGED <<settings, rows, job, ctl, cancelled, query>>

\* Mutant: failures are left out of the status.
AlwaysSuccess(clean) == IF cancelled THEN "cancelled" ELSE "success"

StatusOf(clean) ==
    IF cancelled THEN "cancelled"
    ELSE IF clean /\ loc.todo = {} THEN "success" ELSE "partial"

\* reconcile_mail_exclusions, in one step (module MailIndex has it in detail),
\* and the result.  An exception on the way leaves what was published before.
MailAndResult ==
    /\ pc = "mail"
    /\ \/ /\ IF cancelled \/ loc.cmd.action = "unexclude" THEN UNCHANGED data
             ELSE rows' = rows \ (loc.changed \cap Mails) /\ entries' = entries \ (loc.changed \cap Mails)
          /\ Terminal(StatusOf(loc.clean), FALSE)
          /\ UNCHANGED faults
       \/ /\ ~cancelled /\ loc.cmd.action = "exclude" /\ Fault("mail")
          /\ Terminal(StatusOf(FALSE), FALSE)
          /\ UNCHANGED data
    /\ UNCHANGED <<settings, ctl, loc, cancelled, query>>

Broken ==
    /\ pc \in {"settings", "documents", "mail"}
    /\ Fault("error")
    /\ Terminal("error", FALSE)
    /\ UNCHANGED <<settings, data, ctl, loc, cancelled, query>>

\* run returns; then the native thread ends.
Exit ==
    /\ pc \in {"exit", "ending"}
    /\ pc' = IF pc = "exit" THEN "ending" ELSE "off"
    /\ loc' = NoLoc
    /\ UNCHANGED <<settings, data, job, ctl, cancelled, query, faults>>

\* The process ends, in the middle of anything or after a shutdown, and a new
\* one loads config.yaml.
Restart ==
    /\ \/ ctl.closing /\ pc = "off" /\ ~busy /\ UNCHANGED faults
       \/ Fault("crash")
    /\ cfg' = disk /\ wanted' = disk.folders
    /\ job' = NoJob /\ ctl' = NoCtl /\ pc' = "off" /\ loc' = NoLoc
    /\ cancelled' = FALSE /\ query' = FALSE
    /\ UNCHANGED <<disk, data>>

Step ==
    \/ Run \/ EndIndexing \/ Settings \/ Save \/ Replace \/ Confirm \/ ReadBack
    \/ \E p \in Paths : Delete(p) \/ Index(p)
    \/ EndDocuments \/ CleanState \/ MailAndResult \/ Exit

Next ==
    \/ Step \/ Broken \/ poll \/ BeginShutdown \/ Restart
    \/ \E a \in Actions, ps \in SUBSET Paths \ {{}} : startFailurePolicyJob(a, IF a = "reconcile" THEN {} ELSE ps)
    \/ \E fs \in SUBSET Folders : EditFolders(fs)
    \/ sendQuery \/ QueryEnds \/ StartIndexing

Spec == Init /\ [][Next]_vars

\* The thread runs, and the bridge polls twice a second.
FairSpec == Spec /\ WF_vars(Step) /\ WF_vars(poll)

-----------------------------------------------------------------------------
(* Properties.                                                              *)

\* A policy command has the storage to itself: from its first step to its last
\* the GUI holds the lease for this very command and no query is being worked
\* on (DESIGN.md: the right to work is kept from the reservation to the actual
\* end of the thread).
RunsUnderLease ==
    pc \in Stages => busy /\ ctl.id = loc.cmd.id /\ ~query /\ job.pending

\* No folder the user added or removed is lost or comes back, although the job
\* saves and swaps in a copy of the settings without a lock
\* (config.py update_exclude_files, bridge.py addWatchFolder).
FoldersKept == cfg.folders = wanted

\* Whenever new work is admitted the exclusions in force are the saved ones: a
\* save that raised, a failed read-back and a failed reconcile all end in one
\* of agreement or the latch.
PublishedIsDurable == ~blocked => cfg.excl = disk.excl

\* Every accepted command is released again, whatever raised while it was
\* started or observed: settings and queries are not blocked for ever.
LeaseEnds == busy ~> ~busy
=============================================================================
