--------------------------- MODULE PolicyJobProofs ---------------------------
(* The exclusion job for any files, folders, faults and number of faults: a  *)
(* command has the storage to itself, no folder edit is lost, and what is in *)
(* force when new work is admitted is what is saved.                         *)
EXTENDS PolicyJob, TLAPS

-----------------------------------------------------------------------------
(* Type correctness.                                                         *)

\* Where the worker uses the copy of the settings it has made one.
CopyMade == pc \in {"save", "replace", "confirm"} => loc.next \in Config

\* The types of the snapshot and of the mailbox, as in TypeOK.
SnapType == [id : JobIds \cup {None}, action : Actions \cup {None}, terminal : BOOLEAN,
             status : Status, unknown : BOOLEAN, changed : SUBSET Paths]
JobType  == [command : Command \cup {None}, pending : BOOLEAN, started : BOOLEAN, unknown : BOOLEAN,
             uncertain : [was : {"exclude", "unexclude"}, paths : SUBSET Paths] \cup {None},
             snap : SnapType]
CtlType  == [lease : BOOLEAN, id : JobIds \cup {None}, unknown : BOOLEAN,
             closing : BOOLEAN, rollback : BOOLEAN]
LocType  == [cmd : Command \cup {None}, changed : SUBSET Paths, next : Config \cup {None},
             todo : SUBSET Paths, done : SUBSET Paths, clean : BOOLEAN]

Typed == TypeOK /\ CopyMade

LEMMA TypeInit == Init => Typed
<1> SUFFICES ASSUME Init PROVE Typed
  OBVIOUS
<1>1. cfg \in Config /\ disk \in Config /\ wanted \subseteq Folders
  BY DEF Init, Config
<1>2. job \in JobType /\ ctl \in CtlType /\ loc \in LocType
  BY DEF Init, NoJob, NoSnap, NoCtl, NoLoc, JobType, SnapType, CtlType, LocType, Status
<1>3. pc = "off" /\ faults \in 0..MaxFaults
  BY ConstantsAssumption DEF ConstantsAssumption, Init
<1> QED
  BY <1>1, <1>2, <1>3 DEF Init, Typed, TypeOK, CopyMade, JobType, SnapType, CtlType, LocType, Stages

\* A job id that is neither the controller's nor the stored one.
LEMMA FreshId ==
    \A i, j : (CHOOSE k \in JobIds : k \notin {i, j}) \in JobIds \ {i, j}
<1> TAKE i, j
<1>1. \E k \in JobIds : k \notin {i, j}
  BY DEF JobIds
<1> QED
  BY <1>1

\* What a step of the mailbox needs of TypeOK.
LEMMA TypesNamed == TypeOK => job \in JobType /\ ctl \in CtlType /\ loc \in LocType
BY DEF TypeOK, JobType, SnapType, CtlType, LocType

\* Reserving puts a well-formed command into the mailbox and leaves the result
\* of the last job unknown if it was.
LEMMA ReservedType ==
    ASSUME TypeOK, NEW action \in Actions, NEW paths \in SUBSET Paths, NEW id \in JobIds,
           reserve(action) = "ok",
           NEW j, j = Reserved(id, action, paths)
    PROVE  /\ j \in JobType
           /\ j.command \in Command /\ j.command.id = id /\ j.command.action = action
           /\ j.pending /\ ~j.started /\ j.unknown = job.unknown
           /\ j.snap.unknown = job.unknown /\ j.snap.id = id /\ ~j.snap.terminal
<1>1. action = "reconcile" => job.uncertain # None
  BY DEF reserve
<1>2. action # "reconcile" => action \in {"exclude", "unexclude"}
  BY DEF Actions
<1>3. job \in JobType
  BY TypesNamed
<1> DEFINE cmd == [id |-> id, action |-> action,
                   was |-> IF action = "reconcile" THEN job.uncertain.was ELSE action,
                   paths |-> IF action = "reconcile" THEN job.uncertain.paths ELSE paths]
           snap == [NoSnap EXCEPT !.id = id, !.action = action, !.terminal = FALSE, !.unknown = job.unknown]
<1>4. cmd \in Command
  BY <1>1, <1>2, <1>3 DEF Command, JobType
<1>5. snap \in SnapType /\ snap.unknown = job.unknown /\ snap.id = id /\ ~snap.terminal
  BY <1>3 DEF NoSnap, Status, SnapType, JobType
<1>6. j = [job EXCEPT !.command = cmd, !.pending = TRUE, !.started = FALSE, !.snap = snap]
  BY DEF Reserved
<1>7. cmd.id = id /\ cmd.action = action
  OBVIOUS
<1> HIDE DEF cmd, snap
<1> QED
  BY <1>3, <1>4, <1>5, <1>6, <1>7 DEF JobType

\* Taking a command back out of the mailbox.
LEMMA ClearedType ==
    ASSUME NEW j \in JobType
    PROVE  /\ Cleared(j) \in JobType /\ Cleared(j).command = None /\ ~Cleared(j).pending
           /\ Cleared(j).unknown = j.unknown /\ Cleared(j).snap.unknown = j.snap.unknown
           /\ Cleared(j).started = j.started /\ Cleared(j).snap.terminal
BY DEF Cleared, JobType, SnapType, Status

\* The end of a job keeps the types.
LEMMA TerminalType ==
    ASSUME TypeOK, loc.cmd # None, NEW status \in Status, NEW unknown \in BOOLEAN,
           Terminal(status, unknown)
    PROVE  /\ job' \in JobType /\ pc' = "exit"
           /\ job'.unknown = unknown /\ job'.snap.unknown = unknown
           /\ job'.command = job.command /\ job'.pending = job.pending
           /\ job'.started = job.started /\ job'.snap.id = job.snap.id /\ job'.snap.terminal
<1>1. job \in JobType /\ loc \in LocType
  BY TypesNamed
<1> DEFINE u == IF unknown THEN [was |-> loc.cmd.was, paths |-> loc.cmd.paths]
                ELSE IF loc.cmd.action = "reconcile" THEN None ELSE job.uncertain
<1>2. u \in [was : {"exclude", "unexclude"}, paths : SUBSET Paths] \cup {None}
  BY <1>1 DEF LocType, Command, JobType
<1>3. /\ pc' = "exit"
      /\ job' = [job EXCEPT !.unknown = unknown, !.uncertain = u,
                            !.snap.terminal = TRUE, !.snap.status = status,
                            !.snap.unknown = unknown, !.snap.changed = loc.changed]
  BY DEF Terminal
<1> HIDE DEF u
<1> QED
  BY <1>1, <1>2, <1>3 DEF JobType, SnapType, LocType


\* What a start may leave of the reservation j: taken by a thread that starts, or
\* undone, or kept with the lease for poll to undo.
Outcome(id, j) ==
    \/ /\ job' = j /\ pc' = "start" /\ cancelled' = FALSE
       /\ \E back \in BOOLEAN : ctl' = [ctl EXCEPT !.lease = TRUE, !.id = id, !.rollback = back]
    \/ /\ job' \in {Cleared(j), job} /\ pc' = pc /\ cancelled' \in BOOLEAN
       /\ ctl' = Released([ctl EXCEPT !.id = id])
    \/ /\ job' \in {j, job} /\ pc' = pc /\ cancelled' \in BOOLEAN
       /\ ctl' = [ctl EXCEPT !.lease = TRUE, !.id = id, !.rollback = TRUE]

\* A start of a job ends in one of these outcomes for a fresh id and its reservation.
LEMMA StartCases ==
    ASSUME TypeOK, NEW action \in Actions, NEW paths \in SUBSET Paths,
           startFailurePolicyJob(action, paths)
    PROVE  \E id \in JobIds : \E j \in JobType :
              /\ id # job.snap.id
              /\ j.command \in Command /\ j.command.id = id /\ j.command.action = action
              /\ j.pending /\ ~j.started /\ j.unknown = job.unknown
              /\ j.snap.unknown = job.unknown /\ j.snap.id = id /\ ~j.snap.terminal
              /\ Outcome(id, j)
              /\ faults' \in {faults, faults + 1} /\ faults' \in 0..MaxFaults
<1> DEFINE id == CHOOSE i \in JobIds : i \notin {ctl.id, job.snap.id}
           j  == Reserved(id, action, paths)
<1>1. id \in JobIds /\ id # job.snap.id
  BY FreshId
<1> HIDE DEF id
<1>2. /\ j \in JobType
      /\ j.command \in Command /\ j.command.id = id /\ j.command.action = action
      /\ j.pending /\ ~j.started /\ j.unknown = job.unknown
      /\ j.snap.unknown = job.unknown /\ j.snap.id = id /\ ~j.snap.terminal
  BY <1>1, ReservedType DEF startFailurePolicyJob
<1>3. ClearUnstarted(j, id) = Cleared(j) /\ ClearUnstarted(job, id) = job
  BY <1>1, <1>2 DEF ClearUnstarted, Clearable
<1> HIDE DEF j
<1>4. job \in JobType /\ ctl \in CtlType /\ cancelled \in BOOLEAN /\ faults \in 0..MaxFaults
  BY TypesNamed DEF TypeOK
<1>5. faults' \in {faults, faults + 1} /\ faults' \in 0..MaxFaults
  BY <1>4, ConstantsAssumption DEF ConstantsAssumption, startFailurePolicyJob, Fault
<1>6. [ctl EXCEPT !.lease = TRUE, !.id = id]
        = [ctl EXCEPT !.lease = TRUE, !.id = id, !.rollback = ctl.rollback]
  BY <1>4 DEF CtlType
<1>7. \/ /\ job' = j /\ pc' = "start" /\ cancelled' = FALSE
         /\ ctl' = [ctl EXCEPT !.lease = TRUE, !.id = id]
      \/ /\ job' = j /\ pc' = "start" /\ cancelled' = FALSE
         /\ ctl' = [ctl EXCEPT !.lease = TRUE, !.id = id, !.rollback = TRUE]
      \/ /\ pc' = pc
         /\ \E stored \in {j, job} :
              /\ \/ /\ job' = ClearUnstarted(stored, id)
                    /\ ctl' = Released([ctl EXCEPT !.id = id])
                 \/ /\ job' = stored
                    /\ ctl' = [ctl EXCEPT !.lease = TRUE, !.id = id, !.rollback = TRUE]
              /\ cancelled' = (stored = job /\ cancelled)
  BY DEF startFailurePolicyJob, id, j
<1>8. Outcome(id, j)
  <2>1. ctl.rollback \in BOOLEAN
    BY <1>4 DEF CtlType
  <2>2. ASSUME NEW stored \in {j, job}, cancelled' = (stored = job /\ cancelled),
               job' = ClearUnstarted(stored, id)
        PROVE  job' \in {Cleared(j), job} /\ cancelled' \in BOOLEAN
    BY <1>3, <1>4, <2>2
  <2>3. ASSUME NEW stored \in {j, job}, cancelled' = (stored = job /\ cancelled)
        PROVE  cancelled' \in BOOLEAN
    BY <1>4, <2>3
  <2> QED
    BY <1>6, <1>7, <2>1, <2>2, <2>3 DEF Outcome
<1> QED
  BY <1>1, <1>2, <1>5, <1>8

\* The variables keep their types, and the thread has a command where it needs one.
LEMMA TypeStep == Typed /\ [Next]_vars => Typed'
<1> SUFFICES ASSUME Typed, [Next]_vars PROVE Typed'
  OBVIOUS
<1>t. /\ job \in JobType /\ ctl \in CtlType /\ loc \in LocType /\ cfg \in Config /\ disk \in Config
      /\ wanted \subseteq Folders /\ rows \subseteq Paths /\ entries \subseteq Paths
      /\ pc \in Stages \cup {"off", "start", "index", "exit", "ending"}
      /\ (pc \in Stages => loc.cmd # None) /\ cancelled \in BOOLEAN /\ query \in BOOLEAN
      /\ faults \in 0..MaxFaults
  BY TypesNamed DEF Typed, TypeOK
<1>n. faults < MaxFaults /\ faults' = faults + 1 => faults' \in 0..MaxFaults
  BY <1>t, ConstantsAssumption DEF ConstantsAssumption
<1>q. ASSUME job' \in JobType, ctl' \in CtlType, loc' \in LocType, cfg' \in Config, disk' \in Config,
             wanted' \subseteq Folders, rows' \subseteq Paths, entries' \subseteq Paths,
             pc' \in Stages \cup {"off", "start", "index", "exit", "ending"},
             pc' \in Stages => loc'.cmd # None, cancelled' \in BOOLEAN, query' \in BOOLEAN,
             faults' \in 0..MaxFaults,
             pc' \in {"save", "replace", "confirm"} => loc'.next \in Config
      PROVE Typed'
  BY <1>q DEF Typed, TypeOK, CopyMade, JobType, SnapType, CtlType, LocType
<1>c. pc \in {"save", "replace", "confirm"} => loc.next \in Config
  BY DEF Typed, CopyMade
<1> USE DEF settings, data
<1>1. CASE Run
  <2>1. CASE job.command = None
    BY <1>1, <1>t, <2>1, <1>q DEF Run, NoLoc, LocType, Config, Stages
  <2>2. CASE job.command # None
    <3>1. loc' \in LocType /\ loc'.cmd = job.command
      BY <1>1, <1>t, <2>2 DEF Run, NoLoc, LocType, JobType
    <3>2. job' \in JobType
      BY <1>1, <1>t, <2>2 DEF Run, JobType
    <3> QED
      BY <1>1, <1>t, <2>2, <3>1, <3>2, <1>q DEF Run, Stages
  <2> QED
    BY <2>1, <2>2
<1>2. CASE EndIndexing
  BY <1>2, <1>t, <1>q DEF EndIndexing, Stages
<1>3. CASE Settings
  <2>1. CASE cancelled
    <3>1. Terminal("cancelled", job.unknown) /\ UNCHANGED <<cfg, disk, wanted, rows, entries, ctl, cancelled, query, faults, loc>>
      BY <1>3, <2>1 DEF Settings
    <3>2. job' \in JobType /\ pc' = "exit"
      BY <1>3, <1>t, <3>1, TerminalType DEF Settings, Stages, Typed, Status, JobType
    <3> QED
      BY <1>t, <1>q, <3>1, <3>2 DEF Stages
  <2>2. CASE ~cancelled
    <3>1. [cfg EXCEPT !.excl = Desired] \in Config /\ Changed \subseteq Paths
      BY <1>3, <1>t DEF Settings, Stages, Desired, Changed, Config, LocType, Command
    <3>2. AfterSettings \in LocType /\ AfterSettings.cmd = loc.cmd
      BY <1>t, <3>1 DEF AfterSettings, LocType
    <3>3. loc' = [AfterSettings EXCEPT !.next = [cfg EXCEPT !.excl = Desired]]
      BY <1>3, <2>2 DEF Settings
    <3>4. loc' \in LocType /\ loc'.cmd = loc.cmd /\ loc'.next \in Config
      BY <3>1, <3>2, <3>3 DEF LocType
    <3> QED
      BY <1>3, <2>2, <1>t, <1>q, <3>4 DEF Settings, Stages
  <2> QED
    BY <2>1, <2>2
<1>4. CASE Save
  BY <1>4, <1>t, <1>n, <1>c, <1>q DEF Save, Stages, Fault
<1>5. CASE Replace
  BY <1>5, <1>t, <1>c, <1>q DEF Replace, Stages
<1>6. CASE Confirm \/ ReadBack
  <2>1. /\ pc \in Stages /\ UNCHANGED <<disk, wanted, rows, entries, ctl, loc, cancelled, query>>
        /\ cfg' \in Config /\ faults' \in 0..MaxFaults
    <3>1. [cfg EXCEPT !.excl = disk.excl] \in Config
      BY <1>t DEF Config
    <3> QED
      BY <1>6, <1>t, <1>n, <3>1 DEF Confirm, ReadBack, Stages, publish_exclude_files, read_exclude_files, Fault
  <2>2. \/ pc' = "documents" /\ job' = job
        \/ \E status \in Status, unknown \in BOOLEAN : Terminal(status, unknown)
    BY <1>6, <1>t DEF Confirm, ReadBack, Status, Unconfirmed, JobType
  <2>3. CASE pc' = "documents" /\ job' = job
    BY <2>1, <2>3, <1>t, <1>q DEF Stages
  <2>4. ASSUME NEW status \in Status, NEW unknown \in BOOLEAN, Terminal(status, unknown)
        PROVE Typed'
    <3>1. job' \in JobType /\ pc' = "exit"
      BY <2>1, <2>4, <1>t, TerminalType DEF Typed
    <3> QED
      BY <2>1, <3>1, <1>t, <1>q DEF Stages
  <2> QED
    BY <2>2, <2>3, <2>4
<1>7. ASSUME NEW p \in Paths, Delete(p) PROVE Typed'
  <2>1. loc' \in LocType /\ loc'.cmd = loc.cmd
    <3>1. loc.todo \ {p} \in SUBSET Paths /\ loc.done \cup {p} \in SUBSET Paths
      BY <1>t DEF LocType
    <3> QED
      BY <1>7, <1>t, <3>1 DEF Delete, LocType
  <2> QED
    BY <1>7, <1>t, <1>n, <1>q, <2>1 DEF Delete, Stages, Fault
<1>8. ASSUME NEW p \in Paths, Index(p) PROVE Typed'
  BY <1>8, <1>t, <1>q DEF Index, Stages
<1>9. CASE EndDocuments
  BY <1>9, <1>t, <1>q DEF EndDocuments, Stages
<1>10. CASE CleanState
  <2>1. loc' \in LocType /\ loc'.cmd = loc.cmd
    BY <1>10, <1>t DEF CleanState, LocType
  <2> QED
    BY <1>10, <1>t, <1>n, <1>q, <2>1 DEF CleanState, Stages, Fault
<1>11. CASE MailAndResult \/ Broken
  <2>1. /\ pc \in Stages /\ UNCHANGED <<cfg, disk, wanted, ctl, loc, cancelled, query>>
        /\ rows' \subseteq Paths /\ entries' \subseteq Paths /\ faults' \in 0..MaxFaults
    BY <1>11, <1>t, <1>n DEF MailAndResult, Broken, Stages, Fault
  <2>2. \E status \in Status, unknown \in BOOLEAN : Terminal(status, unknown)
    BY <1>11 DEF MailAndResult, Broken, Status, StatusOf
  <2>3. job' \in JobType /\ pc' = "exit"
    BY <2>1, <2>2, <1>t, TerminalType DEF Typed
  <2> QED
    BY <2>1, <2>3, <1>t, <1>q DEF Stages
<1>12. CASE Exit
  BY <1>12, <1>t, <1>q DEF Exit, Stages, NoLoc, LocType
<1>13. CASE poll
  <2>1. job' \in JobType /\ ctl' \in CtlType
    <3>1. Cleared(job) \in JobType
      BY <1>t, ClearedType
    <3> QED
      BY <1>13, <1>t, <3>1 DEF poll, ClearUnstarted, Released, acknowledge, JobType, SnapType, CtlType
  <2>2. faults' \in 0..MaxFaults
    BY <1>13, <1>t, <1>n DEF poll, Fault
  <2> QED
    BY <1>13, <1>t, <1>c, <1>q, <2>1, <2>2 DEF poll
<1>14. CASE BeginShutdown
  BY <1>14, <1>t, <1>c, <1>q DEF BeginShutdown, CtlType
<1>15. CASE Restart
  <2>1. NoJob \in JobType /\ NoCtl \in CtlType /\ NoLoc \in LocType
    BY DEF NoJob, NoSnap, NoCtl, NoLoc, JobType, SnapType, CtlType, LocType, Status
  <2> QED
    BY <1>15, <1>t, <1>n, <1>q, <2>1 DEF Restart, Fault, Stages, Config
<1>16. ASSUME NEW a \in Actions, NEW ps \in SUBSET Paths, startFailurePolicyJob(a, ps) PROVE Typed'
  <2>1. job' \in JobType /\ ctl' \in CtlType /\ cancelled' \in BOOLEAN /\ pc' \in {"start", pc}
        /\ faults' \in 0..MaxFaults
    <3>1. TypeOK /\ \A j \in JobType : Cleared(j) \in JobType
      BY ClearedType DEF Typed
    <3>2. PICK id \in JobIds, j \in JobType : Outcome(id, j) /\ faults' \in 0..MaxFaults
      BY <1>16, <3>1, StartCases
    <3>3. ctl' \in CtlType
      BY <1>t, <3>2 DEF Outcome, CtlType, Released
    <3> QED
      BY <1>t, <3>1, <3>2, <3>3 DEF Outcome
  <2>2. UNCHANGED <<cfg, disk, wanted, rows, entries, loc, query>>
    BY <1>16 DEF startFailurePolicyJob
  <2> QED
    BY <1>t, <1>c, <1>q, <2>1, <2>2 DEF Stages
<1>17. ASSUME NEW fs \in SUBSET Folders, EditFolders(fs) PROVE Typed'
  BY <1>17, <1>t, <1>c, <1>q DEF EditFolders, update_watch_folders, Config
<1>18. CASE sendQuery \/ QueryEnds \/ StartIndexing
  BY <1>18, <1>t, <1>c, <1>q DEF sendQuery, QueryEnds, StartIndexing, Stages
<1>19. CASE UNCHANGED vars
  BY <1>19, <1>t, <1>c, <1>q DEF vars
<1> QED
  BY <1>1, <1>2, <1>3, <1>4, <1>5, <1>6, <1>7, <1>8, <1>9, <1>10, <1>11, <1>12, <1>13, <1>14,
     <1>15, <1>16, <1>17, <1>18, <1>19 DEF Next, Step

\* Types are kept for ever.
THEOREM TypeCorrect == Spec => []TypeOK
<1>1. Typed => TypeOK
  BY DEF Typed
<1> QED
  BY <1>1, TypeInit, TypeStep, PTL DEF Spec

-----------------------------------------------------------------------------
(* The lease.                                                                *)

\* A command in the mailbox is the one the lease is held for, not begun and not
\* at its end; only a reconcile is let in while a result is unknown.
CommandLeased ==
    job.command # None =>
       /\ job.pending /\ busy /\ ctl.id = job.command.id
       /\ ~job.started /\ job.snap.id = ctl.id /\ ~job.snap.terminal
       /\ job.unknown => job.command.action = "reconcile"

\* So is the command the thread has taken, until its end.
WorkLeased ==
    pc \in Stages =>
       /\ job.command = None /\ job.pending /\ busy /\ ctl.id = loc.cmd.id
       /\ job.started /\ job.snap.id = ctl.id /\ ~job.snap.terminal

\* No query is worked on beside a lease.
LeaseAlone == busy => ~query

Leased == CommandLeased /\ WorkLeased /\ LeaseAlone

LEMMA LeasedInit == Init => Leased
BY DEF Init, Leased, CommandLeased, WorkLeased, LeaseAlone, NoJob, NoCtl, busy, Stages

\* A new snapshot, or none: what the end of a job leaves of the mailbox.
LEMMA EndLeased ==
    ASSUME Typed, Leased, pc \in Stages, NEW status \in Status, NEW unknown \in BOOLEAN,
           Terminal(status, unknown), UNCHANGED <<ctl, query>>
    PROVE  Leased'
<1>1. pc' = "exit" /\ job'.command = job.command
  BY TerminalType DEF Typed, TypeOK
<1> QED
  BY <1>1 DEF Leased, CommandLeased, WorkLeased, LeaseAlone, busy, Stages

\* Only Run takes the command, only poll and the next start give the lease away,
\* and neither finds the thread at work.
LEMMA LeasedStep == Typed /\ Leased /\ [Next]_vars => Leased'
<1> SUFFICES ASSUME Typed, Leased, [Next]_vars PROVE Leased'
  OBVIOUS
<1>t. /\ TypeOK /\ job \in JobType /\ ctl \in CtlType /\ loc \in LocType
      /\ pc \in Stages \cup {"off", "start", "index", "exit", "ending"}
      /\ (pc \in Stages => loc.cmd # None)
  BY TypesNamed DEF Typed, TypeOK
<1> USE DEF Leased, CommandLeased, WorkLeased, LeaseAlone, busy, settings, data
<1>1. CASE Run
  <2>1. CASE job.command = None
    BY <1>1, <2>1 DEF Run, Stages
  <2>2. CASE job.command # None
    BY <1>1, <1>t, <2>2 DEF Run, NoLoc, JobType
  <2> QED
    BY <2>1, <2>2
<1>2. ASSUME UNCHANGED <<job, ctl, query>>, pc' \in Stages => pc \in Stages /\ loc'.cmd = loc.cmd
      PROVE  Leased'
  BY <1>2
<1>3. CASE Settings \/ Confirm \/ ReadBack \/ MailAndResult \/ Broken
  <2>1. pc \in Stages /\ UNCHANGED <<ctl, query>>
    BY <1>3 DEF Settings, Confirm, ReadBack, MailAndResult, Broken, Stages
  <2>2. \/ \E status \in Status, unknown \in BOOLEAN : Terminal(status, unknown)
        \/ job' = job /\ loc'.cmd = loc.cmd
    <3>1. CASE Settings
      BY <3>1, <1>t DEF Settings, Status, JobType, AfterSettings, LocType
    <3>2. CASE Confirm \/ ReadBack
      BY <3>2, <1>t DEF Confirm, ReadBack, Status, JobType, Unconfirmed
    <3>3. CASE MailAndResult \/ Broken
      BY <3>3, <1>t DEF MailAndResult, Broken, Status, StatusOf
    <3> QED
      BY <1>3, <3>1, <3>2, <3>3
  <2> QED
    BY <2>1, <2>2, <1>2, EndLeased
<1>4. CASE \/ EndIndexing \/ Save \/ Replace \/ EndDocuments \/ CleanState \/ Exit
           \/ \E p \in Paths : Delete(p) \/ Index(p)
  <2>1. UNCHANGED <<job, ctl, query>>
    BY <1>4 DEF EndIndexing, Save, Replace, EndDocuments, CleanState, Exit, Delete, Index
  <2>2. pc' \in Stages => pc \in Stages /\ loc'.cmd = loc.cmd
    BY <1>4, <1>t DEF EndIndexing, Save, Replace, EndDocuments, CleanState, Exit, Delete, Index, Stages, LocType
  <2> QED
    BY <2>1, <2>2, <1>2
<1>5. CASE poll
  <2>1. UNCHANGED <<pc, loc, query>>
    BY <1>5 DEF poll
  <2>2. CASE ctl.rollback /\ Undone(job, ctl.id)
    <3>1. pc = "off" /\ job' = ClearUnstarted(job, ctl.id) /\ ctl' = Released(ctl)
      BY <1>5, <2>2 DEF poll, Undone, joined
    <3>2. job'.command = None
      <4>1. CASE Clearable(job, ctl.id)
        BY <3>1, <4>1, <1>t, ClearedType DEF ClearUnstarted
      <4>2. CASE ~Clearable(job, ctl.id)
        BY <3>1, <2>2, <4>2 DEF ClearUnstarted, Undone, Clearable
      <4> QED
        BY <4>1, <4>2
    <3>3. ctl' = [ctl EXCEPT !.lease = FALSE, !.rollback = FALSE]
      BY <3>1 DEF Released
    <3> QED
      BY <2>1, <3>1, <3>2, <3>3, <1>t DEF Stages, CtlType
  <2>3. CASE ~(ctl.rollback /\ Undone(job, ctl.id))
    <3>1. \/ job' = job /\ ctl' = ctl
          \/ /\ ~(job.snap.terminal /\ joined)
             /\ job' = job /\ ctl' = [ctl EXCEPT !.unknown = job.snap.unknown]
          \/ /\ job.snap.terminal /\ joined /\ job' = [job EXCEPT !.pending = FALSE]
             /\ ctl' \in {Released([ctl EXCEPT !.unknown = job.snap.unknown]),
                          [ctl EXCEPT !.unknown = job.snap.unknown]}
      BY <1>5, <2>3 DEF poll, acknowledge
    <3>2. CASE job' = job /\ ctl' = ctl
      BY <2>1, <3>2
    <3>3. CASE job' = job /\ ctl' = [ctl EXCEPT !.unknown = job.snap.unknown]
      BY <2>1, <3>3, <1>t DEF CtlType
    <3>4. ASSUME job.snap.terminal, joined, job' = [job EXCEPT !.pending = FALSE],
                 ctl' \in {Released([ctl EXCEPT !.unknown = job.snap.unknown]),
                           [ctl EXCEPT !.unknown = job.snap.unknown]}
          PROVE  Leased'
      BY <2>1, <3>4, <1>t DEF Released, joined, CtlType, JobType, Stages
    <3> QED
      BY <3>1, <3>2, <3>3, <3>4
  <2> QED
    BY <2>2, <2>3
<1>6. CASE BeginShutdown
  BY <1>6, <1>t DEF BeginShutdown, CtlType
<1>7. CASE Restart
  BY <1>7 DEF Restart, NoJob, NoCtl, Stages
<1>8. ASSUME NEW a \in Actions, NEW ps \in SUBSET Paths, startFailurePolicyJob(a, ps) PROVE Leased'
  <2>1. ~query /\ pc \notin Stages /\ query' = query /\ loc' = loc /\ job.command = None
        /\ (job.unknown => a = "reconcile")
    BY <1>8, <1>t DEF startFailurePolicyJob, Admitted, isRunning, Stages, reserve
  <2>2. PICK id \in JobIds, j \in JobType :
           /\ j.command.id = id /\ j.command.action = a
           /\ j.pending /\ ~j.started /\ j.unknown = job.unknown
           /\ j.snap.id = id /\ ~j.snap.terminal
           /\ Outcome(id, j)
    BY <1>8, <1>t, StartCases
  <2>3. pc' \notin Stages
    BY <2>1, <2>2 DEF Outcome, Stages
  <2>4. Cleared(j).command = None
    BY ClearedType
  <2>5. CASE \E back \in BOOLEAN : ctl' = [ctl EXCEPT !.lease = TRUE, !.id = id, !.rollback = back]
    BY <1>t, <2>1, <2>2, <2>3, <2>4, <2>5 DEF Outcome, CtlType
  <2>6. CASE ctl' = Released([ctl EXCEPT !.id = id]) /\ job' \in {Cleared(j), job}
    BY <1>t, <2>1, <2>2, <2>3, <2>4, <2>6 DEF CtlType, Released
  <2>7. CASE job' \in {j, job} /\ ctl' = [ctl EXCEPT !.lease = TRUE, !.id = id, !.rollback = TRUE]
    BY <1>t, <2>1, <2>2, <2>3, <2>7 DEF CtlType
  <2> QED
    BY <2>2, <2>5, <2>6, <2>7 DEF Outcome
<1>9. CASE (\E fs \in SUBSET Folders : EditFolders(fs)) \/ StartIndexing \/ QueryEnds \/ sendQuery
  BY <1>9 DEF EditFolders, StartIndexing, QueryEnds, sendQuery, blocked, Stages, isRunning
<1>10. CASE UNCHANGED vars
  BY <1>10 DEF vars
<1> QED
  BY <1>1, <1>3, <1>4, <1>5, <1>6, <1>7, <1>8, <1>9, <1>10 DEF Next, Step

\* From its first step to its last a policy command has the storage to itself.
THEOREM WorkUnderLease == Spec => []RunsUnderLease
<1>1. Leased => RunsUnderLease
  BY DEF Leased, WorkLeased, LeaseAlone, RunsUnderLease
<1> QED
  BY <1>1, TypeInit, TypeStep, LeasedInit, LeasedStep, PTL DEF Spec

-----------------------------------------------------------------------------
(* The settings.                                                             *)

\* The copy the job works on has the folders of the moment it is swapped in.
CopyFresh == pc \in {"save", "replace", "confirm"} => loc.next.folders = wanted

FoldersAgree == cfg.folders = wanted /\ disk.folders = wanted /\ CopyFresh

LEMMA FoldersInit == Init => FoldersAgree
BY DEF Init, FoldersAgree, CopyFresh

\* Folders are edited under no lease only, so never while a copy is in hand.
LEMMA FoldersStep == Typed /\ Leased /\ FoldersAgree /\ [Next]_vars => FoldersAgree'
<1> SUFFICES ASSUME Typed, Leased, FoldersAgree, [Next]_vars PROVE FoldersAgree'
  OBVIOUS
<1>t. /\ TypeOK /\ cfg \in Config /\ disk \in Config /\ loc \in LocType
      /\ pc \in Stages \cup {"off", "start", "index", "exit", "ending"}
  BY TypesNamed DEF Typed, TypeOK
<1> USE DEF FoldersAgree, CopyFresh, settings, data
<1>1. ASSUME UNCHANGED settings, loc' = loc, pc' \in {"save", "replace", "confirm"} => pc' = pc
      PROVE  FoldersAgree'
  BY <1>1
<1>2. ASSUME UNCHANGED settings, pc' \notin {"save", "replace", "confirm"}
      PROVE  FoldersAgree'
  BY <1>2
<1>3. CASE Settings
  <2>1. CASE cancelled
    BY <1>3, <2>1, <1>2 DEF Settings, Terminal
  <2>2. CASE ~cancelled
    <3>1. AfterSettings \in [cmd : Command \cup {None}, changed : {Changed}, next : Config \cup {None},
                             todo : {AfterSettings.todo}, done : SUBSET Paths, clean : BOOLEAN]
      BY <1>t DEF AfterSettings, LocType
    <3>2. loc'.next = [cfg EXCEPT !.excl = Desired] /\ UNCHANGED settings
      BY <1>3, <2>2, <3>1 DEF Settings
    <3> QED
      BY <3>2, <1>t DEF Config
  <2> QED
    BY <2>1, <2>2
<1>4. CASE Save \/ Replace
  BY <1>4 DEF Save, Replace
<1>5. CASE Confirm \/ ReadBack
  BY <1>5, <1>t DEF Confirm, ReadBack, Terminal, publish_exclude_files, read_exclude_files, Config
<1>6. CASE MailAndResult \/ Broken
  BY <1>6, <1>2 DEF MailAndResult, Broken, Terminal
<1>7. CASE \/ Run \/ EndIndexing \/ EndDocuments \/ CleanState \/ Exit
           \/ \E p \in Paths : Delete(p) \/ Index(p)
  BY <1>7, <1>2 DEF Run, EndIndexing, EndDocuments, CleanState, Exit, Delete, Index
<1>8. CASE poll \/ BeginShutdown \/ sendQuery \/ QueryEnds \/ StartIndexing
  BY <1>8, <1>1 DEF poll, BeginShutdown, sendQuery, QueryEnds, StartIndexing
<1>9. CASE Restart
  BY <1>9 DEF Restart
<1>10. ASSUME NEW a \in Actions, NEW ps \in SUBSET Paths, startFailurePolicyJob(a, ps) PROVE FoldersAgree'
  BY <1>10, <1>1 DEF startFailurePolicyJob
<1>11. ASSUME NEW fs \in SUBSET Folders, EditFolders(fs) PROVE FoldersAgree'
  <2>1. pc' \notin {"save", "replace", "confirm"}
    BY <1>11 DEF EditFolders, blocked, Leased, WorkLeased, Stages
  <2> QED
    BY <1>11, <2>1, <1>t DEF EditFolders, update_watch_folders, Config
<1>12. CASE UNCHANGED vars
  BY <1>12, <1>1 DEF vars
<1> QED
  BY <1>3, <1>4, <1>5, <1>6, <1>7, <1>8, <1>9, <1>10, <1>11, <1>12 DEF Next, Step

\* No folder the user added or removed is lost or comes back.
THEOREM FoldersSurvive == Spec => []FoldersKept
<1>1. FoldersAgree => FoldersKept
  BY DEF FoldersAgree, FoldersKept
<1> QED
  BY <1>1, TypeInit, TypeStep, LeasedInit, LeasedStep, FoldersInit, FoldersStep, PTL DEF Spec

-----------------------------------------------------------------------------
(* The exclusions in force.                                                  *)

\* What is in force is what is saved, except between the save and the swap and
\* while it is unknown which of the two the file holds.
Published ==
    /\ ~job.unknown /\ pc \notin {"replace", "confirm"} => cfg.excl = disk.excl
    /\ pc = "replace" => disk = loc.next
    /\ pc \in Stages \ {"readback"} => ~job.unknown

\* The controller has seen that a result is unknown, or will when the command
\* it holds the lease for ends.
UnknownSeen ==
    /\ job.snap.unknown = job.unknown
    /\ job.unknown => ctl.unknown \/ (busy /\ job.started /\ job.pending)

LEMMA DurableInit == Init => Published /\ UnknownSeen
<1> SUFFICES ASSUME Init PROVE Published /\ UnknownSeen
  OBVIOUS
<1>1. disk = cfg /\ job = NoJob /\ pc = "off"
  BY DEF Init
<1>2. job.unknown = FALSE /\ job.snap.unknown = FALSE
  BY <1>1 DEF NoJob, NoSnap
<1> QED
  BY <1>1, <1>2 DEF Published, UnknownSeen, Stages

\* A job ends in agreement, or latches its unknown result and the lease is still held.
LEMMA EndDurable ==
    ASSUME Typed, Leased, UnknownSeen, pc \in Stages, NEW status \in Status, NEW unknown \in BOOLEAN,
           Terminal(status, unknown), unknown \/ cfg'.excl = disk'.excl, ctl' = ctl
    PROVE  Published' /\ UnknownSeen'
<1>1. /\ pc' = "exit" /\ job'.unknown = unknown /\ job'.snap.unknown = unknown
      /\ job'.started = job.started /\ job'.pending = job.pending
  BY TerminalType DEF Typed, TypeOK
<1> QED
  BY <1>1 DEF Published, UnknownSeen, Leased, WorkLeased, busy, Stages

LEMMA DurableStep ==
    Typed /\ Leased /\ Published /\ UnknownSeen /\ [Next]_vars => Published' /\ UnknownSeen'
<1> SUFFICES ASSUME Typed, Leased, Published, UnknownSeen, [Next]_vars
             PROVE  Published' /\ UnknownSeen'
  OBVIOUS
<1>t. /\ TypeOK /\ cfg \in Config /\ disk \in Config
      /\ job \in JobType /\ ctl \in CtlType /\ loc \in LocType
      /\ pc \in Stages \cup {"off", "start", "index", "exit", "ending"}
      /\ (pc \in {"save", "replace", "confirm"} => loc.next \in Config)
  BY TypesNamed DEF Typed, TypeOK, CopyMade
<1> USE DEF Published, UnknownSeen, busy, settings, data
\* Steps that leave mailbox, lease and settings alone and stay clear of the save.
<1>1. ASSUME UNCHANGED <<settings, job, ctl>>,
             pc' \notin {"replace", "confirm"}, pc \notin {"replace", "confirm"},
             pc' \in Stages \ {"readback"} => pc \in Stages \ {"readback"}
      PROVE  Published' /\ UnknownSeen'
  BY <1>1
\* Steps of the mailbox and of the controller.
<1>2. ASSUME UNCHANGED <<cfg.excl, disk.excl>>, job'.unknown = job.unknown,
             pc \notin Stages, pc' \notin Stages
      PROVE  Published'
  BY <1>2 DEF Stages
<1>3. CASE Run
  <2>1. CASE job.command = None
    BY <1>3, <2>1, <1>1 DEF Run, Stages
  <2>2. CASE job.command # None
    <3>1. job' = [job EXCEPT !.command = None, !.started = TRUE] /\ UNCHANGED <<settings, ctl>>
      BY <1>3, <2>2 DEF Run
    <3>2. pc = "start" /\ pc' \in {"settings", "readback"}
          /\ (pc' = "settings" => job.command.action # "reconcile")
      BY <1>3, <2>2 DEF Run
    <3> QED
      BY <2>2, <3>1, <3>2, <1>t DEF Leased, CommandLeased, JobType, Stages
  <2> QED
    BY <2>1, <2>2
<1>4. CASE Settings
  <2>1. CASE cancelled
    <3>1. Terminal("cancelled", job.unknown) /\ UNCHANGED <<cfg, disk, ctl>> /\ pc = "settings"
      BY <1>4, <2>1 DEF Settings
    <3> QED
      BY <3>1, <1>t, EndDurable DEF Stages, Status, JobType
  <2>2. CASE ~cancelled
    BY <1>4, <2>2 DEF Settings, Stages
  <2> QED
    BY <2>1, <2>2
<1>5. CASE Save \/ Replace
  BY <1>5 DEF Save, Replace, Stages
<1>6. CASE Confirm \/ ReadBack
  <2>1. pc \in Stages /\ pc \in {"confirm", "readback"} /\ ctl' = ctl /\ disk' = disk
    BY <1>6 DEF Confirm, ReadBack, Stages
  <2>2. [cfg EXCEPT !.excl = disk.excl].excl = disk.excl
    BY <1>t DEF Config
  <2>3. \/ cfg'.excl = disk'.excl /\ pc' = "documents" /\ job' = job /\ pc = "confirm"
        \/ /\ cfg'.excl = disk'.excl
           /\ Terminal("error", FALSE) \/ Terminal("reconciled", FALSE)
        \/ Terminal("error", TRUE)
        \/ Terminal("error", job.unknown) /\ cfg' = cfg /\ pc = "readback"
    BY <1>6, <2>1, <2>2 DEF Confirm, ReadBack, publish_exclude_files, read_exclude_files, Unconfirmed
  <2>4. CASE cfg'.excl = disk'.excl /\ pc' = "documents" /\ job' = job /\ pc = "confirm"
    BY <2>1, <2>4 DEF Stages
  <2>5. CASE cfg'.excl = disk'.excl /\ (Terminal("error", FALSE) \/ Terminal("reconciled", FALSE))
    BY <2>1, <2>5, EndDurable DEF Status
  <2>6. CASE Terminal("error", TRUE)
    BY <2>1, <2>6, EndDurable DEF Status
  <2>7. CASE Terminal("error", job.unknown) /\ cfg' = cfg /\ pc = "readback"
    BY <2>1, <2>7, <1>t, EndDurable DEF Status, JobType
  <2> QED
    BY <2>3, <2>4, <2>5, <2>6, <2>7
<1>7. CASE MailAndResult \/ Broken
  <2>1. /\ pc \in Stages \ {"readback", "replace", "confirm"} /\ UNCHANGED <<cfg, disk, ctl>>
        /\ \E status \in Status : Terminal(status, FALSE)
    BY <1>7 DEF MailAndResult, Broken, Stages, Status, StatusOf
  <2> QED
    BY <2>1, EndDurable
<1>8. CASE \/ EndIndexing \/ EndDocuments \/ CleanState \/ Exit
           \/ \E p \in Paths : Delete(p) \/ Index(p)
  BY <1>8, <1>1, <1>t DEF EndIndexing, EndDocuments, CleanState, Exit, Delete, Index, Stages
<1>9. CASE poll
  <2>1. UNCHANGED <<pc, loc, settings>>
    BY <1>9 DEF poll
  <2>2. CASE ctl.rollback /\ Undone(job, ctl.id)
    <3>1. /\ pc = "off" /\ job' = ClearUnstarted(job, ctl.id)
          /\ ctl' = [ctl EXCEPT !.lease = FALSE, !.rollback = FALSE]
      BY <1>9, <2>2 DEF poll, Undone, joined, Released
    <3>2. job'.unknown = job.unknown /\ job'.snap.unknown = job.unknown
      BY <3>1, <1>t, ClearedType DEF ClearUnstarted
    <3>3. ~(job.started /\ job.pending)
      BY <2>2 DEF Undone, Clearable
    <3> QED
      BY <2>1, <3>1, <3>2, <3>3, <1>2, <1>t DEF CtlType, Stages
  <2>3. CASE ~(ctl.rollback /\ Undone(job, ctl.id))
    <3>1. \/ job' = job /\ ctl' = ctl
          \/ job' = job /\ ctl' = [ctl EXCEPT !.unknown = job.snap.unknown]
          \/ /\ joined /\ job' = [job EXCEPT !.pending = FALSE]
             /\ ctl' \in {Released([ctl EXCEPT !.unknown = job.snap.unknown]),
                          [ctl EXCEPT !.unknown = job.snap.unknown]}
      BY <1>9, <2>3 DEF poll, acknowledge
    <3>2. CASE job' = job /\ ctl' = ctl
      BY <2>1, <3>2
    <3>3. CASE job' = job /\ ctl' = [ctl EXCEPT !.unknown = job.snap.unknown]
      BY <2>1, <3>3, <1>t DEF CtlType
    <3>4. ASSUME joined, job' = [job EXCEPT !.pending = FALSE],
                 ctl' \in {Released([ctl EXCEPT !.unknown = job.snap.unknown]),
                           [ctl EXCEPT !.unknown = job.snap.unknown]}
          PROVE  Published' /\ UnknownSeen'
      BY <2>1, <3>4, <1>t DEF Released, joined, CtlType, JobType, Stages
    <3> QED
      BY <3>1, <3>2, <3>3, <3>4
  <2> QED
    BY <2>2, <2>3
<1>10. CASE BeginShutdown
  BY <1>10, <1>t DEF BeginShutdown, CtlType
<1>11. CASE Restart
  BY <1>11 DEF Restart, NoJob, NoSnap, NoCtl, Stages
<1>12. ASSUME NEW a \in Actions, NEW ps \in SUBSET Paths, startFailurePolicyJob(a, ps)
       PROVE  Published' /\ UnknownSeen'
  <2>1. ~busy /\ pc \notin Stages /\ UNCHANGED settings
    BY <1>12 DEF startFailurePolicyJob, Admitted, isRunning, Stages
  <2>2. PICK id \in JobIds, j \in JobType :
           j.unknown = job.unknown /\ j.snap.unknown = job.unknown /\ Outcome(id, j)
    BY <1>12, <1>t, StartCases
  <2>3. job'.unknown = job.unknown /\ job'.snap.unknown = job.unknown
    BY <2>2, ClearedType DEF Outcome
  <2>4. ctl'.unknown = ctl.unknown
    BY <2>2, <1>t DEF Outcome, CtlType, Released
  <2>5. pc' \notin Stages
    BY <2>1, <2>2 DEF Outcome, Stages
  <2> QED
    BY <2>1, <2>3, <2>4, <2>5, <1>2
<1>13. ASSUME NEW fs \in SUBSET Folders, EditFolders(fs) PROVE Published' /\ UnknownSeen'
  <2>1. pc \notin Stages
    BY <1>13 DEF EditFolders, blocked, Leased, WorkLeased
  <2> QED
    BY <1>13, <2>1 DEF EditFolders, update_watch_folders, Stages
<1>14. CASE sendQuery \/ QueryEnds \/ StartIndexing
  BY <1>14 DEF sendQuery, QueryEnds, StartIndexing, isRunning, Stages
<1>15. CASE UNCHANGED vars
  BY <1>15 DEF vars
<1> QED
  BY <1>3, <1>4, <1>5, <1>6, <1>7, <1>8, <1>9, <1>10, <1>11, <1>12, <1>13, <1>14, <1>15 DEF Next, Step

\* Whenever new work is admitted the exclusions in force are the saved ones.
THEOREM DurableWhenAdmitted == Spec => []PublishedIsDurable
<1>1. Leased /\ Published /\ UnknownSeen => PublishedIsDurable
  BY DEF Leased, WorkLeased, Published, UnknownSeen, PublishedIsDurable, blocked, Stages
<1> QED
  BY <1>1, TypeInit, TypeStep, LeasedInit, LeasedStep, DurableInit, DurableStep, PTL DEF Spec
=============================================================================
