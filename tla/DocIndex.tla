------------------------------ MODULE DocIndex ------------------------------
(***************************************************************************)
(* The document half of a collector cycle: the scan, the per-file indexing *)
(* loop, the batched checkpoint of index_state.json, the recovery marker,  *)
(* the orphan cleanup and the exclusion job, over the LanceDB table        *)
(* "chunks".  Sources: knowmate/collector/scheduler.py (_run_cycle),       *)
(* knowmate/rag/indexer.py, knowmate/collector/cleanup.py, state.py and    *)
(* policy_service.py (run_policy).                                         *)
(*                                                                         *)
(* Three things survive the process: the table (db), the state file (disk) *)
(* and the recovery marker (marker).  They are written one after the other *)
(* and a crash may fall between any two writes; every action below makes   *)
(* at most one durable write that the next cycle can tell apart.           *)
(*                                                                         *)
(* A generation stands for all the rows one index_file call adds: they are *)
(* added by one table.add and carry one generation_id, and the model's     *)
(* chunk id lists are sets of generations.                                 *)
(***************************************************************************)
EXTENDS Naturals, FiniteSets

CONSTANTS
    Docs,       \* document paths
    Folders,    \* the watched roots
    Root,       \* the watched root each document lies under
    Holds,      \* the paths whose text starts with a root's text (str.startswith)
    Gens,       \* generation ids (uuid4), enough that a fresh one always exists
    MaxRev,     \* bound: source revisions (size, mtime_ns) a document goes through
    BlankRevs,  \* the revisions whose text yields no chunk
    MaxRatio,   \* cleanup.max_delete_ratio, in percent
    DryRun,     \* cleanup.dry_run
    Faults,     \* the fault kinds a run lets happen
    MaxFaults,  \* bound: how many of them happen in a behaviour
    AllDocs,    \* the target of an ordinary cycle
    NoEntry, NoRow, NoTask

FaultKinds == {"crash", "recreate", "stateloss", "save", "unlink", "skip", "add",
               "read", "delete", "softDelete", "cancel", "single", "unmount",
               "restore", "exclude", "unexclude"}

Revs  == 1..MaxRev
Entry == [rev : 0..MaxRev, chunks : SUBSET Gens, pend : SUBSET Gens]
Row   == [doc : Docs, rev : Revs, miss : {0, 1}]
Task  == [doc : Docs, rev : Revs, gens : SUBSET Gens]
Job   == [doc : Docs, rev : Revs]

ASSUME ConstantsAssumption ==
    /\ MaxRev \in Nat \ {0}
    /\ MaxRatio \in Nat
    /\ MaxFaults \in Nat
    /\ DryRun \in BOOLEAN
    /\ BlankRevs \subseteq Revs
    /\ Faults \subseteq FaultKinds
    /\ Root \in [Docs -> Folders]
    /\ Holds \in [Folders -> SUBSET Docs]
    /\ AllDocs \notin Docs
    /\ NoEntry \notin Entry
    /\ NoRow \notin Row
    /\ NoTask \notin Task

VARIABLES
    rev, present, up,            \* the disk the user works on: last revision of each
                                 \* path, the paths that exist, the reachable roots
    excluded,                    \* collector.exclude_files
    db,                          \* the table
    disk, marker,                \* index_state.json; the recovery marker file
    recreated, empty,            \* Indexer.table_was_recreated, table_is_empty
    mem, dirty, unres, held,     \* state, state_dirty, unresolved_adds (document ids;
                                 \* "previous-run" or a "recovered:" key left behind)
    pc, target, toScan, queue, task,   \* the cycle's control, producer and consumer
    ctodo, cur, seen, orph, report,    \* CleanupManager.run: folders left, the folder
                                 \* in hand, its paths that were found on the disk and
                                 \* those that were not, whether anything was deleted
    away,                        \* history: the paths whose root went out of reach, or
                                 \* that were put back, since the folder's root guard
    faults                       \* faults so far (bounded by MaxFaults)

source  == <<rev, present, up>>
durable == <<disk, marker>>
flags   == <<recreated, empty>>
memory  == <<mem, dirty, unres, held>>
loop    == <<target, toScan, queue, task>>
sweep   == <<ctodo, cur, seen, orph, report, away>>
vars == <<source, excluded, db, durable, flags, memory, pc, loop, sweep, faults>>

Fault(kind) == kind \in Faults /\ faults < MaxFaults /\ faults' = faults + 1

NoState == [d \in Docs |-> NoEntry]
Live == {g \in Gens : db[g] # NoRow}
RowsOf(d) == {g \in Live : db[g].doc = d}
Active(d) == {g \in RowsOf(d) : db[g].miss = 0}
Without(gens) == [g \in Gens |-> IF g \in gens THEN NoRow ELSE db[g]]
Chunks(e) == IF e = NoEntry THEN {} ELSE e.chunks
Pend(e) == IF e = NoEntry THEN {} ELSE e.pend

\* Path.exists: the file is there and its root is reachable.
Exists(d) == d \in present /\ Root[d] \in up

\* _complete_generations(rows, revision, active_only=True): a generation is
\* whole because add is atomic and deletes name all its ids.
Complete(d, r) == {g \in Active(d) : db[g].rev = r}

\* _pick_generation: one deterministic winner.
Winner(gens) == CHOOSE g \in gens : TRUE

\* A uuid that nothing durable or in memory mentions.
Fresh == {g \in Gens \ Live : \A d \in Docs :
             g \notin UNION {Chunks(mem[d]), Pend(mem[d]), Chunks(disk[d]), Pend(disk[d])}}

Init ==
    /\ rev = [d \in Docs |-> 1] /\ present = Docs /\ up = Folders
    /\ excluded = {}
    /\ db = [g \in Gens |-> NoRow]
    /\ disk = NoState /\ marker = FALSE
    /\ recreated = TRUE /\ empty = TRUE
    /\ mem = NoState /\ dirty = FALSE /\ unres = {} /\ held = FALSE
    /\ pc = "idle" /\ target = AllDocs /\ toScan = {} /\ queue = {} /\ task = NoTask
    /\ ctodo = {} /\ cur \in Folders /\ seen = {} /\ orph = {} /\ report = FALSE /\ away = {}
    /\ faults = 0

-----------------------------------------------------------------------------
(* The user's files.  A revision is never reused: mtime_ns only grows.  Only *)
(* Restore and Mount bring a path back with the revision it had.             *)

Modify(d) == /\ d \in present /\ rev[d] < MaxRev
             /\ rev' = [rev EXCEPT ![d] = @ + 1]
             /\ UNCHANGED <<present, up>>

Remove(d) == /\ d \in present
             /\ present' = present \ {d}
             /\ UNCHANGED <<rev, up>>

Return(d) == /\ d \notin present /\ rev[d] < MaxRev
             /\ present' = present \cup {d}
             /\ rev' = [rev EXCEPT ![d] = @ + 1]
             /\ UNCHANGED up

SourceChange ==
    /\ \E d \in Docs : Modify(d) \/ Remove(d) \/ Return(d)
    /\ UNCHANGED <<excluded, db, durable, flags, memory, pc, loop, sweep, faults>>

Excuse(docs) == away' = IF pc \in {"orphans", "delete"} THEN away \cup docs ELSE away

\* Back from the recycle bin with its old mtime.
Restore(d) == /\ Fault("restore") /\ d \notin present
              /\ present' = present \cup {d} /\ Excuse({d})
              /\ UNCHANGED <<rev, up, excluded, db, durable, flags, memory, pc, loop,
                             ctodo, cur, seen, orph, report>>

Unmount(f) == /\ Fault("unmount") /\ f \in up
              /\ up' = up \ {f} /\ Excuse({d \in Docs : Root[d] = f})
              /\ UNCHANGED <<rev, present, excluded, db, durable, flags, memory, pc, loop,
                             ctodo, cur, seen, orph, report>>

Mount(f) == /\ f \notin up
            /\ up' = up \cup {f}
            /\ UNCHANGED <<rev, present, excluded, db, durable, flags, memory, pc, loop, sweep, faults>>

-----------------------------------------------------------------------------
(* The process ends and starts again; the cycle's locals are lost.           *)

CycleLocals ==
    /\ mem' = NoState /\ dirty' = FALSE /\ unres' = {} /\ held' = FALSE
    /\ pc' = "idle" /\ target' = AllDocs /\ toScan' = {} /\ queue' = {} /\ task' = NoTask
    /\ ctodo' = {} /\ seen' = {} /\ orph' = {} /\ report' = FALSE /\ away' = {} /\ UNCHANGED cur

\* Indexer.__init__ opens the table it finds and counts its rows.
Crash == /\ Fault("crash")
         /\ CycleLocals
         /\ recreated' = FALSE /\ empty' = (Live = {})
         /\ UNCHANGED <<source, excluded, db, durable>>

\* open_table failed: Indexer.__init__ creates an empty table in its place.
CrashAndRecreate ==
    /\ Fault("recreate")
    /\ CycleLocals
    /\ recreated' = TRUE /\ empty' = TRUE
    /\ db' = Without(Gens)
    /\ UNCHANGED <<source, excluded, durable>>

-----------------------------------------------------------------------------
(* The start of a cycle: load_state, the repair of a state whose table is    *)
(* gone, and the recovery of a state that may miss rows.                     *)

\* Entries that claim rows although the table was recreated or opened empty.
StaleRowsClaimed(m) == (recreated \/ empty) /\ \E d \in Docs : Chunks(m[d]) # {}

\* Without index_version and revision an entry matches no source revision.
Invalidated(m) == [d \in Docs |-> IF m[d] = NoEntry THEN NoEntry
                                  ELSE [rev |-> 0, chunks |-> {}, pend |-> {}]]

Repaired(m) == IF StaleRowsClaimed(m) THEN Invalidated(m) ELSE m

RecoveryNeeded(m) == marker \/ (m = NoState /\ Live # {})

\* Mutant: the recovery leaves a path that has an entry alone.
RecoveredUnknownOnly(m) == [d \in Docs |-> IF RowsOf(d) = {} \/ m[d] # NoEntry THEN m[d]
                            ELSE [rev |-> 0, chunks |-> RowsOf(d), pend |-> {}]]

\* recover_document_state: every path with rows gets all its row ids, mtime 0.
Recovered(m) == [d \in Docs |-> IF RowsOf(d) = {} THEN m[d]
                                ELSE [rev |-> 0, chunks |-> RowsOf(d), pend |-> {}]]

\* An unreadable state file loads as an empty dict.
Loaded(m) == \/ m = disk /\ UNCHANGED faults
             \/ m = NoState /\ disk # NoState /\ Fault("stateloss")

BeginCycle ==
    /\ pc = "idle"
    /\ \E m \in {disk, NoState} :
          /\ Loaded(m)
          /\ LET m1 == Repaired(m) IN
               /\ mem' = IF RecoveryNeeded(m1) THEN Recovered(m1) ELSE m1
               /\ dirty' = (StaleRowsClaimed(m) \/ (RecoveryNeeded(m1) /\ Live # {}))
    /\ target' = AllDocs /\ toScan' = Docs
    /\ pc' = "pending"
    /\ UNCHANGED <<source, excluded, db, durable, flags, unres, held, queue, task, sweep>>

\* count_rows or the recovery read failed: no write but the repair's checkpoint,
\* and the marker of the previous run ("previous-run" is unresolved) stays.
BeginFails ==
    /\ pc = "idle" /\ Fault("read")
    /\ RecoveryNeeded(Repaired(disk)) \/ Repaired(disk) = NoState
    /\ mem' = Repaired(disk) /\ dirty' = StaleRowsClaimed(disk) /\ held' = marker
    /\ pc' = "final"
    /\ UNCHANGED <<source, excluded, db, durable, flags, unres, loop, sweep>>

\* The retry of one failed document: validated, never during a recovery, and
\* queued whatever the state says.
BeginSingle(d) ==
    /\ pc = "idle" /\ Fault("single")
    /\ Exists(d) /\ d \notin excluded
    /\ ~StaleRowsClaimed(disk) /\ ~RecoveryNeeded(disk)
    /\ mem' = disk /\ target' = d /\ queue' = {[doc |-> d, rev |-> rev[d]]}
    /\ pc' = "pending"
    /\ UNCHANGED <<source, excluded, db, durable, flags, dirty, unres, held, toScan, task, sweep>>

\* Old rows whose deletion failed in an earlier cycle, tried again before the scan.
RetryPending ==
    /\ pc = "pending"
    /\ LET due == {d \in Docs : Pend(mem[d]) # {} /\ target \in {AllDocs, d}} IN
       \E done \in SUBSET due :
          /\ IF done = due THEN UNCHANGED faults ELSE Fault("delete")
          /\ db' = Without(UNION {Pend(mem[d]) : d \in done})
          /\ mem' = [d \in Docs |-> IF d \in done THEN [mem[d] EXCEPT !.pend = {}] ELSE mem[d]]
          /\ dirty' = (dirty \/ done # {})
    /\ pc' = "work"
    /\ UNCHANGED <<source, excluded, durable, flags, unres, held, loop, sweep>>

-----------------------------------------------------------------------------
(* The producer thread walks the roots and queues what is new or modified.   *)
(* It reads an entry only the consumer's task for the same path changes, so  *)
(* it is scheduled where the consumer waits on the queue.                    *)

Scan(d) ==
    /\ pc = "work" /\ d \in toScan
    /\ toScan' = toScan \ {d}
    /\ LET listed  == Exists(d) /\ d \notin excluded
           changed == IF mem[d] = NoEntry THEN TRUE ELSE mem[d].rev # rev[d]
           job     == [doc |-> d, rev |-> rev[d]]
       IN  \/ queue' = (IF listed /\ changed THEN queue \cup {job} ELSE queue) /\ UNCHANGED faults
           \/ listed /\ changed /\ Fault("skip") /\ UNCHANGED queue   \* back-off, DRM idle
    /\ UNCHANGED <<source, excluded, db, durable, flags, memory, pc, target, task, sweep>>

-----------------------------------------------------------------------------
(* The consumer.                                                             *)

\* Mutant: every task is extracted, whatever the table holds.
TakeBlindly(job) ==
    /\ pc = "work" /\ job \in queue
    /\ queue' = queue \ {job} /\ task' = [doc |-> job.doc, rev |-> job.rev, gens |-> {}]
    /\ pc' = "extract"
    /\ UNCHANGED <<source, excluded, db, durable, flags, memory, target, toScan, sweep, faults>>

\* recover_generation decides between adopting rows and extracting the text;
\* adopting writes the marker first (ensure_recovery_marker).
Take(job) ==
    /\ pc = "work" /\ job \in queue
    /\ queue' = queue \ {job}
    /\ task' = [doc |-> job.doc, rev |-> job.rev, gens |-> {}]
    /\ IF Complete(job.doc, job.rev) # {}
         THEN pc' = "adopt" /\ marker' = TRUE
         ELSE pc' = "extract" /\ UNCHANGED marker
    /\ UNCHANGED <<source, excluded, db, disk, flags, memory, target, toScan, sweep, faults>>

\* Back-off, an unreadable table, an unsaved marker, a failed extraction: the
\* document is left for a later cycle and nothing else changed.  Only a caught
\* exception goes on to the hard-limit maintenance, which may flush.
SkipTask ==
    /\ \/ pc = "work" /\ (\E job \in queue : queue' = queue \ {job}) /\ UNCHANGED pc
       \/ pc = "extract" /\ pc' \in {"work", "flush"} /\ UNCHANGED queue
    /\ Fault("skip")
    /\ task' = NoTask
    /\ UNCHANGED <<source, excluded, db, durable, flags, memory, target, toScan, sweep>>

\* path_cleanup_ids failed after the "recovered:" key was added.
AdoptFails ==
    /\ pc = "adopt" /\ Fault("read")
    /\ held' = TRUE /\ pc' = "work" /\ task' = NoTask
    /\ UNCHANGED <<source, excluded, db, durable, flags, mem, dirty, unres, target, toScan, queue, sweep>>

\* state[path] takes the new entry with the ids to delete, the deletion is
\* tried, and the ids stay pending unless it succeeds.
Replace(d, entry, doomed) ==
    /\ dirty' = TRUE
    /\ \/ db' = Without(doomed) /\ mem' = [mem EXCEPT ![d] = entry] /\ UNCHANGED faults
       \/ doomed # {} /\ Fault("delete") /\ UNCHANGED db
          /\ mem' = [mem EXCEPT ![d] = [entry EXCEPT !.pend = doomed]]

\* Mutant: the ids to delete include the generation that is kept.
AdoptDoomingAll ==
    /\ pc = "adopt"
    /\ LET d == task.doc
           keep == Winner(Complete(d, task.rev))
       IN  Replace(d, [rev |-> task.rev, chunks |-> {keep}, pend |-> {}], RowsOf(d))
    /\ pc' = "flush" /\ task' = NoTask
    /\ UNCHANGED <<source, excluded, durable, flags, unres, held, target, toScan, queue, sweep>>

\* A complete generation of this revision is in the table: keep it, and delete
\* every other row of the document.
Adopt ==
    /\ pc = "adopt"
    /\ LET d == task.doc
           keep == Winner(Complete(d, task.rev))
           doomed == (RowsOf(d) \cup Chunks(mem[d]) \cup Pend(mem[d])) \ {keep}
       IN  Replace(d, [rev |-> task.rev, chunks |-> {keep}, pend |-> {}], doomed)
    /\ pc' = "flush" /\ task' = NoTask
    /\ UNCHANGED <<source, excluded, durable, flags, unres, held, target, toScan, queue, sweep>>

\* The file changed or vanished while it was read: not indexed in this cycle.
SourceMoved ==
    /\ pc = "extract"
    /\ ~Exists(task.doc) \/ rev[task.doc] # task.rev
    /\ pc' = "work" /\ task' = NoTask
    /\ UNCHANGED <<source, excluded, db, durable, flags, memory, target, toScan, queue, sweep, faults>>

\* Mutant: the old rows go before the new ones are added.
ExtractDeletingFirst ==
    /\ pc = "extract"
    /\ Exists(task.doc) /\ rev[task.doc] = task.rev
    /\ marker' = TRUE /\ unres' = unres \cup {task.doc}
    /\ db' = Without(RowsOf(task.doc))
    /\ pc' = "add"
    /\ UNCHANGED <<source, excluded, disk, flags, mem, dirty, held, loop, sweep, faults>>

\* The text is that of the scanned revision; the marker is on disk before the add.
Extract ==
    /\ pc = "extract"
    /\ Exists(task.doc) /\ rev[task.doc] = task.rev
    /\ marker' = TRUE /\ unres' = unres \cup {task.doc}
    /\ pc' = "add"
    /\ UNCHANGED <<source, excluded, db, disk, flags, mem, dirty, held, loop, sweep, faults>>

Insert(g) == [db EXCEPT ![g] = [doc |-> task.doc, rev |-> task.rev, miss |-> 0]]

\* index_file: one add for all the rows, or none for a text without chunks.
IndexFile ==
    /\ pc = "add"
    /\ \/ task.rev \in BlankRevs /\ UNCHANGED <<db, empty, task>>
       \/ /\ task.rev \notin BlankRevs
          /\ \E g \in Fresh : db' = Insert(g) /\ task' = [task EXCEPT !.gens = {g}]
          /\ empty' = FALSE
    /\ pc' = "record"
    /\ UNCHANGED <<source, excluded, durable, recreated, memory, target, toScan, queue, sweep, faults>>

\* An embedding error, a cancellation, the commit guard, or an add that raised:
\* the rows may be there or not, and the document stays unresolved.
IndexFileFails ==
    /\ pc = "add" /\ Fault("add")
    /\ \/ UNCHANGED db
       \/ task.rev \notin BlankRevs /\ \E g \in Fresh : db' = Insert(g)
    /\ pc' = "flush" /\ task' = NoTask
    /\ UNCHANGED <<source, excluded, durable, flags, memory, target, toScan, queue, sweep>>

\* Mutant: the entry takes the stat of the file after the add.
RecordLateStat ==
    /\ pc = "record"
    /\ task.gens # {} => task.gens = {Winner(Complete(task.doc, task.rev))}
    /\ LET d == task.doc
           doomed == Pend(mem[d]) \cup Chunks(mem[d]) \cup (RowsOf(d) \ task.gens)
       IN  Replace(d, [rev |-> rev[d], chunks |-> task.gens, pend |-> {}], doomed)
    /\ unres' = unres \ {task.doc}
    /\ pc' = "flush" /\ task' = NoTask
    /\ UNCHANGED <<source, excluded, durable, flags, held, target, toScan, queue, sweep>>

\* The new rows read back as the winning generation; only then does the state
\* claim them, and only then do the old rows go.
Record ==
    /\ pc = "record"
    /\ task.gens # {} => task.gens = {Winner(Complete(task.doc, task.rev))}
    /\ LET d == task.doc
           doomed == Pend(mem[d]) \cup Chunks(mem[d]) \cup (RowsOf(d) \ task.gens)
       IN  Replace(d, [rev |-> task.rev, chunks |-> task.gens, pend |-> {}], doomed)
    /\ unres' = unres \ {task.doc}
    /\ pc' = "flush" /\ task' = NoTask
    /\ UNCHANGED <<source, excluded, durable, flags, held, target, toScan, queue, sweep>>

\* The read-back failed or found another generation: the document stays unresolved.
RecordFails ==
    /\ pc = "record" /\ task.gens # {}
    /\ IF task.gens = {Winner(Complete(task.doc, task.rev))} THEN Fault("read") ELSE UNCHANGED faults
    /\ pc' = "flush" /\ task' = NoTask
    /\ UNCHANGED <<source, excluded, db, durable, flags, memory, target, toScan, queue, sweep>>

-----------------------------------------------------------------------------
(* flush_document_state: after a task when the batch is due or the hard-limit *)
(* maintenance asks for it, by force at the end of a cycle, on cancellation   *)
(* and on the way out of an exception.                                        *)

Save == /\ disk' = mem /\ dirty' = FALSE
        /\ recreated' = FALSE /\ empty' = FALSE

\* Mutant: a saved state retires the marker whatever is unresolved.
MarkerAlwaysGoes == marker

MarkerMayGo == marker /\ unres = {} /\ ~held

BatchFlush ==
    /\ pc = "flush"
    /\ \/ pc' = "work" /\ UNCHANGED <<disk, flags, dirty, faults>>    \* clean or not due
       \/ dirty /\ Save /\ pc' = (IF MarkerMayGo THEN "unlink" ELSE "work") /\ UNCHANGED faults
       \/ dirty /\ Fault("save") /\ pc' = "work" /\ UNCHANGED <<disk, flags, dirty>>
    /\ UNCHANGED <<source, excluded, db, marker, mem, unres, held, loop, sweep>>

EndCycle == /\ CycleLocals
            /\ UNCHANGED <<source, excluded, db>>

FinalFlush ==
    /\ pc = "final"
    /\ \/ ~dirty /\ EndCycle /\ UNCHANGED <<durable, flags, faults>>
       \/ dirty /\ ~MarkerMayGo /\ EndCycle /\ disk' = mem /\ recreated' = FALSE /\ empty' = FALSE
          /\ UNCHANGED <<marker, faults>>
       \/ /\ dirty /\ MarkerMayGo /\ Save /\ pc' = "lastUnlink"
          /\ UNCHANGED <<source, excluded, db, marker, mem, unres, held, loop, sweep, faults>>
       \/ dirty /\ Fault("save") /\ EndCycle /\ UNCHANGED <<durable, flags>>

Unlink ==
    /\ \/ marker' = FALSE /\ UNCHANGED faults
       \/ Fault("unlink") /\ UNCHANGED marker
    /\ \/ /\ pc = "unlink" /\ pc' = "work"
          /\ UNCHANGED <<source, excluded, db, memory, loop, sweep>>
       \/ pc = "lastUnlink" /\ EndCycle
    /\ UNCHANGED <<disk, flags>>

\* All listed files handled: a single retry ends here, a cycle goes on to clean up.
Drain ==
    /\ pc = "work" /\ toScan = {} /\ queue = {}
    /\ IF target = AllDocs THEN pc' = "cleanup" /\ ctodo' = Folders
                           ELSE pc' = "final" /\ UNCHANGED ctodo
    /\ UNCHANGED <<source, excluded, db, durable, flags, memory, loop, cur, seen, orph, report, away, faults>>

\* The user cancels: seen when the next task is taken.
Cancel ==
    /\ pc = "work" /\ queue # {} /\ Fault("cancel")
    /\ pc' = "final" /\ toScan' = {} /\ queue' = {}
    /\ UNCHANGED <<source, excluded, db, durable, flags, memory, target, task, sweep>>

-----------------------------------------------------------------------------
(* CleanupManager.run, one folder after the other in the configured order.   *)

Indexed(f) == {d \in Holds[f] : mem[d] # NoEntry}

\* Mutant: no root guard.
NoRootGuard(f) ==
    /\ pc = "cleanup" /\ f \in ctodo
    /\ ctodo' = ctodo \ {f} /\ cur' = f /\ seen' = {} /\ away' = {} /\ pc' = "orphans"
    /\ UNCHANGED <<source, excluded, db, durable, flags, memory, loop, orph, report, faults>>

\* Safety device 1: a folder whose root is unreachable is skipped.
RootGuard(f) ==
    /\ pc = "cleanup" /\ f \in ctodo
    /\ ctodo' = ctodo \ {f} /\ cur' = f /\ seen' = {} /\ away' = {}
    /\ pc' = IF f \in up THEN "orphans" ELSE "cleanup"
    /\ UNCHANGED <<source, excluded, db, durable, flags, memory, loop, orph, report, faults>>

\* One exists() call of _find_orphans for each entry of the folder: the files and the
\* roots may change between two of them.
FindOrphans(d) ==
    /\ pc = "orphans" /\ d \in Indexed(cur) \ (seen \cup orph)
    /\ seen' = (IF Exists(d) THEN seen \cup {d} ELSE seen)
    /\ orph' = (IF Exists(d) THEN orph ELSE orph \cup {d})
    /\ UNCHANGED <<source, excluded, db, durable, flags, memory, pc, loop, ctodo, cur, report, away, faults>>

\* Safety device 2: too large a share of the folder's entries is no orphan set.
MassDelete == Cardinality(orph) * 100 > MaxRatio * Cardinality(Indexed(cur))

WeighOrphans ==
    /\ pc = "orphans" /\ Indexed(cur) = seen \cup orph
    /\ LET act == orph # {} /\ ~MassDelete /\ ~DryRun IN
         /\ pc' = IF act THEN "delete" ELSE "cleanup"
         /\ orph' = IF act THEN orph ELSE {}
    /\ UNCHANGED <<source, excluded, db, durable, flags, memory, loop, ctodo, cur, seen, report, away, faults>>

Softened(gens) == [g \in Gens |-> IF g \in gens THEN [db[g] EXCEPT !.miss = 1] ELSE db[g]]

FirstMiss(gens)  == {g \in gens \cap Live : db[g].miss = 0}
SecondMiss(gens) == {g \in gens \cap Live : db[g].miss = 1}

\* Safety device 3: delete_chunks hides a row at its first miss and deletes it
\* at its second; the entry goes with its last row.
DeleteOrphan(d) ==
    /\ pc = "delete" /\ d \in orph
    /\ orph' = orph \ {d} /\ pc' = IF orph' = {} THEN "cleanup" ELSE "delete"
    /\ LET ids  == Chunks(mem[d])
           left == FirstMiss(ids)                  \* present after the call
       IN  /\ db' = [g \in Gens |-> IF g \in SecondMiss(ids) THEN NoRow ELSE Softened(left)[g]]
           /\ report' = (report \/ ids # {})
           /\ \/ mem' = (IF left = ids THEN mem
                         ELSE IF left = {} THEN [mem EXCEPT ![d] = NoEntry]
                         ELSE [mem EXCEPT ![d].chunks = left]) /\ UNCHANGED faults
              \/ left # ids /\ Fault("read") /\ UNCHANGED mem   \* _check_physically_deleted
    /\ UNCHANGED <<source, excluded, durable, flags, dirty, unres, held, loop, ctodo, cur, seen, away>>

\* delete_chunks raised, before or after its update: the exception leaves the
\* cycle through the last flush.
CleanupRaises ==
    /\ pc = "delete" /\ Fault("softDelete")
    /\ \E d \in orph :
         LET hidden == FirstMiss(Chunks(mem[d])) IN
         db' \in {db, Softened(hidden)}
    /\ pc' = "final"
    /\ UNCHANGED <<source, excluded, durable, flags, memory, loop, sweep>>

CleanupDone ==
    /\ pc = "cleanup" /\ ctodo = {}
    /\ dirty' = (dirty \/ report) /\ pc' = "final"
    /\ UNCHANGED <<source, excluded, db, durable, flags, mem, unres, held, loop, sweep, faults>>

-----------------------------------------------------------------------------
(* run_policy, on the worker thread between cycles: the settings are durable *)
(* before the rows go, and the rows go before the state entry.               *)

Exclude(d) ==
    /\ pc = "idle" /\ Fault("exclude") /\ d \notin excluded
    /\ excluded' = excluded \cup {d} /\ pc' = "excludeRows"
    /\ task' = [doc |-> d, rev |-> rev[d], gens |-> {}]
    /\ UNCHANGED <<source, db, durable, flags, memory, target, toScan, queue, sweep>>

ExcludeRows ==
    /\ pc = "excludeRows"
    /\ \/ db' = Without(RowsOf(task.doc)) /\ pc' = "excludeState" /\ UNCHANGED <<task, faults>>
       \/ Fault("delete") /\ pc' = "idle" /\ task' = NoTask /\ UNCHANGED db
    /\ UNCHANGED <<source, excluded, durable, flags, memory, target, toScan, queue, sweep>>

ExcludeState ==
    /\ pc = "excludeState"
    /\ \/ disk' = [disk EXCEPT ![task.doc] = NoEntry] /\ UNCHANGED faults
       \/ Fault("save") /\ UNCHANGED disk
    /\ pc' = "idle" /\ task' = NoTask
    /\ UNCHANGED <<source, excluded, db, marker, flags, memory, target, toScan, queue, sweep>>

Unexclude(d) ==
    /\ pc = "idle" /\ Fault("unexclude") /\ d \in excluded
    /\ excluded' = excluded \ {d}
    /\ UNCHANGED <<source, db, durable, flags, memory, pc, loop, sweep>>

-----------------------------------------------------------------------------
Environment ==
    \/ SourceChange
    \/ \E d \in Docs : Restore(d) \/ Exclude(d) \/ Unexclude(d) \/ BeginSingle(d)
    \/ \E f \in Folders : Unmount(f)
    \/ Crash \/ CrashAndRecreate

Failure == \/ BeginFails \/ SkipTask \/ AdoptFails \/ IndexFileFails \/ Cancel \/ CleanupRaises

Worker ==
    \/ BeginCycle \/ RetryPending \/ (\E d \in Docs : Scan(d))
    \/ (\E job \in Job : Take(job)) \/ Adopt \/ SourceMoved \/ Extract \/ IndexFile
    \/ Record \/ RecordFails \/ BatchFlush \/ Unlink \/ Drain \/ FinalFlush
    \/ (\E f \in Folders : RootGuard(f)) \/ (\E d \in Docs : FindOrphans(d) \/ DeleteOrphan(d))
    \/ WeighOrphans \/ CleanupDone \/ ExcludeRows \/ ExcludeState

Next == Environment \/ (\E f \in Folders : Mount(f)) \/ Failure \/ Worker

Spec == Init /\ [][Next]_vars

\* The worker thread runs whenever it can; an unreachable root comes back.
FairSpec == Spec /\ WF_vars(Worker) /\ \A f \in Folders : WF_vars(Mount(f))

-----------------------------------------------------------------------------
(* Properties.                                                               *)

SourceType == rev \in [Docs -> Revs] /\ present \subseteq Docs /\ up \subseteq Folders
              /\ excluded \subseteq Docs
TableType == db \in [Gens -> Row \cup {NoRow}]
DurableType == disk \in [Docs -> Entry \cup {NoEntry}] /\ marker \in BOOLEAN
FlagsType == recreated \in BOOLEAN /\ empty \in BOOLEAN
MemoryType == mem \in [Docs -> Entry \cup {NoEntry}] /\ dirty \in BOOLEAN
              /\ unres \subseteq Docs /\ held \in BOOLEAN
ControlType == pc \in {"idle", "pending", "work", "extract", "adopt", "add", "record",
                       "flush", "unlink", "cleanup", "orphans", "delete", "final",
                       "lastUnlink", "excludeRows", "excludeState"}
LoopType == target \in Docs \cup {AllDocs} /\ toScan \subseteq Docs /\ queue \subseteq Job
            /\ task \in Task \cup {NoTask}
TaskType == pc \in {"extract", "adopt", "add", "record", "excludeRows", "excludeState"}
            => task \in Task
SweepType == ctodo \subseteq Folders /\ cur \in Folders /\ seen \subseteq Docs /\ orph \subseteq Docs
             /\ report \in BOOLEAN /\ away \subseteq Docs
FaultsType == faults \in 0..MaxFaults

\* Every variable keeps its type, and the worker has a task in hand wherever the
\* code uses one.
TypeOK ==
    /\ SourceType /\ TableType /\ DurableType /\ FlagsType /\ MemoryType
    /\ ControlType /\ LoopType /\ TaskType /\ SweepType /\ FaultsType

\* What the next scan will pass over as unchanged is searchable: when a cycle is
\* about to start from a state file that claims chunks of a path's current
\* revision, and the repair of a lost table will not run, the table holds a
\* whole, visible generation of that revision.  A claim without rows keeps the
\* document out of the index until somebody edits it.
UnchangedIsSearchable ==
    pc = "idle" /\ ~recreated /\ ~empty =>
        \A d \in present \ excluded :
            Chunks(disk[d]) # {} /\ disk[d].rev = rev[d] => Complete(d, rev[d]) # {}

\* No stranded row: at every instant, so at every possible crash, each row is
\* named by the state file, or the recovery marker or an empty state file makes
\* the next cycle read the whole table.
NoStrandedRows ==
    marker \/ disk = NoState
    \/ \A d \in Docs : RowsOf(d) \subseteq Chunks(disk[d]) \cup Pend(disk[d])

\* A revision is added once: a retry after a lost checkpoint adopts the rows
\* that are there (DESIGN.md: the same revision is not added again).
NoDuplicateRevision ==
    \A d \in Docs, r \in Revs : Cardinality(Complete(d, r)) <= 1

\* Why NoDuplicateRevision holds, as an inductive invariant: an add is only ever
\* tried for a revision the table does not have yet.
SingleGeneration ==
    /\ \A d \in Docs, r \in Revs : \A g, h \in Complete(d, r) : g = h
    /\ pc \in {"extract", "add"} => Complete(task.doc, task.rev) = {}

\* Why NoStrandedRows holds as long as deletions succeed, as an inductive
\* invariant: within a cycle the state in memory names every row but those of
\* documents that are still unresolved, and nothing is unresolved, and no table
\* is known to be new, without the marker.
InCycle == pc \notin {"idle", "excludeRows", "excludeState"}
Saved == disk = mem /\ unres = {} /\ ~held /\ ~recreated /\ ~empty
NothingPending == \A d \in Docs : Pend(mem[d]) = {} /\ Pend(disk[d]) = {}
NewTableMarked == recreated \/ empty => marker \/ Live = {}
UnresolvedMarked == unres # {} \/ held \/ pc \in {"adopt", "add", "record"} => marker
AddUnresolved == pc \in {"add", "record"} => task.doc \in unres
MemoryNames == InCycle /\ (pc = "final" => dirty) =>
                   \A d \in Docs : d \in unres \/ held \/ RowsOf(d) \subseteq Chunks(mem[d])
UnlinkSaved == pc \in {"unlink", "lastUnlink"} => Saved
ExcludedGone == pc = "excludeState" => RowsOf(task.doc) = {}
RowsAccounted ==
    /\ NothingPending /\ NewTableMarked /\ UnresolvedMarked /\ AddUnresolved
    /\ MemoryNames /\ UnlinkSaved /\ ExcludedGone /\ NoStrandedRows

\* The ids waiting for deletion never name a row the state serves, in memory or
\* on disk, of any document: a late retry of a deletion cannot remove live rows.
PendingNeverLive ==
    \A m \in {mem, disk} : \A c, d \in Docs : Pend(m[c]) \cap Chunks(m[d]) = {}

\* Row g is of a file under the folder in hand that is on the disk as it was indexed.
InPlace(g) == /\ db[g].doc \in present /\ rev[db[g].doc] = db[g].rev
              /\ Root[db[g].doc] = cur

\* An unreachable share is not a deletion: while a folder is cleaned up, a row whose file
\* is in place under it is touched only if the share was lost after the folder's root
\* guard (or the file was put back), and then it is hidden, not deleted, unless an
\* earlier cleanup had hidden it; and nothing is touched when no path of the folder was
\* found at all, as long as the breaker's ratio is below 100 percent.
OutageOnlyHides ==
    [][pc = "delete" /\ pc' # "idle" =>
          \A g \in Live : InPlace(g) /\ db'[g] # db[g] =>
              /\ db[g].doc \in away
              /\ db'[g] = NoRow => db[g].miss = 1
              /\ MaxRatio < 100 => seen # {}]_vars

\* The index converges: once the user's files and the failures stop, every
\* existing document that is not excluded is visible with its current revision
\* and with nothing else.
Current(d) == IF rev[d] \in BlankRevs THEN Active(d) = {}
              ELSE {db[g].rev : g \in Active(d)} = {rev[d]}
Converges == <>[](\A d \in present \ excluded : Current(d))

\* A document removed for good stops being found.
RemovedIsHidden ==
    \A d \in Docs : <>[](d \notin present \cup excluded) => <>[](Active(d) = {})

\* Document indexing implements DocCorpus: what a search finds is a revision the
\* file has had, replaced only by a newer one, and gone only for a reason.
ShownRev(d) == IF Active(d) = {} THEN 0
               ELSE CHOOSE r \in Revs : /\ \E g \in Active(d) : db[g].rev = r
                                        /\ \A g \in Active(d) : db[g].rev <= r
Corpus == INSTANCE DocCorpus WITH shown <- [d \in Docs |-> ShownRev(d)], missing <- orph
ImplementsCorpus == Corpus!Spec
=============================================================================
