--------------------------- MODULE DocIndexProofs ---------------------------
(***************************************************************************)
(* Theorems about DocIndex, for every value of its constants.               *)
(*                                                                          *)
(* First what holds whatever fails: the types, what memory and disk agree   *)
(* on, one generation per revision, pending ids that are never live.  Then   *)
(* what the recovery keeps and a search may rely on: no row out of reach     *)
(* (NothingStranded), no claim without rows (ClaimedIsSearchable), the       *)
(* specification DocCorpus (CorpusImplemented).  Each of these names what it *)
(* does not survive; TLC breaks it when a run lets that happen.  Last, what  *)
(* a share lost in the middle of a cleanup may do (OutagesOnlyHide).         *)
(***************************************************************************)
EXTENDS DocIndex, FiniteSetTheorems, WellFoundedInduction, TLAPS

\* An index_state entry built from a revision and two id sets is an entry.
LEMMA EntryTyped ==
    ASSUME NEW r \in 0..MaxRev, NEW c \in SUBSET Gens, NEW p \in SUBSET Gens
    PROVE  [rev |-> r, chunks |-> c, pend |-> p] \in Entry
BY DEF Entry

\* Deleting rows by id leaves a well-typed table.
LEMMA WithoutTyped ==
    ASSUME TableType, NEW gens
    PROVE  Without(gens) \in [Gens -> Row \cup {NoRow}]
BY DEF TableType, Without

\* The chunk ids and the pending ids of any entry are sets of generations.
LEMMA IdsTyped ==
    ASSUME NEW m \in [Docs -> Entry \cup {NoEntry}], NEW d \in Docs
    PROVE  /\ Chunks(m[d]) \in SUBSET Gens
           /\ Pend(m[d]) \in SUBSET Gens
BY DEF Entry, Chunks, Pend

\* The rows, the complete generations and the live ids are sets of generations.
LEMMA RowsTyped ==
    ASSUME NEW d, NEW r
    PROVE  /\ RowsOf(d) \in SUBSET Gens
           /\ Complete(d, r) \in SUBSET Gens
           /\ Live \in SUBSET Gens
BY DEF RowsOf, Complete, Active, Live

\* What load_state, the repair and the recovery can put into memory.
LEMMA LoadedTyped ==
    ASSUME NEW m \in [Docs -> Entry \cup {NoEntry}]
    PROVE  /\ NoState \in [Docs -> Entry \cup {NoEntry}]
           /\ Repaired(m) \in [Docs -> Entry \cup {NoEntry}]
           /\ Recovered(m) \in [Docs -> Entry \cup {NoEntry}]
<1>1. [rev |-> 0, chunks |-> {}, pend |-> {}] \in Entry
  BY EntryTyped, ConstantsAssumption
<1>2. \A d \in Docs : [rev |-> 0, chunks |-> RowsOf(d), pend |-> {}] \in Entry
  BY EntryTyped, ConstantsAssumption DEF RowsOf, Live
<1>3. Invalidated(m) \in [Docs -> Entry \cup {NoEntry}]
  BY <1>1 DEF Invalidated
<1>4. Recovered(m) \in [Docs -> Entry \cup {NoEntry}]
  BY <1>2 DEF Recovered
<1> QED
  BY <1>3, <1>4 DEF NoState, Repaired

\* A process that starts again, and a cycle that ended, hold nothing.
LEMMA LocalsTyped ==
    ASSUME CycleLocals, SweepType
    PROVE  MemoryType' /\ ControlType' /\ LoopType' /\ TaskType' /\ SweepType'
BY DEF MemoryType, ControlType, LoopType, TaskType, SweepType, CycleLocals, NoState

\* What Adopt and Record do to the entry and to the old rows keeps the types.
LEMMA ReplaceTyped ==
    ASSUME TypeOK, NEW d \in Docs, NEW r \in 0..MaxRev, NEW c \in SUBSET Gens,
           NEW doomed \in SUBSET Gens, UNCHANGED held, unres' \subseteq Docs,
           Replace(d, [rev |-> r, chunks |-> c, pend |-> {}], doomed)
    PROVE  TableType' /\ MemoryType' /\ FaultsType'
<1> USE ConstantsAssumption DEF TypeOK, Replace, Fault
<1>1. TableType'
  BY WithoutTyped DEF TableType
<1>2. MemoryType'
  BY EntryTyped DEF MemoryType
<1>3. FaultsType'
  BY DEF FaultsType
<1> QED
  BY <1>1, <1>2, <1>3

\* The rows index_file adds are well-typed rows.
LEMMA InsertTyped ==
    ASSUME TableType, task \in Task, NEW g \in Gens
    PROVE  Insert(g) \in [Gens -> Row \cup {NoRow}]
BY DEF TableType, Insert, Task, Row

\* The fault counter stays within its bound.
LEMMA FaultTyped ==
    ASSUME FaultsType, NEW kind, Fault(kind) \/ UNCHANGED faults
    PROVE  FaultsType'
BY ConstantsAssumption DEF FaultsType, Fault

\* What the cleanup does to the entry of an orphan.
LEMMA OrphanEntry ==
    ASSUME MemoryType, NEW d \in Docs, DeleteOrphan(d)
    PROVE  LET left == FirstMiss(Chunks(mem[d])) IN
           \/ mem' = mem
           \/ left = {} /\ mem' = [mem EXCEPT ![d] = NoEntry]
           \/ mem[d] \in Entry /\ mem' = [mem EXCEPT ![d].chunks = left]
<1> DEFINE ids == Chunks(mem[d])
           left == FirstMiss(ids)
<1>1. ids = {} => left = ids
  BY DEF FirstMiss
<1>2. ids # {} => mem[d] \in Entry
  BY DEF Chunks, MemoryType
<1>3. \/ mem' = mem
      \/ left # ids /\ left = {} /\ mem' = [mem EXCEPT ![d] = NoEntry]
      \/ left # ids /\ mem' = [mem EXCEPT ![d].chunks = left]
  BY DEF DeleteOrphan
<1> QED
  BY <1>1, <1>2, <1>3

\* A document to adopt still has the rows that recover_generation found.
KeptExists == pc = "adopt" => Complete(task.doc, task.rev) # {}

\* Every action keeps every type.
LEMMA TypeStep == TypeOK /\ KeptExists /\ [Next]_vars => TypeOK'
<1> SUFFICES ASSUME TypeOK, KeptExists, [Next]_vars PROVE TypeOK'
  OBVIOUS
<1> USE FaultTyped, ConstantsAssumption DEF source, durable, flags, memory, loop, sweep,
        TypeOK, SourceType, TableType, DurableType, FlagsType, MemoryType,
        ControlType, LoopType, TaskType, SweepType
<1>1. CASE SourceChange
  BY <1>1 DEF SourceChange, Modify, Remove, Return, Revs
<1>2. ASSUME NEW d \in Docs, Restore(d) PROVE TypeOK'
  BY <1>2 DEF Restore, Excuse
<1>3. ASSUME NEW d \in Docs, Exclude(d) PROVE TypeOK'
  BY <1>3 DEF Exclude, Task
<1>4. ASSUME NEW d \in Docs, Unexclude(d) PROVE TypeOK'
  BY <1>4 DEF Unexclude
<1>5. ASSUME NEW d \in Docs, BeginSingle(d) PROVE TypeOK'
  BY <1>5 DEF BeginSingle, Job
<1>6. ASSUME NEW f \in Folders, Unmount(f) \/ Mount(f) PROVE TypeOK'
  BY <1>6 DEF Unmount, Mount, Excuse
<1>7. CASE Crash
  <2>1. FlagsType'
    BY <1>7, Zenon DEF Crash
  <2>2. SourceType' /\ TableType' /\ DurableType' /\ FaultsType'
    BY <1>7 DEF Crash
  <2> QED
    BY <1>7, <2>1, <2>2, LocalsTyped DEF Crash
<1>8. CASE CrashAndRecreate
  <2>1. SourceType' /\ TableType' /\ DurableType' /\ FlagsType' /\ FaultsType'
    BY <1>8, WithoutTyped DEF CrashAndRecreate
  <2> QED
    BY <1>8, <2>1, LocalsTyped DEF CrashAndRecreate
<1>9. CASE BeginCycle
  <2>1. PICK m \in {disk, NoState} :
            /\ Loaded(m)
            /\ mem' = (IF RecoveryNeeded(Repaired(m)) THEN Recovered(Repaired(m)) ELSE Repaired(m))
            /\ dirty' = (StaleRowsClaimed(m) \/ (RecoveryNeeded(Repaired(m)) /\ Live # {}))
    BY <1>9 DEF BeginCycle
  <2>2. mem' \in [Docs -> Entry \cup {NoEntry}]
    BY <2>1, LoadedTyped
  <2>3. dirty' \in BOOLEAN
    BY <2>1, Zenon
  <2>4. FaultsType'
    BY <2>1 DEF Loaded
  <2> QED
    BY <1>9, <2>2, <2>3, <2>4 DEF BeginCycle
<1>10. CASE BeginFails
  <2>1. mem' \in [Docs -> Entry \cup {NoEntry}]
    BY <1>10, LoadedTyped DEF BeginFails
  <2>2. dirty' \in BOOLEAN
    BY <1>10, Zenon DEF BeginFails, StaleRowsClaimed
  <2> QED
    BY <1>10, <2>1, <2>2 DEF BeginFails
<1>11. CASE RetryPending
  <2>1. PICK done \in SUBSET {d \in Docs : Pend(mem[d]) # {} /\ target \in {AllDocs, d}} :
            /\ UNCHANGED faults \/ Fault("delete")
            /\ db' = Without(UNION {Pend(mem[d]) : d \in done})
            /\ mem' = [d \in Docs |-> IF d \in done THEN [mem[d] EXCEPT !.pend = {}] ELSE mem[d]]
            /\ dirty' = (dirty \/ done # {})
    BY <1>11 DEF RetryPending
  <2>2. mem' \in [Docs -> Entry \cup {NoEntry}]
    BY <2>1 DEF Entry, Pend
  <2>3. dirty' \in BOOLEAN
    BY <2>1, Zenon
  <2> QED
    BY <1>11, <2>1, <2>2, <2>3, WithoutTyped DEF RetryPending
<1>12. ASSUME NEW d \in Docs, Scan(d) PROVE TypeOK'
  BY <1>12 DEF Scan, Job
<1>13. ASSUME NEW job \in Job, Take(job) PROVE TypeOK'
  BY <1>13 DEF Take, Job, Task
<1>14. CASE SkipTask
  BY <1>14 DEF SkipTask
<1>15. CASE AdoptFails
  BY <1>15 DEF AdoptFails
<1>16. CASE Adopt
  <2> DEFINE keep == Winner(Complete(task.doc, task.rev))
             doomed == (RowsOf(task.doc) \cup Chunks(mem[task.doc]) \cup Pend(mem[task.doc])) \ {keep}
  <2>1. keep \in Gens
    BY <1>16, RowsTyped DEF Adopt, Winner, KeptExists
  <2>2. {keep} \in SUBSET Gens /\ task.doc \in Docs /\ task.rev \in 0..MaxRev
    BY <1>16, <2>1 DEF Adopt, Task, Revs
  <2>3. doomed \in SUBSET Gens
    BY <2>2, RowsTyped, IdsTyped
  <2>4. TableType' /\ MemoryType' /\ FaultsType'
    BY <1>16, <2>2, <2>3, ReplaceTyped DEF Adopt
  <2> QED
    BY <1>16, <2>4 DEF Adopt
<1>17. CASE SourceMoved
  BY <1>17 DEF SourceMoved
<1>18. CASE Extract
  BY <1>18 DEF Extract, Task
<1>19. CASE IndexFile
  <2>1. CASE task.rev \in BlankRevs /\ UNCHANGED <<db, empty, task>>
    BY <1>19, <2>1 DEF IndexFile
  <2>2. ASSUME NEW g \in Fresh, db' = Insert(g), task' = [task EXCEPT !.gens = {g}], empty' = FALSE
        PROVE  TypeOK'
    <3>1. task \in Task /\ g \in Gens
      BY <1>19 DEF IndexFile, Fresh
    <3>2. TableType'
      BY <1>19, <2>2, <3>1, InsertTyped DEF IndexFile
    <3>3. task' \in Task
      BY <2>2, <3>1 DEF Task
    <3> QED
      BY <1>19, <2>2, <3>2, <3>3 DEF IndexFile, FaultsType
  <2> QED
    BY <1>19, <2>1, <2>2 DEF IndexFile
<1>20. CASE IndexFileFails
  BY <1>20, InsertTyped DEF IndexFileFails, Fresh
<1>21. CASE Record
  <2> DEFINE doomed == Pend(mem[task.doc]) \cup Chunks(mem[task.doc]) \cup (RowsOf(task.doc) \ task.gens)
  <2>1. task.gens \in SUBSET Gens /\ task.doc \in Docs /\ task.rev \in 0..MaxRev
    BY <1>21 DEF Record, Task, Revs
  <2>2. doomed \in SUBSET Gens
    BY <2>1, RowsTyped, IdsTyped
  <2>3. TableType' /\ MemoryType' /\ FaultsType'
    BY <1>21, <2>1, <2>2, ReplaceTyped DEF Record
  <2> QED
    BY <1>21, <2>3 DEF Record
<1>22. CASE RecordFails
  BY <1>22 DEF RecordFails
<1>23. CASE BatchFlush
  BY <1>23 DEF BatchFlush, Save
<1>24. CASE FinalFlush
  BY <1>24, LocalsTyped DEF FinalFlush, Save, EndCycle
<1>25. CASE Unlink
  BY <1>25, LocalsTyped DEF Unlink, EndCycle
<1>26. CASE Drain
  BY <1>26 DEF Drain
<1>27. CASE Cancel
  BY <1>27 DEF Cancel
<1>28. ASSUME NEW f \in Folders, RootGuard(f) PROVE TypeOK'
  BY <1>28 DEF RootGuard
<1>29. ASSUME NEW d \in Docs, FindOrphans(d) PROVE TypeOK'
  BY <1>29 DEF FindOrphans
<1>36. CASE WeighOrphans
  BY <1>36 DEF WeighOrphans
<1>30. ASSUME NEW d \in Docs, DeleteOrphan(d) PROVE TypeOK'
  <2> DEFINE ids == Chunks(mem[d])
             left == FirstMiss(ids)
  <2>1. ids \in SUBSET Gens /\ left \in SUBSET ids
    BY IdsTyped DEF FirstMiss
  <2>2. Softened(left) \in [Gens -> Row \cup {NoRow}]
    BY DEF Softened, FirstMiss, Live, Row
  <2>3. TableType'
    BY <1>30, <2>1, <2>2 DEF DeleteOrphan
  <2>5. mem' \in [Docs -> Entry \cup {NoEntry}]
    BY <1>30, <2>1, OrphanEntry DEF Entry
  <2>6. report' \in BOOLEAN
    BY <1>30, Zenon DEF DeleteOrphan
  <2>7. FaultsType'
    BY <1>30 DEF DeleteOrphan
  <2> QED
    BY <1>30, <2>3, <2>5, <2>6, <2>7 DEF DeleteOrphan
<1>31. CASE CleanupRaises
  BY <1>31 DEF CleanupRaises, Softened, FirstMiss, Row, Live
<1>32. CASE CleanupDone
  <2>1. dirty' \in BOOLEAN
    BY <1>32, Zenon DEF CleanupDone
  <2> QED
    BY <1>32, <2>1 DEF CleanupDone
<1>33. CASE ExcludeRows
  BY <1>33, WithoutTyped DEF ExcludeRows
<1>34. CASE ExcludeState
  BY <1>34 DEF ExcludeState
<1>35. CASE UNCHANGED vars
  BY <1>35 DEF vars, FaultsType
<1> QED
  BY <1>1, <1>2, <1>3, <1>4, <1>5, <1>6, <1>7, <1>8, <1>9, <1>10, <1>11, <1>12,
     <1>13, <1>14, <1>15, <1>16, <1>17, <1>18, <1>19, <1>20, <1>21, <1>22, <1>23, <1>24,
     <1>25, <1>26, <1>27, <1>28, <1>29, <1>30, <1>31, <1>32, <1>33, <1>34, <1>35, <1>36
     DEF Next, Environment, Failure, Worker

\* Between recover_generation and the adoption nothing takes the kept rows away.
LEMMA KeptStep == TypeOK /\ KeptExists /\ [Next]_vars => KeptExists'
<1> SUFFICES ASSUME TypeOK, KeptExists, [Next]_vars, pc' = "adopt"
             PROVE  Complete(task.doc, task.rev)' # {}
  BY DEF KeptExists
<1> USE DEF Complete, Active, RowsOf, Live, KeptExists, loop
<1>1. CASE \E job \in Job : Take(job)
  BY <1>1 DEF Take
<1>2. CASE UNCHANGED <<db, task, pc>>
  BY <1>2
<1>3. (\E job \in Job : Take(job)) \/ UNCHANGED <<db, task, pc>>
  BY DEF Next, Environment, Failure, Worker, vars, Fault, CycleLocals, EndCycle, SourceChange,
     Restore, Exclude, Unexclude, BeginSingle, Unmount, Mount, Crash, CrashAndRecreate,
     BeginFails, SkipTask, AdoptFails, IndexFileFails, Cancel, CleanupRaises, BeginCycle,
     RetryPending, Scan, Adopt, SourceMoved, Extract, IndexFile, Record, RecordFails,
     BatchFlush, Unlink, Drain, FinalFlush, RootGuard, FindOrphans, WeighOrphans, DeleteOrphan,
     CleanupDone, ExcludeRows, ExcludeState
<1> QED
  BY <1>1, <1>2, <1>3

\* A first start has the types and no document to adopt.
LEMMA TypeInit == Init => TypeOK /\ KeptExists
<1> SUFFICES ASSUME Init PROVE TypeOK /\ KeptExists
  OBVIOUS
<1> USE ConstantsAssumption DEF Init
<1>1. SourceType
  BY DEF SourceType, Revs
<1>2. TableType /\ DurableType /\ FlagsType
  BY DEF TableType, DurableType, FlagsType, NoState
<1>3. MemoryType
  BY DEF MemoryType, NoState
<1>4. ControlType /\ LoopType /\ TaskType
  BY DEF ControlType, LoopType, TaskType
<1>5. SweepType
  BY DEF SweepType
<1>6. FaultsType
  BY DEF FaultsType
<1> QED
  BY <1>1, <1>2, <1>3, <1>4, <1>5, <1>6 DEF TypeOK, KeptExists

\* Whatever fails and whatever the user does to the files, every variable keeps
\* its type and the worker never reaches a step that needs a task without one.
THEOREM TypeCorrect == Spec => []TypeOK
<1>1. TypeOK /\ KeptExists /\ [Next]_vars => (TypeOK /\ KeptExists)'
  BY TypeStep, KeptStep
<1> QED
  BY <1>1, TypeInit, PTL DEF Spec

\* The same, with the fact about adoption that later proofs need.
THEOREM KeptCorrect == Spec => [](TypeOK /\ KeptExists)
<1>1. TypeOK /\ KeptExists /\ [Next]_vars => (TypeOK /\ KeptExists)'
  BY TypeStep, KeptStep
<1> QED
  BY <1>1, TypeInit, PTL DEF Spec

-----------------------------------------------------------------------------
(* The rows of the table: they only go, are hidden, or are added once.      *)

\* A step that only deletes rows or hides them.
Shrink == \A g \in Gens : \/ db'[g] = db[g]
                          \/ db'[g] = NoRow
                          \/ g \in Live /\ db'[g] = [db[g] EXCEPT !.miss = 1]

\* A deletion by ids only takes rows away.
LEMMA WithoutShrinks ==
    ASSUME NEW gens, db' = Without(gens)
    PROVE  Shrink
BY DEF Without, Shrink

\* A table left alone counts as shrinking.
LEMMA SameShrinks ==
    ASSUME db' = db
    PROVE  Shrink
BY DEF Shrink

\* A first miss only hides rows.
LEMMA SoftenedShrinks ==
    ASSUME NEW gens, db' = Softened(FirstMiss(gens))
    PROVE  Shrink
BY DEF Softened, FirstMiss, Shrink

\* Where rows only go or are hidden, no document gains a row or a complete generation.
LEMMA ShrinkRows ==
    ASSUME TypeOK, Shrink, NEW d, NEW r
    PROVE  /\ RowsOf(d)' \subseteq RowsOf(d)
           /\ Complete(d, r)' \subseteq Complete(d, r)
           /\ Live' \subseteq Live
<1> USE DEF TypeOK, TableType
<1>1. \A g \in Gens : db'[g] # NoRow => db[g] # NoRow /\ db'[g].doc = db[g].doc
                      /\ (db'[g].miss = 0 => db[g].miss = 0) /\ db'[g].rev = db[g].rev
  BY ConstantsAssumption DEF Shrink, Live, Row
<1> QED
  BY <1>1 DEF RowsOf, Complete, Active, Live

\* Only index_file adds rows: at most one generation, of the task's document
\* and revision.
Insertion == /\ pc = "add"
             /\ \E g \in Fresh : db' = Insert(g)

\* Every step shrinks the table, or adds one fresh generation of the task in hand.
LEMMA RowsStep ==
    ASSUME TypeOK, KeptExists, [Next]_vars
    PROVE  Shrink \/ Insertion
<1> USE DEF source, durable, flags, memory, loop, sweep
<1>1. CASE IndexFile \/ IndexFileFails
  BY <1>1, SameShrinks DEF IndexFile, IndexFileFails, Insertion
<1>2. CASE RetryPending \/ Adopt \/ Record
  BY <1>2, WithoutShrinks, SameShrinks DEF RetryPending, Adopt, Record, Replace
<1>3. CASE \E d \in Docs : DeleteOrphan(d)
  BY <1>3 DEF DeleteOrphan, Softened, FirstMiss, Shrink
<1>4. CASE CleanupRaises
  BY <1>4, SoftenedShrinks, SameShrinks DEF CleanupRaises
<1>5. CASE ExcludeRows \/ CrashAndRecreate
  BY <1>5, WithoutShrinks, SameShrinks DEF ExcludeRows, CrashAndRecreate
<1>6. ASSUME ~(IndexFile \/ IndexFileFails \/ RetryPending \/ Adopt \/ Record \/ CleanupRaises
               \/ ExcludeRows \/ CrashAndRecreate), ~\E d \in Docs : DeleteOrphan(d)
      PROVE db' = db
  BY <1>6 DEF Next, Environment, Failure, Worker, vars, EndCycle, SourceChange,
     Restore, Exclude, Unexclude, BeginSingle, Unmount, Mount, Crash,
     BeginFails, SkipTask, AdoptFails, Cancel, BeginCycle,
     Scan, Take, SourceMoved, Extract, RecordFails,
     BatchFlush, Unlink, Drain, FinalFlush, RootGuard, FindOrphans, WeighOrphans, CleanupDone, ExcludeState
<1> QED
  BY <1>1, <1>2, <1>3, <1>4, <1>5, <1>6, SameShrinks

\* An insertion adds rows to the task's document and revision only, one generation.
LEMMA InsertionRows ==
    ASSUME TypeOK, NEW g \in Fresh, db' = Insert(g), task \in Task, NEW d, NEW r
    PROVE  /\ d # task.doc => RowsOf(d)' = RowsOf(d)
           /\ RowsOf(d)' \subseteq RowsOf(d) \cup {g}
           /\ d # task.doc \/ r # task.rev => Complete(d, r)' = Complete(d, r)
           /\ Complete(d, r)' \subseteq Complete(d, r) \cup {g}
<1> DEFINE row == [doc |-> task.doc, rev |-> task.rev, miss |-> 0]
<1>1. g \in Gens /\ db[g] = NoRow
  BY DEF Fresh, Live
<1>2. db' = [db EXCEPT ![g] = row]
  BY DEF Insert
<1>3. \A h \in Gens : db'[h] = IF h = g THEN row ELSE db[h]
  BY <1>1, <1>2 DEF TypeOK, TableType
<1>4. row.doc = task.doc /\ row.rev = task.rev
  OBVIOUS
<1> HIDE DEF row
<1> QED
  BY <1>1, <1>3, <1>4 DEF RowsOf, Complete, Active, Live

-----------------------------------------------------------------------------
(* One generation per revision.                                              *)

\* How the worker comes to hold a task it may add, and what it did before.
LEMMA TaskStep ==
    ASSUME TypeOK, [Next]_vars, pc' \in {"extract", "add"}
    PROVE  \/ \E job \in Job : Take(job)
           \/ Extract
           \/ UNCHANGED <<db, task, pc>>
BY DEF Next, Environment, Failure, Worker, vars, Fault, CycleLocals, EndCycle, SourceChange,
     Restore, Exclude, Unexclude, BeginSingle, Unmount, Mount, Crash, CrashAndRecreate,
     BeginFails, SkipTask, AdoptFails, IndexFile, IndexFileFails, Cancel, CleanupRaises, BeginCycle,
     RetryPending, Scan, Adopt, SourceMoved, Record, RecordFails,
     BatchFlush, Unlink, Drain, FinalFlush, RootGuard, FindOrphans, WeighOrphans, DeleteOrphan,
     CleanupDone, ExcludeRows, ExcludeState, source, durable, flags, memory, loop, sweep

\* SingleGeneration is inductive: an add follows a look-up that found nothing.
LEMMA SingleStep ==
    TypeOK /\ KeptExists /\ SingleGeneration /\ [Next]_vars => SingleGeneration'
<1> SUFFICES ASSUME TypeOK, KeptExists, SingleGeneration, [Next]_vars
             PROVE  SingleGeneration'
  OBVIOUS
<1>1. ASSUME NEW d \in Docs, NEW r \in Revs, NEW g \in Complete(d, r)', NEW h \in Complete(d, r)'
      PROVE  g = h
  <2>1. CASE Shrink
    BY <2>1, ShrinkRows DEF SingleGeneration
  <2>2. CASE Insertion
    <3>1. PICK n \in Fresh : db' = Insert(n)
      BY <2>2 DEF Insertion
    <3>2. task \in Task /\ Complete(task.doc, task.rev) = {}
      BY <2>2 DEF Insertion, SingleGeneration, TypeOK, TaskType
    <3>3. CASE d = task.doc /\ r = task.rev
      BY <3>1, <3>2, <3>3, InsertionRows
    <3>4. CASE d # task.doc \/ r # task.rev
      BY <3>1, <3>2, <3>4, InsertionRows DEF SingleGeneration
    <3> QED
      BY <3>3, <3>4
  <2> QED
    BY <2>1, <2>2, RowsStep
<1>2. ASSUME pc' \in {"extract", "add"}
      PROVE  Complete(task.doc, task.rev)' = {}
  <2> USE DEF Complete, Active, RowsOf, Live, loop
  <2>1. ASSUME NEW job \in Job, Take(job) PROVE Complete(task.doc, task.rev)' = {}
    BY <1>2, <2>1 DEF Take
  <2>2. CASE Extract
    BY <2>2 DEF Extract, SingleGeneration
  <2>3. CASE UNCHANGED <<db, task, pc>>
    BY <1>2, <2>3 DEF SingleGeneration
  <2> QED
    BY <1>2, <2>1, <2>2, <2>3, TaskStep
<1> QED
  BY <1>1, <1>2 DEF SingleGeneration

\* No revision of a document is ever in the table twice, visible: a cycle that
\* retries after a crash, a lost checkpoint or an error finds the rows by their
\* revision and adopts them.
THEOREM OneGenerationPerRevision == Spec => []NoDuplicateRevision
<1> DEFINE Inv == TypeOK /\ KeptExists /\ SingleGeneration
<1>1. Init => Inv
  <2> SUFFICES ASSUME Init PROVE SingleGeneration
    BY TypeInit
  <2>1. Live = {} /\ pc = "idle"
    BY DEF Init, Live
  <2> QED
    BY <2>1 DEF SingleGeneration, Complete, Active, RowsOf
<1>2. Inv /\ [Next]_vars => Inv'
  BY TypeStep, KeptStep, SingleStep
<1>3. Inv => NoDuplicateRevision
  <2> SUFFICES ASSUME SingleGeneration, NEW d \in Docs, NEW r \in Revs
               PROVE  Cardinality(Complete(d, r)) <= 1
    BY DEF NoDuplicateRevision
  <2>1. CASE Complete(d, r) = {}
    BY <2>1, FS_EmptySet
  <2>2. ASSUME NEW g \in Complete(d, r) PROVE Cardinality(Complete(d, r)) = 1
    <3>1. Complete(d, r) = {g}
      BY <2>2 DEF SingleGeneration
    <3> QED
      BY <3>1, FS_Singleton
  <2> QED
    BY <2>1, <2>2
<1> QED
  BY <1>1, <1>2, <1>3, PTL DEF Spec

-----------------------------------------------------------------------------
(* The ids the state holds, and the revisions in hand.                       *)

Ids(m, d) == Chunks(m[d]) \cup Pend(m[d])

\* The rows of table t that state m names for a path are rows of that path.
OwnedIn(m, t) == \A d \in Docs : \A g \in Ids(m, d) : t[g] # NoRow => t[g].doc = d

\* No id is served and doomed, or held by two paths.
Apart(m) ==
    \A c, d \in Docs : /\ Pend(m[c]) \cap Chunks(m[d]) = {}
                       /\ c # d => Ids(m, c) \cap Ids(m, d) = {}

Good(m, t) == OwnedIn(m, t) /\ Apart(m)

\* What was added for the task in hand is one visible row that the state in memory
\* does not name yet, or nothing for a blank revision.
Added ==
    /\ pc \in {"extract", "add"} => task.gens = {}
    /\ pc = "record" =>
          \/ task.gens = {} /\ task.rev \in BlankRevs
          \/ \E g \in Gens : /\ task.gens = {g} /\ task.rev \notin BlankRevs
                             /\ db[g] = [doc |-> task.doc, rev |-> task.rev, miss |-> 0]
                             /\ \A d \in Docs : g \notin Ids(mem, d)

IdsKept == Good(mem, db) /\ Good(disk, db) /\ Added

\* A state that holds no more than a good one is good.
LEMMA GoodLess ==
    ASSUME NEW m, NEW n, NEW t, Good(n, t),
           \A d \in Docs : Chunks(m[d]) \subseteq Chunks(n[d]) /\ Pend(m[d]) \subseteq Pend(n[d])
    PROVE  Good(m, t)
<1>1. \A d \in Docs : Ids(m, d) \subseteq Ids(n, d)
  BY DEF Ids
<1>2. OwnedIn(m, t)
  BY <1>1 DEF Good, OwnedIn
<1>3. Apart(m)
  BY <1>1 DEF Good, Apart
<1> QED
  BY <1>2, <1>3 DEF Good

\* A good state stays good while the table changes under it.
LEMMA GoodRows ==
    ASSUME TypeOK, KeptExists, [Next]_vars, NEW m \in {mem, disk}, Good(m, db)
    PROVE  Good(m, db')
<1> SUFFICES ASSUME NEW d \in Docs, NEW g \in Ids(m, d), db'[g] # NoRow PROVE db'[g].doc = d
  BY DEF Good, OwnedIn
<1>1. g \in Gens /\ (db[g] # NoRow => db[g].doc = d)
  BY IdsTyped DEF Good, OwnedIn, Ids, TypeOK, MemoryType, DurableType
<1>2. CASE Shrink
  <2>1. db[g] # NoRow => db[g] \in Row
    BY <1>1 DEF TypeOK, TableType
  <2>2. db[g] # NoRow /\ db'[g].doc = db[g].doc
    BY <1>1, <1>2, <2>1 DEF Shrink, Live, Row
  <2> QED
    BY <1>1, <2>2
<1>3. CASE Insertion
  <2>1. PICK n \in Fresh : db' = Insert(n)
    BY <1>3 DEF Insertion
  <2>2. n # g
    BY DEF Fresh, Ids
  <2>3. db'[g] = db[g]
    BY <1>1, <2>1, <2>2 DEF Insert, TypeOK, TableType
  <2> QED
    BY <1>1, <2>3
<1> QED
  BY <1>2, <1>3, RowsStep

\* The state in memory after state[path] = entry.
LEMMA GoodReplace ==
    ASSUME TypeOK, NEW d \in Docs, NEW r \in 0..MaxRev, NEW c \in SUBSET Gens, NEW doomed \in SUBSET Gens,
           Replace(d, [rev |-> r, chunks |-> c, pend |-> {}], doomed),
           Good(mem, db'), c \cap doomed = {},
           \A g \in c \cup doomed : db'[g] # NoRow => db'[g].doc = d,
           \A e \in Docs : e # d => (c \cup doomed) \cap Ids(mem, e) = {}
    PROVE  Good(mem', db')
<1>1. PICK pend \in {{}, doomed} : mem' = [mem EXCEPT ![d] = [rev |-> r, chunks |-> c, pend |-> pend]]
  <2>1. [[rev |-> r, chunks |-> c, pend |-> {}] EXCEPT !.pend = doomed] = [rev |-> r, chunks |-> c, pend |-> doomed]
    OBVIOUS
  <2> QED
    BY <2>1 DEF Replace
<1>2. [rev |-> r, chunks |-> c, pend |-> pend] # NoEntry
  BY EntryTyped, ConstantsAssumption
<1>3. Chunks(mem'[d]) = c /\ Pend(mem'[d]) = pend /\ pend \subseteq doomed
  BY <1>1, <1>2 DEF Chunks, Pend, TypeOK, MemoryType
<1>4. \A e \in Docs : e # d => mem'[e] = mem[e]
  BY <1>1 DEF TypeOK, MemoryType
<1>5. Ids(mem', d) \subseteq c \cup doomed /\ \A e \in Docs : e # d => Ids(mem', e) = Ids(mem, e)
  BY <1>3, <1>4 DEF Ids
<1>6. OwnedIn(mem', db')
  BY <1>5 DEF OwnedIn, Good
<1>7. Apart(mem')
  <2> SUFFICES ASSUME NEW a \in Docs, NEW b \in Docs
               PROVE  /\ Pend(mem'[a]) \cap Chunks(mem'[b]) = {}
                      /\ a # b => Ids(mem', a) \cap Ids(mem', b) = {}
    BY DEF Apart
  <2>1. a # b => Ids(mem', a) \cap Ids(mem', b) = {}
    BY <1>5 DEF Good, Apart
  <2>2. CASE a # b
    BY <2>1, <2>2 DEF Ids
  <2>3. CASE a = b /\ a # d
    BY <1>4, <2>3 DEF Good, Apart
  <2>4. CASE a = b /\ a = d
    BY <1>3, <2>4
  <2> QED
    BY <2>1, <2>2, <2>3, <2>4
<1> QED
  BY <1>6, <1>7 DEF Good

\* The repair and the recovery of a good state give a good one.
LEMMA GoodLoaded ==
    ASSUME NEW m \in [Docs -> Entry \cup {NoEntry}], Good(m, db)
    PROVE  Good(NoState, db) /\ Good(Repaired(m), db) /\ Good(Recovered(m), db)
<1>1. Good(NoState, db)
  BY GoodLess DEF NoState, Chunks, Pend
<1>2. Good(Repaired(m), db)
  <2>1. [rev |-> 0, chunks |-> {}, pend |-> {}] # NoEntry
    BY EntryTyped, ConstantsAssumption
  <2>2. \A d \in Docs : Chunks(Invalidated(m)[d]) = {} /\ Pend(Invalidated(m)[d]) = {}
    BY <2>1 DEF Invalidated, Chunks, Pend
  <2>3. Good(Invalidated(m), db)
    BY <2>2, GoodLess
  <2> QED
    BY <2>3 DEF Repaired
<1>3. Good(Recovered(m), db)
  <2>1. ASSUME NEW d \in Docs, RowsOf(d) # {}
        PROVE  Chunks(Recovered(m)[d]) = RowsOf(d) /\ Pend(Recovered(m)[d]) = {}
    <3>1. RowsOf(d) \in SUBSET Gens /\ 0 \in 0..MaxRev
      BY ConstantsAssumption DEF RowsOf, Live
    <3>2. [rev |-> 0, chunks |-> RowsOf(d), pend |-> {}] # NoEntry
      BY <3>1, EntryTyped, ConstantsAssumption
    <3> QED
      BY <2>1, <3>2 DEF Recovered, Chunks, Pend
  <2>2. ASSUME NEW d \in Docs, RowsOf(d) = {} PROVE Recovered(m)[d] = m[d]
    BY <2>2 DEF Recovered
  <2>3. \A d \in Docs : \A g \in Ids(m, d) : g \in Gens
    BY IdsTyped DEF Ids
  \* An id kept from m for a path without rows is no row at all.
  <2>4. ASSUME NEW c \in Docs, RowsOf(c) = {}, NEW d \in Docs PROVE Ids(m, c) \cap RowsOf(d) = {}
    BY <2>3, <2>4 DEF Good, OwnedIn, RowsOf, Live
  <2>5. OwnedIn(Recovered(m), db)
    <3> SUFFICES ASSUME NEW d \in Docs, NEW g \in Ids(Recovered(m), d), db[g] # NoRow PROVE db[g].doc = d
      BY DEF OwnedIn
    <3>1. CASE RowsOf(d) # {}
      BY <2>1, <3>1 DEF Ids, RowsOf
    <3>2. CASE RowsOf(d) = {}
      BY <2>2, <3>2 DEF Ids, Good, OwnedIn
    <3> QED
      BY <3>1, <3>2
  <2>6. Apart(Recovered(m))
    <3> SUFFICES ASSUME NEW c \in Docs, NEW d \in Docs
                 PROVE  /\ Pend(Recovered(m)[c]) \cap Chunks(Recovered(m)[d]) = {}
                        /\ c # d => Ids(Recovered(m), c) \cap Ids(Recovered(m), d) = {}
      BY DEF Apart
    <3>1. CASE RowsOf(c) # {} /\ RowsOf(d) # {}
      BY <2>1, <3>1 DEF Ids, RowsOf
    <3>2. CASE RowsOf(c) # {} /\ RowsOf(d) = {}
      BY <2>1, <2>2, <2>4, <3>2 DEF Ids
    <3>3. CASE RowsOf(c) = {} /\ RowsOf(d) # {}
      BY <2>1, <2>2, <2>4, <3>3 DEF Ids
    <3>4. CASE RowsOf(c) = {} /\ RowsOf(d) = {}
      BY <2>2, <3>4 DEF Ids, Good, Apart
    <3> QED
      BY <3>1, <3>2, <3>3, <3>4
  <2> QED
    BY <2>5, <2>6 DEF Good
<1> QED
  BY <1>1, <1>2, <1>3

\* What was added for the task is what Record finds.
LEMMA AddedStep ==
    ASSUME TypeOK, Added, [Next]_vars
    PROVE  Added'
<1> USE DEF source, durable, flags, memory, loop, sweep
<1>1. ASSUME pc' \in {"extract", "add"} PROVE task'.gens = {}
  <2>1. ASSUME NEW job \in Job, Take(job) PROVE task'.gens = {}
    BY <2>1 DEF Take
  <2>2. CASE Extract
    BY <2>2 DEF Extract, Added
  <2>3. CASE UNCHANGED <<db, task, pc>>
    BY <1>1, <2>3 DEF Added
  <2> QED
    BY <1>1, <2>1, <2>2, <2>3, TaskStep
<1>2. ASSUME pc' = "record" PROVE IndexFile \/ UNCHANGED <<pc, task, db, mem>>
  BY <1>2 DEF Next, Environment, Failure, Worker, vars, Fault, CycleLocals, EndCycle, SourceChange,
     Restore, Exclude, Unexclude, BeginSingle, Unmount, Mount, Crash, CrashAndRecreate,
     BeginFails, SkipTask, AdoptFails, IndexFileFails, Cancel, CleanupRaises, BeginCycle,
     RetryPending, Scan, Take, Adopt, SourceMoved, Extract, Record, RecordFails,
     BatchFlush, Unlink, Drain, FinalFlush, RootGuard, FindOrphans, WeighOrphans, DeleteOrphan,
     CleanupDone, ExcludeRows, ExcludeState
<1>3. CASE IndexFile
  <2>1. pc = "add" /\ pc' = "record" /\ mem' = mem /\ task \in Task /\ task.gens = {}
    BY <1>3 DEF IndexFile, Added, TypeOK, TaskType
  <2>2. CASE task.rev \in BlankRevs /\ UNCHANGED <<db, empty, task>>
    BY <2>1, <2>2 DEF Added
  <2>3. ASSUME NEW g \in Fresh, task.rev \notin BlankRevs, db' = Insert(g), task' = [task EXCEPT !.gens = {g}]
        PROVE  Added'
    <3>1. g \in Gens /\ \A d \in Docs : g \notin Ids(mem, d)
      BY DEF Fresh, Ids
    <3>2. db'[g] = [doc |-> task.doc, rev |-> task.rev, miss |-> 0]
      BY <2>3, <3>1 DEF Insert, TypeOK, TableType
    <3>3. task'.gens = {g} /\ task'.doc = task.doc /\ task'.rev = task.rev
      BY <2>1, <2>3 DEF Task
    <3> QED
      BY <2>1, <2>3, <3>1, <3>2, <3>3 DEF Added, Ids
  <2> QED
    BY <1>3, <2>2, <2>3 DEF IndexFile
<1>4. CASE UNCHANGED <<pc, task, db, mem>>
  BY <1>4 DEF Added, Ids
<1> QED
  BY <1>1, <1>2, <1>3, <1>4 DEF Added

LEMMA IdsInit == Init => IdsKept
<1> SUFFICES ASSUME Init PROVE IdsKept
  OBVIOUS
<1>1. mem = NoState /\ disk = NoState /\ pc = "idle"
  BY DEF Init
<1>2. Good(NoState, db)
  BY DEF Good, OwnedIn, Apart, Ids, NoState, Chunks, Pend
<1> QED
  BY <1>1, <1>2 DEF IdsKept, Added

LEMMA IdsStep ==
    ASSUME TypeOK, KeptExists, IdsKept, [Next]_vars
    PROVE  IdsKept'
<1> USE DEF source, durable, flags, memory, loop, sweep
<1>t. mem \in [Docs -> Entry \cup {NoEntry}] /\ disk \in [Docs -> Entry \cup {NoEntry}]
  BY DEF TypeOK, MemoryType, DurableType
<1>g. Good(mem, db) /\ Good(disk, db) /\ Good(mem, db') /\ Good(disk, db')
  BY GoodRows DEF IdsKept
<1>n. Good(NoState, db')
  BY <1>g, GoodLess DEF NoState, Chunks, Pend
<1>a. Added'
  BY AddedStep DEF IdsKept
\* The state file takes the state in memory, or loses the entry of an excluded path.
<1>d. Good(disk', db')
  <2>1. CASE ExcludeState
    <3>1. disk' = disk \/ disk' = [disk EXCEPT ![task.doc] = NoEntry]
      BY <2>1 DEF ExcludeState
    <3>2. \A d \in Docs : disk'[d] = disk[d] \/ disk'[d] = NoEntry
      BY <1>t, <3>1
    <3>3. \A d \in Docs : Chunks(disk'[d]) \subseteq Chunks(disk[d]) /\ Pend(disk'[d]) \subseteq Pend(disk[d])
      BY <3>2 DEF Chunks, Pend
    <3> QED
      BY <1>g, <3>3, GoodLess
  <2>2. ~ExcludeState => disk' \in {disk, mem}
    BY DEF Next, Environment, Failure, Worker, vars, CycleLocals, EndCycle, SourceChange,
       Restore, Exclude, Unexclude, BeginSingle, Unmount, Mount, Crash, CrashAndRecreate,
       BeginFails, SkipTask, AdoptFails, IndexFile, IndexFileFails, Cancel, CleanupRaises, BeginCycle,
       RetryPending, Scan, Take, Adopt, SourceMoved, Extract, Record, RecordFails,
       BatchFlush, Save, Unlink, Drain, FinalFlush, RootGuard, FindOrphans, WeighOrphans, DeleteOrphan,
       CleanupDone, ExcludeRows
  <2> QED
    BY <1>g, <2>1, <2>2
<1>1. CASE BeginCycle
  <2>1. PICK m \in {disk, NoState} :
            mem' = IF RecoveryNeeded(Repaired(m)) THEN Recovered(Repaired(m)) ELSE Repaired(m)
    BY <1>1 DEF BeginCycle
  <2>2. m \in [Docs -> Entry \cup {NoEntry}] /\ Good(m, db) /\ db' = db
    BY <1>1, <1>g, <1>t, GoodLoaded, LoadedTyped DEF BeginCycle
  <2>3. Repaired(m) \in [Docs -> Entry \cup {NoEntry}] /\ Good(Repaired(m), db)
    BY <2>2, GoodLoaded, LoadedTyped
  <2>4. Good(Recovered(Repaired(m)), db)
    BY <2>3, GoodLoaded
  <2> QED
    BY <1>a, <1>d, <2>1, <2>2, <2>3, <2>4 DEF IdsKept
<1>2. CASE BeginFails
  BY <1>2, <1>a, <1>d, <1>g, <1>t, GoodLoaded DEF BeginFails, IdsKept
<1>3. CASE RetryPending
  <2> DEFINE due == {d \in Docs : Pend(mem[d]) # {} /\ target \in {AllDocs, d}}
  <2>p. PICK done \in SUBSET due :
            mem' = [d \in Docs |-> IF d \in done THEN [mem[d] EXCEPT !.pend = {}] ELSE mem[d]]
    BY <1>3 DEF RetryPending
  <2>1. ASSUME NEW d \in Docs
        PROVE  mem'[d] = mem[d] \/ (mem'[d] = [mem[d] EXCEPT !.pend = {}] /\ Pend(mem[d]) # {})
    <3>1. mem'[d] = IF d \in done THEN [mem[d] EXCEPT !.pend = {}] ELSE mem[d]
      BY <2>p
    <3>2. d \in done => Pend(mem[d]) # {}
      OBVIOUS
    <3> QED
      BY <3>1, <3>2
  <2>2. \A d \in Docs : Chunks(mem'[d]) \subseteq Chunks(mem[d]) /\ Pend(mem'[d]) \subseteq Pend(mem[d])
    <3> SUFFICES ASSUME NEW d \in Docs, mem'[d] = [mem[d] EXCEPT !.pend = {}], Pend(mem[d]) # {}
                 PROVE  Chunks(mem'[d]) \subseteq Chunks(mem[d]) /\ Pend(mem'[d]) \subseteq Pend(mem[d])
      BY <2>1
    <3>1. mem[d] \in Entry
      BY <1>t DEF Pend
    <3>2. mem'[d] \in Entry /\ mem'[d].chunks = mem[d].chunks /\ mem'[d].pend = {}
      BY <3>1 DEF Entry
    <3> QED
      BY <3>1, <3>2, ConstantsAssumption DEF Chunks, Pend
  <2> QED
    BY <1>a, <1>d, <1>g, <2>2, GoodLess DEF IdsKept
<1>4. ASSUME NEW c \in Docs, DeleteOrphan(c) PROVE IdsKept'
  <2> DEFINE left == FirstMiss(Chunks(mem[c]))
  <2>1. \A d \in Docs : Chunks(mem'[d]) \subseteq Chunks(mem[d]) /\ Pend(mem'[d]) \subseteq Pend(mem[d])
    <3>1. CASE mem' = mem \/ mem' = [mem EXCEPT ![c] = NoEntry]
      BY <1>t, <3>1 DEF Chunks, Pend
    <3>2. CASE mem[c] \in Entry /\ mem' = [mem EXCEPT ![c].chunks = left]
      <4>1. left \in SUBSET Gens /\ left \subseteq Chunks(mem[c])
        BY <1>t, IdsTyped DEF FirstMiss
      <4> HIDE DEF left
      <4>2. mem'[c] \in Entry /\ mem'[c].chunks = left /\ mem'[c].pend = mem[c].pend
        BY <1>t, <3>2, <4>1 DEF Entry
      <4>3. \A d \in Docs : d # c => mem'[d] = mem[d]
        BY <1>t, <3>2
      <4> QED
        BY <3>2, <4>1, <4>2, <4>3, ConstantsAssumption DEF Chunks, Pend
    <3> QED
      BY <1>4, <3>1, <3>2, OrphanEntry DEF TypeOK
  <2> QED
    BY <1>a, <1>d, <1>g, <2>1, GoodLess DEF IdsKept
<1>5. CASE Adopt
  <2> DEFINE d == task.doc
             keep == Winner(Complete(d, task.rev))
             doomed == (RowsOf(d) \cup Chunks(mem[d]) \cup Pend(mem[d])) \ {keep}
  <2>1. d \in Docs /\ task.rev \in 0..MaxRev
    BY <1>5, ConstantsAssumption DEF Adopt, TypeOK, TaskType, Task, Revs
  <2>2. keep \in RowsOf(d) /\ keep \in Gens
    BY <1>5, RowsTyped DEF Adopt, Winner, KeptExists, Complete, Active
  <2>3. doomed \in SUBSET Gens
    BY <1>t, <2>1, RowsTyped, IdsTyped
  <2>4. \A g \in {keep} \cup doomed : g \in RowsOf(d) \/ g \in Ids(mem, d)
    BY <2>2 DEF Ids
  <2>5. \A g \in {keep} \cup doomed : db[g] # NoRow => db[g].doc = d
    BY <1>g, <2>1, <2>4 DEF Good, OwnedIn, RowsOf
  <2>6. \A g \in Gens : db'[g] # NoRow => db'[g] = db[g]
    BY <1>5 DEF Adopt, Replace, Without
  <2>7. \A e \in Docs : e # d => ({keep} \cup doomed) \cap Ids(mem, e) = {}
    BY <1>g, <2>1, <2>4 DEF Good, OwnedIn, Apart, RowsOf, Live
  <2>8. Replace(d, [rev |-> task.rev, chunks |-> {keep}, pend |-> {}], doomed)
    BY <1>5 DEF Adopt
  <2>9. {keep} \cap doomed = {} /\ {keep} \in SUBSET Gens
    BY <2>2
  <2>10. \A g \in {keep} \cup doomed : db'[g] # NoRow => db'[g].doc = d
    BY <2>2, <2>3, <2>5, <2>6
  <2> HIDE DEF d, keep, doomed
  <2>11. Good(mem', db')
    BY <1>g, <2>1, <2>3, <2>7, <2>8, <2>9, <2>10, GoodReplace
  <2> QED
    BY <1>a, <1>d, <2>11 DEF IdsKept
<1>6. CASE Record
  <2> DEFINE d == task.doc
             doomed == Pend(mem[d]) \cup Chunks(mem[d]) \cup (RowsOf(d) \ task.gens)
  <2>1. d \in Docs /\ task.rev \in 0..MaxRev /\ task.gens \in SUBSET Gens
    BY <1>6, ConstantsAssumption DEF Record, TypeOK, TaskType, Task, Revs
  <2>2. \A g \in task.gens : g \in RowsOf(d) /\ \A e \in Docs : g \notin Ids(mem, e)
    <3> SUFFICES ASSUME NEW g \in task.gens PROVE g \in RowsOf(d) /\ \A e \in Docs : g \notin Ids(mem, e)
      OBVIOUS
    <3>1. /\ g \in Gens /\ db[g] = [doc |-> d, rev |-> task.rev, miss |-> 0]
          /\ \A e \in Docs : g \notin Ids(mem, e)
      BY <1>6 DEF Record, IdsKept, Added
    <3>2. [doc |-> d, rev |-> task.rev, miss |-> 0] \in Row
      BY <1>6 DEF Record, TypeOK, TaskType, Task, Row
    <3> QED
      BY <3>1, <3>2, ConstantsAssumption DEF RowsOf, Live
  <2>3. doomed \in SUBSET Gens
    BY <1>t, <2>1, RowsTyped, IdsTyped
  <2>4. \A g \in task.gens \cup doomed : g \in RowsOf(d) \/ g \in Ids(mem, d)
    BY <2>2 DEF Ids
  <2>5. \A g \in task.gens \cup doomed : db[g] # NoRow => db[g].doc = d
    BY <1>g, <2>1, <2>4 DEF Good, OwnedIn, RowsOf
  <2>6. \A g \in Gens : db'[g] # NoRow => db'[g] = db[g]
    BY <1>6 DEF Record, Replace, Without
  <2>7. \A e \in Docs : e # d => (task.gens \cup doomed) \cap Ids(mem, e) = {}
    BY <1>g, <2>1, <2>4 DEF Good, OwnedIn, Apart, RowsOf, Live
  <2>8. Replace(d, [rev |-> task.rev, chunks |-> task.gens, pend |-> {}], doomed)
    BY <1>6 DEF Record
  <2>9. task.gens \cap doomed = {}
    BY <2>1, <2>2 DEF Ids
  <2>10. \A g \in task.gens \cup doomed : db'[g] # NoRow => db'[g].doc = d
    BY <2>1, <2>3, <2>5, <2>6
  <2> HIDE DEF d, doomed
  <2>11. Good(mem', db')
    BY <1>g, <2>1, <2>3, <2>7, <2>8, <2>9, <2>10, GoodReplace
  <2> QED
    BY <1>a, <1>d, <2>11 DEF IdsKept
<1>7. ASSUME ~(BeginCycle \/ BeginFails \/ RetryPending \/ Adopt \/ Record), ~\E c \in Docs : DeleteOrphan(c)
      PROVE  mem' \in {mem, disk, NoState}
  BY <1>7 DEF Next, Environment, Failure, Worker, vars, CycleLocals, EndCycle, SourceChange,
     Restore, Exclude, Unexclude, BeginSingle, Unmount, Mount, Crash, CrashAndRecreate,
     SkipTask, AdoptFails, IndexFile, IndexFileFails, Cancel, CleanupRaises,
     Scan, Take, SourceMoved, Extract, RecordFails,
     BatchFlush, Unlink, Drain, FinalFlush, RootGuard, FindOrphans, WeighOrphans, CleanupDone, ExcludeRows, ExcludeState
<1> QED
  BY <1>a, <1>d, <1>g, <1>n, <1>1, <1>2, <1>3, <1>4, <1>5, <1>6, <1>7 DEF IdsKept

\* The ids that wait for their deletion never name a row the state serves, in memory or
\* on disk, of any document, whatever fails: a late retry of a deletion cannot remove
\* rows in use (scheduler.py pending_delete_chunk_ids).
THEOREM PendingIsDead == Spec => []PendingNeverLive
<1> DEFINE Inv == TypeOK /\ KeptExists /\ IdsKept
<1>1. Init => Inv
  BY TypeInit, IdsInit
<1>2. Inv /\ [Next]_vars => Inv'
  BY TypeStep, KeptStep, IdsStep
<1>3. Inv => PendingNeverLive
  BY DEF IdsKept, Good, Apart, PendingNeverLive
<1> QED
  BY <1>1, <1>2, <1>3, PTL DEF Spec

-----------------------------------------------------------------------------
(* Revisions in the order they are indexed.                                  *)

InHand == {"extract", "adopt", "add", "record"}

\* Between cycles nothing is left to scan or to index.
Between == pc \in {"idle", "excludeRows", "excludeState"} => queue = {} /\ toScan = {}

\* A cycle queues a path once: after its scan, and not again while it is in hand.
QueueOnce ==
    /\ \A job \in queue : job.doc \notin toScan /\ \A other \in queue : other.doc = job.doc => other = job
    /\ pc \in InHand => task.doc \notin toScan /\ \A job \in queue : job.doc # task.doc

\* No row is of a revision the file has not had, or of a blank one, and what is queued
\* or in hand is at least as new as every row of its path.
Newest ==
    /\ \A g \in Live : db[g].rev <= rev[db[g].doc] /\ db[g].rev \notin BlankRevs
    /\ \A job \in queue : job.rev <= rev[job.doc] /\ \A g \in RowsOf(job.doc) : db[g].rev <= job.rev
    /\ pc \in InHand => task.rev <= rev[task.doc] /\ \A g \in RowsOf(task.doc) : db[g].rev <= task.rev

Ordered == Between /\ QueueOnce /\ Newest

\* A file only gets newer.
LEMMA RevGrows == ASSUME TypeOK, [Next]_vars PROVE rev' \in [Docs -> Revs] /\ \A d \in Docs : rev[d] <= rev'[d]
<1> USE ConstantsAssumption DEF source, durable, flags, memory, loop, sweep, Revs
<1>t. rev \in [Docs -> Revs]
  BY DEF TypeOK, SourceType
<1>1. CASE SourceChange
  BY <1>1, <1>t DEF SourceChange, Modify, Remove, Return
<1>2. ~SourceChange => rev' = rev
  BY DEF Next, Environment, Failure, Worker, vars, CycleLocals, EndCycle,
     Restore, Exclude, Unexclude, BeginSingle, Unmount, Mount, Crash, CrashAndRecreate,
     BeginFails, SkipTask, AdoptFails, IndexFile, IndexFileFails, Cancel, CleanupRaises, BeginCycle,
     RetryPending, Scan, Take, Adopt, SourceMoved, Extract, Record, RecordFails,
     BatchFlush, Unlink, Drain, FinalFlush, RootGuard, FindOrphans, WeighOrphans, DeleteOrphan,
     CleanupDone, ExcludeRows, ExcludeState
<1> QED
  BY <1>1, <1>2, <1>t

LEMMA BetweenStep == ASSUME TypeOK, Between, [Next]_vars PROVE Between'
<1> USE DEF source, durable, flags, memory, loop, sweep
<1> QED
  BY DEF Between, Next, Environment, Failure, Worker, vars, CycleLocals, EndCycle, SourceChange,
     Restore, Exclude, Unexclude, BeginSingle, Unmount, Mount, Crash, CrashAndRecreate,
     BeginFails, SkipTask, AdoptFails, IndexFile, IndexFileFails, Cancel, CleanupRaises, BeginCycle,
     RetryPending, Scan, Take, Adopt, SourceMoved, Extract, Record, RecordFails,
     BatchFlush, Unlink, Drain, FinalFlush, RootGuard, FindOrphans, WeighOrphans, DeleteOrphan,
     CleanupDone, ExcludeRows, ExcludeState

\* How the queue and the task in hand change.
LEMMA QueueStep ==
    ASSUME TypeOK, Between, [Next]_vars
    PROVE  \/ BeginCycle
           \/ \E d \in Docs : BeginSingle(d) \/ Scan(d)
           \/ \E job \in Job : Take(job)
           \/ /\ queue' \subseteq queue /\ toScan' \subseteq toScan
              /\ pc' \in InHand => pc \in InHand /\ task'.doc = task.doc /\ task'.rev = task.rev
<1> USE DEF source, durable, flags, memory, loop, sweep
<1>1. CASE IndexFile
  <2>1. task \in Task /\ pc = "add" /\ queue' = queue /\ toScan' = toScan
    BY <1>1 DEF IndexFile, TypeOK, TaskType
  <2>2. task'.doc = task.doc /\ task'.rev = task.rev
    BY <1>1, <2>1 DEF IndexFile, Task
  <2> QED
    BY <2>1, <2>2 DEF InHand
<1>2. ASSUME ~IndexFile, ~BeginCycle, ~\E d \in Docs : BeginSingle(d) \/ Scan(d), ~\E job \in Job : Take(job)
      PROVE  /\ queue' \subseteq queue /\ toScan' \subseteq toScan
             /\ pc' \in InHand => pc \in InHand /\ task' = task
  BY <1>2 DEF InHand, Next, Environment, Failure, Worker, vars, CycleLocals, EndCycle, SourceChange,
     Restore, Exclude, Unexclude, Unmount, Mount, Crash, CrashAndRecreate,
     BeginFails, SkipTask, AdoptFails, IndexFileFails, Cancel, CleanupRaises,
     RetryPending, Adopt, SourceMoved, Extract, Record, RecordFails,
     BatchFlush, Unlink, Drain, FinalFlush, RootGuard, FindOrphans, WeighOrphans, DeleteOrphan,
     CleanupDone, ExcludeRows, ExcludeState
<1> QED
  BY <1>1, <1>2

LEMMA OnceStep == ASSUME TypeOK, Between, QueueOnce, [Next]_vars PROVE QueueOnce'
<1> USE DEF source, durable, flags, memory, loop, sweep
<1>1. CASE BeginCycle
  BY <1>1 DEF BeginCycle, Between, QueueOnce, InHand
<1>2. ASSUME NEW d \in Docs, BeginSingle(d) PROVE QueueOnce'
  BY <1>2 DEF BeginSingle, Between, QueueOnce, InHand
<1>3. ASSUME NEW d \in Docs, Scan(d) PROVE QueueOnce'
  <2> DEFINE job == [doc |-> d, rev |-> rev[d]]
  <2>1. d \in toScan /\ toScan' = toScan \ {d} /\ queue' \subseteq queue \cup {job} /\ pc' = pc /\ pc \notin InHand
    BY <1>3 DEF Scan, InHand
  <2>2. job.doc = d /\ \A other \in queue : other.doc # d
    BY <2>1 DEF QueueOnce
  <2> HIDE DEF job
  <2> QED
    BY <2>1, <2>2 DEF QueueOnce
<1>4. ASSUME NEW job \in Job, Take(job) PROVE QueueOnce'
  <2>1. job \in queue /\ queue' = queue \ {job} /\ task'.doc = job.doc /\ toScan' = toScan
    BY <1>4 DEF Take
  <2> QED
    BY <2>1 DEF QueueOnce
<1>5. CASE /\ queue' \subseteq queue /\ toScan' \subseteq toScan
           /\ pc' \in InHand => pc \in InHand /\ task'.doc = task.doc /\ task'.rev = task.rev
  BY <1>5 DEF QueueOnce
<1> QED
  BY <1>1, <1>2, <1>3, <1>4, <1>5, QueueStep

LEMMA NewestStep == ASSUME TypeOK, KeptExists, Ordered, Added, [Next]_vars PROVE Newest'
<1> USE DEF source, durable, flags, memory, loop, sweep
<1>r. /\ rev \in [Docs -> Nat] /\ rev' \in [Docs -> Nat] /\ \A d \in Docs : rev[d] <= rev'[d]
  BY RevGrows, ConstantsAssumption DEF TypeOK, SourceType, Revs
<1>t. /\ \A g \in Live : g \in Gens /\ db[g].doc \in Docs /\ db[g].rev \in Nat
      /\ \A job \in queue : job.doc \in Docs /\ job.rev \in Nat
      /\ (pc \in InHand => task \in Task /\ task.doc \in Docs /\ task.rev \in Nat)
  BY ConstantsAssumption DEF TypeOK, TableType, LoopType, TaskType, InHand, Live, Row, Job, Task, Revs
<1>n. /\ \A g \in Live : db[g].rev <= rev[db[g].doc] /\ db[g].rev \notin BlankRevs
      /\ \A job \in queue : job.rev <= rev[job.doc] /\ \A g \in RowsOf(job.doc) : db[g].rev <= job.rev
      /\ (pc \in InHand => task.rev <= rev[task.doc] /\ \A g \in RowsOf(task.doc) : db[g].rev <= task.rev)
  BY DEF Ordered, Newest
\* The rows after the step: those of before, or one more of the task in hand.
<1>1. ASSUME NEW g \in Live'
      PROVE  \/ /\ g \in Live /\ db'[g].doc = db[g].doc /\ db'[g].rev = db[g].rev
             \/ /\ pc = "add" /\ db'[g].doc = task.doc /\ db'[g].rev = task.rev /\ task.rev \notin BlankRevs
  <2>1. g \in Gens /\ db'[g] # NoRow
    BY <1>1 DEF Live
  <2>2. CASE Shrink
    BY <2>1, <2>2, <1>t DEF Shrink, Live, TypeOK, TableType, Row
  <2>3. CASE ~Shrink
    <3>1. pc = "add" /\ task.rev \notin BlankRevs /\ \E n \in Fresh : db' = Insert(n)
      <4>1. pc = "add" /\ \E n \in Fresh : db' = Insert(n)
        BY <2>3, RowsStep DEF Insertion
      <4>2. db' # db
        BY <2>3, SameShrinks
      <4>3. IndexFile \/ IndexFileFails \/ Crash \/ CrashAndRecreate \/ db' = db
        BY <4>1 DEF Next, Environment, Failure, Worker, vars, SourceChange,
           Restore, Exclude, Unexclude, BeginSingle, Unmount, Mount,
           BeginFails, SkipTask, AdoptFails, Cancel, CleanupRaises, BeginCycle,
           RetryPending, Scan, Take, Adopt, SourceMoved, Extract, Record, RecordFails,
           BatchFlush, Unlink, Drain, FinalFlush, EndCycle, RootGuard, FindOrphans, WeighOrphans, DeleteOrphan,
           CleanupDone, ExcludeRows, ExcludeState
      <4>4. ~Crash /\ ~CrashAndRecreate
        BY <2>3, SameShrinks, WithoutShrinks DEF Crash, CrashAndRecreate
      <4> QED
        BY <4>1, <4>2, <4>3, <4>4 DEF IndexFile, IndexFileFails
    <3>2. PICK n \in Fresh : db' = Insert(n)
      BY <3>1
    <3>3. n \in Gens
      BY DEF Fresh
    <3>4. g # n => db'[g] = db[g]
      BY <2>1, <3>2, <3>3 DEF Insert, TypeOK, TableType
    <3>5. g = n => db'[g] = [doc |-> task.doc, rev |-> task.rev, miss |-> 0]
      BY <2>1, <3>2, <3>3 DEF Insert, TypeOK, TableType
    <3>6. g = n => db'[g].doc = task.doc /\ db'[g].rev = task.rev
      BY <3>5
    <3> QED
      BY <2>1, <3>1, <3>4, <3>6 DEF Live
  <2> QED
    BY <2>2, <2>3
<1>2. ASSUME NEW g \in Live' PROVE db'[g].rev <= rev'[db'[g].doc] /\ db'[g].rev \notin BlankRevs
  BY <1>1, <1>2, <1>n, <1>r, <1>t DEF InHand
<1>3. ASSUME NEW d \in Docs, NEW r \in Nat, \A g \in RowsOf(d) : db[g].rev <= r,
             pc = "add" /\ task.doc = d => task.rev <= r
      PROVE  \A g \in RowsOf(d)' : db'[g].rev <= r
  BY <1>1, <1>3 DEF RowsOf
<1>4. ASSUME NEW d \in Docs PROVE \A g \in RowsOf(d)' : db'[g].rev <= rev'[d]
  BY <1>2 DEF RowsOf
\* A job, or the task, of before that is still there.
<1>5. ASSUME NEW job \in queue
      PROVE  job.rev <= rev'[job.doc] /\ \A g \in RowsOf(job.doc)' : db'[g].rev <= job.rev
  <2>1. pc = "add" => task.doc # job.doc
    BY DEF Ordered, QueueOnce, InHand
  <2> QED
    BY <1>3, <1>n, <1>r, <1>t, <2>1
<1>6. ASSUME pc \in InHand
      PROVE  task.rev <= rev'[task.doc]
  BY <1>6, <1>n, <1>r, <1>t
<1>7. CASE BeginCycle
  BY <1>2, <1>5, <1>7 DEF BeginCycle, Newest, InHand
<1>8. ASSUME NEW d \in Docs, BeginSingle(d) PROVE Newest'
  <2>1. queue' = {[doc |-> d, rev |-> rev[d]]} /\ rev' = rev /\ pc' \notin InHand
    BY <1>8 DEF BeginSingle, InHand
  <2> QED
    BY <1>2, <1>4, <1>r, <2>1 DEF Newest
<1>9. ASSUME NEW d \in Docs, Scan(d) PROVE Newest'
  <2>1. queue' \subseteq queue \cup {[doc |-> d, rev |-> rev[d]]} /\ rev' = rev /\ pc' \notin InHand
    BY <1>9 DEF Scan, InHand
  <2> QED
    BY <1>2, <1>4, <1>5, <1>r, <2>1 DEF Newest
<1>10. ASSUME NEW job \in Job, Take(job) PROVE Newest'
  <2>1. job \in queue /\ queue' \subseteq queue /\ task'.doc = job.doc /\ task'.rev = job.rev
    BY <1>10 DEF Take
  <2>2. \A g \in RowsOf(task.doc)' : g \in RowsOf(job.doc)'
    BY <2>1 DEF RowsOf
  <2> QED
    BY <1>2, <1>5, <2>1, <2>2 DEF Newest
<1>11. CASE /\ queue' \subseteq queue /\ toScan' \subseteq toScan
            /\ pc' \in InHand => pc \in InHand /\ task'.doc = task.doc /\ task'.rev = task.rev
  <2>1. pc' \in InHand => \A g \in RowsOf(task.doc)' : db'[g].rev <= task.rev
    <3> SUFFICES ASSUME pc' \in InHand, NEW g \in Live', db'[g].doc = task'.doc PROVE db'[g].rev <= task.rev
      BY DEF RowsOf
    <3> QED
      BY <1>1, <1>11, <1>n, <1>t DEF RowsOf
  <2> QED
    BY <1>2, <1>5, <1>6, <1>11, <2>1 DEF Newest
<1> QED
  BY <1>7, <1>8, <1>9, <1>10, <1>11, QueueStep DEF Ordered

LEMMA OrderedInit == Init => Ordered
<1> SUFFICES ASSUME Init PROVE Ordered
  OBVIOUS
<1>1. Live = {} /\ queue = {} /\ toScan = {} /\ pc = "idle"
  BY DEF Init, Live
<1> QED
  BY <1>1 DEF Ordered, Between, QueueOnce, Newest, InHand

LEMMA OrderedStep == ASSUME TypeOK, KeptExists, Ordered, Added, [Next]_vars PROVE Ordered'
BY BetweenStep, OnceStep, NewestStep DEF Ordered

-----------------------------------------------------------------------------
(* No row out of reach, as long as deletions succeed: the ids of a failed    *)
(* deletion can be dropped with the entry that holds them.                   *)

\* As long as deletions succeed no id ever waits for its deletion.
LEMMA PendingStep ==
    ASSUME TypeOK, NothingPending, "delete" \notin Faults, [Next]_vars
    PROVE  NothingPending'
<1> SUFFICES ASSUME NEW d \in Docs
             PROVE  Pend(mem'[d]) = {} /\ Pend(disk'[d]) = {}
  BY DEF NothingPending, Pend
<1> USE DEF source, durable, flags, memory, loop, sweep, Pend
<1>1. Pend(mem[d]) = {} /\ Pend(disk[d]) = {} /\ Pend(NoState[d]) = {}
  BY DEF NothingPending, NoState
<1>2. \A m : Pend(m[d]) = {} => Pend(Repaired(m)[d]) = {} /\ Pend(Recovered(m)[d]) = {}
  BY DEF Repaired, Invalidated, Recovered
<1>3. CASE BeginCycle
  BY <1>1, <1>2, <1>3 DEF BeginCycle
<1>4. CASE BeginFails
  BY <1>1, <1>2, <1>4 DEF BeginFails
<1>5. CASE RetryPending
  BY <1>1, <1>5 DEF RetryPending
<1>6. CASE Adopt \/ Record
  BY <1>1, <1>6 DEF Adopt, Record, Replace, Fault, TypeOK, MemoryType
<1>7. ASSUME NEW c \in Docs, DeleteOrphan(c) PROVE Pend(mem'[d]) = {} /\ Pend(disk'[d]) = {}
  <2> DEFINE left == FirstMiss(Chunks(mem[c]))
  <2>1. CASE mem' = mem \/ mem' = [mem EXCEPT ![c] = NoEntry]
    BY <1>1, <1>7, <2>1 DEF DeleteOrphan, TypeOK, MemoryType
  <2>2. CASE mem[c] \in Entry /\ mem' = [mem EXCEPT ![c].chunks = left]
    <3>1. d = c => Pend(mem'[d]) = mem[d].pend \/ Pend(mem'[d]) = {}
      BY <2>2 DEF TypeOK, MemoryType, Entry
    <3>2. d = c => mem[d].pend = {}
      BY <1>1, <2>2, ConstantsAssumption
    <3>3. d # c => mem'[d] = mem[d]
      BY <2>2 DEF TypeOK, MemoryType
    <3> QED
      BY <1>1, <1>7, <3>1, <3>2, <3>3 DEF DeleteOrphan
  <2> QED
    BY <1>7, <2>1, <2>2, OrphanEntry DEF TypeOK
<1>8. CASE ExcludeState
  BY <1>1, <1>8 DEF ExcludeState, TypeOK, DurableType
<1>9. ASSUME ~(BeginCycle \/ BeginFails \/ RetryPending \/ Adopt \/ Record \/ ExcludeState),
             ~\E c \in Docs : DeleteOrphan(c)
      PROVE mem' \in {mem, disk, NoState} /\ disk' \in {disk, mem}
  BY <1>9 DEF Next, Environment, Failure, Worker, vars, CycleLocals, EndCycle, SourceChange,
     Restore, Exclude, Unexclude, BeginSingle, Unmount, Mount, Crash, CrashAndRecreate,
     SkipTask, AdoptFails, IndexFile, IndexFileFails, Cancel, CleanupRaises, Scan, Take,
     SourceMoved, Extract, RecordFails, BatchFlush, Save, Unlink, Drain, FinalFlush,
     RootGuard, FindOrphans, WeighOrphans, CleanupDone, ExcludeRows
<1> QED
  BY <1>1, <1>3, <1>4, <1>5, <1>6, <1>7, <1>8, <1>9

\* While anything is unresolved the marker file is there; an add is always unresolved.
LEMMA MarkerStep ==
    ASSUME TypeOK, UnresolvedMarked, UnlinkSaved, AddUnresolved, [Next]_vars
    PROVE  UnresolvedMarked' /\ AddUnresolved'
<1> USE DEF source, durable, flags, memory, loop, sweep
<1>1. UnresolvedMarked'
  BY DEF UnresolvedMarked, UnlinkSaved, Saved,
     Next, Environment, Failure, Worker, vars, CycleLocals, EndCycle, SourceChange,
     Restore, Exclude, Unexclude, BeginSingle, Unmount, Mount, Crash, CrashAndRecreate,
     BeginCycle, BeginFails, RetryPending, Adopt, Record, ExcludeState, DeleteOrphan,
     SkipTask, AdoptFails, IndexFile, IndexFileFails, Cancel, CleanupRaises, Scan, Take,
     SourceMoved, Extract, RecordFails, BatchFlush, Save, Unlink, Drain, FinalFlush,
     RootGuard, FindOrphans, WeighOrphans, CleanupDone, ExcludeRows
<1>2. AddUnresolved'
  BY DEF AddUnresolved, TypeOK, TaskType, Task,
     Next, Environment, Failure, Worker, vars, CycleLocals, EndCycle, SourceChange,
     Restore, Exclude, Unexclude, BeginSingle, Unmount, Excuse, Mount, Crash, CrashAndRecreate,
     BeginCycle, BeginFails, RetryPending, Adopt, Record, ExcludeState, DeleteOrphan,
     SkipTask, AdoptFails, IndexFile, IndexFileFails, Cancel, CleanupRaises, Scan, Take,
     SourceMoved, Extract, RecordFails, BatchFlush, Save, Unlink, Drain, FinalFlush,
     RootGuard, FindOrphans, WeighOrphans, CleanupDone, ExcludeRows
<1> QED
  BY <1>1, <1>2

\* The marker is only removed when the saved state equals the state in memory.
LEMMA UnlinkStep ==
    ASSUME TypeOK, UnlinkSaved, [Next]_vars
    PROVE  UnlinkSaved'
<1> USE DEF source, durable, flags, memory, loop, sweep
<1>1. CASE BatchFlush \/ FinalFlush
  BY <1>1 DEF BatchFlush, FinalFlush, Save, MarkerMayGo, EndCycle, CycleLocals, UnlinkSaved, Saved
<1>2. ASSUME ~(BatchFlush \/ FinalFlush), pc' \in {"unlink", "lastUnlink"}
      PROVE  UNCHANGED <<pc, disk, mem, unres, held, recreated, empty>>
  BY <1>2 DEF
     Next, Environment, Failure, Worker, vars, CycleLocals, EndCycle, SourceChange,
     Restore, Exclude, Unexclude, BeginSingle, Unmount, Mount, Crash, CrashAndRecreate,
     BeginCycle, BeginFails, RetryPending, Adopt, Record, ExcludeState, DeleteOrphan,
     SkipTask, AdoptFails, IndexFile, IndexFileFails, Cancel, CleanupRaises, Scan, Take,
     SourceMoved, Extract, RecordFails, Unlink, Drain,
     RootGuard, FindOrphans, WeighOrphans, CleanupDone, ExcludeRows
<1> QED
  BY <1>1, <1>2 DEF UnlinkSaved, Saved

\* The state entry of an excluded document goes after its rows have gone.
LEMMA ExcludedStep ==
    ASSUME TypeOK, KeptExists, ExcludedGone, [Next]_vars
    PROVE  ExcludedGone'
<1> USE DEF source, durable, flags, memory, loop, sweep
<1>1. CASE ExcludeRows
  BY <1>1 DEF ExcludeRows, ExcludedGone, Without, RowsOf, Live
<1>2. ASSUME ~ExcludeRows, pc' = "excludeState"
      PROVE  UNCHANGED <<pc, task, db>>
  BY <1>2 DEF
     Next, Environment, Failure, Worker, vars, CycleLocals, EndCycle, SourceChange,
     Restore, Exclude, Unexclude, BeginSingle, Unmount, Mount, Crash, CrashAndRecreate,
     BeginCycle, BeginFails, RetryPending, Adopt, Record, ExcludeState, DeleteOrphan,
     SkipTask, AdoptFails, IndexFile, IndexFileFails, Cancel, CleanupRaises, Scan, Take,
     SourceMoved, Extract, RecordFails, BatchFlush, FinalFlush, Unlink, Drain,
     RootGuard, FindOrphans, WeighOrphans, CleanupDone
<1> QED
  BY <1>1, <1>2 DEF ExcludedGone, RowsOf, Live

\* A table that is known to be new holds no row, or the marker is there.
LEMMA NewTableStep ==
    ASSUME TypeOK, KeptExists, NewTableMarked, UnresolvedMarked, UnlinkSaved, [Next]_vars
    PROVE  NewTableMarked'
<1> USE DEF source, durable, flags, memory, loop, sweep
<1>1. CASE Crash
  BY <1>1 DEF Crash, NewTableMarked, Live
<1>2. CASE CrashAndRecreate
  BY <1>2 DEF CrashAndRecreate, NewTableMarked, Without, Live
<1>3. CASE IndexFile \/ IndexFileFails
  BY <1>3 DEF IndexFile, IndexFileFails, NewTableMarked, UnresolvedMarked
<1>4. CASE Unlink
  BY <1>4 DEF Unlink, UnlinkSaved, Saved, NewTableMarked
<1>5. ASSUME ~(Crash \/ CrashAndRecreate \/ IndexFile \/ IndexFileFails \/ Unlink)
      PROVE  (recreated' \/ empty' => recreated \/ empty) /\ (marker => marker')
  BY <1>5 DEF
     Next, Environment, Failure, Worker, vars, CycleLocals, EndCycle, SourceChange,
     Restore, Exclude, Unexclude, BeginSingle, Unmount, Excuse, Mount,
     BeginCycle, BeginFails, RetryPending, Adopt, Record, ExcludeState, DeleteOrphan,
     SkipTask, AdoptFails, Cancel, CleanupRaises, Scan, Take,
     SourceMoved, Extract, RecordFails, BatchFlush, Save, FinalFlush, Drain,
     RootGuard, FindOrphans, WeighOrphans, CleanupDone, ExcludeRows
<1>6. pc # "add" => Live' \subseteq Live
  BY RowsStep, ShrinkRows DEF Insertion
<1>7. pc = "add" /\ ~(Crash \/ CrashAndRecreate \/ IndexFile \/ IndexFileFails) => db' = db
  BY DEF
     Next, Environment, Failure, Worker, vars, CycleLocals, EndCycle, SourceChange,
     Restore, Exclude, Unexclude, BeginSingle, Unmount, Mount,
     BeginCycle, BeginFails, RetryPending, Adopt, Record, ExcludeState, DeleteOrphan,
     SkipTask, AdoptFails, Cancel, CleanupRaises, Scan, Take,
     SourceMoved, Extract, RecordFails, BatchFlush, Save, FinalFlush, Drain, Unlink,
     RootGuard, FindOrphans, WeighOrphans, CleanupDone, ExcludeRows
<1> QED
  BY <1>1, <1>2, <1>3, <1>4, <1>5, <1>6, <1>7 DEF NewTableMarked, Live

\* The state a cycle starts from names every row, or the marker stays.
LEMMA BeginNames ==
    ASSUME TypeOK, NothingPending, NewTableMarked, NoStrandedRows,
           NEW m \in {disk, NoState}, ~RecoveryNeeded(Repaired(m)), NEW d \in Docs
    PROVE  RowsOf(d) \subseteq Chunks(Repaired(m)[d])
<1>1. CASE Live = {}
  BY <1>1 DEF RowsOf
<1>2. CASE Live # {}
  <2>1. ~marker /\ Repaired(m) # NoState
    BY <1>2 DEF RecoveryNeeded
  <2>2. Repaired(m) = m
    BY <1>2, <2>1 DEF NewTableMarked, Repaired, StaleRowsClaimed
  <2>3. m = disk
    BY <2>1, <2>2
  <2> QED
    BY <2>1, <2>2, <2>3 DEF NoStrandedRows, NothingPending
<1> QED
  BY <1>1, <1>2

\* After a recovery the state names every row of the table.
LEMMA RecoveredNames ==
    ASSUME NEW m \in [Docs -> Entry \cup {NoEntry}], NEW d \in Docs
    PROVE  RowsOf(d) \subseteq Chunks(Recovered(m)[d])
<1>1. [rev |-> 0, chunks |-> RowsOf(d), pend |-> {}] # NoEntry
  <2>1. RowsOf(d) \in SUBSET Gens /\ 0 \in 0..MaxRev
    BY ConstantsAssumption DEF RowsOf, Live
  <2> QED
    BY <2>1, EntryTyped, ConstantsAssumption
<1> QED
  BY <1>1 DEF Recovered, Chunks

\* state[path] = entry, and every other row of the path goes.
LEMMA ReplaceNames ==
    ASSUME TypeOK, NEW c \in Docs, NEW r \in 0..MaxRev, NEW ids \in SUBSET Gens,
           NEW doomed, RowsOf(c) \ ids \subseteq doomed, "delete" \notin Faults,
           Replace(c, [rev |-> r, chunks |-> ids, pend |-> {}], doomed), NEW d \in Docs,
           d # c => RowsOf(d) \subseteq Chunks(mem[d])
    PROVE  RowsOf(d)' \subseteq Chunks(mem'[d])
<1> DEFINE entry == [rev |-> r, chunks |-> ids, pend |-> {}]
<1>1. db' = Without(doomed) /\ mem' = [mem EXCEPT ![c] = entry]
  BY DEF Replace, Fault
<1>2. entry # NoEntry /\ entry.chunks = ids
  BY EntryTyped, ConstantsAssumption
<1>3. RowsOf(d)' = RowsOf(d) \ doomed
  BY <1>1 DEF RowsOf, Live, Without
<1> HIDE DEF entry
<1>4. CASE d = c
  <2>1. Chunks(mem'[d]) = ids
    BY <1>1, <1>2, <1>4 DEF Chunks, TypeOK, MemoryType
  <2> QED
    BY <1>3, <1>4, <2>1
<1>5. CASE d # c
  <2>1. mem'[d] = mem[d]
    BY <1>1, <1>5 DEF TypeOK, MemoryType
  <2> QED
    BY <1>3, <1>5, <2>1
<1> QED
  BY <1>4, <1>5

\* The orphan cleanup drops an id from the state only when its row has gone.
LEMMA OrphanNames ==
    ASSUME TypeOK, NEW c \in Docs, DeleteOrphan(c), NEW d \in Docs,
           RowsOf(d) \subseteq Chunks(mem[d])
    PROVE  RowsOf(d)' \subseteq Chunks(mem'[d])
<1> DEFINE ids == Chunks(mem[c])
           left == FirstMiss(ids)
<1>1. Shrink
  BY DEF DeleteOrphan, Softened, FirstMiss, Shrink
<1>2. RowsOf(d)' \subseteq RowsOf(d)
  BY <1>1, ShrinkRows
<1>3. CASE d # c
  <2>1. mem'[d] = mem[d]
    BY <1>3, OrphanEntry DEF TypeOK, MemoryType
  <2> QED
    BY <1>2, <2>1
<1>4. CASE d = c
  <2>1. \A g \in Gens : g \in SecondMiss(ids) => db'[g] = NoRow
    BY DEF DeleteOrphan
  <2>2. RowsOf(d)' \subseteq left
    <3>1. RowsOf(d)' \cap SecondMiss(ids) = {}
      BY <2>1 DEF RowsOf, Live
    <3>2. \A g \in Live : db[g].miss \in {0, 1}
      BY DEF Live, TypeOK, TableType, Row
    <3> QED
      BY <1>2, <1>4, <3>1, <3>2 DEF FirstMiss, SecondMiss, RowsOf
  <2>3. CASE mem' = mem
    BY <1>2, <2>3
  <2>4. CASE left = {}
    BY <2>2, <2>4
  <2>5. CASE mem[c] \in Entry /\ mem' = [mem EXCEPT ![c].chunks = left]
    <3>1. mem'[d] \in Entry /\ mem'[d].chunks = left
      BY <1>4, <2>5 DEF TypeOK, MemoryType, Entry, FirstMiss, Live
    <3> QED
      BY <2>2, <3>1, ConstantsAssumption DEF Chunks
  <2> QED
    BY <2>3, <2>4, <2>5, OrphanEntry DEF TypeOK
<1> QED
  BY <1>3, <1>4

\* The state a cycle starts with names every row of the table.
LEMMA StartNames ==
    ASSUME TypeOK, RowsAccounted, BeginCycle \/ \E c \in Docs : BeginSingle(c), NEW d \in Docs
    PROVE  RowsOf(d)' \subseteq Chunks(mem'[d])
<1>1. CASE BeginCycle
  <2>1. PICK m \in {disk, NoState} :
            mem' = IF RecoveryNeeded(Repaired(m)) THEN Recovered(Repaired(m)) ELSE Repaired(m)
    BY <1>1 DEF BeginCycle
  <2>2. RowsOf(d)' = RowsOf(d)
    BY <1>1 DEF BeginCycle, RowsOf, Live
  <2>3. Repaired(m) \in [Docs -> Entry \cup {NoEntry}]
    BY LoadedTyped DEF TypeOK, DurableType
  <2> QED
    BY <2>1, <2>2, <2>3, BeginNames, RecoveredNames DEF RowsAccounted
<1>2. ASSUME NEW c \in Docs, BeginSingle(c) PROVE RowsOf(d)' \subseteq Chunks(mem'[d])
  <2>1. mem' = disk /\ ~StaleRowsClaimed(disk) /\ ~RecoveryNeeded(disk)
    BY <1>2 DEF BeginSingle
  <2>2. Repaired(disk) = disk
    BY <2>1 DEF Repaired
  <2>3. RowsOf(d)' = RowsOf(d)
    BY <1>2 DEF BeginSingle, RowsOf, Live
  <2> QED
    BY <2>1, <2>2, <2>3, BeginNames DEF RowsAccounted
<1> QED
  BY <1>1, <1>2

\* Within a cycle, the state in memory names every row of a resolved document.
LEMMA MemoryStep ==
    ASSUME TypeOK, KeptExists, RowsAccounted, "delete" \notin Faults, [Next]_vars
    PROVE  MemoryNames'
<1> SUFFICES ASSUME InCycle', pc' = "final" => dirty', NEW d \in Docs, d \notin unres', ~held'
             PROVE  RowsOf(d)' \subseteq Chunks(mem'[d])
  BY DEF MemoryNames, InCycle, RowsOf, Chunks, Live
<1> USE DEF source, durable, flags, memory, loop, sweep
<1>1. CASE BeginCycle
  BY <1>1, StartNames
<1>2. CASE BeginFails
  BY <1>2 DEF BeginFails, RowsAccounted, NewTableMarked, StaleRowsClaimed, RowsOf, Live
<1>3. ASSUME NEW c \in Docs, BeginSingle(c) PROVE RowsOf(d)' \subseteq Chunks(mem'[d])
  BY <1>3, StartNames
<1>4. ASSUME InCycle, pc = "final" => dirty, d \notin unres, ~held, Shrink,
             Chunks(mem'[d]) = Chunks(mem[d])
      PROVE  RowsOf(d)' \subseteq Chunks(mem'[d])
  BY <1>4, ShrinkRows DEF RowsAccounted, MemoryNames
<1>5. CASE RetryPending
  <2>1. Shrink
    BY <1>5, WithoutShrinks DEF RetryPending
  <2>2. Chunks(mem'[d]) = Chunks(mem[d])
    BY <1>5 DEF RetryPending, RowsAccounted, NothingPending, Chunks, TypeOK, MemoryType
  <2> QED
    BY <1>4, <1>5, <2>1, <2>2 DEF RetryPending, InCycle
<1>6. CASE Adopt
  <2> DEFINE keep == Winner(Complete(task.doc, task.rev))
  <2>1. task.doc \in Docs /\ task.rev \in 0..MaxRev
    BY <1>6, ConstantsAssumption DEF Adopt, TypeOK, TaskType, Task, Revs
  <2>2. {keep} \in SUBSET Gens
    BY <1>6, RowsTyped DEF Adopt, Winner, KeptExists
  <2>3. RowsOf(d) \subseteq Chunks(mem[d])
    BY <1>6 DEF Adopt, RowsAccounted, MemoryNames, InCycle
  <2> QED
    BY <1>6, <2>1, <2>2, <2>3, ReplaceNames DEF Adopt
<1>7. CASE Record
  <2>1. task.doc \in Docs /\ task.rev \in 0..MaxRev /\ task.gens \in SUBSET Gens
    BY <1>7, ConstantsAssumption DEF Record, TypeOK, TaskType, Task, Revs
  <2>2. d # task.doc => RowsOf(d) \subseteq Chunks(mem[d])
    BY <1>7 DEF Record, RowsAccounted, MemoryNames, InCycle
  <2> QED
    BY <1>7, <2>1, <2>2, ReplaceNames DEF Record
<1>8. ASSUME NEW c \in Docs, DeleteOrphan(c) PROVE RowsOf(d)' \subseteq Chunks(mem'[d])
  <2>1. RowsOf(d) \subseteq Chunks(mem[d])
    BY <1>8 DEF DeleteOrphan, RowsAccounted, MemoryNames, InCycle
  <2> QED
    BY <1>8, <2>1, OrphanNames
<1>9. CASE IndexFile \/ IndexFileFails
  <2>1. d # task.doc /\ InCycle /\ pc # "final" /\ d \notin unres /\ ~held /\ mem' = mem /\ task \in Task
    BY <1>9 DEF IndexFile, IndexFileFails, RowsAccounted, AddUnresolved, InCycle, TypeOK, TaskType
  <2>2. RowsOf(d)' = RowsOf(d)
    <3>1. CASE db' = db
      BY <3>1 DEF RowsOf, Live
    <3>2. ASSUME NEW g \in Fresh, db' = Insert(g) PROVE RowsOf(d)' = RowsOf(d)
      BY <2>1, <3>2, InsertionRows
    <3> QED
      BY <1>9, <3>1, <3>2 DEF IndexFile, IndexFileFails
  <2> QED
    BY <2>1, <2>2 DEF RowsAccounted, MemoryNames
<1>10. ASSUME ~(BeginCycle \/ BeginFails \/ RetryPending \/ Adopt \/ Record \/ IndexFile \/ IndexFileFails),
              ~\E c \in Docs : BeginSingle(c) \/ DeleteOrphan(c)
       PROVE  RowsOf(d)' \subseteq Chunks(mem'[d])
  <2>1. InCycle /\ (pc = "final" => dirty) /\ d \notin unres /\ ~held /\ mem' = mem
    <3>1. pc' # "idle" /\ pc' # "excludeRows" /\ pc' # "excludeState"
      BY DEF InCycle
    <3>2. InCycle /\ mem' = mem
      BY <1>10, <3>1 DEF InCycle,
         Next, Environment, Failure, Worker, vars, CycleLocals, EndCycle, SourceChange,
         Restore, Exclude, Unexclude, BeginSingle, Unmount, Mount, Crash, CrashAndRecreate,
         BeginCycle, BeginFails, RetryPending, Adopt, Record, ExcludeState, DeleteOrphan,
         SkipTask, AdoptFails, IndexFile, IndexFileFails, Cancel, CleanupRaises, Scan, Take,
         SourceMoved, Extract, RecordFails, BatchFlush, Save, FinalFlush, Unlink, Drain,
         RootGuard, FindOrphans, WeighOrphans, CleanupDone, ExcludeRows
    <3>3. unres \subseteq unres' /\ (held => held')
      BY <1>10, <3>1 DEF
         Next, Environment, Failure, Worker, vars, CycleLocals, EndCycle, SourceChange,
         Restore, Exclude, Unexclude, BeginSingle, Unmount, Excuse, Mount, Crash, CrashAndRecreate,
         BeginCycle, BeginFails, RetryPending, Adopt, Record, ExcludeState, DeleteOrphan,
         SkipTask, AdoptFails, IndexFile, IndexFileFails, Cancel, CleanupRaises, Scan, Take,
         SourceMoved, Extract, RecordFails, BatchFlush, Save, FinalFlush, Unlink, Drain,
         RootGuard, FindOrphans, WeighOrphans, CleanupDone, ExcludeRows
    <3>4. pc = "final" => dirty
      BY <1>10, <3>1 DEF
         Next, Environment, Failure, Worker, vars, CycleLocals, EndCycle, SourceChange,
         Restore, Exclude, Unexclude, BeginSingle, Unmount, Excuse, Mount, Crash, CrashAndRecreate,
         BeginCycle, BeginFails, RetryPending, Adopt, Record, ExcludeState, DeleteOrphan,
         SkipTask, AdoptFails, IndexFile, IndexFileFails, Cancel, CleanupRaises, Scan, Take,
         SourceMoved, Extract, RecordFails, BatchFlush, Save, FinalFlush, Unlink, Drain,
         RootGuard, FindOrphans, WeighOrphans, CleanupDone, ExcludeRows
    <3> QED
      BY <3>2, <3>3, <3>4
  <2>2. pc = "add" => db' = db
    BY <1>10 DEF InCycle,
     Next, Environment, Failure, Worker, vars, CycleLocals, EndCycle, SourceChange,
     Restore, Exclude, Unexclude, BeginSingle, Unmount, Mount, Crash, CrashAndRecreate,
     BeginCycle, BeginFails, RetryPending, Adopt, Record, ExcludeState, DeleteOrphan,
     SkipTask, AdoptFails, IndexFile, IndexFileFails, Cancel, CleanupRaises, Scan, Take,
     SourceMoved, Extract, RecordFails, BatchFlush, Save, FinalFlush, Unlink, Drain,
     RootGuard, FindOrphans, WeighOrphans, CleanupDone, ExcludeRows
  <2>3. Shrink
    BY <2>2, SameShrinks, RowsStep DEF Insertion
  <2> QED
    BY <1>4, <2>1, <2>3
<1> QED
  BY <1>1, <1>2, <1>3, <1>4, <1>5, <1>6, <1>7, <1>8, <1>9, <1>10, RowsStep

\* A row is out of reach only if a write to the state file forgot it.
LEMMA StrandedStep ==
    ASSUME TypeOK, KeptExists, RowsAccounted, [Next]_vars
    PROVE  NoStrandedRows'
<1> SUFFICES ASSUME ~marker', disk' # NoState, NEW d \in Docs
             PROVE  RowsOf(d)' \subseteq Chunks(disk'[d]) \cup Pend(disk'[d])
  BY DEF NoStrandedRows, RowsOf, Chunks, Pend, Live, NoState
<1> USE DEF source, durable, flags, memory, loop, sweep
<1>1. CASE (BatchFlush \/ FinalFlush) /\ disk' = mem /\ dirty
  <2>1. ~marker /\ db' = db
    <3>1. CASE BatchFlush
      BY <3>1 DEF BatchFlush
    <3>2. CASE FinalFlush
      BY <3>2 DEF FinalFlush, EndCycle
    <3> QED
      BY <1>1, <3>1, <3>2
  <2>2. RowsOf(d) \subseteq Chunks(mem[d])
    BY <1>1, <2>1 DEF BatchFlush, FinalFlush, RowsAccounted, UnresolvedMarked, MemoryNames, InCycle
  <2> QED
    BY <1>1, <2>1, <2>2 DEF RowsOf, Live
<1>2. CASE Unlink
  <2>1. disk' = mem /\ db' = db
    BY <1>2 DEF Unlink, EndCycle, RowsAccounted, UnlinkSaved, Saved
  <2>2. RowsOf(d) \subseteq Chunks(mem[d])
    BY <1>2 DEF Unlink, RowsAccounted, UnlinkSaved, Saved, MemoryNames, InCycle
  <2> QED
    BY <2>1, <2>2 DEF RowsOf, Live
<1>3. CASE ExcludeState /\ disk' # disk
  <2>1. ~marker /\ db' = db /\ task.doc \in Docs /\ disk' = [disk EXCEPT ![task.doc] = NoEntry]
    BY <1>3 DEF ExcludeState, TypeOK, TaskType, Task
  <2>2. disk # NoState
    BY <2>1 DEF NoState
  <2>3. CASE d = task.doc
    BY <1>3, <2>1, <2>3 DEF ExcludeState, RowsAccounted, ExcludedGone, RowsOf, Live
  <2>4. CASE d # task.doc
    <3>1. disk'[d] = disk[d]
      BY <2>1, <2>4 DEF TypeOK, DurableType
    <3> QED
      BY <2>1, <2>2, <3>1 DEF RowsAccounted, NoStrandedRows, RowsOf, Live
  <2> QED
    BY <2>3, <2>4
<1>4. CASE ~marker /\ disk' = disk /\ Shrink
  BY <1>4, ShrinkRows DEF RowsAccounted, NoStrandedRows
<1>5. ASSUME ~((BatchFlush \/ FinalFlush) /\ disk' = mem /\ dirty), ~Unlink, ~(ExcludeState /\ disk' # disk)
      PROVE  ~marker /\ disk' = disk
  BY <1>5 DEF
     Next, Environment, Failure, Worker, vars, CycleLocals, EndCycle, SourceChange,
     Restore, Exclude, Unexclude, BeginSingle, Unmount, Excuse, Mount, Crash, CrashAndRecreate,
     BeginCycle, BeginFails, RetryPending, Adopt, Record, ExcludeState, DeleteOrphan,
     SkipTask, AdoptFails, IndexFile, IndexFileFails, Cancel, CleanupRaises, Scan, Take,
     SourceMoved, Extract, RecordFails, BatchFlush, Save, FinalFlush, Unlink, Drain,
     RootGuard, FindOrphans, WeighOrphans, CleanupDone, ExcludeRows
<1>6. CASE Insertion
  BY <1>5, <1>6 DEF Insertion, RowsAccounted, UnresolvedMarked, BatchFlush, FinalFlush, Unlink, ExcludeState
<1> QED
  BY <1>1, <1>2, <1>3, <1>4, <1>5, <1>6, RowsStep

\* The first start has an empty table and an empty state.
LEMMA AccountedInit == Init => RowsAccounted
<1> SUFFICES ASSUME Init PROVE RowsAccounted
  OBVIOUS
<1>1. Live = {} /\ disk = NoState /\ mem = NoState /\ pc = "idle" /\ unres = {} /\ ~held
  BY DEF Init, Live
<1>2. NothingPending
  BY <1>1 DEF NothingPending, Pend, NoState
<1>3. NewTableMarked /\ UnresolvedMarked /\ AddUnresolved /\ NoStrandedRows
  BY <1>1 DEF NewTableMarked, UnresolvedMarked, AddUnresolved, NoStrandedRows
<1>4. MemoryNames /\ UnlinkSaved /\ ExcludedGone
  BY <1>1 DEF MemoryNames, InCycle, UnlinkSaved, ExcludedGone
<1> QED
  BY <1>2, <1>3, <1>4 DEF RowsAccounted

\* RowsAccounted is inductive as long as deletions succeed.
LEMMA AccountedStep ==
    ASSUME "delete" \notin Faults, TypeOK, KeptExists, RowsAccounted, [Next]_vars
    PROVE  RowsAccounted'
<1>1. NothingPending'
  BY PendingStep DEF RowsAccounted
<1>2. UnresolvedMarked' /\ AddUnresolved'
  BY MarkerStep DEF RowsAccounted
<1>3. UnlinkSaved' /\ ExcludedGone' /\ NewTableMarked'
  BY UnlinkStep, ExcludedStep, NewTableStep DEF RowsAccounted
<1>4. MemoryNames' /\ NoStrandedRows'
  BY MemoryStep, StrandedStep
<1> QED
  BY <1>1, <1>2, <1>3, <1>4 DEF RowsAccounted

\* As long as deletions succeed, no crash, failed write or failed removal of the
\* marker, in any number, leaves a row that the next cycle cannot find: the
\* state file names it, or the marker or an empty state file makes the cycle
\* read the table.
THEOREM NothingStranded ==
    ASSUME "delete" \notin Faults
    PROVE  Spec => []NoStrandedRows
<1> DEFINE Inv == TypeOK /\ KeptExists /\ RowsAccounted
<1>1. Init => Inv
  BY TypeInit, AccountedInit
<1>2. Inv /\ [Next]_vars => Inv'
  BY TypeStep, KeptStep, AccountedStep
<1>3. Inv => NoStrandedRows
  BY DEF RowsAccounted
<1> QED
  BY <1>1, <1>2, <1>3, PTL DEF Spec

-----------------------------------------------------------------------------
(* What the state claims is searchable, as long as no table is lost, no root *)
(* becomes unreachable, and no document comes back as it was, out of the     *)
(* recycle bin or out of the exclusion list: each of the four breaks it.     *)

ForGood == {"recreate", "unmount", "restore", "unexclude"} \cap Faults = {}

NotAhead(m, rv) == \A d \in Docs : m[d] # NoEntry => m[d].rev <= rv[d]

\* A row that waits for its deletion is hidden, or older than the entry.
PendOld(m, t) ==
    \A d \in Docs : \A g \in Pend(m[d]) : t[g] # NoRow => t[g].miss = 1 \/ t[g].rev < m[d].rev

Visible(t, d, r) == \E g \in Gens : t[g] # NoRow /\ t[g].doc = d /\ t[g].rev = r /\ t[g].miss = 0

Backed(m, t, rv, there) ==
    \A d \in there : Chunks(m[d]) # {} /\ m[d].rev = rv[d] => Visible(t, d, rv[d])

\* State m is true of table t and of the files there, at revisions rv.
Honest(m, t, rv, there) == NotAhead(m, rv) /\ PendOld(m, t) /\ Backed(m, t, rv, there)

\* A path the cleanup is about to hide is gone, or has come back newer than any entry.
OrphGone ==
    /\ pc \notin {"orphans", "delete", "final", "lastUnlink"} => orph = {}
    /\ \A d \in orph : d \in present => \A m \in {mem, disk} : m[d] # NoEntry => m[d].rev < rev[d]

ExcludedTask == pc \in {"excludeRows", "excludeState"} => task.doc \in excluded

Listed == present \ excluded

ClaimsKept ==
    /\ Honest(mem, db, rev, Listed) /\ Honest(disk, db, rev, Listed)
    /\ OrphGone /\ ExcludedTask /\ up = Folders

Whole == TypeOK /\ KeptExists /\ SingleGeneration /\ IdsKept /\ Ordered

LEMMA WholeInit == Init => Whole
<1> SUFFICES ASSUME Init PROVE SingleGeneration
  BY TypeInit, IdsInit, OrderedInit DEF Whole
<1>1. Live = {} /\ pc = "idle"
  BY DEF Init, Live
<1> QED
  BY <1>1 DEF SingleGeneration, Complete, Active, RowsOf

LEMMA WholeStep == Whole /\ [Next]_vars => Whole'
BY TypeStep, KeptStep, SingleStep, IdsStep, OrderedStep DEF Whole, IdsKept

\* What a step does to the files, when none comes back as it was.
LEMMA FilesStep ==
    ASSUME ForGood, TypeOK, ExcludedTask, up = Folders, [Next]_vars
    PROVE  /\ \A d \in Listed' : d \in Listed \/ rev[d] < rev'[d]
           /\ \A d \in present' : d \in present \/ rev[d] < rev'[d]
           /\ ExcludedTask' /\ up' = Folders
<1> USE DEF source, durable, flags, memory, loop, sweep, ForGood
<1>t. rev \in [Docs -> Nat] /\ present \subseteq Docs
  BY ConstantsAssumption DEF TypeOK, SourceType, Revs
<1>1. CASE SourceChange
  <2>1. \A d \in present' : d \in present \/ rev[d] < rev'[d]
    BY <1>1, <1>t DEF SourceChange, Modify, Remove, Return
  <2>2. excluded' = excluded /\ pc' = pc /\ task' = task /\ up' = up
    BY <1>1 DEF SourceChange, Modify, Remove, Return
  <2> QED
    BY <2>1, <2>2 DEF Listed, ExcludedTask
<1>2. ASSUME ~SourceChange
      PROVE  present' \subseteq present /\ excluded \subseteq excluded' /\ up' = up
  BY <1>2 DEF Fault, Next, Environment, Failure, Worker, vars, CycleLocals, EndCycle,
     Restore, Exclude, Unexclude, BeginSingle, Unmount, Mount, Crash, CrashAndRecreate,
     BeginFails, SkipTask, AdoptFails, IndexFile, IndexFileFails, Cancel, CleanupRaises, BeginCycle,
     RetryPending, Scan, Take, Adopt, SourceMoved, Extract, Record, RecordFails,
     BatchFlush, Unlink, Drain, FinalFlush, RootGuard, FindOrphans, WeighOrphans, DeleteOrphan,
     CleanupDone, ExcludeRows, ExcludeState
<1>3. ExcludedTask'
  BY DEF ExcludedTask, Fault, Next, Environment, Failure, Worker, vars, CycleLocals, EndCycle, SourceChange,
     Restore, Exclude, Unexclude, BeginSingle, Unmount, Excuse, Mount, Crash, CrashAndRecreate,
     BeginFails, SkipTask, AdoptFails, IndexFile, IndexFileFails, Cancel, CleanupRaises, BeginCycle,
     RetryPending, Scan, Take, Adopt, SourceMoved, Extract, Record, RecordFails,
     BatchFlush, Unlink, Drain, FinalFlush, RootGuard, FindOrphans, WeighOrphans, DeleteOrphan,
     CleanupDone, ExcludeRows, ExcludeState
<1> QED
  BY <1>1, <1>2, <1>3 DEF Listed

\* A deletion or a hiding takes no visible row of a listed path's current revision, or
\* leaves another one of it.
LEMMA VisibleStays ==
    ASSUME ForGood, Whole, ClaimsKept, [Next]_vars, NEW m \in {mem, disk}, NEW d \in Listed,
           d \in Listed', rev'[d] = rev[d], m[d] # NoEntry, m[d].rev = rev[d], Visible(db, d, rev[d])
    PROVE  Visible(db', d, rev[d])
<1> USE DEF source, durable, flags, memory, loop, sweep, ForGood
<1>t. /\ mem \in [Docs -> Entry \cup {NoEntry}] /\ disk \in [Docs -> Entry \cup {NoEntry}]
      /\ rev \in [Docs -> Nat] /\ present \subseteq Docs /\ d \in Docs /\ d \in present /\ d \notin excluded'
  BY ConstantsAssumption DEF Whole, TypeOK, MemoryType, DurableType, SourceType, Revs, Listed
<1>g. PICK g \in Gens : db[g] # NoRow /\ db[g].doc = d /\ db[g].rev = rev[d] /\ db[g].miss = 0
  BY DEF Visible
<1>l. g \in Live /\ g \in RowsOf(d) /\ g \in Complete(d, rev[d])
  BY <1>g DEF Live, RowsOf, Complete, Active
<1>k. db'[g] = db[g] => Visible(db', d, rev[d])
  BY <1>g DEF Visible
\* Ids of another path's entry are not this row's.
<1>o. \A c \in Docs : g \in Ids(mem, c) => c = d
  BY <1>g DEF Whole, IdsKept, Good, OwnedIn
<1>1. CASE RetryPending
  <2> DEFINE due == {c \in Docs : Pend(mem[c]) # {} /\ target \in {AllDocs, c}}
  <2>1. PICK done \in SUBSET due : db' = Without(UNION {Pend(mem[c]) : c \in done})
    BY <1>1 DEF RetryPending
  <2>2. ASSUME NEW c \in done, g \in Pend(mem[c]) PROVE FALSE
    <3>1. c \in Docs /\ c = d
      BY <1>o, <2>2 DEF Ids
    <3>2. db[g].rev < mem[d].rev
      BY <1>g, <2>2, <3>1 DEF ClaimsKept, Honest, PendOld
    <3>3. mem[d] \in Entry
      BY <1>t, <2>2, <3>1 DEF Pend
    <3>4. mem[d].rev <= rev[d] /\ mem[d].rev \in Nat
      BY <3>3, <1>t, ConstantsAssumption DEF ClaimsKept, Honest, NotAhead, Entry
    <3> QED
      BY <1>g, <1>t, <3>2, <3>4
  <2>3. db'[g] = db[g]
    BY <2>1, <2>2 DEF Without
  <2> QED
    BY <2>3, <1>k
<1>2. CASE Adopt
  <2> DEFINE keep == Winner(Complete(task.doc, task.rev))
             doomed == (RowsOf(task.doc) \cup Chunks(mem[task.doc]) \cup Pend(mem[task.doc])) \ {keep}
  <2>1. task.doc \in Docs /\ task.rev \in Nat /\ pc \in InHand
    BY <1>2, ConstantsAssumption DEF Adopt, InHand, Whole, TypeOK, TaskType, Task, Revs
  <2>2. db' = Without(doomed) \/ db' = db
    BY <1>2 DEF Adopt, Replace
  <2>3. CASE d # task.doc
    <3>1. g \notin doomed
      BY <1>g, <1>o, <2>1, <2>3 DEF Ids, RowsOf
    <3>2. db'[g] = db[g]
      BY <2>2, <3>1 DEF Without
    <3> QED
      BY <3>2, <1>k
  <2>4. CASE d = task.doc
    <3>1. task.rev = rev[d]
      BY <1>g, <1>l, <1>t, <2>1, <2>4 DEF Whole, Ordered, Newest
    <3>2. keep \in Complete(d, rev[d])
      BY <1>l, <2>4, <3>1 DEF Winner
    <3>3. keep \in Gens /\ db[keep] # NoRow /\ db[keep].doc = d /\ db[keep].rev = rev[d] /\ db[keep].miss = 0
      BY <3>2 DEF Complete, Active, RowsOf, Live
    <3>4. db'[keep] = db[keep]
      BY <2>2, <3>3 DEF Without
    <3> QED
      BY <3>3, <3>4 DEF Visible
  <2> QED
    BY <2>3, <2>4
<1>3. CASE Record
  <2> DEFINE doomed == Pend(mem[task.doc]) \cup Chunks(mem[task.doc]) \cup (RowsOf(task.doc) \ task.gens)
  <2>1. task.doc \in Docs /\ task.rev \in Nat /\ pc \in InHand /\ task \in Task
    BY <1>3, ConstantsAssumption DEF Record, InHand, Whole, TypeOK, TaskType, Task, Revs
  <2>2. db' = Without(doomed) \/ db' = db
    BY <1>3 DEF Record, Replace
  <2>3. CASE d # task.doc
    <3>1. g \notin doomed
      BY <1>g, <1>o, <2>1, <2>3 DEF Ids, RowsOf
    <3>2. db'[g] = db[g]
      BY <2>2, <3>1 DEF Without
    <3> QED
      BY <3>2, <1>k
  <2>4. CASE d = task.doc
    <3>1. task.rev = rev[d] /\ task.rev \notin BlankRevs
      BY <1>g, <1>l, <1>t, <2>1, <2>4 DEF Whole, Ordered, Newest
    <3>2. PICK h \in Gens : /\ task.gens = {h} /\ db[h] = [doc |-> task.doc, rev |-> task.rev, miss |-> 0]
                            /\ \A e \in Docs : h \notin Ids(mem, e)
      BY <1>3, <3>1 DEF Record, Whole, IdsKept, Added
    <3>3. h \notin doomed
      BY <2>1, <3>2 DEF Ids
    <3>4. db'[h] = db[h]
      BY <2>2, <3>3 DEF Without
    <3>5. [doc |-> task.doc, rev |-> task.rev, miss |-> 0] \in Row
      BY <2>1 DEF Task, Row
    <3>6. db[h] # NoRow /\ db[h].doc = d /\ db[h].rev = rev[d] /\ db[h].miss = 0
      BY <2>4, <3>1, <3>2, <3>5, ConstantsAssumption
    <3> QED
      BY <3>4, <3>6 DEF Visible
  <2> QED
    BY <2>3, <2>4
<1>o2. d \notin orph
  BY <1>t DEF ClaimsKept, OrphGone
<1>4. ASSUME NEW c \in Docs, DeleteOrphan(c) PROVE Visible(db', d, rev[d])
  <2>1. c # d
    BY <1>4, <1>o2 DEF DeleteOrphan
  <2>2. g \notin Chunks(mem[c])
    BY <1>o, <2>1 DEF Ids
  <2>3. db'[g] = db[g]
    BY <1>4, <2>2 DEF DeleteOrphan, SecondMiss, FirstMiss, Softened
  <2> QED
    BY <2>3, <1>k
<1>5. CASE CleanupRaises
  <2>1. CASE UNCHANGED db
    BY <2>1, <1>k
  <2>2. ASSUME NEW c \in orph, db' = Softened(FirstMiss(Chunks(mem[c]))) PROVE Visible(db', d, rev[d])
    <3>1. c \in Docs /\ c # d
      BY <1>o2 DEF Whole, TypeOK, SweepType
    <3>2. g \notin Chunks(mem[c])
      BY <1>o, <3>1 DEF Ids
    <3>3. db'[g] = db[g]
      BY <2>2, <3>2 DEF FirstMiss, Softened
    <3> QED
      BY <3>3, <1>k
  <2> QED
    BY <1>5, <2>1, <2>2 DEF CleanupRaises
<1>6. CASE ExcludeRows
  <2>1. task.doc # d
    BY <1>6, <1>t DEF ExcludeRows, ClaimsKept, ExcludedTask
  <2>2. db'[g] = db[g]
    BY <1>6, <1>g, <2>1 DEF ExcludeRows, RowsOf, Without
  <2> QED
    BY <2>2, <1>k
<1>7. CASE IndexFile \/ IndexFileFails
  <2>1. db' = db \/ \E n \in Fresh : db' = Insert(n)
    BY <1>7 DEF IndexFile, IndexFileFails
  <2>2. \A n \in Fresh : n # g
    BY <1>l DEF Fresh
  <2>3. db'[g] = db[g]
    BY <2>1, <2>2 DEF Insert, Whole, TypeOK, TableType
  <2> QED
    BY <2>3, <1>k
<1>8. ASSUME ~(RetryPending \/ Adopt \/ Record \/ CleanupRaises \/ ExcludeRows \/ IndexFile \/ IndexFileFails),
             ~\E c \in Docs : DeleteOrphan(c)
      PROVE  db' = db
  BY <1>8 DEF Fault, Next, Environment, Failure, Worker, vars, EndCycle, SourceChange,
     Restore, Exclude, Unexclude, BeginSingle, Unmount, Mount, Crash, CrashAndRecreate,
     BeginFails, SkipTask, AdoptFails, Cancel, BeginCycle,
     Scan, Take, SourceMoved, Extract, RecordFails,
     BatchFlush, Unlink, Drain, FinalFlush, RootGuard, FindOrphans, WeighOrphans, CleanupDone, ExcludeState
<1> QED
  BY <1>1, <1>2, <1>3, <1>4, <1>5, <1>6, <1>7, <1>8, <1>k

\* A step of the user or of the worker leaves a true state true of what is there now.
LEMMA HonestWorld ==
    ASSUME ForGood, Whole, ClaimsKept, [Next]_vars, NEW m \in {mem, disk}
    PROVE  Honest(m, db', rev', Listed')
<1>t. /\ m \in [Docs -> Entry \cup {NoEntry}] /\ db \in [Gens -> Row \cup {NoRow}]
      /\ rev \in [Docs -> Nat] /\ rev' \in [Docs -> Nat] /\ \A d \in Docs : rev[d] <= rev'[d]
  BY RevGrows, ConstantsAssumption DEF Whole, TypeOK, MemoryType, DurableType, TableType, SourceType, Revs
<1>e. \A d \in Docs : m[d] # NoEntry => m[d].rev \in Nat /\ m[d].rev <= rev[d]
  BY <1>t, ConstantsAssumption DEF ClaimsKept, Honest, NotAhead, Entry
<1>1. NotAhead(m, rev')
  BY <1>e, <1>t DEF NotAhead
<1>2. PendOld(m, db')
  <2> SUFFICES ASSUME NEW d \in Docs, NEW g \in Pend(m[d]), db'[g] # NoRow
               PROVE  db'[g].miss = 1 \/ db'[g].rev < m[d].rev
    BY DEF PendOld
  <2>1. g \in Gens /\ (db[g] # NoRow => db[g].miss = 1 \/ db[g].rev < m[d].rev)
    BY <1>t, IdsTyped DEF ClaimsKept, Honest, PendOld
  <2>2. CASE Shrink
    <3>1. db[g] # NoRow => db[g] \in Row
      BY <1>t, <2>1
    <3>2. db[g] # NoRow /\ db'[g] \in {db[g], [db[g] EXCEPT !.miss = 1]}
      BY <2>1, <2>2 DEF Shrink, Live
    <3> QED
      BY <2>1, <3>1, <3>2 DEF Row
  <2>3. CASE Insertion
    <3>1. PICK n \in Fresh : db' = Insert(n)
      BY <2>3 DEF Insertion
    <3>2. n # g
      BY DEF Fresh
    <3>3. db'[g] = db[g]
      BY <1>t, <2>1, <3>1, <3>2 DEF Insert
    <3> QED
      BY <2>1, <3>3
  <2> QED
    BY <2>2, <2>3, RowsStep DEF Whole
<1>3. Backed(m, db', rev', Listed')
  <2> SUFFICES ASSUME NEW d \in Listed', Chunks(m[d]) # {}, m[d].rev = rev'[d]
               PROVE  Visible(db', d, rev'[d])
    BY DEF Backed
  <2>1. d \in Docs
    BY TypeStep DEF Listed, Whole, TypeOK, SourceType
  <2>2. m[d] # NoEntry
    BY DEF Chunks
  <2>3. rev'[d] = rev[d] /\ m[d].rev = rev[d]
    BY <1>e, <1>t, <2>1, <2>2
  <2>4. d \in Listed
    BY <1>t, <2>1, <2>3, FilesStep DEF Whole, ClaimsKept
  <2>5. Visible(db, d, rev[d])
    BY <2>3, <2>4 DEF ClaimsKept, Honest, Backed
  <2> QED
    BY <2>2, <2>3, <2>4, <2>5, VisibleStays
<1> QED
  BY <1>1, <1>2, <1>3 DEF Honest

\* A state that claims no more than a true one is true.
LEMMA HonestLess ==
    ASSUME NEW m, NEW n, NEW t, NEW rv, NEW there \in SUBSET Docs, Honest(n, t, rv, there),
           \A d \in Docs : \/ m[d] = NoEntry
                           \/ /\ n[d] # NoEntry /\ m[d].rev = n[d].rev
                              /\ Chunks(m[d]) \subseteq Chunks(n[d]) /\ Pend(m[d]) \subseteq Pend(n[d])
    PROVE  Honest(m, t, rv, there)
<1>1. NotAhead(m, rv)
  BY DEF Honest, NotAhead
<1>2. PendOld(m, t)
  BY DEF Honest, PendOld, Pend
<1>3. Backed(m, t, rv, there)
  BY DEF Honest, Backed, Chunks
<1> QED
  BY <1>1, <1>2, <1>3 DEF Honest

\* An invalidated or a recovered entry matches no revision.
LEMMA HonestLoaded ==
    ASSUME Whole, NEW m \in [Docs -> Entry \cup {NoEntry}], NEW t, NEW there \in SUBSET Docs, Honest(m, t, rev, there)
    PROVE  Honest(NoState, t, rev, there) /\ Honest(Repaired(m), t, rev, there) /\ Honest(Recovered(m), t, rev, there)
<1>r. rev \in [Docs -> Nat] /\ \A d \in Docs : rev[d] # 0 /\ 0 <= rev[d]
  BY ConstantsAssumption DEF Whole, TypeOK, SourceType, Revs
<1>1. Honest(NoState, t, rev, there)
  BY DEF NoState, Honest, NotAhead, PendOld, Backed, Chunks, Pend
<1>2. ASSUME NEW n, \A d \in Docs : n[d] = m[d] \/ (n[d].rev = 0 /\ Pend(n[d]) = {})
      PROVE  Honest(n, t, rev, there)
  <2>1. NotAhead(n, rev)
    BY <1>2, <1>r DEF Honest, NotAhead
  <2>2. PendOld(n, t)
    BY <1>2 DEF Honest, PendOld
  <2>3. Backed(n, t, rev, there)
    BY <1>2, <1>r DEF Honest, Backed
  <2> QED
    BY <2>1, <2>2, <2>3 DEF Honest
<1>3. \A d \in Docs : Repaired(m)[d] = m[d] \/ (Repaired(m)[d].rev = 0 /\ Pend(Repaired(m)[d]) = {})
  BY DEF Repaired, Invalidated, Pend
<1>4. \A d \in Docs : Recovered(m)[d] = m[d] \/ (Recovered(m)[d].rev = 0 /\ Pend(Recovered(m)[d]) = {})
  BY DEF Recovered, Pend
<1> QED
  BY <1>1, <1>2, <1>3, <1>4

\* state[path] = entry, where the entry claims nothing, or rows that are there.
LEMMA HonestReplace ==
    ASSUME TypeOK, NEW c \in Docs, NEW r \in 0..MaxRev, NEW ids \in SUBSET Gens, NEW doomed \in SUBSET Gens,
           NEW t, NEW rv, NEW there \in SUBSET Docs, Honest(mem, t, rv, there),
           Replace(c, [rev |-> r, chunks |-> ids, pend |-> {}], doomed),
           r <= rv[c], ids # {} /\ r = rv[c] => Visible(t, c, r),
           \A g \in doomed : t[g] # NoRow => t[g].miss = 1 \/ t[g].rev < r
    PROVE  Honest(mem', t, rv, there)
<1>1. PICK pend \in {{}, doomed} : mem' = [mem EXCEPT ![c] = [rev |-> r, chunks |-> ids, pend |-> pend]]
  <2>1. [[rev |-> r, chunks |-> ids, pend |-> {}] EXCEPT !.pend = doomed] = [rev |-> r, chunks |-> ids, pend |-> doomed]
    OBVIOUS
  <2> QED
    BY <2>1 DEF Replace
<1>2. [rev |-> r, chunks |-> ids, pend |-> pend] # NoEntry
  <2>1. pend \in SUBSET Gens
    OBVIOUS
  <2> QED
    BY <2>1, EntryTyped, ConstantsAssumption
<1>3. mem'[c].rev = r /\ Chunks(mem'[c]) = ids /\ Pend(mem'[c]) = pend /\ pend \subseteq doomed
  BY <1>1, <1>2 DEF Chunks, Pend, TypeOK, MemoryType
<1>4. \A e \in Docs : e # c => mem'[e] = mem[e]
  BY <1>1 DEF TypeOK, MemoryType
<1>5. NotAhead(mem', rv)
  BY <1>3, <1>4 DEF Honest, NotAhead
<1>6. PendOld(mem', t)
  <2> SUFFICES ASSUME NEW d \in Docs, NEW g \in Pend(mem'[d]), t[g] # NoRow
               PROVE  t[g].miss = 1 \/ t[g].rev < mem'[d].rev
    BY DEF PendOld
  <2>1. CASE d = c
    BY <1>3, <2>1
  <2>2. CASE d # c
    BY <1>4, <2>2 DEF Honest, PendOld
  <2> QED
    BY <2>1, <2>2
<1>7. Backed(mem', t, rv, there)
  <2> SUFFICES ASSUME NEW d \in there, Chunks(mem'[d]) # {}, mem'[d].rev = rv[d]
               PROVE  Visible(t, d, rv[d])
    BY DEF Backed
  <2>1. CASE d = c
    BY <1>3, <2>1
  <2>2. CASE d # c
    BY <1>4, <2>2 DEF Honest, Backed
  <2> QED
    BY <2>1, <2>2
<1> QED
  BY <1>5, <1>6, <1>7 DEF Honest

LEMMA OrphStep ==
    ASSUME ForGood, Whole, ClaimsKept, [Next]_vars
    PROVE  OrphGone'
<1> USE DEF source, durable, flags, memory, loop, sweep
<1>t. /\ mem \in [Docs -> Entry \cup {NoEntry}] /\ disk \in [Docs -> Entry \cup {NoEntry}]
      /\ rev \in [Docs -> Nat] /\ rev' \in [Docs -> Nat] /\ \A d \in Docs : rev[d] <= rev'[d]
      /\ orph \subseteq Docs /\ up = Folders
  BY RevGrows, ConstantsAssumption
     DEF Whole, TypeOK, MemoryType, DurableType, SourceType, SweepType, Revs, ClaimsKept
<1>e. \A d \in Docs : \A m \in {mem, disk} : m[d] # NoEntry => m[d].rev \in Nat /\ m[d].rev <= rev[d]
  BY <1>t, ConstantsAssumption DEF ClaimsKept, Honest, NotAhead, Entry
<1>1. pc' \notin {"orphans", "delete", "final", "lastUnlink"} => orph' = {}
  BY DEF ClaimsKept, OrphGone, Next, Environment, Failure, Worker, vars, CycleLocals, EndCycle, SourceChange,
     Restore, Exclude, Unexclude, BeginSingle, Unmount, Mount, Crash, CrashAndRecreate,
     BeginFails, SkipTask, AdoptFails, IndexFile, IndexFileFails, Cancel, CleanupRaises, BeginCycle,
     RetryPending, Scan, Take, Adopt, SourceMoved, Extract, Record, RecordFails,
     BatchFlush, Unlink, Drain, FinalFlush, RootGuard, FindOrphans, WeighOrphans, DeleteOrphan,
     CleanupDone, ExcludeRows, ExcludeState
<1>2. ASSUME NEW d \in orph', d \in present', NEW m \in {mem', disk'}, m[d] # NoEntry
      PROVE  m[d].rev < rev'[d]
  <2>1. CASE d \notin orph
    <3>1. \E c \in Docs : FindOrphans(c)
      BY <1>2, <2>1 DEF Next, Environment, Failure, Worker, vars, CycleLocals, EndCycle, SourceChange,
         Restore, Exclude, Unexclude, BeginSingle, Unmount, Mount, Crash, CrashAndRecreate,
         BeginFails, SkipTask, AdoptFails, IndexFile, IndexFileFails, Cancel, CleanupRaises, BeginCycle,
         RetryPending, Scan, Take, Adopt, SourceMoved, Extract, Record, RecordFails,
         BatchFlush, Unlink, Drain, FinalFlush, RootGuard, WeighOrphans, DeleteOrphan,
         CleanupDone, ExcludeRows, ExcludeState
    <3>2. d \in Docs /\ ~Exists(d) /\ present' = present
      BY <1>2, <2>1, <3>1 DEF FindOrphans
    <3>3. Root[d] \in Folders
      BY <3>2, ConstantsAssumption
    <3> QED
      BY <1>2, <1>t, <3>2, <3>3 DEF Exists
  <2>2. CASE d \in orph
    <3>2. d \in orph /\ d \in Docs /\ pc \in {"orphans", "delete", "final", "lastUnlink"}
      BY <1>2, <1>t, <2>2 DEF ClaimsKept, OrphGone
    <3>3. d \in present \/ rev[d] < rev'[d]
      BY <1>2, FilesStep DEF Whole, ClaimsKept
    \* The entries there were are older than the file is now.
    <3>4. ASSUME NEW n \in {mem, disk}, n[d] # NoEntry PROVE n[d].rev < rev'[d]
      <4>1. n[d].rev \in Nat /\ n[d].rev <= rev[d]
        BY <1>e, <3>2, <3>4
      <4>2. d \in present => n[d].rev < rev[d]
        BY <3>2, <3>4 DEF ClaimsKept, OrphGone
      <4> QED
        BY <1>t, <3>2, <3>3, <4>1, <4>2
    \* No entry is made here.
    <3>5. ASSUME NEW c \in Docs, DeleteOrphan(c)
          PROVE  mem'[d] = NoEntry \/ (mem[d] # NoEntry /\ mem'[d].rev = mem[d].rev)
      <4>1. CASE mem' = mem \/ mem' = [mem EXCEPT ![c] = NoEntry]
        BY <1>t, <3>2, <4>1
      <4>2. CASE mem[c] \in Entry /\ mem' = [mem EXCEPT ![c].chunks = FirstMiss(Chunks(mem[c]))]
        BY <1>t, <3>2, <4>2, ConstantsAssumption DEF Entry
      <4> QED
        BY <3>5, <4>1, <4>2, OrphanEntry DEF Whole, TypeOK
    <3>6. ASSUME ~\E c \in Docs : DeleteOrphan(c) PROVE mem' \in {mem, NoState}
      BY <3>2, <3>6 DEF Next, Environment, Failure, Worker, vars, CycleLocals, EndCycle, SourceChange,
         Restore, Exclude, Unexclude, BeginSingle, Unmount, Mount, Crash, CrashAndRecreate,
         BeginFails, SkipTask, AdoptFails, IndexFile, IndexFileFails, Cancel, CleanupRaises, BeginCycle,
         RetryPending, Scan, Take, Adopt, SourceMoved, Extract, Record, RecordFails,
         BatchFlush, Unlink, Drain, FinalFlush, RootGuard, FindOrphans, WeighOrphans,
         CleanupDone, ExcludeRows, ExcludeState
    <3>7. disk' \in {disk, mem}
      BY <3>2 DEF Next, Environment, Failure, Worker, vars, CycleLocals, EndCycle, SourceChange,
         Restore, Exclude, Unexclude, BeginSingle, Unmount, Mount, Crash, CrashAndRecreate,
         BeginFails, SkipTask, AdoptFails, IndexFile, IndexFileFails, Cancel, CleanupRaises, BeginCycle,
         RetryPending, Scan, Take, Adopt, SourceMoved, Extract, Record, RecordFails,
         BatchFlush, Save, Unlink, Drain, FinalFlush, RootGuard, FindOrphans, WeighOrphans, DeleteOrphan,
         CleanupDone, ExcludeRows, ExcludeState
    <3>8. NoState[d] = NoEntry
      BY <3>2 DEF NoState
    <3>9. mem'[d] # NoEntry => mem[d] # NoEntry /\ mem'[d].rev = mem[d].rev
      BY <3>5, <3>6, <3>8
    <3> QED
      BY <1>2, <3>4, <3>7, <3>9
  <2> QED
    BY <2>1, <2>2
<1> QED
  BY <1>1, <1>2 DEF OrphGone

\* Adopting or recording a generation makes a claim that is true.
LEMMA HonestKept ==
    ASSUME ForGood, Whole, ClaimsKept, [Next]_vars, Adopt \/ Record
    PROVE  Honest(mem', db', rev', Listed')
<1> DEFINE d == task.doc
           keep == Winner(Complete(d, task.rev))
           ids == IF Adopt THEN {keep} ELSE task.gens
           old == RowsOf(d) \cup Chunks(mem[d]) \cup Pend(mem[d])
<1>t. /\ mem \in [Docs -> Entry \cup {NoEntry}] /\ db \in [Gens -> Row \cup {NoRow}]
      /\ d \in Docs /\ task \in Task /\ task.rev \in Revs /\ pc \in InHand
      /\ rev \in [Docs -> Nat] /\ task.rev \in 0..MaxRev /\ task.rev \in Nat
      /\ UNCHANGED <<rev, present, excluded>> /\ Listed' \in SUBSET Docs
  BY ConstantsAssumption DEF Whole, TypeOK, MemoryType, TableType, SourceType, TaskType, Task, Revs,
     InHand, Adopt, Record, source, Listed
<1>h. Honest(mem, db', rev', Listed')
  BY HonestWorld
<1>o. task.rev <= rev[d] /\ \A g \in RowsOf(d) : db[g].rev <= task.rev
  BY <1>t DEF Whole, Ordered, Newest
\* The generation that is kept is a whole, visible one of the task's revision.
<1>k. ids \in SUBSET Gens /\ \A g \in ids : g \in Complete(d, task.rev) /\ db'[g] = db[g]
  <2>1. CASE Adopt
    <3>1. Complete(d, task.rev) # {}
      BY <2>1 DEF Adopt, Whole, KeptExists
    <3>2. keep \in Complete(d, task.rev)
      BY <3>1 DEF Winner
    <3>3. keep \in Gens
      BY <3>2, RowsTyped
    <3>4. db'[keep] = db[keep]
      BY <2>1, <3>3 DEF Adopt, Replace, Without
    <3> QED
      BY <2>1, <3>2, <3>3, <3>4
  <2>2. CASE ~Adopt /\ Record
    <3> SUFFICES ASSUME NEW g \in task.gens
                 PROVE  g \in Gens /\ g \in Complete(d, task.rev) /\ db'[g] = db[g]
      BY <2>2
    <3>1. /\ task.gens = {g} /\ g \in Gens /\ db[g] = [doc |-> d, rev |-> task.rev, miss |-> 0]
          /\ \A e \in Docs : g \notin Ids(mem, e)
      BY <2>2 DEF Record, Whole, IdsKept, Added
    <3>2. [doc |-> d, rev |-> task.rev, miss |-> 0] \in Row
      BY <1>t DEF Row
    <3>3. g \in Complete(d, task.rev)
      BY <3>1, <3>2, ConstantsAssumption DEF Complete, Active, RowsOf, Live
    <3>4. db'[g] = db[g]
      BY <1>t, <2>2, <3>1 DEF Record, Replace, Without, Ids
    <3> QED
      BY <3>1, <3>3, <3>4
  <2> QED
    BY <2>1, <2>2
<1>s. \A g, h \in Complete(d, task.rev) : g = h
  BY <1>t DEF Whole, SingleGeneration
\* It is the only one.
<1>u. ASSUME NEW g \in Complete(d, task.rev) PROVE g \in ids
  <2>1. task.rev \notin BlankRevs
    BY <1>u DEF Whole, Ordered, Newest, Complete, Active, RowsOf
  <2>2. ids # {}
    BY <1>u, <2>1 DEF Record, Whole, IdsKept, Added
  <2> QED
    BY <1>k, <1>s, <1>u, <2>2
<1>1. PICK doomed \in SUBSET Gens :
         /\ Replace(d, [rev |-> task.rev, chunks |-> ids, pend |-> {}], doomed)
         /\ doomed \subseteq old
         /\ ids \cap doomed = {}
  <2>1. CASE Adopt
    <3> DEFINE doomed == old \ {keep}
    <3>1. Replace(d, [rev |-> task.rev, chunks |-> {keep}, pend |-> {}], doomed)
      BY <2>1 DEF Adopt
    <3>2. doomed \in SUBSET Gens
      BY <1>t, RowsTyped, IdsTyped
    <3> HIDE DEF keep, old
    <3> QED
      BY <2>1, <3>1, <3>2
  <2>2. CASE ~Adopt /\ Record
    <3> DEFINE doomed == Pend(mem[d]) \cup Chunks(mem[d]) \cup (RowsOf(d) \ task.gens)
    <3>1. Replace(d, [rev |-> task.rev, chunks |-> task.gens, pend |-> {}], doomed)
      BY <2>2 DEF Record
    <3>2. doomed \in SUBSET Gens /\ doomed \subseteq old
      BY <1>t, RowsTyped, IdsTyped
    <3>3. task.gens \cap doomed = {}
      BY <1>t, <2>2 DEF Record, Whole, IdsKept, Added, Ids
    <3> HIDE DEF doomed, old
    <3> QED
      BY <2>2, <3>1, <3>2, <3>3
  <2> QED
    BY <2>1, <2>2
<1>2. ids # {} => Visible(db', d, task.rev)
  BY <1>k DEF Visible, Complete, Active, RowsOf, Live
\* What is left of the old rows is older.
<1>3. ASSUME NEW g \in doomed, db'[g] # NoRow PROVE db'[g].miss = 1 \/ db'[g].rev < task.rev
  <2>1. db' = db
    BY <1>1, <1>3 DEF Replace, Without
  <2>2. g \in RowsOf(d) /\ db[g] \in Row
    BY <1>1, <1>3, <1>t, <2>1 DEF Whole, IdsKept, Good, OwnedIn, Ids, RowsOf, Live
  <2>3. db[g].rev <= task.rev /\ db[g].rev \in Nat /\ db[g].miss \in {0, 1}
    BY <1>o, <2>2, ConstantsAssumption DEF Row, Revs
  <2>4. ASSUME db[g].miss = 0, db[g].rev = task.rev PROVE FALSE
    <3>1. g \in Complete(d, task.rev)
      BY <2>2, <2>4 DEF Complete, Active
    <3> QED
      BY <1>1, <1>3, <1>u, <3>1
  <2> QED
    BY <1>t, <2>1, <2>3, <2>4
<1> HIDE DEF ids, old, d
<1> QED
  BY <1>t, <1>h, <1>k, <1>o, <1>1, <1>2, <1>3, HonestReplace DEF Whole

\* The claims of both states are inductive, for files that never come back as they were.
LEMMA ClaimsStep ==
    ASSUME ForGood, Whole, ClaimsKept, [Next]_vars
    PROVE  ClaimsKept'
<1> USE DEF source, durable, flags, memory, loop, sweep
<1>t. /\ mem \in [Docs -> Entry \cup {NoEntry}] /\ disk \in [Docs -> Entry \cup {NoEntry}]
      /\ Listed' \in SUBSET Docs
  BY WholeStep DEF Whole, TypeOK, MemoryType, DurableType, SourceType, Listed
<1>w. Honest(mem, db', rev', Listed') /\ Honest(disk, db', rev', Listed')
  BY HonestWorld
<1>n. Honest(NoState, db', rev', Listed')
  BY <1>t, <1>w, HonestLess DEF NoState
<1>f. OrphGone' /\ ExcludedTask' /\ up' = Folders
  BY OrphStep, FilesStep DEF Whole, ClaimsKept
\* The state file takes the state in memory, or loses the entry of an excluded path.
<1>d. Honest(disk', db', rev', Listed')
  <2>1. CASE ExcludeState
    <3>1. disk' = disk \/ disk' = [disk EXCEPT ![task.doc] = NoEntry]
      BY <2>1 DEF ExcludeState
    <3>2. \A d \in Docs : disk'[d] = disk[d] \/ disk'[d] = NoEntry
      BY <1>t, <3>1
    <3>3. \A d \in Docs : \/ disk'[d] = NoEntry
                          \/ /\ disk[d] # NoEntry /\ disk'[d].rev = disk[d].rev
                             /\ Chunks(disk'[d]) \subseteq Chunks(disk[d]) /\ Pend(disk'[d]) \subseteq Pend(disk[d])
      BY <3>2
    <3> QED
      BY <1>t, <1>w, <3>3, HonestLess
  <2>2. ~ExcludeState => disk' \in {disk, mem}
    BY DEF Next, Environment, Failure, Worker, vars, CycleLocals, EndCycle, SourceChange,
       Restore, Exclude, Unexclude, BeginSingle, Unmount, Mount, Crash, CrashAndRecreate,
       BeginFails, SkipTask, AdoptFails, IndexFile, IndexFileFails, Cancel, CleanupRaises, BeginCycle,
       RetryPending, Scan, Take, Adopt, SourceMoved, Extract, Record, RecordFails,
       BatchFlush, Save, Unlink, Drain, FinalFlush, RootGuard, FindOrphans, WeighOrphans, DeleteOrphan,
       CleanupDone, ExcludeRows
  <2> QED
    BY <1>w, <2>1, <2>2
<1>1. CASE BeginCycle \/ BeginFails
  <2>1. PICK m \in {disk, NoState} : mem' = Repaired(m) \/ mem' = Recovered(Repaired(m))
    BY <1>1 DEF BeginCycle, BeginFails
  <2>2. m \in [Docs -> Entry \cup {NoEntry}] /\ Honest(m, db', rev', Listed') /\ rev' = rev
    BY <1>1, <1>n, <1>t, <1>w, LoadedTyped DEF BeginCycle, BeginFails
  <2>3. Repaired(m) \in [Docs -> Entry \cup {NoEntry}] /\ Honest(Repaired(m), db', rev, Listed')
    BY <1>t, <2>2, HonestLoaded, LoadedTyped
  <2>4. Honest(Recovered(Repaired(m)), db', rev, Listed')
    BY <1>t, <2>3, HonestLoaded
  <2> QED
    BY <1>d, <1>f, <2>1, <2>2, <2>3, <2>4 DEF ClaimsKept
<1>2. CASE RetryPending
  <2> DEFINE due == {d \in Docs : Pend(mem[d]) # {} /\ target \in {AllDocs, d}}
  <2>1. PICK done \in SUBSET due :
            mem' = [d \in Docs |-> IF d \in done THEN [mem[d] EXCEPT !.pend = {}] ELSE mem[d]]
    BY <1>2 DEF RetryPending
  <2>2. ASSUME NEW d \in Docs, mem'[d] # NoEntry
        PROVE  /\ mem[d] # NoEntry /\ mem'[d].rev = mem[d].rev
               /\ Chunks(mem'[d]) \subseteq Chunks(mem[d]) /\ Pend(mem'[d]) \subseteq Pend(mem[d])
    <3>1. mem'[d] = IF d \in done THEN [mem[d] EXCEPT !.pend = {}] ELSE mem[d]
      BY <2>1
    <3>2. CASE d \in done
      <4>1. mem[d] \in Entry /\ mem[d] # NoEntry
        BY <1>t, <3>2 DEF Pend
      <4>2. mem'[d].rev = mem[d].rev /\ mem'[d].chunks = mem[d].chunks /\ mem'[d].pend = {}
        BY <3>1, <3>2, <4>1 DEF Entry
      <4> QED
        BY <2>2, <4>1, <4>2 DEF Chunks, Pend
    <3> QED
      BY <2>2, <3>1, <3>2
  <2> QED
    BY <1>d, <1>f, <1>t, <1>w, <2>2, HonestLess DEF ClaimsKept
<1>3. ASSUME NEW c \in Docs, DeleteOrphan(c) PROVE ClaimsKept'
  <2> DEFINE left == FirstMiss(Chunks(mem[c]))
  <2>1. ASSUME NEW d \in Docs, mem'[d] # NoEntry
        PROVE  /\ mem[d] # NoEntry /\ mem'[d].rev = mem[d].rev
               /\ Chunks(mem'[d]) \subseteq Chunks(mem[d]) /\ Pend(mem'[d]) \subseteq Pend(mem[d])
    <3>1. CASE mem' = mem \/ mem' = [mem EXCEPT ![c] = NoEntry]
      BY <1>t, <2>1, <3>1
    <3>2. CASE mem[c] \in Entry /\ mem' = [mem EXCEPT ![c].chunks = left]
      <4>1. left \subseteq Chunks(mem[c])
        BY DEF FirstMiss
      <4> HIDE DEF left
      <4>2. mem'[c].chunks = left /\ mem'[c].pend = mem[c].pend /\ mem'[c].rev = mem[c].rev /\ mem[c] # NoEntry
        BY <1>t, <3>2, ConstantsAssumption DEF Entry
      <4>3. d # c => mem'[d] = mem[d]
        BY <1>t, <3>2
      <4> QED
        BY <2>1, <4>1, <4>2, <4>3 DEF Chunks, Pend
    <3> QED
      BY <1>3, <3>1, <3>2, OrphanEntry DEF Whole, TypeOK
  <2> QED
    BY <1>d, <1>f, <1>t, <1>w, <2>1, HonestLess DEF ClaimsKept
<1>4. CASE Adopt \/ Record
  BY <1>4, <1>d, <1>f, HonestKept DEF ClaimsKept
<1>5. ASSUME ~(BeginCycle \/ BeginFails \/ RetryPending \/ Adopt \/ Record), ~\E c \in Docs : DeleteOrphan(c)
      PROVE  mem' \in {mem, disk, NoState}
  BY <1>5 DEF Next, Environment, Failure, Worker, vars, CycleLocals, EndCycle, SourceChange,
     Restore, Exclude, Unexclude, BeginSingle, Unmount, Mount, Crash, CrashAndRecreate,
     SkipTask, AdoptFails, IndexFile, IndexFileFails, Cancel, CleanupRaises,
     Scan, Take, SourceMoved, Extract, RecordFails,
     BatchFlush, Unlink, Drain, FinalFlush, RootGuard, FindOrphans, WeighOrphans, CleanupDone, ExcludeRows, ExcludeState
<1> QED
  BY <1>d, <1>f, <1>n, <1>w, <1>1, <1>2, <1>3, <1>4, <1>5 DEF ClaimsKept

LEMMA ClaimsInit == Init => ClaimsKept
<1> SUFFICES ASSUME Init PROVE ClaimsKept
  OBVIOUS
<1>1. mem = NoState /\ disk = NoState /\ orph = {} /\ pc = "idle" /\ up = Folders
  BY DEF Init
<1>2. Honest(NoState, db, rev, Listed)
  BY DEF Honest, NotAhead, PendOld, Backed, NoState, Chunks, Pend, Listed, Init
<1> QED
  BY <1>1, <1>2 DEF ClaimsKept, OrphGone, ExcludedTask

\* What the state file claims of a listed document's present revision is in the table,
\* whole and visible, through any crash, failed write, failed deletion or lost state
\* file, in any number: a scan that passes the document over as unchanged leaves it
\* searchable.  The table is not lost, no root goes out of reach, and no document comes
\* back as it was.
THEOREM ClaimedIsSearchable ==
    ASSUME ForGood
    PROVE  Spec => []UnchangedIsSearchable
<1> DEFINE Inv == Whole /\ ClaimsKept
<1>1. Init => Inv
  BY WholeInit, ClaimsInit
<1>2. Inv /\ [Next]_vars => Inv'
  BY WholeStep, ClaimsStep
<1>3. Inv => UnchangedIsSearchable
  BY DEF ClaimsKept, Honest, Backed, Listed, UnchangedIsSearchable, Visible, Complete, Active, RowsOf, Live
<1> QED
  BY <1>1, <1>2, <1>3, PTL DEF Spec

-----------------------------------------------------------------------------
(* Document indexing implements DocCorpus, as long as deletions succeed and  *)
(* no table is lost: with a deletion that fails, what a search finds can go  *)
(* back to an older revision.                                                *)

\* A set of naturals that is not empty has a least element.
LEMMA Least ==
    ASSUME NEW T \in SUBSET Nat, T # {}
    PROVE  \E x \in T : \A y \in T : x <= y
<1>1. PICK x \in T : \A y \in T : ~(<<y, x>> \in OpToRel(<, Nat))
  BY NatLessThanWellFounded, WFMin
<1>2. \A y \in T : ~(y < x)
  BY <1>1 DEF OpToRel
<1> QED
  BY <1>2

\* A bounded one has a greatest element.
LEMMA Greatest ==
    ASSUME NEW N \in Nat, NEW T \in SUBSET (0..N), T # {}
    PROVE  \E x \in T : \A y \in T : y <= x
<1> DEFINE U == {N - x : x \in T}
<1>1. U \in SUBSET Nat /\ U # {}
  <2>1. \A x \in T : N - x \in Nat
    OBVIOUS
  <2>2. PICK x \in T : TRUE
    OBVIOUS
  <2>3. N - x \in U
    OBVIOUS
  <2> QED
    BY <2>1, <2>3
<1>2. PICK u \in U : \A v \in U : u <= v
  BY <1>1, Least
<1>3. PICK x \in T : u = N - x
  BY <1>2
<1>4. \A y \in T : N - x <= N - y
  BY <1>2, <1>3
<1> QED
  BY <1>3, <1>4

\* Active and ShownRev of a table t.
ActiveIn(t, d) == {g \in {h \in {n \in Gens : t[n] # NoRow} : t[h].doc = d} : t[g].miss = 0}
ShownIn(t, d) == IF ActiveIn(t, d) = {} THEN 0
                 ELSE CHOOSE r \in Revs : /\ \E g \in ActiveIn(t, d) : t[g].rev = r
                                          /\ \A g \in ActiveIn(t, d) : t[g].rev <= r

LEMMA ShownHere ==
    ASSUME NEW d
    PROVE  /\ Active(d) = ActiveIn(db, d) /\ Active(d)' = ActiveIn(db', d)
           /\ ShownRev(d) = ShownIn(db, d) /\ ShownRev(d)' = ShownIn(db', d)
<1>1. Active(d) = ActiveIn(db, d) /\ Active(d)' = ActiveIn(db', d)
  BY DEF Active, RowsOf, Live, ActiveIn
<1>2. ShownRev(d) = ShownIn(db, d) /\ ShownRev(d)' = ShownIn(db', d)
  BY DEF ShownRev, ShownIn, Active, RowsOf, Live, ActiveIn
<1> QED
  BY <1>1, <1>2

\* What a search finds is the greatest visible revision.
LEMMA ShownMax ==
    ASSUME NEW t \in [Gens -> Row \cup {NoRow}], NEW d, ActiveIn(t, d) # {}
    PROVE  /\ ShownIn(t, d) \in Revs
           /\ \E g \in ActiveIn(t, d) : t[g].rev = ShownIn(t, d)
           /\ \A g \in ActiveIn(t, d) : t[g].rev <= ShownIn(t, d)
<1> DEFINE P(r) == /\ \E g \in ActiveIn(t, d) : t[g].rev = r
                   /\ \A g \in ActiveIn(t, d) : t[g].rev <= r
           T == {t[g].rev : g \in ActiveIn(t, d)}
<1>1. \A g \in ActiveIn(t, d) : t[g].rev \in Revs
  BY DEF ActiveIn, Row
<1>2. T \in SUBSET (0..MaxRev) /\ T # {} /\ MaxRev \in Nat
  BY <1>1, ConstantsAssumption DEF Revs
<1> HIDE DEF T
<1>3. PICK r \in T : \A y \in T : y <= r
  BY <1>2, Greatest
<1>4. r \in Revs /\ P(r)
  BY <1>1, <1>3 DEF T
<1> HIDE DEF P
<1>5. (CHOOSE s \in Revs : P(s)) \in Revs /\ P(CHOOSE s \in Revs : P(s))
  BY <1>4
<1>6. ShownIn(t, d) = CHOOSE s \in Revs : P(s)
  BY DEF ShownIn, P
<1>7. ShownIn(t, d) \in Revs /\ P(ShownIn(t, d))
  BY <1>5, <1>6
<1> QED
  BY <1>7 DEF P

LEMMA ShownIs ==
    ASSUME NEW t \in [Gens -> Row \cup {NoRow}], NEW d, NEW r \in Revs,
           NEW g \in ActiveIn(t, d), t[g].rev = r, \A h \in ActiveIn(t, d) : t[h].rev <= r
    PROVE  ShownIn(t, d) = r
<1>1. ShownIn(t, d) \in Revs /\ r <= ShownIn(t, d) /\ ShownIn(t, d) <= r
  BY ShownMax
<1> QED
  BY <1>1, ConstantsAssumption DEF Revs

LEMMA Antisymmetry == \A m, n \in Nat : m <= n /\ n <= m => m = n
OBVIOUS

\* Rows that go or are hidden change nothing that is found if one as new stays visible.
LEMMA ShownSame ==
    ASSUME NEW t \in [Gens -> Row \cup {NoRow}], NEW u \in [Gens -> Row \cup {NoRow}], NEW d,
           \A g \in ActiveIn(u, d) : g \in ActiveIn(t, d) /\ u[g].rev = t[g].rev,
           \A h \in ActiveIn(t, d) : \E g \in ActiveIn(u, d) : t[h].rev <= t[g].rev
    PROVE  ShownIn(u, d) = ShownIn(t, d)
<1>1. CASE ActiveIn(t, d) = {}
  BY <1>1 DEF ShownIn
<1>2. CASE ActiveIn(t, d) # {}
  <2>1. PICK r \in Nat : r = ShownIn(t, d) /\ r \in Revs /\ \A g \in ActiveIn(t, d) : t[g].rev <= r
    BY <1>2, ShownMax, ConstantsAssumption DEF Revs
  <2>2. PICK h \in ActiveIn(t, d) : t[h].rev = r
    BY <1>2, <2>1, ShownMax
  <2>3. PICK g \in ActiveIn(u, d) : t[h].rev <= t[g].rev
    OBVIOUS
  <2>4. g \in ActiveIn(t, d) /\ u[g].rev = t[g].rev
    BY <2>3
  <2>5. u[g].rev = r
    <3>1. t[g].rev \in Nat
      BY <2>4, ConstantsAssumption DEF ActiveIn, Row, Revs
    <3>2. t[g].rev <= r /\ r <= t[g].rev
      BY <2>1, <2>2, <2>3, <2>4
    <3>3. t[g].rev = r
      BY <3>1, <3>2, Antisymmetry, Zenon
    <3> QED
      BY <2>4, <3>3
  <2>6. \A k \in ActiveIn(u, d) : u[k].rev <= r
    BY <2>1
  <2>7. ShownIn(u, d) = r
    BY <2>1, <2>5, <2>6, ShownIs
  <2> QED
    BY <2>1, <2>7
<1> QED
  BY <1>1, <1>2

\* A row that is visible after rows went or were hidden is as it was.
LEMMA StaysVisible ==
    ASSUME TypeOK, Shrink, NEW g \in Gens, db'[g] # NoRow, db'[g].miss = 0
    PROVE  db'[g] = db[g]
<1>1. ASSUME g \in Live, db'[g] = [db[g] EXCEPT !.miss = 1] PROVE FALSE
  <2>1. db[g] \in Row
    BY <1>1 DEF Live, TypeOK, TableType
  <2>2. [db[g] EXCEPT !.miss = 1].miss = 1
    BY <2>1 DEF Row
  <2> QED
    BY <1>1, <2>2
<1> QED
  BY <1>1 DEF Shrink

\* Of the visible rows of a path, those the state names are older than the others.
Behind(m, t) ==
    \A d \in Docs : \A g \in ActiveIn(t, d) \ Chunks(m[d]), h \in ActiveIn(t, d) \cap Chunks(m[d]) :
        t[h].rev < t[g].rev

NamedOlder == InCycle /\ pc \notin {"final", "lastUnlink"} => Behind(mem, db)

LEMMA OlderStep ==
    ASSUME "delete" \notin Faults, Whole, RowsAccounted, NamedOlder, [Next]_vars
    PROVE  NamedOlder'
<1> SUFFICES ASSUME InCycle', pc' \notin {"final", "lastUnlink"}, NEW d \in Docs,
                    NEW g \in ActiveIn(db', d) \ Chunks(mem'[d]), NEW h \in ActiveIn(db', d) \cap Chunks(mem'[d])
             PROVE  db'[h].rev < db'[g].rev
  BY DEF NamedOlder, Behind
<1> USE DEF source, durable, flags, memory, loop, sweep
<1>t. /\ mem \in [Docs -> Entry \cup {NoEntry}] /\ db \in [Gens -> Row \cup {NoRow}]
      /\ g \in Gens /\ h \in Gens /\ g # h
  BY DEF Whole, TypeOK, MemoryType, TableType, ActiveIn
<1>a. ASSUME InCycle, pc \notin {"final", "lastUnlink"}, Shrink, Chunks(mem'[d]) = Chunks(mem[d])
      PROVE  db'[h].rev < db'[g].rev
  <2>1. \A k \in ActiveIn(db', d) : db'[k] = db[k] /\ k \in ActiveIn(db, d)
    <3> SUFFICES ASSUME NEW k \in ActiveIn(db', d) PROVE db'[k] = db[k]
      BY DEF ActiveIn
    <3>1. k \in Gens /\ db'[k] # NoRow /\ db'[k].miss = 0
      BY DEF ActiveIn
    <3> QED
      BY <1>a, <3>1, StaysVisible DEF Whole
  <2> QED
    BY <1>a, <2>1 DEF NamedOlder, Behind
<1>b. ASSUME RowsOf(d)' \subseteq Chunks(mem'[d]) PROVE FALSE
  BY <1>b DEF RowsOf, Live, ActiveIn
<1>1. ASSUME BeginCycle \/ \E c \in Docs : BeginSingle(c) PROVE FALSE
  BY <1>1, <1>b, StartNames DEF Whole
<1>2. CASE RetryPending
  <2>1. Shrink
    BY <1>2, WithoutShrinks DEF RetryPending
  <2>2. Chunks(mem'[d]) = Chunks(mem[d])
    BY <1>2, <1>t DEF RetryPending, RowsAccounted, NothingPending, Chunks
  <2> QED
    BY <1>2, <1>a, <2>1, <2>2 DEF RetryPending, InCycle
<1>3. CASE Adopt \/ Record
  <2>1. d # task.doc
    <3>1. ASSUME Adopt, d = task.doc PROVE RowsOf(d)' \subseteq Chunks(mem'[d])
      <4> DEFINE keep == Winner(Complete(task.doc, task.rev))
      <4>1. task.doc \in Docs /\ task.rev \in 0..MaxRev
        BY <3>1, ConstantsAssumption DEF Adopt, Whole, TypeOK, TaskType, Task, Revs
      <4>2. {keep} \in SUBSET Gens
        BY <3>1, RowsTyped DEF Adopt, Winner, Whole, KeptExists
      <4> QED
        BY <3>1, <4>1, <4>2, ReplaceNames DEF Adopt, Whole
    <3>2. ASSUME Record, d = task.doc PROVE RowsOf(d)' \subseteq Chunks(mem'[d])
      <4>1. task.doc \in Docs /\ task.rev \in 0..MaxRev /\ task.gens \in SUBSET Gens
        BY <3>2, ConstantsAssumption DEF Record, Whole, TypeOK, TaskType, Task, Revs
      <4> QED
        BY <3>2, <4>1, ReplaceNames DEF Record, Whole
    <3> QED
      BY <1>3, <1>b, <3>1, <3>2
  <2>2. Shrink
    BY <1>3, WithoutShrinks, SameShrinks DEF Adopt, Record, Replace
  <2>3. mem'[d] = mem[d]
    BY <1>3, <1>t, <2>1 DEF Adopt, Record, Replace
  <2> QED
    BY <1>3, <1>a, <2>2, <2>3 DEF Adopt, Record, InCycle
<1>4. ASSUME NEW c \in Docs, DeleteOrphan(c) PROVE db'[h].rev < db'[g].rev
  <2>1. Shrink
    BY <1>4 DEF DeleteOrphan, Softened, FirstMiss, Shrink
  <2>2. CASE d # c
    <3>1. mem'[d] = mem[d]
      BY <1>4, <1>t, <2>2, OrphanEntry DEF Whole, TypeOK
    <3> QED
      BY <1>4, <1>a, <2>1, <3>1 DEF DeleteOrphan, InCycle
  <2>3. CASE d = c
    <3> DEFINE left == FirstMiss(Chunks(mem[c]))
    <3>1. h \in Chunks(mem[c])
      <4>1. CASE mem' = mem \/ mem' = [mem EXCEPT ![c] = NoEntry]
        BY <1>t, <2>3, <4>1 DEF Chunks
      <4>2. CASE mem[c] \in Entry /\ mem' = [mem EXCEPT ![c].chunks = left]
        <5>1. left \subseteq Chunks(mem[c])
          BY DEF FirstMiss
        <5> HIDE DEF left
        <5>2. mem'[c].chunks = left
          BY <1>t, <4>2 DEF Entry
        <5> QED
          BY <2>3, <5>1, <5>2 DEF Chunks
      <4> QED
        BY <1>4, <4>1, <4>2, OrphanEntry DEF Whole, TypeOK
    <3>2. db'[h] # NoRow /\ db'[h].miss = 0
      BY DEF ActiveIn
    <3>3. h \in Live /\ db[h] \in Row /\ db[h].miss = 0
      <4>1. db'[h] = db[h]
        BY <1>t, <2>1, <3>2, StaysVisible DEF Whole
      <4> QED
        BY <1>t, <3>2, <4>1 DEF Live
    <3>4. h \in left /\ h \notin SecondMiss(Chunks(mem[c]))
      BY <3>1, <3>3 DEF FirstMiss, SecondMiss
    <3>5. db'[h] = [db[h] EXCEPT !.miss = 1]
      BY <1>4, <1>t, <3>4 DEF DeleteOrphan, Softened
    <3> QED
      BY <3>2, <3>3, <3>5 DEF Row
  <2> QED
    BY <2>2, <2>3
<1>5. CASE IndexFile \/ IndexFileFails
  <2>1. mem' = mem /\ InCycle /\ pc = "add" /\ task \in Task
    BY <1>5 DEF IndexFile, IndexFileFails, InCycle, Whole, TypeOK, TaskType
  <2>2. CASE db' = db
    BY <1>a, <2>1, <2>2, SameShrinks
  <2>3. ASSUME NEW n \in Fresh, db' = Insert(n) PROVE db'[h].rev < db'[g].rev
    <3> DEFINE row == [doc |-> task.doc, rev |-> task.rev, miss |-> 0]
    <3>1. n \in Gens /\ n \notin Chunks(mem[d])
      BY DEF Fresh
    <3>2. h # n
      BY <2>1, <3>1
    <3>3. db'[n] = row /\ \A k \in Gens : k # n => db'[k] = db[k]
      BY <1>t, <2>3, <3>1 DEF Insert
    <3>4. row.doc = task.doc /\ row.rev = task.rev
      OBVIOUS
    <3> HIDE DEF row
    <3>5. h \in ActiveIn(db, d) /\ h \in Chunks(mem[d]) /\ db'[h] = db[h]
      BY <1>t, <2>1, <3>2, <3>3 DEF ActiveIn
    <3>6. CASE g = n
      <4>1. d = task.doc /\ db'[g].rev = task.rev
        BY <3>3, <3>4, <3>6 DEF ActiveIn
      <4>2. h \in RowsOf(task.doc) /\ h \in Active(task.doc) /\ db[h].rev \in Nat /\ task.rev \in Nat
        BY <1>t, <2>1, <3>5, <4>1, ConstantsAssumption DEF ActiveIn, Active, RowsOf, Live, Row, Task, Revs
      <4>3. db[h].rev <= task.rev
        BY <2>1, <4>2 DEF Whole, Ordered, Newest, InHand
      <4>4. db[h].rev # task.rev
        BY <2>1, <4>2 DEF Whole, SingleGeneration, Complete
      <4> QED
        BY <3>5, <4>1, <4>2, <4>3, <4>4
    <3>7. CASE g # n
      <4>1. g \in ActiveIn(db, d) /\ g \notin Chunks(mem[d]) /\ db'[g] = db[g]
        BY <1>t, <2>1, <3>3, <3>7 DEF ActiveIn
      <4> QED
        BY <2>1, <3>5, <4>1 DEF NamedOlder, Behind
    <3> QED
      BY <3>6, <3>7
  <2> QED
    BY <1>5, <2>2, <2>3 DEF IndexFile, IndexFileFails
<1>6. ASSUME ~(BeginCycle \/ RetryPending \/ Adopt \/ Record \/ IndexFile \/ IndexFileFails),
             ~\E c \in Docs : DeleteOrphan(c) \/ BeginSingle(c)
      PROVE  mem' = mem /\ db' = db /\ InCycle /\ pc \notin {"final", "lastUnlink"}
  BY <1>6 DEF InCycle, Next, Environment, Failure, Worker, vars, CycleLocals, EndCycle, SourceChange,
     Restore, Exclude, Unexclude, Unmount, Mount, Crash, CrashAndRecreate, BeginFails,
     SkipTask, AdoptFails, Cancel, CleanupRaises,
     Scan, Take, SourceMoved, Extract, RecordFails,
     BatchFlush, Unlink, Drain, FinalFlush, RootGuard, FindOrphans, WeighOrphans, CleanupDone, ExcludeRows, ExcludeState
<1> QED
  BY <1>a, <1>1, <1>2, <1>3, <1>4, <1>5, <1>6, SameShrinks

\* A table whose rows of a path are as they were shows the same of it.
LEMMA ShownKept ==
    ASSUME NEW t \in [Gens -> Row \cup {NoRow}], NEW u \in [Gens -> Row \cup {NoRow}], NEW d,
           \A g \in Gens : u[g] = t[g] \/ ((t[g] = NoRow \/ t[g].doc # d) /\ (u[g] = NoRow \/ u[g].doc # d))
    PROVE  ShownIn(u, d) = ShownIn(t, d)
<1>1. \A g \in ActiveIn(u, d) : g \in ActiveIn(t, d) /\ u[g].rev = t[g].rev
  BY DEF ActiveIn
<1>2. \A g \in ActiveIn(t, d) : g \in ActiveIn(u, d) /\ t[g].rev \in Nat
  BY ConstantsAssumption DEF ActiveIn, Row, Revs
<1>3. \A g \in ActiveIn(t, d) : \E h \in ActiveIn(u, d) : t[g].rev <= t[h].rev
  BY <1>2
<1> QED
  BY <1>1, <1>3, ShownSame

\* What each step does to the revisions a search finds: nothing, or one path is found
\* with a newer one, or is hidden because it was missing or excluded.
Shows(d, r) == ShownIn(db', d) = r /\ \A e \in Docs \ {d} : ShownIn(db', e) = ShownIn(db, e)
Published == \E d \in Docs, r \in Revs :
                 /\ ShownIn(db, d) < r /\ r <= rev[d] /\ Shows(d, IF r \in BlankRevs THEN 0 ELSE r)
                 /\ UNCHANGED <<rev, orph, excluded>>
Hidden == \E d \in (orph \cup excluded) \cap Docs : Shows(d, 0) /\ UNCHANGED <<rev, excluded>>

NoLoss == {"delete", "recreate"} \cap Faults = {}

\* What is found of a path is no newer than any revision all its rows are older than.
LEMMA ShownBelow ==
    ASSUME TypeOK, NEW d \in Docs, NEW r \in Revs, \A g \in ActiveIn(db, d) : db[g].rev < r
    PROVE  ShownIn(db, d) < r
<1>1. CASE ActiveIn(db, d) = {}
  BY <1>1, ConstantsAssumption DEF ShownIn, Revs
<1>2. CASE ActiveIn(db, d) # {}
  BY <1>2, ShownMax DEF TypeOK, TableType
<1> QED
  BY <1>1, <1>2

\* An added generation is newer than all there was.
LEMMA PublishedAdd ==
    ASSUME Whole, [Next]_vars, IndexFile \/ IndexFileFails, db' # db
    PROVE  Published
<1> USE DEF source, durable, flags, memory, loop, sweep
<1>t. /\ db \in [Gens -> Row \cup {NoRow}] /\ db' \in [Gens -> Row \cup {NoRow}]
      /\ pc = "add" /\ task \in Task /\ task.doc \in Docs /\ task.rev \in Revs
      /\ UNCHANGED <<rev, orph, excluded>>
  BY WholeStep DEF Whole, TypeOK, TableType, TaskType, Task, IndexFile, IndexFileFails
<1> DEFINE d == task.doc
           r == task.rev
           row == [doc |-> d, rev |-> r, miss |-> 0]
<1>1. PICK n \in Fresh : r \notin BlankRevs /\ db' = Insert(n)
  BY DEF IndexFile, IndexFileFails
<1>2. n \in Gens /\ db[n] = NoRow /\ db'[n] = row /\ \A g \in Gens : g # n => db'[g] = db[g]
  BY <1>1, <1>t DEF Insert, Fresh, Live
<1>3. row.doc = d /\ row.rev = r /\ row.miss = 0 /\ row # NoRow
  BY <1>t, <1>2, ConstantsAssumption DEF Row
<1> HIDE DEF row
<1>4. ASSUME NEW g \in ActiveIn(db, d) PROVE db[g].rev < r
  <2>1. g \in Active(d) /\ g \in RowsOf(d) /\ db[g].rev \in Nat /\ r \in Nat
    BY <1>t, ConstantsAssumption DEF ActiveIn, Active, RowsOf, Live, Row, Revs
  <2>2. db[g].rev <= r
    BY <1>t, <2>1 DEF Whole, Ordered, Newest, InHand
  <2>3. db[g].rev # r
    BY <1>t, <2>1 DEF Whole, SingleGeneration, Complete
  <2> QED
    BY <2>1, <2>2, <2>3
<1>5. ShownIn(db', d) = r
  <2>1. n \in ActiveIn(db', d) /\ db'[n].rev = r
    BY <1>2, <1>3 DEF ActiveIn
  <2>2. \A h \in ActiveIn(db', d) : h = n \/ (h \in ActiveIn(db, d) /\ db'[h] = db[h])
    BY <1>2 DEF ActiveIn
  <2>3. \A h \in ActiveIn(db', d) : db'[h].rev <= r
    <3> SUFFICES ASSUME NEW h \in ActiveIn(db', d) PROVE db'[h].rev <= r
      OBVIOUS
    <3>1. CASE h = n
      BY <1>t, <2>1, <3>1, ConstantsAssumption DEF Revs
    <3>2. CASE h # n
      <4>1. db'[h].rev < r /\ db'[h].rev \in Nat /\ r \in Nat
        BY <1>4, <1>t, <2>2, <3>2, ConstantsAssumption DEF ActiveIn, Row, Revs
      <4> QED
        BY <4>1
    <3> QED
      BY <3>1, <3>2
  <2> QED
    BY <1>t, <2>1, <2>3, ShownIs
<1>6. \A e \in Docs \ {d} : ShownIn(db', e) = ShownIn(db, e)
  BY <1>t, <1>2, <1>3, ShownKept
<1>7. ShownIn(db, d) < r
  BY <1>4, <1>t, ShownBelow DEF Whole
<1>8. r <= rev[d]
  BY <1>t DEF Whole, Ordered, Newest, InHand
<1> QED
  BY <1>t, <1>1, <1>5, <1>6, <1>7, <1>8 DEF Published, Shows

\* Adopting or recording drops the older rows, or all the rows of a text that became blank.
LEMMA PublishedKept ==
    ASSUME NoLoss, Whole, [Next]_vars, Adopt \/ Record
    PROVE  Published \/ \A d \in Docs : ShownIn(db', d) = ShownIn(db, d)
<1> USE DEF source, durable, flags, memory, loop, sweep
<1> DEFINE d == task.doc
           r == task.rev
           keep == Winner(Complete(d, r))
<1>t. /\ db \in [Gens -> Row \cup {NoRow}] /\ db' \in [Gens -> Row \cup {NoRow}]
      /\ mem \in [Docs -> Entry \cup {NoEntry}]
      /\ task \in Task /\ d \in Docs /\ r \in Revs /\ pc \in InHand
      /\ UNCHANGED <<rev, orph, excluded>>
  BY WholeStep DEF Whole, TypeOK, TableType, MemoryType, TaskType, Task, Adopt, Record, InHand
\* The rows of other paths stay, and of the path those that are kept.
<1>1. PICK ids, doomed :
         /\ db' = Without(doomed) /\ ids \cap doomed = {} /\ RowsOf(d) \ doomed \subseteq ids
         /\ doomed \subseteq RowsOf(d) \cup Ids(mem, d)
         /\ \/ ids = {keep} /\ keep \in Complete(d, r)
            \/ ids = {} /\ r \in BlankRevs
  <2>1. CASE Adopt
    <3> DEFINE doomed == (RowsOf(d) \cup Chunks(mem[d]) \cup Pend(mem[d])) \ {keep}
    <3>1. db' = Without(doomed)
      BY <2>1 DEF Adopt, Replace, Fault, NoLoss
    <3>2. keep \in Complete(d, r)
      BY <2>1 DEF Adopt, Whole, KeptExists, Winner
    <3>3. {keep} \cap doomed = {} /\ RowsOf(d) \ doomed \subseteq {keep} /\ doomed \subseteq RowsOf(d) \cup Ids(mem, d)
      BY DEF Ids
    <3> HIDE DEF keep, doomed
    <3> QED
      BY <3>1, <3>2, <3>3
  <2>2. CASE Record
    <3> DEFINE doomed == Pend(mem[d]) \cup Chunks(mem[d]) \cup (RowsOf(d) \ task.gens)
    <3>1. db' = Without(doomed)
      BY <2>2 DEF Record, Replace, Fault, NoLoss
    <3>2. RowsOf(d) \ doomed \subseteq task.gens /\ doomed \subseteq RowsOf(d) \cup Ids(mem, d)
      BY DEF Ids
    <3>3. CASE task.gens = {} /\ r \in BlankRevs
      BY <3>1, <3>2, <3>3
    <3>4. ASSUME NEW g \in Gens, task.gens = {g}, r \notin BlankRevs,
                 db[g] = [doc |-> d, rev |-> r, miss |-> 0], \A e \in Docs : g \notin Ids(mem, e)
          PROVE  task.gens = {keep} /\ keep \in Complete(d, r) /\ task.gens \cap doomed = {}
      <4>1. task.gens = {keep}
        BY <2>2, <3>4 DEF Record
      <4>2. [doc |-> d, rev |-> r, miss |-> 0] \in Row
        BY <1>t DEF Row
      <4>3. g \in Complete(d, r)
        BY <3>4, <4>2, ConstantsAssumption DEF Complete, Active, RowsOf, Live
      <4>4. g \notin doomed
        BY <1>t, <3>4 DEF Ids
      <4> HIDE DEF doomed, keep
      <4> QED
        BY <3>4, <4>1, <4>3, <4>4
    <3>5. \/ task.gens = {} /\ r \in BlankRevs
          \/ \E g \in Gens : /\ task.gens = {g} /\ r \notin BlankRevs
                             /\ db[g] = [doc |-> d, rev |-> r, miss |-> 0]
                             /\ \A e \in Docs : g \notin Ids(mem, e)
      BY <2>2 DEF Record, Whole, IdsKept, Added
    <3>6. \/ task.gens = {} /\ r \in BlankRevs
          \/ task.gens = {keep} /\ keep \in Complete(d, r) /\ task.gens \cap doomed = {}
      BY <3>4, <3>5
    <3> HIDE DEF doomed, keep
    <3> QED
      BY <3>1, <3>2, <3>6
  <2> QED
    BY <2>1, <2>2
<1>2. \A g \in Gens : db'[g] = IF g \in doomed THEN NoRow ELSE db[g]
  BY <1>1 DEF Without
<1>3. ASSUME NEW e \in Docs \ {d} PROVE ShownIn(db', e) = ShownIn(db, e)
  <2>1. \A g \in doomed : db[g] # NoRow => db[g].doc = d
    BY <1>1, <1>t DEF Whole, IdsKept, Good, OwnedIn, RowsOf
  <2>2. \A g \in Gens : db'[g] = db[g] \/ (db'[g] = NoRow /\ (db[g] = NoRow \/ db[g].doc # e))
    BY <1>2, <2>1
  <2> QED
    BY <1>t, <2>2, ShownKept
<1>o. \A g \in ActiveIn(db, d) : db[g].rev \in Nat /\ db[g].rev <= r /\ db[g].rev \notin BlankRevs
  BY <1>t, ConstantsAssumption DEF Whole, Ordered, Newest, InHand, ActiveIn, RowsOf, Live, Row, Revs
<1>4. CASE ids = {keep} /\ keep \in Complete(d, r)
  <2>1. keep \in ActiveIn(db, d) /\ db[keep].rev = r
    BY <1>4 DEF Complete, Active, RowsOf, Live, ActiveIn
  <2>2. keep \in ActiveIn(db', d)
    BY <1>1, <1>2, <1>4, <2>1 DEF ActiveIn
  <2>3. \A g \in ActiveIn(db', d) : g \in ActiveIn(db, d) /\ db'[g].rev = db[g].rev
    BY <1>2 DEF ActiveIn
  <2>4. \A h \in ActiveIn(db, d) : \E g \in ActiveIn(db', d) : db[h].rev <= db[g].rev
    BY <1>o, <2>1, <2>2
  <2>5. ShownIn(db', d) = ShownIn(db, d)
    BY <1>t, <2>3, <2>4, ShownSame
  <2> QED
    BY <1>3, <2>5
<1>5. CASE ids = {} /\ r \in BlankRevs
  <2>1. ActiveIn(db', d) = {}
    BY <1>1, <1>2, <1>5 DEF ActiveIn, RowsOf, Live
  <2>2. \A g \in ActiveIn(db, d) : db[g].rev < r
    <3> SUFFICES ASSUME NEW g \in ActiveIn(db, d) PROVE db[g].rev < r
      OBVIOUS
    <3>1. db[g].rev \in Nat /\ r \in Nat /\ db[g].rev <= r /\ db[g].rev # r
      BY <1>5, <1>o, <1>t, ConstantsAssumption DEF Revs
    <3> QED
      BY <3>1
  <2>3. ShownIn(db, d) < r
    BY <1>t, <2>2, ShownBelow DEF Whole
  <2>4. r <= rev[d]
    BY <1>t DEF Whole, Ordered, Newest, InHand
  <2>5. ShownIn(db', d) = 0
    BY <2>1 DEF ShownIn
  <2> QED
    BY <1>3, <1>5, <1>t, <2>3, <2>4, <2>5 DEF Published, Shows
<1> QED
  BY <1>1, <1>4, <1>5

\* The cleanup hides all that is visible of a path, or only what is older than the rest.
LEMMA HiddenOrphan ==
    ASSUME Whole, NamedOlder, [Next]_vars, NEW d \in orph, pc = "delete", UNCHANGED <<rev, excluded>>,
           \A g \in Gens : \/ db'[g] = db[g] /\ ~(g \in Chunks(mem[d]) /\ g \in ActiveIn(db, d))
                           \/ g \in Chunks(mem[d]) /\ (db'[g] = NoRow \/ db'[g].miss = 1)
    PROVE  Hidden \/ \A e \in Docs : ShownIn(db', e) = ShownIn(db, e)
<1>t. /\ db \in [Gens -> Row \cup {NoRow}] /\ db' \in [Gens -> Row \cup {NoRow}] /\ d \in Docs
  BY WholeStep DEF Whole, TypeOK, TableType, SweepType
<1>1. ASSUME NEW e \in Docs \ {d} PROVE ShownIn(db', e) = ShownIn(db, e)
  <2>1. Shrink \/ Insertion
    BY RowsStep DEF Whole
  <2>2. Shrink
    BY <2>1 DEF Insertion
  <2>3. \A g \in Gens : g \in Chunks(mem[d]) /\ db[g] # NoRow => db[g].doc = d
    BY <1>t DEF Whole, IdsKept, Good, OwnedIn, Ids
  <2>4. \A g \in Gens : db'[g] # NoRow => db[g] # NoRow /\ db'[g].doc = db[g].doc
    <3> SUFFICES ASSUME NEW g \in Gens, db'[g] # NoRow PROVE db[g] # NoRow /\ db'[g].doc = db[g].doc
      OBVIOUS
    <3>1. g \in Live => db[g] \in Row /\ [db[g] EXCEPT !.miss = 1].doc = db[g].doc
      BY <1>t DEF Live, Row
    <3> QED
      BY <2>2, <3>1 DEF Shrink, Live
  <2>5. \A g \in Gens : db'[g] = db[g] \/ ((db[g] = NoRow \/ db[g].doc # e) /\ (db'[g] = NoRow \/ db'[g].doc # e))
    BY <2>3, <2>4
  <2> QED
    BY <1>t, <2>5, ShownKept
<1>2. \A g \in ActiveIn(db', d) : g \in ActiveIn(db, d) /\ g \notin Chunks(mem[d]) /\ db'[g] = db[g]
  BY DEF ActiveIn
<1>3. \A g \in ActiveIn(db, d) \ Chunks(mem[d]) : g \in ActiveIn(db', d)
  BY DEF ActiveIn
<1>4. CASE ActiveIn(db', d) = {}
  <2>1. ShownIn(db', d) = 0
    BY <1>4 DEF ShownIn
  <2> QED
    BY <1>1, <1>t, <2>1 DEF Hidden, Shows
<1>5. CASE ActiveIn(db', d) # {}
  <2>1. PICK g \in ActiveIn(db', d) : TRUE
    BY <1>5
  <2>2. g \in ActiveIn(db, d) \ Chunks(mem[d])
    BY <1>2
  <2>3. \A h \in ActiveIn(db, d) : db[h].rev \in Nat
    BY <1>t, ConstantsAssumption DEF ActiveIn, Row, Revs
  <2>4. ASSUME NEW h \in ActiveIn(db, d) PROVE \E k \in ActiveIn(db', d) : db[h].rev <= db[k].rev
    <3>1. CASE h \in Chunks(mem[d])
      <4>1. db[h].rev < db[g].rev
        BY <1>t, <2>2, <3>1 DEF NamedOlder, Behind, InCycle
      <4>2. db[h].rev <= db[g].rev
        BY <2>2, <2>3, <4>1
      <4> QED
        BY <4>2
    <3>2. CASE h \notin Chunks(mem[d])
      BY <1>3, <2>3, <3>2
    <3> QED
      BY <3>1, <3>2
  <2>5. \A k \in ActiveIn(db', d) : k \in ActiveIn(db, d) /\ db'[k].rev = db[k].rev
    BY <1>2
  <2>6. ShownIn(db', d) = ShownIn(db, d)
    BY <1>t, <2>4, <2>5, ShownSame
  <2> QED
    BY <1>1, <2>6
<1> QED
  BY <1>4, <1>5

LEMMA ShownStep ==
    ASSUME NoLoss, Whole, RowsAccounted, NamedOlder, ExcludedTask, [Next]_vars
    PROVE  Published \/ Hidden \/ \A d \in Docs : ShownIn(db', d) = ShownIn(db, d)
<1> USE DEF source, durable, flags, memory, loop, sweep
<1>t. /\ db \in [Gens -> Row \cup {NoRow}] /\ db' \in [Gens -> Row \cup {NoRow}] /\ orph \subseteq Docs
  BY WholeStep DEF Whole, TypeOK, TableType, SweepType
<1>1. CASE IndexFile \/ IndexFileFails
  BY <1>1, PublishedAdd
<1>2. CASE Adopt \/ Record
  BY <1>2, PublishedKept
<1>3. CASE RetryPending
  <2>1. PICK done \in SUBSET {d \in Docs : Pend(mem[d]) # {} /\ target \in {AllDocs, d}} :
            db' = Without(UNION {Pend(mem[d]) : d \in done})
    BY <1>3 DEF RetryPending
  <2>2. done = {}
    BY DEF RowsAccounted, NothingPending
  <2>3. \A g \in Gens : db'[g] = db[g]
    BY <2>1, <2>2 DEF Without
  <2>4. \A d \in Docs : ShownIn(db', d) = ShownIn(db, d)
    BY <1>t, <2>3, ShownKept
  <2> QED
    BY <2>4
<1>4. ASSUME NEW d \in Docs, DeleteOrphan(d)
      PROVE  Hidden \/ \A e \in Docs : ShownIn(db', e) = ShownIn(db, e)
  <2> DEFINE ids == Chunks(mem[d])
  <2>1. d \in orph /\ pc = "delete" /\ UNCHANGED <<rev, excluded>>
    BY <1>4 DEF DeleteOrphan
  <2>2. \A g \in Gens : db'[g] = IF g \in SecondMiss(ids) THEN NoRow
                                 ELSE IF g \in FirstMiss(FirstMiss(ids)) \/ g \in FirstMiss(ids)
                                      THEN [db[g] EXCEPT !.miss = 1] ELSE db[g]
    BY <1>4 DEF DeleteOrphan, Softened, FirstMiss
  <2>3. \A g \in Gens : g \in Live => [db[g] EXCEPT !.miss = 1].miss = 1
    BY <1>t DEF Live, Row
  <2>4. \A g \in Gens : \/ db'[g] = db[g] /\ ~(g \in ids /\ g \in ActiveIn(db, d))
                        \/ g \in ids /\ (db'[g] = NoRow \/ db'[g].miss = 1)
    <3> SUFFICES ASSUME NEW g \in Gens
                 PROVE  \/ db'[g] = db[g] /\ ~(g \in ids /\ g \in ActiveIn(db, d))
                        \/ g \in ids /\ (db'[g] = NoRow \/ db'[g].miss = 1)
      OBVIOUS
    <3>1. CASE g \in SecondMiss(ids)
      BY <2>2, <3>1 DEF SecondMiss
    <3>2. CASE g \notin SecondMiss(ids) /\ g \in FirstMiss(ids)
      <4>1. g \in ids /\ g \in Live
        BY <3>2 DEF FirstMiss
      <4>2. db'[g] = [db[g] EXCEPT !.miss = 1]
        BY <2>2, <3>2
      <4> QED
        BY <2>3, <4>1, <4>2
    <3>3. CASE g \notin SecondMiss(ids) /\ g \notin FirstMiss(ids)
      <4>1. db'[g] = db[g]
        BY <2>2, <3>3 DEF FirstMiss
      <4>2. ~(g \in ids /\ g \in ActiveIn(db, d))
        BY <3>3 DEF FirstMiss, ActiveIn, Live
      <4> QED
        BY <4>1, <4>2
    <3> QED
      BY <3>1, <3>2, <3>3
  <2> QED
    BY <2>1, <2>4, HiddenOrphan
<1>5. CASE CleanupRaises
  <2>1. CASE UNCHANGED db
    BY <2>1
  <2>2. ASSUME NEW d \in orph, db' = Softened(FirstMiss(Chunks(mem[d])))
        PROVE  Hidden \/ \A e \in Docs : ShownIn(db', e) = ShownIn(db, e)
    <3> DEFINE ids == Chunks(mem[d])
    <3>1. pc = "delete" /\ UNCHANGED <<rev, excluded>>
      BY <1>5 DEF CleanupRaises
    <3>2. \A g \in Gens : g \in Live => [db[g] EXCEPT !.miss = 1].miss = 1
      BY <1>t DEF Live, Row
    <3>3. \A g \in Gens : \/ db'[g] = db[g] /\ ~(g \in ids /\ g \in ActiveIn(db, d))
                          \/ g \in ids /\ (db'[g] = NoRow \/ db'[g].miss = 1)
      <4> SUFFICES ASSUME NEW g \in Gens
                   PROVE  \/ db'[g] = db[g] /\ ~(g \in ids /\ g \in ActiveIn(db, d))
                          \/ g \in ids /\ (db'[g] = NoRow \/ db'[g].miss = 1)
        OBVIOUS
      <4>1. CASE g \in FirstMiss(ids)
        <5>1. g \in ids /\ g \in Live
          BY <4>1 DEF FirstMiss
        <5>2. db'[g] = [db[g] EXCEPT !.miss = 1]
          BY <2>2, <4>1 DEF Softened
        <5> QED
          BY <3>2, <5>1, <5>2
      <4>2. CASE g \notin FirstMiss(ids)
        <5>1. db'[g] = db[g]
          BY <2>2, <4>2 DEF Softened
        <5>2. ~(g \in ids /\ g \in ActiveIn(db, d))
          BY <4>2 DEF FirstMiss, ActiveIn, Live
        <5> QED
          BY <5>1, <5>2
      <4> QED
        BY <4>1, <4>2
    <3> QED
      BY <3>1, <3>3, HiddenOrphan
  <2> QED
    BY <1>5, <2>1, <2>2 DEF CleanupRaises
<1>6. CASE ExcludeRows /\ db' # db
  <2> DEFINE d == task.doc
  <2>1. /\ d \in excluded /\ d \in Docs /\ db' = Without(RowsOf(d)) /\ UNCHANGED <<rev, excluded>>
    BY <1>6 DEF ExcludeRows, ExcludedTask, Whole, TypeOK, TaskType, Task
  <2>2. \A g \in Gens : db'[g] = IF g \in RowsOf(d) THEN NoRow ELSE db[g]
    BY <2>1 DEF Without
  <2>3. ActiveIn(db', d) = {}
    BY <2>2 DEF ActiveIn, RowsOf, Live
  <2>4. \A e \in Docs \ {d} : \A g \in Gens : db'[g] = db[g] \/ (db'[g] = NoRow /\ db[g].doc # e)
    BY <2>2 DEF RowsOf
  <2>5. \A e \in Docs \ {d} : ShownIn(db', e) = ShownIn(db, e)
    BY <1>t, <2>4, ShownKept
  <2>6. ShownIn(db', d) = 0
    BY <2>3 DEF ShownIn
  <2> QED
    BY <2>1, <2>5, <2>6 DEF Hidden, Shows
<1>7. ASSUME ~(IndexFile \/ IndexFileFails \/ Adopt \/ Record \/ RetryPending \/ CleanupRaises),
             ~\E d \in Docs : DeleteOrphan(d), ~(ExcludeRows /\ db' # db)
      PROVE  db' = db
  BY <1>7 DEF NoLoss, Fault, Next, Environment, Failure, Worker, vars, EndCycle, SourceChange,
     Restore, Exclude, Unexclude, BeginSingle, Unmount, Mount, Crash, CrashAndRecreate,
     BeginFails, SkipTask, AdoptFails, Cancel, BeginCycle,
     Scan, Take, SourceMoved, Extract, RecordFails,
     BatchFlush, Unlink, Drain, FinalFlush, RootGuard, FindOrphans, WeighOrphans, CleanupDone, ExcludeState
<1> QED
  BY <1>1, <1>2, <1>3, <1>4, <1>5, <1>6, <1>7

\* A step of the program is a step of the specification, or one it does not see.
LEMMA CorpusStep ==
    ASSUME NoLoss, Whole, RowsAccounted, NamedOlder, ExcludedTask, [Next]_vars
    PROVE  [Corpus!Next]_(Corpus!vars)
<1> DEFINE shown == [d \in Docs |-> ShownRev(d)]
<1>s. /\ shown = [d \in Docs |-> ShownIn(db, d)]
      /\ shown' = [d \in Docs |-> ShownIn(db', d)]
  BY ShownHere
<1>r. rev \in [Docs -> Nat] /\ rev' \in [Docs -> Nat] /\ \A d \in Docs : rev'[d] >= rev[d]
  BY RevGrows, ConstantsAssumption DEF Whole, TypeOK, SourceType, Revs
<1>n. \A d \in Docs : ShownIn(db, d) \in Nat
  <2>1. \A d \in Docs : ActiveIn(db, d) # {} => ShownIn(db, d) \in Revs
    BY ShownMax DEF Whole, TypeOK, TableType
  <2> QED
    BY <2>1, ConstantsAssumption DEF ShownIn, Revs
<1> HIDE DEF shown
<1>e. ASSUME NEW d \in Docs, NEW v, Shows(d, v) PROVE shown' = [shown EXCEPT ![d] = v]
  BY <1>e, <1>s DEF Shows
<1>1. CASE \A d \in Docs : ShownIn(db', d) = ShownIn(db, d)
  <2>1. shown' = shown
    BY <1>1, <1>s
  <2> QED
    BY <1>r, <2>1 DEF Corpus!Next, Corpus!Change, shown
<1>2. CASE Published
  <2>1. PICK d \in Docs, r \in Revs :
            /\ ShownIn(db, d) < r /\ r <= rev[d] /\ Shows(d, IF r \in BlankRevs THEN 0 ELSE r)
            /\ UNCHANGED <<rev, orph, excluded>>
    BY <1>2 DEF Published
  <2>2. shown' = [shown EXCEPT ![d] = IF r \in BlankRevs THEN 0 ELSE r]
    BY <1>e, <2>1
  <2>3. r \in (shown[d] + 1)..rev[d]
    BY <1>n, <1>r, <1>s, <2>1, ConstantsAssumption DEF Revs
  <2>4. Corpus!Publish(d)
    BY <2>1, <2>2, <2>3 DEF Corpus!Publish, shown
  <2> QED
    BY <2>4 DEF Corpus!Next
<1>3. CASE Hidden
  <2>1. PICK d \in (orph \cup excluded) \cap Docs : Shows(d, 0) /\ UNCHANGED <<rev, excluded>>
    BY <1>3 DEF Hidden
  <2>2. shown' = [shown EXCEPT ![d] = 0]
    BY <1>e, <2>1
  <2>3. Corpus!Hide(d)
    BY <2>1, <2>2 DEF Corpus!Hide, shown
  <2> QED
    BY <2>3 DEF Corpus!Next
<1> QED
  BY <1>1, <1>2, <1>3, ShownStep

\* The document whose exclusion job is running stays excluded.
LEMMA ExcludedTaskStep == ASSUME ExcludedTask, [Next]_vars PROVE ExcludedTask'
<1> USE DEF source, durable, flags, memory, loop, sweep
<1> QED
  BY DEF ExcludedTask, Fault, Next, Environment, Failure, Worker, vars, CycleLocals, EndCycle, SourceChange,
     Restore, Exclude, Unexclude, BeginSingle, Unmount, Excuse, Mount, Crash, CrashAndRecreate,
     BeginFails, SkipTask, AdoptFails, IndexFile, IndexFileFails, Cancel, CleanupRaises, BeginCycle,
     RetryPending, Scan, Take, Adopt, SourceMoved, Extract, Record, RecordFails,
     BatchFlush, Unlink, Drain, FinalFlush, RootGuard, FindOrphans, WeighOrphans, DeleteOrphan,
     CleanupDone, ExcludeRows, ExcludeState

\* Document indexing implements DocCorpus: a search finds revisions a file has had, a
\* found one is only replaced by a newer one, and a path is only hidden because it was
\* missing or excluded, or became blank; whatever crashes, is lost or fails, except
\* deletions and the table itself.
THEOREM CorpusImplemented ==
    ASSUME NoLoss
    PROVE  Spec => ImplementsCorpus
<1> DEFINE Inv == Whole /\ RowsAccounted /\ NamedOlder /\ ExcludedTask
<1>1. Init => Inv
  <2>1. Init => NamedOlder /\ ExcludedTask
    BY DEF Init, NamedOlder, InCycle, ExcludedTask
  <2> QED
    BY <2>1, WholeInit, AccountedInit
<1>2. Inv /\ [Next]_vars => Inv'
  BY WholeStep, AccountedStep, OlderStep, ExcludedTaskStep DEF NoLoss, Whole
<1>3. Inv /\ [Next]_vars => [Corpus!Next]_(Corpus!vars)
  BY CorpusStep
<1>4. Init => Corpus!Init
  <2> SUFFICES ASSUME Init PROVE Corpus!Init
    OBVIOUS
  <2>1. \A d \in Docs : Active(d) = {}
    BY DEF Init, Active, RowsOf, Live
  <2>2. \A d \in Docs : ShownRev(d) = 0
    BY <2>1 DEF ShownRev
  <2> QED
    BY <2>2 DEF Corpus!Init
<1>5. Spec => Corpus!Spec
  BY <1>1, <1>2, <1>3, <1>4, PTL DEF Spec, Corpus!Spec
<1> QED
  BY <1>5 DEF ImplementsCorpus

-----------------------------------------------------------------------------
(* What an outage in the middle of a cleanup can do.                         *)

\* When no path of a folder is found, all its entries are orphans: more than any ratio
\* below 100 percent lets through.
LEMMA BreakerTrips ==
    ASSUME IsFiniteSet(Docs), MaxRatio < 100, cur \in Folders, orph # {}, orph = Indexed(cur)
    PROVE  MassDelete
<1>1. IsFiniteSet(Indexed(cur))
  <2>1. Indexed(cur) \subseteq Docs
    BY ConstantsAssumption DEF Indexed
  <2> QED
    BY <2>1, FS_Subset
<1>2. Cardinality(Indexed(cur)) \in Nat /\ Cardinality(Indexed(cur)) # 0
  BY <1>1, FS_CardinalityType, FS_EmptySet
<1>3. \A n \in Nat \ {0} : n * 100 > MaxRatio * n
  BY ConstantsAssumption
<1> QED
  BY <1>2, <1>3 DEF MassDelete

\* While a folder is cleaned up: its root is within reach or its paths are excused; a
\* path found missing under it is excused, or still gone, or has come back newer than
\* every row of it; and nothing is processed unless some path was found.
Sweeping    == pc \in {"orphans", "delete"}
RootExcused == Sweeping => cur \in up \/ \A d \in Docs : Root[d] = cur => d \in away
OrphExcused == Sweeping => \A d \in orph : Root[d] = cur /\ d \in present /\ d \notin away
                                           => \A g \in RowsOf(d) : db[g].rev < rev[d]
OrphKept    == pc \notin {"orphans", "delete", "final", "lastUnlink"} => orph = {}
SomeSeen    == pc = "delete" /\ MaxRatio < 100 => seen # {}
Excused     == RootExcused /\ OrphExcused /\ OrphKept /\ SomeSeen

\* What one visit does: the rows it finds hidden go, the other rows it names are hidden.
LEMMA VisitIs ==
    ASSUME TypeOK, NEW d \in Docs, DeleteOrphan(d), NEW g \in Live, db'[g] # db[g]
    PROVE  g \in Chunks(mem[d]) /\ (db'[g] = NoRow => db[g].miss = 1)
<1> DEFINE ids  == Chunks(mem[d])
           left == FirstMiss(ids)
<1>1. g \in Gens /\ db[g] \in Row
  BY DEF Live, TypeOK, TableType
<1>2. db'[g] = IF g \in SecondMiss(ids) THEN NoRow ELSE Softened(left)[g]
  BY <1>1 DEF DeleteOrphan
<1>3. Softened(left)[g] = IF g \in left THEN [db[g] EXCEPT !.miss = 1] ELSE db[g]
  BY <1>1 DEF Softened
<1>4. [db[g] EXCEPT !.miss = 1] # NoRow
  <2>1. [db[g] EXCEPT !.miss = 1] \in Row
    BY <1>1 DEF Row
  <2> QED
    BY <2>1, ConstantsAssumption
<1>5. CASE g \in SecondMiss(ids)
  BY <1>5 DEF SecondMiss
<1>6. CASE g \notin SecondMiss(ids)
  BY <1>2, <1>3, <1>4, <1>6 DEF FirstMiss
<1> QED
  BY <1>5, <1>6

\* The files and the roots may change at any moment: a root that goes out of reach and a
\* path that comes back as it was are excused, one that comes back otherwise is newer.
LEMMA WorldStep ==
    ASSUME TypeOK, Newest, Excused, Sweeping, UNCHANGED <<db, pc, cur, orph, seen>>,
           SourceChange \/ (\E d \in Docs : Restore(d)) \/ (\E f \in Folders : Unmount(f) \/ Mount(f))
           \/ UNCHANGED vars
    PROVE  RootExcused' /\ OrphExcused' /\ SomeSeen'
<1> USE DEF source, durable, flags, memory, loop, sweep
<1>t. /\ rev \in [Docs -> Nat] /\ orph \subseteq Docs /\ away \subseteq Docs
      /\ \A d \in Docs : \A g \in RowsOf(d) : db[g].rev \in Nat /\ db[g].rev <= rev[d]
  BY ConstantsAssumption
     DEF TypeOK, SourceType, TableType, SweepType, Revs, Row, RowsOf, Live, Newest
<1>r. \A d \in Docs : RowsOf(d)' = RowsOf(d)
  BY DEF RowsOf, Live
<1>1. CASE SourceChange
  <2>1. /\ up' = up /\ away' = away
        /\ \A d \in Docs : rev'[d] \in Nat /\ rev[d] <= rev'[d]
        /\ \A d \in present' : d \in Docs => d \in present \/ rev[d] < rev'[d]
    BY <1>1, <1>t DEF SourceChange, Modify, Remove, Return
  <2>2. ASSUME NEW d \in orph, Root[d] = cur, d \in present', d \notin away, NEW g \in RowsOf(d)
        PROVE  db[g].rev < rev'[d]
    <3>1. db[g].rev \in Nat /\ db[g].rev <= rev[d] /\ rev[d] \in Nat
      BY <1>t
    <3>2. d \in present => db[g].rev < rev[d]
      BY <2>2 DEF Excused, OrphExcused
    <3> QED
      BY <1>t, <2>1, <2>2, <3>1, <3>2
  <2>3. OrphExcused'
    BY <1>r, <1>t, <2>1, <2>2 DEF OrphExcused
  <2>4. RootExcused' /\ SomeSeen'
    BY <2>1 DEF Excused, RootExcused, SomeSeen, Sweeping
  <2> QED
    BY <2>3, <2>4
<1>2. ASSUME NEW c \in Docs, Restore(c) PROVE RootExcused' /\ OrphExcused' /\ SomeSeen'
  <2>1. up' = up /\ rev' = rev /\ away' = away \cup {c} /\ present' = present \cup {c}
    BY <1>2 DEF Restore, Excuse, Sweeping
  <2> QED
    BY <1>r, <1>t, <2>1 DEF Excused, RootExcused, OrphExcused, SomeSeen, Sweeping
<1>3. ASSUME NEW f \in Folders, Unmount(f) PROVE RootExcused' /\ OrphExcused' /\ SomeSeen'
  <2>1. /\ up' = up \ {f} /\ rev' = rev /\ present' = present
        /\ away' = away \cup {d \in Docs : Root[d] = f}
    BY <1>3 DEF Unmount, Excuse, Sweeping
  <2> QED
    BY <1>r, <1>t, <2>1 DEF Excused, RootExcused, OrphExcused, SomeSeen, Sweeping
<1>4. ASSUME NEW f \in Folders, Mount(f) PROVE RootExcused' /\ OrphExcused' /\ SomeSeen'
  <2>1. up' = up \cup {f} /\ rev' = rev /\ present' = present /\ away' = away
    BY <1>4 DEF Mount
  <2> QED
    BY <1>r, <1>t, <2>1 DEF Excused, RootExcused, OrphExcused, SomeSeen, Sweeping
<1>5. CASE UNCHANGED vars
  <2>1. UNCHANGED <<up, rev, present, away>>
    BY <1>5 DEF vars
  <2> QED
    BY <1>r, <1>t, <2>1 DEF Excused, RootExcused, OrphExcused, SomeSeen, Sweeping
<1> QED
  BY <1>1, <1>2, <1>3, <1>4, <1>5

LEMMA ExcusedStep ==
    ASSUME IsFiniteSet(Docs), Whole, Excused, [Next]_vars
    PROVE  Excused'
<1> USE DEF source, durable, flags, memory, loop, sweep
<1>t. orph \subseteq Docs /\ cur \in Folders /\ away \subseteq Docs
  BY DEF Whole, TypeOK, SweepType
<1>1. OrphKept'
  BY DEF Excused, OrphKept, Next, Environment, Failure, Worker, vars, CycleLocals, EndCycle, SourceChange,
     Restore, Exclude, Unexclude, BeginSingle, Unmount, Mount, Crash, CrashAndRecreate,
     BeginFails, SkipTask, AdoptFails, IndexFile, IndexFileFails, Cancel, CleanupRaises, BeginCycle,
     RetryPending, Scan, Take, Adopt, SourceMoved, Extract, Record, RecordFails,
     BatchFlush, Unlink, Drain, FinalFlush, RootGuard, FindOrphans, WeighOrphans, DeleteOrphan,
     CleanupDone, ExcludeRows, ExcludeState
<1> SUFFICES ASSUME Sweeping' PROVE RootExcused' /\ OrphExcused' /\ SomeSeen'
  BY <1>1 DEF Excused, RootExcused, OrphExcused, SomeSeen, Sweeping
<1>2. ASSUME NEW f \in Folders, RootGuard(f) PROVE RootExcused' /\ OrphExcused' /\ SomeSeen'
  <2>1. pc = "cleanup" /\ f \in up /\ cur' = f /\ up' = up /\ pc' = "orphans" /\ orph' = orph
    BY <1>2 DEF RootGuard, Sweeping
  <2> QED
    BY <2>1 DEF Excused, OrphKept, RootExcused, OrphExcused, SomeSeen
<1>3. ASSUME NEW c \in Docs, FindOrphans(c) PROVE RootExcused' /\ OrphExcused' /\ SomeSeen'
  <2>1. /\ pc = "orphans" /\ UNCHANGED <<pc, cur, up, away, present, db, rev>>
        /\ orph' = IF Exists(c) THEN orph ELSE orph \cup {c}
    BY <1>3 DEF FindOrphans
  <2>2. ~Exists(c) /\ Root[c] = cur => c \notin present \/ c \in away
    BY <2>1 DEF Exists, Excused, RootExcused, Sweeping
  <2>3. \A d \in Docs : RowsOf(d)' = RowsOf(d)
    BY <2>1 DEF RowsOf, Live
  <2> QED
    BY <2>1, <2>2, <2>3, <1>t DEF Excused, RootExcused, OrphExcused, SomeSeen, Sweeping
<1>4. CASE WeighOrphans
  <2>1. /\ pc = "orphans" /\ UNCHANGED <<cur, up, away, present, db, rev, seen>>
        /\ orph' \in {orph, {}} /\ Indexed(cur) = seen \cup orph
    BY <1>4 DEF WeighOrphans
  <2>2. \A d \in Docs : RowsOf(d)' = RowsOf(d)
    BY <2>1 DEF RowsOf, Live
  <2>3. RootExcused' /\ OrphExcused'
    BY <2>1, <2>2, <1>t DEF Excused, RootExcused, OrphExcused, Sweeping
  <2>4. pc' = "delete" => orph # {} /\ ~MassDelete
    BY <1>4 DEF WeighOrphans
  <2> QED
    BY <2>1, <2>3, <2>4, <1>t, BreakerTrips DEF SomeSeen
<1>5. ASSUME NEW c \in Docs, DeleteOrphan(c) PROVE RootExcused' /\ OrphExcused' /\ SomeSeen'
  <2>1. /\ pc = "delete" /\ pc' = "delete" /\ UNCHANGED <<cur, up, away, present, rev, seen>>
        /\ orph' \subseteq orph
    BY <1>5 DEF DeleteOrphan, Sweeping
  <2>2. \A d \in Docs : \A g \in RowsOf(d)' : g \in RowsOf(d) /\ db'[g].rev = db[g].rev
    <3>1. Shrink
      BY <2>1, RowsStep DEF Whole, Insertion
    <3>2. \A g \in Gens : db'[g] # NoRow => db[g] # NoRow /\ db'[g].doc = db[g].doc /\ db'[g].rev = db[g].rev
      BY <3>1, ConstantsAssumption DEF Shrink, Live, Row, Whole, TypeOK, TableType
    <3> QED
      BY <3>2 DEF RowsOf, Live
  <2> QED
    BY <2>1, <2>2, <1>t DEF Excused, RootExcused, OrphExcused, SomeSeen, Sweeping
<1>6. ASSUME ~(\E f \in Folders : RootGuard(f)), ~(\E c \in Docs : FindOrphans(c) \/ DeleteOrphan(c)), ~WeighOrphans
      PROVE  /\ Sweeping /\ UNCHANGED <<db, pc, cur, orph, seen>>
             /\ SourceChange \/ (\E d \in Docs : Restore(d)) \/ (\E f \in Folders : Unmount(f) \/ Mount(f))
                \/ UNCHANGED vars
  BY <1>6 DEF Sweeping, Next, Environment, Failure, Worker, vars, CycleLocals, EndCycle, SourceChange,
     Restore, Exclude, Unexclude, BeginSingle, Unmount, Mount, Crash, CrashAndRecreate,
     BeginFails, SkipTask, AdoptFails, IndexFile, IndexFileFails, Cancel, CleanupRaises, BeginCycle,
     RetryPending, Scan, Take, Adopt, SourceMoved, Extract, Record, RecordFails,
     BatchFlush, Unlink, Drain, FinalFlush,
     CleanupDone, ExcludeRows, ExcludeState
<1> QED
  BY <1>2, <1>3, <1>4, <1>5, <1>6, WorldStep DEF Whole, Ordered

\* An unreachable share is not a deletion: the cleanup of a folder touches the row of a
\* file that is in place under it only when the share was lost after the folder's root
\* guard, between two exists() calls of _find_orphans (or the file was put back), and then
\* it hides the row, and deletes it only if an earlier cleanup had hidden it; and it
\* touches nothing when no path of the folder was found.  For every set of watched roots,
\* nested ones included, and whatever else fails.
THEOREM OutagesOnlyHide ==
    ASSUME IsFiniteSet(Docs)
    PROVE  Spec => OutageOnlyHides
<1> DEFINE Inv == Whole /\ Excused
           Step == pc = "delete" /\ pc' # "idle" =>
                      \A g \in Live : InPlace(g) /\ db'[g] # db[g] =>
                          /\ db[g].doc \in away
                          /\ db'[g] = NoRow => db[g].miss = 1
                          /\ MaxRatio < 100 => seen # {}
<1>1. Init => Inv
  BY WholeInit DEF Init, Excused, RootExcused, OrphExcused, OrphKept, SomeSeen, Sweeping
<1>2. Inv /\ [Next]_vars => Inv'
  BY WholeStep, ExcusedStep
<1>3. Inv /\ [Next]_vars => [Step]_vars
  <2> SUFFICES ASSUME Inv, Next, pc = "delete", pc' # "idle", NEW g \in Live, InPlace(g), db'[g] # db[g]
               PROVE  /\ db[g].doc \in away
                      /\ db'[g] = NoRow => db[g].miss = 1
                      /\ MaxRatio < 100 => seen # {}
    OBVIOUS
  <2> USE DEF source, durable, flags, memory, loop, sweep
  <2>t. /\ g \in Gens /\ db[g] \in Row /\ db[g] # NoRow /\ db[g].rev \in Nat /\ orph \subseteq Docs
        /\ [db[g] EXCEPT !.miss = 1] \in Row
    BY ConstantsAssumption DEF Live, Whole, TypeOK, TableType, SweepType, Row, Revs
  \* A row an orphan's entry names is a row of that orphan.
  <2>1. ASSUME NEW d \in orph, g \in Chunks(mem[d]) PROVE db[g].doc \in away
    <3>1. db[g].doc = d /\ d \in Docs
      BY <2>t, <2>1 DEF Whole, IdsKept, Good, OwnedIn, Ids
    <3>2. g \in RowsOf(d)
      BY <3>1 DEF RowsOf
    <3>3. ~(db[g].rev < rev[d])
      BY <2>t, <3>1 DEF InPlace
    <3> QED
      BY <2>1, <3>1, <3>2, <3>3 DEF InPlace, Excused, OrphExcused, Sweeping
  <2>2. MaxRatio < 100 => seen # {}
    BY DEF Excused, SomeSeen
  <2>3. ASSUME NEW d \in Docs, DeleteOrphan(d) PROVE db[g].doc \in away /\ (db'[g] = NoRow => db[g].miss = 1)
    <3>1. d \in orph
      BY <2>3 DEF DeleteOrphan
    <3> QED
      BY <2>1, <2>3, <3>1, VisitIs DEF Whole
  <2>4. CASE CleanupRaises
    <3>1. PICK d \in orph : db' = Softened(FirstMiss(Chunks(mem[d])))
      BY <2>4 DEF CleanupRaises
    <3>2. db'[g] = IF g \in FirstMiss(Chunks(mem[d])) THEN [db[g] EXCEPT !.miss = 1] ELSE db[g]
      BY <2>t, <3>1 DEF Softened
    <3>3. g \in Chunks(mem[d])
      BY <3>2 DEF FirstMiss
    <3>4. db'[g] # NoRow
      BY <2>t, <3>2, ConstantsAssumption
    <3> QED
      BY <2>1, <2>2, <3>3, <3>4
  <2>5. ASSUME ~CleanupRaises, ~(\E d \in Docs : DeleteOrphan(d)) PROVE db' = db
    BY <2>5 DEF Next, Environment, Failure, Worker, CycleLocals, EndCycle, Fault, SourceChange,
     Restore, Exclude, Unexclude, BeginSingle, Unmount, Mount, Crash, CrashAndRecreate,
     BeginFails, SkipTask, AdoptFails, IndexFile, IndexFileFails, Cancel, BeginCycle,
     RetryPending, Scan, Take, Adopt, SourceMoved, Extract, Record, RecordFails,
     BatchFlush, Unlink, Drain, FinalFlush, RootGuard, FindOrphans, WeighOrphans, Save,
     CleanupDone, ExcludeRows, ExcludeState
  <2> QED
    BY <2>2, <2>3, <2>4, <2>5
<1>4. Spec => [][Step]_vars
  BY <1>1, <1>2, <1>3, PTL DEF Spec
<1> QED
  BY <1>4 DEF OutageOnlyHides
=============================================================================
