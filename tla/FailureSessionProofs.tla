------------------------ MODULE FailureSessionProofs ------------------------
(* The failure records for any files, causes, waits and faults: the window   *)
(* follows the owner's map, no cycle's end is missed, and a wait is skipped   *)
(* only where the user asked for it.                                         *)
EXTENDS FailureSession, TLAPS

-----------------------------------------------------------------------------
(* Type correctness.                                                         *)

\* The types of the composite values, as in TypeOK.
Pending  == Record \cup {NoRec, Same}
BoxType  == [ready : BOOLEAN, newer : BOOLEAN, baseline : Map \cup {None},
             changes : [Paths -> Pending], terminal : Terminal \cup {None}]
ViewType == [records : Map \cup {None}, seen : BOOLEAN, finalized : BOOLEAN,
             active : BOOLEAN, terminal : Terminal \cup {None}]
ReqsType == [retry : BOOLEAN, single : Paths \cup {None}, persist : BOOLEAN]
TaskType == [times : 0..2, rev : Revs \cup {0}]
CurType  == [path : Paths, rev : Revs]

\* A worker past Load has its records and has opened the mailbox; what is queued
\* has a revision; an attempt has its task; a saved original belongs to a cycle
\* that retries one file.
Working ==
    /\ pc \notin {"off", "run", "load"} => box.ready /\ records # None
    /\ \A p \in Paths : queue[p].times # 0 => queue[p].rev # 0
    /\ pc = "attempt" => cur # None
    /\ original # NoRec => target # None /\ pc \in {"scan", "take", "attempt", "persist", "flush"}

Typed == TypeOK /\ Working

LEMMA TypesNamed ==
    TypeOK <=> /\ file \in [Paths -> Revs \cup {0}] /\ indexed \in [Paths -> BOOLEAN]
               /\ idle \in 0..MaxIdle /\ wasLong \in BOOLEAN
               /\ disk \in Map /\ records \in Map \cup {None} /\ dirty \in BOOLEAN
               /\ box \in BoxType /\ view \in ViewType /\ reqs \in ReqsType
               /\ pc \in {"off", "run", "load", "cycle", "scan", "take", "attempt", "persist", "flush", "save", "finish", "exit"}
               /\ target \in Paths \cup {None} /\ original \in Record \cup {NoRec}
               /\ cancelled \in BOOLEAN
               /\ queue \in [Paths -> TaskType] /\ cur \in CurType \cup {None}
               /\ asked \in [Paths -> BOOLEAN] /\ askedDisk \in [Paths -> BOOLEAN]
               /\ faults \in 0..MaxFaults
BY DEF TypeOK, BoxType, ViewType, ReqsType, TaskType, CurType, Pending

LEMMA Numbers ==
    /\ BusyWait \in Nat /\ ActionWait \in Nat /\ RepeatAt \in Nat /\ ActionAt \in Nat
    /\ IdleSec \in Nat /\ DrmSec \in Nat /\ MaxIdle \in Nat /\ MaxFaults \in Nat
    /\ 1 \in 1..ActionAt /\ MaxAge \in Nat /\ 0 \in 0..MaxAge
BY ConstantsAssumption DEF ConstantsAssumption, MaxAge

\* None is no map and no set of changes.
LEMMA NoneApart == None \notin Map /\ None \notin [Paths -> Pending] /\ None \notin CurType /\ None \notin Terminal
<1>1. Map \subseteq [Paths -> Pending]
  BY DEF Map, Pending
<1> QED
  BY <1>1, NoneAssumption DEF NoneAssumption, Pending, CurType, Terminal

\* A path without a record or a change is told apart from one with a record.
LEMMA Marks == NoRec \notin Record /\ Same \notin Record /\ Same # NoRec
<1>1. \A r \in Record : r.kind \in Kinds
  BY DEF Record
<1>2. NoRec.kind \notin Kinds /\ Same.kind \notin Kinds /\ NoRec.kind # Same.kind
  BY DEF NoRec, Same, Kinds
<1> QED
  BY <1>1, <1>2

LEMMA EmptyTypes ==
    /\ Empty \in Map /\ NewBox \in BoxType /\ NewView \in ViewType /\ NoReqs \in ReqsType
    /\ NoTasks \in [Paths -> TaskType] /\ NoAsk \in [Paths -> BOOLEAN]
    /\ \A p \in Paths : NoTasks[p].times = 0
<1>1. NewBox \in BoxType
  BY DEF NewBox, BoxType, Pending
<1>2. NewView \in ViewType /\ NoReqs \in ReqsType
  BY DEF NewView, ViewType, NoReqs, ReqsType
<1>3. NoTasks \in [Paths -> TaskType]
  BY DEF NoTasks, TaskType
<1> QED
  BY <1>1, <1>2, <1>3 DEF Empty, Map, NoTasks, NoAsk

LEMMA TypeInit == Init => Typed
<1> SUFFICES ASSUME Init PROVE Typed
  OBVIOUS
<1>1. /\ file \in [Paths -> Revs \cup {0}] /\ indexed \in [Paths -> BOOLEAN]
      /\ idle \in 0..MaxIdle /\ wasLong \in BOOLEAN /\ faults \in 0..MaxFaults
  <2>1. file \in [Paths -> {1}] /\ 1 \in Revs
    BY DEF Init, Revs
  <2>2. file \in [Paths -> Revs \cup {0}]
    BY <2>1
  <2>3. 0 \in 0..MaxIdle /\ 0 \in 0..MaxFaults
    BY Numbers
  <2> QED
    BY <2>2, <2>3 DEF Init
<1>2. /\ disk \in Map /\ records \in Map \cup {None} /\ dirty \in BOOLEAN
      /\ box \in BoxType /\ view \in ViewType /\ reqs \in ReqsType
      /\ queue \in [Paths -> TaskType] /\ asked \in [Paths -> BOOLEAN] /\ askedDisk \in [Paths -> BOOLEAN]
  BY EmptyTypes DEF Init
<1>3. /\ pc = "off" /\ target = None /\ original = NoRec /\ cancelled = FALSE /\ cur = None
      /\ queue = NoTasks
  BY DEF Init
<1> QED
  BY <1>1, <1>2, <1>3, TypesNamed, EmptyTypes DEF Typed, Working

\* What the operators on records return.
LEMMA ForcedType == \A r \in Record \cup {NoRec} : Forced(r) \in Record \cup {NoRec} /\ (Forced(r) = NoRec <=> r = NoRec)
<1> TAKE r \in Record \cup {NoRec}
<1>1. CASE r = NoRec
  BY <1>1 DEF Forced
<1>2. CASE r # NoRec
  <2>1. r \in Record /\ Forced(r) = [r EXCEPT !.force = TRUE]
    BY <1>2 DEF Forced
  <2>2. Forced(r) \in Record
    BY <2>1 DEF Record
  <2> QED
    BY <1>2, <2>2, Marks
<1> QED
  BY <1>1, <1>2

LEMMA NoteType ==
    ASSUME NEW prev \in Record \cup {NoRec}, NEW kind \in Kinds, NEW rev \in Revs
    PROVE  note_failure(prev, kind, rev) \in Record /\ ~note_failure(prev, kind, rev).force
<1> DEFINE n == IF prev # NoRec /\ prev.rev = rev /\ prev.kind = kind
                THEN IF prev.count < ActionAt THEN prev.count + 1 ELSE ActionAt ELSE 1
<1>1. n \in 1..ActionAt
  BY Numbers DEF Record
<1>2. note_failure(prev, kind, rev) = [rev |-> rev, kind |-> kind, age |-> 0, force |-> FALSE, count |-> n]
  BY DEF note_failure
<1> HIDE DEF n
<1> QED
  BY <1>1, <1>2, Numbers DEF Record

LEMMA ClassifyType == \A exc, watchdog, failed : classify(exc, watchdog, failed) \in Kinds
BY DEF classify, Kinds

LEMMA OlderType ==
    \A r \in Pending : /\ older(r) \in Pending
                       /\ (r \in Record => older(r) \in Record /\ older(r).force = r.force)
                       /\ (r \notin Record => older(r) = r)
<1> TAKE r \in Pending
<1>1. CASE r \in Record
  <2> DEFINE a == IF r.age < MaxAge THEN r.age + 1 ELSE r.age
  <2>1. a \in 0..MaxAge
    BY <1>1, Numbers DEF Record
  <2>2. older(r) = [r EXCEPT !.age = a]
    BY <1>1, Marks DEF older
  <2> HIDE DEF a
  <2> QED
    BY <1>1, <2>1, <2>2 DEF Record, Pending
<1>2. CASE r \notin Record
  BY <1>2 DEF older, Pending
<1> QED
  BY <1>1, <1>2

LEMMA OlderMap ==
    \A m \in Map : /\ Older(m) \in Map
                   /\ \A p \in Paths : Older(m)[p] = older(m[p])
<1> TAKE m \in Map
<1>1. m # None
  BY NoneApart
<1>2. Older(m) = [p \in Paths |-> older(m[p])]
  BY <1>1 DEF Older
<1>3. \A p \in Paths : older(m[p]) \in Record \cup {NoRec}
  BY OlderType, Marks DEF Map, Pending
<1> QED
  BY <1>2, <1>3 DEF Map

\* A change of the records by their owner keeps the types and the state of the mailbox.
LEMMA ReplaceType ==
    ASSUME Typed, records # None, NEW m \in Map, Replace(m)
    PROVE  /\ records' = m /\ dirty' \in BOOLEAN /\ box' \in BoxType
           /\ box'.ready = box.ready /\ box'.terminal = box.terminal
<1>1. box \in BoxType /\ records \in Map
  BY TypesNamed DEF Typed
<1> DEFINE c == [p \in Paths |-> IF m[p] # records[p] THEN m[p] ELSE box.changes[p]]
           n == box.newer \/ m # records
<1>2. c \in [Paths -> Pending]
  BY <1>1 DEF Map, Pending, BoxType
<1>3. box' = [box EXCEPT !.newer = n, !.changes = c]
  BY DEF Replace
<1>4. n \in BOOLEAN
  BY <1>1 DEF BoxType
<1> HIDE DEF c, n
<1> QED
  BY <1>1, <1>2, <1>3, <1>4, TypesNamed DEF BoxType, Replace, Typed

LEMMA MergedType ==
    ASSUME NEW base \in Map, NEW changes \in [Paths -> Pending]
    PROVE  Merged(base, changes) \in Map
BY DEF Merged, Map, Pending

\* What the next poll shows, as polled computes it from an open mailbox.
Base  == IF box.baseline # None THEN box.baseline
         ELSE IF view.records = None THEN Empty ELSE view.records
Shown == IF box.newer THEN Merged(Base, box.changes)
         ELSE IF box.baseline # None THEN box.baseline ELSE view.records

\* What a poll makes of the view and of the mailbox.
LEMMA PolledIs ==
    ASSUME Typed
    PROVE  /\ polled \in ViewType /\ drained \in BoxType
           /\ drained.ready = box.ready /\ drained.terminal = box.terminal
           /\ IF box.ready THEN polled.records = Shown ELSE polled.records = view.records /\ drained = box
           /\ box.ready => drained.baseline = None /\ ~drained.newer /\ \A p \in Paths : drained.changes[p] = Same
           /\ box.ready => polled.seen
           /\ view.seen /\ view.finalized => polled.seen /\ polled.finalized
           /\ ~isRunning /\ box.ready /\ box.terminal # None => polled.finalized
<1>1. box \in BoxType /\ view \in ViewType
  BY TypesNamed DEF Typed
<1> DEFINE start   == IF view.seen THEN view
                      ELSE [view EXCEPT !.seen = TRUE, !.active = TRUE, !.terminal = None, !.finalized = FALSE]
           base    == IF box.baseline # None THEN box.baseline
                      ELSE IF view.records = None THEN Empty ELSE view.records
           recs    == IF box.newer THEN Merged(base, box.changes)
                      ELSE IF box.baseline # None THEN box.baseline ELSE start.records
           term    == IF box.terminal # None THEN box.terminal ELSE start.terminal
           merged  == [start EXCEPT !.records = recs, !.terminal = term]
           current == IF box.ready THEN merged ELSE view
<1>2. /\ start \in ViewType /\ start.records = view.records /\ start.seen
      /\ (view.seen => start = view)
  BY <1>1 DEF ViewType
<1>3. base \in Map
  BY <1>1, EmptyTypes DEF BoxType, ViewType
<1>4. recs \in Map \cup {None} /\ recs = Shown
  BY <1>1, <1>2, <1>3, MergedType DEF BoxType, ViewType, Shown, Base
<1>5. term \in Terminal \cup {None} /\ (box.terminal # None => term # None)
  BY <1>1, <1>2 DEF BoxType, ViewType
<1>6. polled = IF current.terminal # None /\ ~current.finalized /\ ~isRunning
               THEN [current EXCEPT !.finalized = TRUE, !.active = FALSE]
               ELSE current
  BY DEF polled
<1> HIDE DEF start, base, recs, term
<1>7. /\ merged \in ViewType /\ merged.records = Shown /\ merged.seen
      /\ (view.seen => merged.finalized = view.finalized)
      /\ (box.terminal # None => merged.terminal # None)
  BY <1>2, <1>4, <1>5 DEF ViewType
<1> HIDE DEF merged
<1>8. /\ polled \in ViewType
      /\ IF box.ready THEN polled.records = Shown ELSE polled.records = view.records
      /\ (box.ready => polled.seen)
      /\ (view.seen /\ view.finalized => polled.seen /\ polled.finalized)
      /\ (~isRunning /\ box.ready /\ box.terminal # None => polled.finalized)
  BY <1>1, <1>6, <1>7 DEF ViewType
<1>9. /\ drained \in BoxType
      /\ drained.ready = box.ready /\ drained.terminal = box.terminal
      /\ (box.ready => drained.baseline = None /\ ~drained.newer /\ \A p \in Paths : drained.changes[p] = Same)
      /\ (~box.ready => drained = box)
  BY <1>1 DEF drained, BoxType, Pending
<1> QED
  BY <1>8, <1>9

\* One step of one file, or of none, leaves everything typed.
LEMMA TypeStep == Typed /\ [Next]_vars => Typed'
<1> SUFFICES ASSUME Typed, [Next]_vars PROVE Typed'
  OBVIOUS
<1>t. /\ file \in [Paths -> Revs \cup {0}] /\ indexed \in [Paths -> BOOLEAN]
      /\ idle \in 0..MaxIdle /\ wasLong \in BOOLEAN
      /\ disk \in Map /\ records \in Map \cup {None} /\ dirty \in BOOLEAN
      /\ box \in BoxType /\ view \in ViewType /\ reqs \in ReqsType
      /\ pc \in {"off", "run", "load", "cycle", "scan", "take", "attempt", "persist", "flush", "save", "finish", "exit"}
      /\ target \in Paths \cup {None} /\ original \in Record \cup {NoRec}
      /\ cancelled \in BOOLEAN
      /\ queue \in [Paths -> TaskType] /\ cur \in CurType \cup {None}
      /\ asked \in [Paths -> BOOLEAN] /\ askedDisk \in [Paths -> BOOLEAN]
      /\ faults \in 0..MaxFaults
      /\ (pc \notin {"off", "run", "load"} => box.ready /\ records # None)
      /\ (\A p \in Paths : queue[p].times # 0 => queue[p].rev # 0)
      /\ (pc = "attempt" => cur # None)
      /\ (original # NoRec => target # None /\ pc \in {"scan", "take", "attempt", "persist", "flush"})
  BY TypesNamed DEF Typed, Working
<1>q. ASSUME /\ file' \in [Paths -> Revs \cup {0}] /\ indexed' \in [Paths -> BOOLEAN]
             /\ idle' \in 0..MaxIdle /\ wasLong' \in BOOLEAN
             /\ disk' \in Map /\ records' \in Map \cup {None} /\ dirty' \in BOOLEAN
             /\ box' \in BoxType /\ view' \in ViewType /\ reqs' \in ReqsType
             /\ pc' \in {"off", "run", "load", "cycle", "scan", "take", "attempt", "persist", "flush", "save", "finish", "exit"}
             /\ target' \in Paths \cup {None} /\ original' \in Record \cup {NoRec}
             /\ cancelled' \in BOOLEAN
             /\ queue' \in [Paths -> TaskType] /\ cur' \in CurType \cup {None}
             /\ asked' \in [Paths -> BOOLEAN] /\ askedDisk' \in [Paths -> BOOLEAN]
             /\ faults' \in 0..MaxFaults
             /\ (pc' \notin {"off", "run", "load"} => box'.ready /\ records' # None)
             /\ (\A p \in Paths : queue'[p].times # 0 => queue'[p].rev # 0)
             /\ (pc' = "attempt" => cur' # None)
             /\ (original' # NoRec => target' # None /\ pc' \in {"scan", "take", "attempt", "persist", "flush"})
      PROVE  Typed'
  BY <1>q DEF Typed, TypeOK, Working, BoxType, ViewType, ReqsType, TaskType, CurType, Pending
<1>f. ASSUME NEW kind, Fault(kind) PROVE faults' \in 0..MaxFaults
  BY <1>f, <1>t, Numbers DEF Fault
<1>n. None \notin Map
  BY NoneApart
<1>p. polled \in ViewType /\ drained \in BoxType /\ drained.ready = box.ready
  BY PolledIs
<1> USE DEF desk, owner, worker, history
<1>1. CASE PollTimer
  BY <1>1, <1>p, <1>t, <1>q DEF PollTimer, drain
<1>s. ASSUME NEW retry \in BOOLEAN, NEW single \in Paths \cup {None}, request_start(retry, single),
             idle' \in 0..MaxIdle, wasLong' \in BOOLEAN, UNCHANGED <<file, indexed>>
      PROVE  Typed'
  <2>1. /\ reqs' \in ReqsType /\ pc' \in {pc, "run"}
    <3>1. CASE isRunning \/ polled.active
      BY <1>s, <3>1, <1>t DEF request_start
    <3>2. CASE ~(isRunning \/ polled.active) /\ dirty
      <4>1. reqs' = [retry |-> FALSE, single |-> None, persist |-> TRUE] /\ pc' = "run"
        BY <1>s, <3>2 DEF request_start, request_failure_persist
      <4> QED
        BY <4>1 DEF ReqsType
    <3>3. CASE ~(isRunning \/ polled.active) /\ ~dirty
      <4> DEFINE again == retry \/ (reqs.retry /\ single = None)
      <4>1. again \in BOOLEAN
        BY <1>t DEF ReqsType
      <4>2. reqs' = [retry |-> again, single |-> single, persist |-> FALSE] /\ pc' = "run"
        BY <1>s, <3>3 DEF request_start
      <4> HIDE DEF again
      <4> QED
        BY <1>s, <4>1, <4>2 DEF ReqsType
    <3> QED
      BY <3>1, <3>2, <3>3
  <2>2. pc' = "run" => pc \in {"off", "run"}
    BY <1>s, <1>t DEF request_start, isRunning
  <2> QED
    BY <1>s, <2>1, <2>2, <1>p, <1>t, <1>q DEF request_start, drain
<1>2. CASE startReindex
  BY <1>2, <1>s, <1>t DEF startReindex
<1>3. ASSUME NEW p \in Paths, retryFile(p) PROVE Typed'
  BY <1>3, <1>s, <1>t DEF retryFile
<1>4. CASE on_idle
  BY <1>4, <1>s, <1>t DEF on_idle
<1>5. CASE NoteLongIdle
  BY <1>5, <1>t, <1>q DEF NoteLongIdle
<1>6. CASE CatchUp
  BY <1>6, <1>s, <1>t DEF CatchUp
<1>7. CASE cancel
  BY <1>7, <1>f, <1>t, <1>q DEF cancel
<1>8. CASE Run
  <2>1. box' \in BoxType /\ view' \in ViewType /\ reqs' \in ReqsType /\ target' \in Paths \cup {None}
    BY <1>8, EmptyTypes, <1>t DEF Run, begin, ViewType, ReqsType
  <2> QED
    BY <1>8, <2>1, <1>t, <1>q DEF Run
<1>9. CASE Load
  <2>1. /\ records' \in Map /\ box' = [NewBox EXCEPT !.ready = TRUE, !.newer = TRUE, !.baseline = records']
    BY <1>9, <1>t DEF Load, Open
  <2>2. box' \in BoxType /\ box'.ready
    BY <2>1, EmptyTypes DEF BoxType, NewBox
  <2>3. reqs' \in ReqsType /\ pc' \in {"save", "finish", "cycle"}
    BY <1>9, <1>t DEF Load, ReqsType
  <2> QED
    BY <1>9, <2>1, <2>2, <2>3, <1>n, <1>t, <1>q DEF Load
<1>10. CASE StartCycle
  <2>1. records \in Map /\ records # None /\ box.ready /\ original = NoRec
    BY <1>10, <1>t DEF StartCycle
  <2>2. reqs' \in ReqsType
    BY <1>10, <1>t DEF StartCycle, ReqsType
  <2>3. asked' \in [Paths -> BOOLEAN]
    BY <1>10, <1>t DEF StartCycle
  <2>4. CASE target # None /\ Admissible(target)
    <3>1. /\ original' = records[target] /\ original' \in Record \cup {NoRec}
          /\ [records EXCEPT ![target] = Forced(records[target])] \in Map
          /\ Replace([records EXCEPT ![target] = Forced(records[target])])
      BY <1>10, <2>1, <2>4, <1>t, ForcedType DEF StartCycle, Map
    <3>2. records' \in Map /\ dirty' \in BOOLEAN /\ box' \in BoxType /\ box'.ready
      BY <3>1, <2>1, ReplaceType
    <3> QED
      BY <1>10, <2>1, <2>2, <2>3, <2>4, <3>1, <3>2, <1>n, <1>t, <1>q DEF StartCycle
  <2>5. CASE target # None /\ ~Admissible(target)
    BY <1>10, <2>1, <2>2, <2>3, <2>5, <1>t, <1>q DEF StartCycle
  <2>6. CASE target = None
    <3>1. request_retry_all(records) \in Map
      BY <2>1, ForcedType DEF request_retry_all, Map
    <3>2. \E m \in Map : Replace(m)
      BY <1>10, <2>1, <2>6, <3>1 DEF StartCycle
    <3>3. records' \in Map /\ dirty' \in BOOLEAN /\ box' \in BoxType /\ box'.ready
      BY <3>2, <2>1, ReplaceType
    <3> QED
      BY <1>10, <2>1, <2>2, <2>3, <2>6, <3>3, <1>n, <1>t, <1>q DEF StartCycle
  <2> QED
    BY <2>4, <2>5, <2>6
<1>11. CASE Scan
  <2>1. \A p \in Paths : queue'[p].times # 0 => queue'[p].rev # 0
    BY <1>11, <1>t DEF Scan, TaskType
  <2> QED
    BY <1>11, <2>1, <1>t, <1>q DEF Scan, TaskType
<1>12. ASSUME NEW p \in Paths, Take(p) PROVE Typed'
  <2>1. queue[p] \in TaskType /\ queue[p].rev \in Revs
    BY <1>12, <1>t DEF Take, TaskType
  <2>2. /\ [times |-> 0, rev |-> 0] \in TaskType /\ [queue[p] EXCEPT !.times = 1] \in TaskType
        /\ [queue[p] EXCEPT !.times = 1].rev = queue[p].rev /\ queue[p].rev # 0
    BY <2>1 DEF TaskType, Revs
  <2>3. queue' = [queue EXCEPT ![p] = [times |-> 0, rev |-> 0]]
        \/ queue' = [queue EXCEPT ![p] = [queue[p] EXCEPT !.times = 1]]
    BY <1>12, <1>t DEF Take, Dequeue
  <2>4. queue' \in [Paths -> TaskType] /\ \A q \in Paths : queue'[q].times # 0 => queue'[q].rev # 0
    <3>1. CASE queue' = [queue EXCEPT ![p] = [times |-> 0, rev |-> 0]]
      BY <2>2, <3>1, <1>t
    <3>2. CASE queue' = [queue EXCEPT ![p] = [queue[p] EXCEPT !.times = 1]]
      <4> DEFINE x == [queue[p] EXCEPT !.times = 1]
      <4>1. x \in TaskType /\ x.rev # 0 /\ queue' = [queue EXCEPT ![p] = x]
        BY <2>2, <3>2
      <4> HIDE DEF x
      <4> QED
        BY <4>1, <1>t
    <3> QED
      BY <2>3, <3>1, <3>2
  <2>5. [path |-> p, rev |-> queue[p].rev] \in CurType
    BY <2>1 DEF CurType
  <2>6. None \notin CurType
    BY NoneApart
  <2> QED
    BY <1>12, <2>4, <2>5, <2>6, <1>t, <1>q DEF Take
<1>c. ASSUME NEW p \in Paths, NEW x \in Record \cup {NoRec}, Conclude(p, x), pc = "attempt"
      PROVE  /\ records' \in Map /\ dirty' \in BOOLEAN /\ box' \in BoxType /\ box'.ready
             /\ asked' \in [Paths -> BOOLEAN]
  <2>1. records # None /\ [records EXCEPT ![p] = x] \in Map /\ box.ready
    BY <1>c, <1>t DEF Map
  <2> QED
    BY <1>c, <2>1, ReplaceType, <1>t DEF Conclude
<1>v. ASSUME pc = "attempt" PROVE cur.path \in Paths /\ cur.rev \in Revs /\ records[cur.path] \in Record \cup {NoRec}
  BY <1>v, <1>t DEF CurType, Map
<1>13. CASE Succeed
  <2>1. pc = "attempt" /\ Conclude(cur.path, NoRec)
    BY <1>13 DEF Succeed
  <2> QED
    BY <1>13, <2>1, <1>c, <1>v, <1>n, <1>t, <1>q DEF Succeed, Conclude
<1>14. CASE Changed
  <2>1. pc = "attempt" /\ Conclude(cur.path, note_failure(records[cur.path], "FILE_CHANGED", cur.rev))
    BY <1>14 DEF Changed
  <2>2. note_failure(records[cur.path], "FILE_CHANGED", cur.rev) \in Record
    BY <2>1, <1>v, NoteType DEF Kinds
  <2> QED
    BY <1>14, <2>1, <2>2, <1>c, <1>v, <1>n, <1>t, <1>q DEF Changed, Conclude
<1>15. ASSUME NEW cause \in Causes, Fail(cause) PROVE Typed'
  <2> DEFINE x == note_failure(records[cur.path], classify(cause[1], cause[2], cause[3]), cur.rev)
  <2>1. pc = "attempt" /\ Conclude(cur.path, x)
    BY <1>15 DEF Fail
  <2>2. x \in Record
    BY <2>1, <1>v, NoteType, ClassifyType
  <2> HIDE DEF x
  <2> QED
    BY <1>15, <2>1, <2>2, <1>c, <1>v, <1>n, <1>t, <1>q DEF Fail, Conclude
<1>16. CASE Postpone
  BY <1>16, <1>f, <1>t, <1>q DEF Postpone
<1>17. CASE Escape
  BY <1>17, <1>f, <1>t, <1>q, EmptyTypes DEF Escape
<1>18. CASE EndDocuments
  <2>1. records \in Map /\ records # None /\ box.ready
    BY <1>18, <1>t DEF EndDocuments
  <2>2. prune(records) \in Map
    BY <2>1 DEF prune, Map
  <2>3. \E m \in Map : Replace(m)
    BY <1>18, <2>1, <2>2 DEF EndDocuments
  <2>4. records' \in Map /\ dirty' \in BOOLEAN /\ box' \in BoxType /\ box'.ready
    BY <2>1, <2>3, ReplaceType
  <2> QED
    BY <1>18, <2>4, <1>n, <1>t, <1>q, EmptyTypes DEF EndDocuments
<1>19. CASE Persist
  <2>1. disk' \in Map /\ dirty' \in BOOLEAN /\ faults' \in 0..MaxFaults /\ askedDisk' \in [Paths -> BOOLEAN]
    BY <1>19, <1>f, <1>t DEF Persist, save
  <2> QED
    BY <1>19, <2>1, <1>t, <1>q DEF Persist
<1>20. CASE Flush
  <2>1. records \in Map /\ records # None /\ box.ready
    BY <1>20, <1>t DEF Flush
  <2>2. Restored \in Map /\ Replace(Restored)
    BY <1>20, <2>1, <1>t DEF Restored, Map, Flush
  <2>3. records' \in Map /\ dirty' \in BOOLEAN /\ box' \in BoxType /\ box'.ready
    BY <2>1, <2>2, ReplaceType
  <2> QED
    BY <1>20, <2>3, <1>n, <1>t, <1>q DEF Flush
<1>21. CASE Finish
  <2>1. [persisted |-> ~dirty] \in Terminal
    BY <1>t DEF Terminal
  <2>2. box' \in BoxType /\ box'.ready /\ reqs' \in ReqsType
    BY <1>21, <2>1, <1>t DEF Finish, finish, BoxType, ReqsType
  <2> QED
    BY <1>21, <2>2, <1>t, <1>q DEF Finish
<1>22. CASE Exit
  BY <1>22, <1>t, <1>q DEF Exit
<1>23. CASE Tick
  <2>1. records' \in Map \cup {None} /\ (records # None => records' # None) /\ disk' \in Map
    BY <1>23, <1>n, <1>t, OlderMap DEF Tick, Older
  <2>2. box' \in BoxType /\ box'.ready = box.ready
    <3>1. Older(box.baseline) \in Map \cup {None}
      BY <1>t, OlderMap DEF BoxType, Older
    <3>2. Older(box.changes) \in [Paths -> Pending]
      <4>1. box.changes \in [Paths -> Pending] /\ box.changes # None
        BY <1>t, NoneApart DEF BoxType
      <4>2. Older(box.changes) = [p \in Paths |-> older(box.changes[p])]
        BY <4>1 DEF Older
      <4> QED
        BY <4>1, <4>2, OlderType
    <3> QED
      BY <1>23, <1>t, <3>1, <3>2 DEF Tick, BoxType
  <2>3. view' \in ViewType
    <3>1. Older(view.records) \in Map \cup {None}
      BY <1>t, OlderMap DEF ViewType, Older
    <3> QED
      BY <1>23, <1>t, <3>1 DEF Tick, ViewType
  <2>4. original' \in Record \cup {NoRec} /\ (original' # NoRec => original # NoRec)
    BY <1>23, <1>t, OlderType, Marks DEF Tick, Pending
  <2>5. idle' \in 0..MaxIdle
    BY <1>23, <1>t, Numbers DEF Tick
  <2> QED
    BY <1>23, <2>1, <2>2, <2>3, <2>4, <2>5, <1>t, <1>q DEF Tick
<1>24. CASE UserInput
  BY <1>24, <1>t, <1>q, Numbers DEF UserInput
<1>25. ASSUME NEW p \in Paths, Edit(p) PROVE Typed'
  <2>1. file' \in [Paths -> Revs \cup {0}] /\ indexed' \in [Paths -> BOOLEAN]
    BY <1>25, <1>t DEF Edit, Revs
  <2> QED
    BY <1>25, <2>1, <1>f, <1>t, <1>q DEF Edit
<1>26. CASE Crash
  BY <1>26, <1>f, <1>t, <1>q, EmptyTypes DEF Crash
<1>27. CASE UNCHANGED vars
  BY <1>27, <1>t, <1>q DEF vars
<1> QED
  BY <1>1, <1>2, <1>3, <1>4, <1>5, <1>6, <1>7, <1>8, <1>9, <1>10, <1>11, <1>12, <1>13, <1>14, <1>15,
     <1>16, <1>17, <1>18, <1>19, <1>20, <1>21, <1>22, <1>23, <1>24, <1>25, <1>26, <1>27
  DEF Next, Step

\* Records, mailbox, view and requests keep their types.
THEOREM TypeCorrect == Spec => []TypeOK
<1>1. Typed => TypeOK
  BY DEF Typed
<1> QED
  BY <1>1, TypeInit, TypeStep, PTL DEF Spec
-----------------------------------------------------------------------------
(* The window.                                                               *)

\* The mailbox carries exactly what the view lacks.
Followed ==
    /\ box.ready => Shown = records
    /\ ~box.newer => \A p \in Paths : box.changes[p] = Same

\* While no thread runs, the last cycle's terminal is in the mailbox, or the view
\* knows that no cycle is open; a run starts only then.
Seen ==
    /\ pc = "exit" => box.terminal # None
    /\ pc = "off" => IF box.ready THEN box.terminal # None ELSE view.seen /\ view.finalized
    /\ pc = "run" => view.seen /\ view.finalized

LEMMA FollowedInit == Init => Followed /\ Seen
<1> SUFFICES ASSUME Init PROVE Followed /\ Seen
  OBVIOUS
<1>1. box = NewBox /\ view = NewView /\ pc = "off"
  BY DEF Init
<1>2. /\ NewBox.ready = FALSE /\ NewBox.newer = FALSE /\ (\A p \in Paths : NewBox.changes[p] = Same)
      /\ NewView.seen = TRUE /\ NewView.finalized = TRUE
  BY DEF NewBox, NewView
<1> QED
  BY <1>1, <1>2 DEF Followed, Seen

\* A change of the records reaches the view: what was pending for a path stays, or is
\* replaced by the change.
LEMMA ReplaceFollowed ==
    ASSUME Typed, Followed, records # None, NEW m \in Map, Replace(m), view' = view
    PROVE  Followed'
<1>1. /\ box \in BoxType /\ records \in Map /\ view \in ViewType
  BY TypesNamed DEF Typed
<1> DEFINE c == [p \in Paths |-> IF m[p] # records[p] THEN m[p] ELSE box.changes[p]]
<1>2. /\ box'.ready = box.ready /\ box'.newer = (box.newer \/ m # records)
      /\ box'.changes = c /\ box'.baseline = box.baseline /\ records' = m
  BY <1>1 DEF Replace, BoxType
<1>3. Base' = Base
  BY <1>2 DEF Base
<1>4. \A p \in Paths : m[p] # Same
  BY Marks DEF Map
<1>5. CASE m = records
  <2>1. \A p \in Paths : c[p] = box.changes[p]
    BY <1>5
  <2>2. c = box.changes
    BY <1>1, <2>1 DEF BoxType
  <2> HIDE DEF c
  <2> QED
    BY <1>2, <1>3, <1>5, <2>2 DEF Followed, Shown
<1>6. CASE m # records
  <2>1. box'.newer
    BY <1>2, <1>6
  <2>2. ASSUME box.ready PROVE Merged(Base', c) = m
    <3>1. ASSUME NEW p \in Paths PROVE (IF c[p] = Same THEN Base[p] ELSE c[p]) = m[p]
      <4>1. CASE m[p] # records[p]
        BY <1>4, <4>1
      <4>2. CASE m[p] = records[p]
        <5>1. c[p] = box.changes[p]
          BY <4>2
        <5>2. CASE box.newer
          <6>1. records = Merged(Base, box.changes)
            BY <2>2, <5>2 DEF Followed, Shown
          <6>2. records[p] = IF box.changes[p] = Same THEN Base[p] ELSE box.changes[p]
            BY <6>1 DEF Merged
          <6> QED
            BY <4>2, <5>1, <6>2
        <5>3. CASE ~box.newer
          <6>1. box.changes[p] = Same /\ Base = records
            BY <2>2, <5>3, <1>1, NoneApart DEF Followed, Shown, Base
          <6> QED
            BY <4>2, <5>1, <6>1
        <5> QED
          BY <5>2, <5>3
      <4> QED
        BY <4>1, <4>2
    <3>2. Merged(Base, c) = [p \in Paths |-> m[p]]
      BY <3>1 DEF Merged
    <3>3. m = [p \in Paths |-> m[p]]
      BY DEF Map
    <3> QED
      BY <3>2, <3>3, <1>3
  <2> HIDE DEF c
  <2> QED
    BY <1>2, <2>1, <2>2 DEF Followed, Shown
<1> QED
  BY <1>5, <1>6

\* Time passes for everything the window and the owner hold.
LEMMA OlderFollowed == ASSUME Typed, Followed, Tick PROVE Followed'
<1>1. /\ box \in BoxType /\ records \in Map \cup {None} /\ view \in ViewType
  BY TypesNamed DEF Typed
<1>2. /\ box.changes \in [Paths -> Pending] /\ box.changes # None
      /\ box.baseline \in Map \cup {None} /\ view.records \in Map \cup {None}
  BY <1>1, NoneApart DEF BoxType, ViewType
<1>3. /\ box'.ready = box.ready /\ box'.newer = box.newer
      /\ box'.baseline = Older(box.baseline) /\ box'.changes = Older(box.changes)
      /\ view'.records = Older(view.records) /\ records' = Older(records)
  BY <1>1 DEF Tick, BoxType, ViewType
<1>4. \A p \in Paths : /\ box'.changes[p] = older(box.changes[p])
                       /\ (box'.changes[p] = Same <=> box.changes[p] = Same)
  <2>1. \A p \in Paths : box'.changes[p] = older(box.changes[p]) /\ box.changes[p] \in Pending
    BY <1>2, <1>3 DEF Older
  <2>2. \A x \in Pending : older(x) = Same <=> x = Same
    BY OlderType, Marks DEF Pending
  <2> QED
    BY <2>1, <2>2
<1>5. /\ (box'.baseline = None <=> box.baseline = None) /\ (view'.records = None <=> view.records = None)
  BY <1>2, <1>3, OlderMap, NoneApart DEF Older
<1>6. Older(Empty) = Empty /\ Empty \in Map
  <2>1. Empty \in Map /\ Empty # None
    BY NoneApart, EmptyTypes
  <2>2. Older(Empty) = [p \in Paths |-> older(Empty[p])]
    BY <2>1 DEF Older
  <2>3. \A p \in Paths : older(Empty[p]) = NoRec
    BY DEF Empty, older
  <2> QED
    BY <2>1, <2>2, <2>3 DEF Empty
<1>7. Base' = Older(Base) /\ Base \in Map
  <2>1. CASE box.baseline # None
    BY <2>1, <1>2, <1>3, <1>5 DEF Base
  <2>2. CASE box.baseline = None /\ view.records = None
    BY <2>2, <1>5, <1>6 DEF Base
  <2>3. CASE box.baseline = None /\ view.records # None
    BY <2>3, <1>2, <1>3, <1>5 DEF Base
  <2> QED
    BY <2>1, <2>2, <2>3
<1>8. Merged(Base, box.changes)' = Older(Merged(Base, box.changes))
  <2> DEFINE m == Merged(Base, box.changes)
  <2>1. m \in Map
    BY <1>2, <1>7, MergedType
  <2>2. \A p \in Paths : Older(m)[p] = older(m[p])
    BY <2>1, OlderMap
  <2>3. \A p \in Paths : m[p] = IF box.changes[p] = Same THEN Base[p] ELSE box.changes[p]
    BY DEF Merged
  <2>4. \A p \in Paths : Base'[p] = older(Base[p])
    BY <1>7, OlderMap
  <2>5. Older(m) \in Map
    BY <2>1, OlderMap
  <2> HIDE DEF m
  <2>6. \A p \in Paths : Older(m)[p] = IF box'.changes[p] = Same THEN Base'[p] ELSE box'.changes[p]
    BY <2>2, <2>3, <2>4, <1>4
  <2>7. Older(m) = [p \in Paths |-> Older(m)[p]]
    BY <2>5 DEF Map
  <2>8. Older(m) = [p \in Paths |-> IF box'.changes[p] = Same THEN Base'[p] ELSE box'.changes[p]]
    BY <2>6, <2>7
  <2> QED
    BY <2>8 DEF Merged, m
<1>9. Shown' = Older(Shown)
  BY <1>3, <1>5, <1>8 DEF Shown
<1> QED
  BY <1>3, <1>4, <1>9 DEF Followed

\* A poll hands over everything and shows the owner's records.
LEMMA DrainFollowed == ASSUME Typed, Followed, drain, records' = records PROVE Followed'
<1>1. CASE box.ready
  <2>1. /\ view' \in ViewType /\ view'.records = records
        /\ box' \in BoxType /\ box'.ready /\ box'.baseline = None /\ ~box'.newer
        /\ \A p \in Paths : box'.changes[p] = Same
    BY <1>1, PolledIs DEF drain, Followed
  <2>2. Shown' = view'.records
    BY <2>1 DEF Shown
  <2> QED
    BY <2>1, <2>2 DEF Followed
<1>2. CASE ~box.ready
  <2>1. view'.records = view.records /\ box' = box
    BY <1>2, PolledIs DEF drain
  <2> QED
    BY <1>2, <2>1 DEF Followed
<1> QED
  BY <1>1, <1>2

LEMMA FollowedStep == Typed /\ Followed /\ [Next]_vars => Followed'
<1> SUFFICES ASSUME Typed, Followed, [Next]_vars PROVE Followed'
  OBVIOUS
<1>t. /\ disk \in Map /\ records \in Map \cup {None} /\ box \in BoxType /\ view \in ViewType
      /\ target \in Paths \cup {None} /\ original \in Record \cup {NoRec} /\ cur \in CurType \cup {None}
      /\ (pc \notin {"off", "run", "load"} => box.ready /\ records # None)
      /\ (pc = "attempt" => cur # None)
      /\ (original # NoRec => target # None)
  BY TypesNamed DEF Typed, Working
<1>s. UNCHANGED <<box, view, records>> => Followed'
  BY DEF Followed, Shown, Base
<1>d. drain /\ records' = records => Followed'
  BY DrainFollowed
<1>e. ASSUME pc \notin {"off", "run", "load"}, view' = view, NEW m \in Map, Replace(m) PROVE Followed'
  BY <1>e, <1>t, ReplaceFollowed
<1>v. ASSUME pc = "attempt" PROVE cur.path \in Paths /\ cur.rev \in Revs /\ records[cur.path] \in Record \cup {NoRec}
  BY <1>v, <1>t, NoneApart DEF CurType, Map
<1>c. ASSUME pc = "attempt", NEW x \in Record \cup {NoRec}, Conclude(cur.path, x) PROVE Followed'
  <2>1. [records EXCEPT ![cur.path] = x] \in Map
    BY <1>c, <1>v, <1>t DEF Map
  <2> QED
    BY <1>c, <1>e, <2>1 DEF Conclude
<1>b. NewBox.ready = FALSE /\ NewBox.newer = FALSE /\ \A p \in Paths : NewBox.changes[p] = Same
  BY DEF NewBox
<1> USE DEF desk, owner, worker, history
<1>1. CASE PollTimer
  BY <1>1, <1>d DEF PollTimer
<1>2. CASE startReindex
  BY <1>2, <1>d DEF startReindex, request_start
<1>3. ASSUME NEW p \in Paths, retryFile(p) PROVE Followed'
  BY <1>3, <1>d DEF retryFile, request_start
<1>4. CASE on_idle
  BY <1>4, <1>d DEF on_idle, request_start
<1>5. CASE CatchUp
  BY <1>5, <1>d DEF CatchUp, request_start
<1>6. CASE Run
  BY <1>6, <1>b DEF Run, begin, Followed
<1>7. CASE Load
  <2> DEFINE m == IF records = None \/ ~dirty THEN disk ELSE records
  <2>1. m \in Map /\ records' = m
    BY <1>7, <1>t DEF Load, Open
  <2>2. box' = [NewBox EXCEPT !.ready = TRUE, !.newer = TRUE, !.baseline = m]
    BY <1>7 DEF Load, Open
  <2> HIDE DEF m
  <2>3. box'.newer /\ box'.baseline = m /\ \A p \in Paths : box'.changes[p] = Same
    BY <2>2 DEF NewBox
  <2>4. Base' = m
    BY <2>1, <2>3, NoneApart DEF Base
  <2>5. Shown' = [p \in Paths |-> m[p]]
    BY <2>3, <2>4 DEF Shown, Merged
  <2>6. m = [p \in Paths |-> m[p]]
    BY <2>1 DEF Map
  <2> QED
    BY <2>1, <2>3, <2>5, <2>6 DEF Followed
<1>8. CASE StartCycle
  <2>1. records \in Map /\ pc = "cycle" /\ view' = view
    BY <1>8, <1>t DEF StartCycle
  <2>2. CASE target # None /\ Admissible(target)
    <3>1. [records EXCEPT ![target] = Forced(records[target])] \in Map
      BY <2>1, <2>2, <1>t, ForcedType DEF Map
    <3> QED
      BY <1>8, <2>1, <2>2, <3>1, <1>e DEF StartCycle
  <2>3. CASE target # None /\ ~Admissible(target)
    BY <1>8, <2>3, <1>s DEF StartCycle
  <2>4. CASE target = None
    <3>1. request_retry_all(records) \in Map
      BY <2>1, ForcedType DEF request_retry_all, Map
    <3>2. \E m \in Map : Replace(m)
      BY <1>8, <2>1, <2>4, <3>1 DEF StartCycle
    <3> QED
      BY <2>1, <3>2, <1>e
  <2> QED
    BY <2>2, <2>3, <2>4
<1>9. CASE Succeed
  BY <1>9, <1>c DEF Succeed
<1>10. CASE Changed
  <2>1. pc = "attempt" /\ Conclude(cur.path, note_failure(records[cur.path], "FILE_CHANGED", cur.rev))
    BY <1>10 DEF Changed
  <2>2. note_failure(records[cur.path], "FILE_CHANGED", cur.rev) \in Record
    BY <2>1, <1>v, NoteType DEF Kinds
  <2> QED
    BY <2>1, <2>2, <1>c
<1>11. ASSUME NEW cause \in Causes, Fail(cause) PROVE Followed'
  <2> DEFINE x == note_failure(records[cur.path], classify(cause[1], cause[2], cause[3]), cur.rev)
  <2>1. pc = "attempt" /\ Conclude(cur.path, x)
    BY <1>11 DEF Fail
  <2>2. x \in Record
    BY <2>1, <1>v, NoteType, ClassifyType
  <2> HIDE DEF x
  <2> QED
    BY <2>1, <2>2, <1>c
<1>12. CASE EndDocuments
  <2>1. records \in Map /\ pc = "take" /\ view' = view
    BY <1>12, <1>t DEF EndDocuments
  <2>2. prune(records) \in Map
    BY <2>1 DEF prune, Map
  <2>3. \E m \in Map : Replace(m)
    BY <1>12, <2>1, <2>2 DEF EndDocuments
  <2> QED
    BY <2>1, <2>3, <1>e
<1>13. CASE Flush
  <2>1. records \in Map /\ pc = "flush" /\ view' = view
    BY <1>13, <1>t DEF Flush
  <2>2. Restored \in Map /\ Replace(Restored)
    BY <1>13, <2>1, <1>t DEF Restored, Map, Flush
  <2> QED
    BY <2>1, <2>2, <1>e
<1>14. CASE Finish
  <2>1. pc = "finish" /\ view' = view /\ records' = records /\ box.ready
        /\ box' = [box EXCEPT !.terminal = [persisted |-> ~dirty], !.ready = TRUE]
    BY <1>14, <1>t DEF Finish, finish
  <2>2. box'.ready /\ box'.newer = box.newer /\ box'.baseline = box.baseline /\ box'.changes = box.changes
    BY <2>1, <1>t DEF BoxType
  <2> QED
    BY <2>1, <2>2 DEF Followed, Shown, Base
<1>15. CASE Tick
  BY <1>15, OlderFollowed
<1>16. CASE Crash
  BY <1>16, <1>b DEF Crash, Followed
<1>17. CASE NoteLongIdle \/ cancel \/ Scan \/ (\E p \in Paths : Take(p) \/ Edit(p)) \/ Postpone \/ Escape
            \/ Persist \/ Exit \/ UserInput \/ UNCHANGED vars
  BY <1>17, <1>s
  DEF NoteLongIdle, cancel, Scan, Take, Edit, Postpone, Escape, Persist, Exit, UserInput, vars
<1> QED
  BY <1>1, <1>2, <1>3, <1>4, <1>5, <1>6, <1>7, <1>8, <1>9, <1>10, <1>11, <1>12, <1>13, <1>14, <1>15,
     <1>16, <1>17
  DEF Next, Step

\* What the window shows after its next poll is the owner's map, whenever the mailbox
\* is open: a handed-over baseline and coalesced changes lose nothing and are applied
\* once, across cycles, failed saves and polls at any moment (failure_updates.py drain,
\* begin, _changed; failure_view.py poll).
THEOREM WindowFollowsOwner == Spec => []ViewFollowsOwner
<1>1. Init => Followed
  BY FollowedInit
<1>2. Typed /\ Followed => ViewFollowsOwner
  BY PolledIs DEF ViewFollowsOwner, Followed
<1> QED
  BY <1>1, <1>2, TypeInit, TypeStep, FollowedStep, PTL DEF Spec

LEMMA SeenStep == Typed /\ Seen /\ [Next]_vars => Seen'
<1> SUFFICES ASSUME Typed, Seen, [Next]_vars PROVE Seen'
  OBVIOUS
<1>t. /\ box \in BoxType /\ view \in ViewType
      /\ pc \in {"off", "run", "load", "cycle", "scan", "take", "attempt", "persist", "flush", "save", "finish", "exit"}
      /\ (pc \notin {"off", "run", "load"} => box.ready)
  BY TypesNamed DEF Typed, Working
<1> USE DEF desk, owner, worker, history
\* A poll leaves the mailbox open with its terminal, and finalises a cycle that is over.
<1>d. ASSUME drain, pc' = pc \/ (pc = "off" /\ pc' = "run") PROVE Seen'
  <2>1. box'.ready = box.ready /\ box'.terminal = box.terminal
    BY <1>d, PolledIs DEF drain
  <2>2. view.seen /\ view.finalized => view'.seen /\ view'.finalized
    BY <1>d, PolledIs DEF drain
  <2>3. pc = "off" => view'.seen /\ view'.finalized
    BY <1>d, PolledIs DEF drain, Seen, isRunning
  <2> QED
    BY <1>d, <2>1, <2>2, <2>3 DEF Seen
<1>r. ASSUME NEW retry, NEW single, request_start(retry, single) PROVE Seen'
  <2>1. drain /\ (pc' = pc \/ (pc = "off" /\ pc' = "run"))
    BY <1>r DEF request_start, isRunning
  <2> QED
    BY <2>1, <1>d
<1>1. CASE PollTimer
  BY <1>1, <1>d DEF PollTimer
<1>2. CASE startReindex \/ (\E p \in Paths : retryFile(p)) \/ on_idle \/ CatchUp
  BY <1>2, <1>r DEF startReindex, retryFile, on_idle, CatchUp
<1>3. CASE Finish
  <2>1. [persisted |-> ~dirty] # None
    <3>1. dirty \in BOOLEAN
      BY DEF Typed, TypeOK
    <3>2. [persisted |-> ~dirty] \in Terminal
      BY <3>1 DEF Terminal
    <3> QED
      BY <3>2, NoneApart
  <2>2. pc' = "exit" /\ box'.terminal = [persisted |-> ~dirty]
    BY <1>3, <1>t DEF Finish, finish, BoxType
  <2> QED
    BY <2>1, <2>2 DEF Seen
<1>4. CASE Exit
  BY <1>4, <1>t DEF Exit, Seen
<1>5. CASE Tick
  <2>1. /\ box'.ready = box.ready /\ box'.terminal = box.terminal
        /\ view'.seen = view.seen /\ view'.finalized = view.finalized /\ pc' = pc
    BY <1>5, <1>t DEF Tick, BoxType, ViewType
  <2> QED
    BY <2>1 DEF Seen
<1>6. CASE Crash
  <2>1. NewBox.ready = FALSE /\ NewView.seen = TRUE /\ NewView.finalized = TRUE
    BY DEF NewBox, NewView
  <2> QED
    BY <1>6, <2>1 DEF Crash, Seen
<1>7. CASE NoteLongIdle \/ cancel \/ (\E p \in Paths : Edit(p)) \/ UserInput \/ UNCHANGED vars
  BY <1>7 DEF NoteLongIdle, cancel, Edit, UserInput, vars, Seen
\* Elsewhere the worker runs and is not about to end.
<1>8. CASE Run \/ Load \/ StartCycle \/ Scan \/ (\E p \in Paths : Take(p)) \/ Succeed \/ Changed
           \/ (\E c \in Causes : Fail(c)) \/ Postpone \/ Escape \/ EndDocuments \/ Persist \/ Flush
  <2>1. pc' \notin {"off", "run", "exit"}
    BY <1>8 DEF Run, Load, StartCycle, Scan, Take, Succeed, Changed, Fail, Conclude, Postpone, Escape,
                EndDocuments, Persist, Flush
  <2> QED
    BY <2>1 DEF Seen
<1> QED
  BY <1>1, <1>2, <1>3, <1>4, <1>5, <1>6, <1>7, <1>8 DEF Next, Step

\* The window learns of the end of every cycle: a run starts only when the view has
\* finalised the one before it, so no terminal is overwritten unseen (bridge.py
\* _worker_write_guard, failure_view.py poll).
THEOREM EveryEndIsSeen == Spec => []NoCycleSkipped
<1>1. Init => Seen
  BY FollowedInit
<1>2. Seen => NoCycleSkipped
  BY DEF Seen, NoCycleSkipped
<1> QED
  BY <1>1, <1>2, TypeInit, TypeStep, SeenStep, PTL DEF Spec

-----------------------------------------------------------------------------
(* Bypasses.                                                                 *)

Bypass(r) == r # NoRec /\ r.force

\* A bypass in the records was asked for, or is the one of a retry of one file that
\* Flush takes back; what is on the disk was asked for by what is there.  Unless
\* records are unsaved the disk holds them.
BypassesAsked ==
    /\ records = None => ~dirty /\ asked = askedDisk
    /\ records # None /\ ~dirty => disk = records
    /\ \A p \in Paths : Bypass(disk[p]) => askedDisk[p]
    /\ records # None =>
          \A p \in Paths : Bypass(records[p]) =>
              asked[p] \/ (original # NoRec /\ p = target /\ records[p] = Forced(original))
    /\ original # NoRec /\ original.force /\ Bypass(records[target]) => asked[target]

LEMMA BypassInit == Init => BypassesAsked
<1> SUFFICES ASSUME Init PROVE BypassesAsked
  OBVIOUS
<1>1. /\ records = None /\ dirty = FALSE /\ asked = askedDisk /\ disk = Empty /\ original = NoRec
  BY DEF Init
<1>2. \A p \in Paths : ~Bypass(disk[p])
  BY <1>1 DEF Empty, Bypass
<1> QED
  BY <1>1, <1>2 DEF BypassesAsked

\* Forcing a record forces it, and time does not change that.
LEMMA ForcedIs == \A r \in Record : Forced(r) \in Record /\ Forced(r).force
<1> TAKE r \in Record
<1>1. Forced(r) = [r EXCEPT !.force = TRUE]
  BY Marks DEF Forced
<1> QED
  BY <1>1 DEF Record

LEMMA OlderForced ==
    /\ \A r \in Record \cup {NoRec} : Bypass(older(r)) <=> Bypass(r)
    /\ \A r \in Record : older(Forced(r)) = Forced(older(r))
<1>1. ASSUME NEW r \in Record \cup {NoRec} PROVE Bypass(older(r)) <=> Bypass(r)
  BY OlderType, Marks DEF Bypass, Pending
<1>2. ASSUME NEW r \in Record PROVE older(Forced(r)) = Forced(older(r))
  <2> DEFINE a == IF r.age < MaxAge THEN r.age + 1 ELSE r.age
  <2>1. Forced(r) = [r EXCEPT !.force = TRUE] /\ Forced(r) \in Record /\ older(r) \in Record
    BY Marks, ForcedIs, OlderType DEF Forced, Pending
  <2>2. older(r) = [r EXCEPT !.age = a]
    BY Marks DEF older
  <2>3. Forced(r).age = r.age
    BY <2>1 DEF Record
  <2>4. older(Forced(r)) = [Forced(r) EXCEPT !.age = a]
    BY <2>1, <2>3, Marks DEF older
  <2>5. Forced(older(r)) = [older(r) EXCEPT !.force = TRUE]
    BY <2>1, Marks DEF Forced
  <2> HIDE DEF a
  <2>6. [[r EXCEPT !.force = TRUE] EXCEPT !.age = a] = [[r EXCEPT !.age = a] EXCEPT !.force = TRUE]
    BY DEF Record
  <2> QED
    BY <2>1, <2>2, <2>4, <2>5, <2>6
<1> QED
  BY <1>1, <1>2

LEMMA BypassStep == Typed /\ BypassesAsked /\ [Next]_vars => BypassesAsked'
<1> SUFFICES ASSUME Typed, BypassesAsked, [Next]_vars PROVE BypassesAsked'
  OBVIOUS
<1>t. /\ disk \in Map /\ records \in Map \cup {None} /\ dirty \in BOOLEAN
      /\ target \in Paths \cup {None} /\ original \in Record \cup {NoRec} /\ cur \in CurType \cup {None}
      /\ asked \in [Paths -> BOOLEAN] /\ askedDisk \in [Paths -> BOOLEAN]
      /\ (pc \notin {"off", "run", "load"} => records # None)
      /\ (pc = "attempt" => cur # None)
      /\ (original # NoRec => target \in Paths /\ pc \in {"scan", "take", "attempt", "persist", "flush"})
      /\ None \notin Map
  BY TypesNamed, NoneApart DEF Typed, Working
<1>i. /\ records = None => ~dirty /\ asked = askedDisk
      /\ records # None /\ ~dirty => disk = records
      /\ \A p \in Paths : Bypass(disk[p]) => askedDisk[p]
      /\ records # None =>
            \A p \in Paths : Bypass(records[p]) =>
                asked[p] \/ (original # NoRec /\ p = target /\ records[p] = Forced(original))
      /\ original # NoRec /\ original.force /\ Bypass(records[target]) => asked[target]
  BY DEF BypassesAsked
<1> USE DEF desk, owner, worker, history
<1>s. ASSUME UNCHANGED <<records, dirty, disk, asked, askedDisk>>,
             UNCHANGED <<original, target>> \/ (original = NoRec /\ original' = NoRec)
      PROVE  BypassesAsked'
  BY <1>s, <1>i DEF BypassesAsked
\* Replacing the records leaves them dirty where they differ from the disk.
<1>r. ASSUME NEW m \in Map, Replace(m), records # None, disk' = disk
      PROVE  records' = m /\ records' # None /\ (~dirty' => disk' = records')
  BY <1>r, <1>i, <1>t DEF Replace
<1>v. ASSUME pc = "attempt" PROVE cur.path \in Paths /\ cur.rev \in Revs /\ records[cur.path] \in Record \cup {NoRec}
  BY <1>v, <1>t DEF CurType, Map
<1>c. ASSUME pc = "attempt", NEW x \in Record \cup {NoRec}, ~Bypass(x), Conclude(cur.path, x)
      PROVE  BypassesAsked'
  <2> DEFINE m == [records EXCEPT ![cur.path] = x]
  <2>1. m \in Map /\ Replace(m) /\ disk' = disk /\ askedDisk' = askedDisk
        /\ original' = original /\ target' = target
    BY <1>c, <1>v, <1>t DEF Map, Conclude
  <2>2. m[cur.path] = x /\ \A q \in Paths : q # cur.path => m[q] = records[q]
    BY <1>c, <1>v, <1>t DEF Map
  <2>3. \A q \in Paths : q # cur.path => asked'[q] = asked[q]
    BY <1>c, <1>t DEF Conclude
  <2> HIDE DEF m
  <2>4. records' = m /\ records' # None /\ (~dirty' => disk' = records')
    BY <1>c, <1>t, <1>r, <2>1
  <2>5. ASSUME NEW q \in Paths, Bypass(m[q]) PROVE q # cur.path /\ Bypass(records[q])
    BY <1>c, <2>2, <2>5
  <2>6. \A q \in Paths : Bypass(m[q]) => asked'[q] \/ (original # NoRec /\ q = target /\ m[q] = Forced(original))
    BY <1>c, <1>i, <1>t, <2>2, <2>3, <2>5
  <2>7. original # NoRec /\ original.force /\ Bypass(m[target]) => asked'[target]
    BY <1>i, <1>t, <2>3, <2>5
  <2> QED
    BY <1>i, <2>1, <2>4, <2>6, <2>7 DEF BypassesAsked
<1>1. CASE Run \/ Finish
  BY <1>1, <1>s, <1>t DEF Run, Finish
<1>2. CASE Load
  <2> DEFINE m == IF records = None \/ ~dirty THEN disk ELSE records
  <2>1. original = NoRec /\ original' = NoRec /\ dirty' = dirty /\ disk' = disk /\ UNCHANGED <<asked, askedDisk>>
    BY <1>2, <1>t DEF Load
  <2>2. m \in Map /\ records' = m
    BY <1>2, <1>t DEF Load, Open
  <2>3. \A p \in Paths : Bypass(m[p]) => asked[p]
    BY <1>i, <1>t, <2>1
  <2>4. ~dirty => disk = m
    OBVIOUS
  <2> HIDE DEF m
  <2> QED
    BY <1>i, <1>t, <2>1, <2>2, <2>3, <2>4 DEF BypassesAsked
<1>3. CASE StartCycle
  <2>1. /\ records \in Map /\ records # None /\ original = NoRec
        /\ target' = target /\ disk' = disk /\ askedDisk' = askedDisk
    BY <1>3, <1>t DEF StartCycle
  <2>2. \A p \in Paths : asked'[p] = (asked[p] \/ (target = None /\ reqs.retry /\ records[p] # NoRec))
    BY <1>3 DEF StartCycle
  <2>3. \A p \in Paths : Bypass(records[p]) => asked'[p]
    BY <1>i, <2>1, <2>2
  <2>4. CASE target # None /\ Admissible(target)
    <3> DEFINE m == [records EXCEPT ![target] = Forced(records[target])]
    <3>1. target \in Paths /\ records[target] \in Record
      BY <2>1, <2>4, <1>t DEF Admissible, Map
    <3>2. m \in Map /\ Replace(m) /\ original' = records[target]
      BY <1>3, <2>1, <2>4, <3>1, ForcedIs DEF StartCycle, Map
    <3>3. m[target] = Forced(records[target]) /\ \A p \in Paths : p # target => m[p] = records[p]
      BY <2>1, <3>1 DEF Map
    <3> HIDE DEF m
    <3>4. records' = m /\ records' # None /\ (~dirty' => disk' = records')
      BY <1>r, <2>1, <3>2
    <3>5. original' # NoRec /\ (original'.force => Bypass(records[target]))
      BY <3>1, <3>2, Marks DEF Bypass
    <3>6. \A p \in Paths : Bypass(m[p]) => asked'[p] \/ (p = target /\ m[p] = Forced(original'))
      BY <2>3, <3>2, <3>3
    <3> QED
      BY <1>i, <2>1, <2>3, <3>1, <3>4, <3>5, <3>6 DEF BypassesAsked
  <2>5. CASE target # None /\ ~Admissible(target)
    <3>1. UNCHANGED <<records, dirty, original>>
      BY <1>3, <2>5 DEF StartCycle
    <3> QED
      BY <1>i, <2>1, <2>3, <3>1 DEF BypassesAsked
  <2>6. CASE target = None
    <3> DEFINE m == IF reqs.retry THEN request_retry_all(records) ELSE records
    <3>1. m \in Map /\ Replace(m) /\ original' = NoRec
      BY <1>3, <2>1, <2>6, ForcedType DEF StartCycle, request_retry_all, Map
    <3>2. \A p \in Paths : Bypass(m[p]) => asked'[p]
      <4>1. CASE reqs.retry
        <5> SUFFICES ASSUME NEW p \in Paths, Bypass(m[p]) PROVE asked'[p]
          OBVIOUS
        <5>1. m[p] = Forced(records[p]) /\ m[p] # NoRec
          BY <4>1 DEF request_retry_all, Bypass
        <5>2. records[p] # NoRec
          BY <2>1, <5>1, ForcedType DEF Map
        <5> QED
          BY <2>2, <2>6, <4>1, <5>2
      <4>2. CASE ~reqs.retry
        BY <2>3, <4>2
      <4> QED
        BY <4>1, <4>2
    <3> HIDE DEF m
    <3>3. records' = m /\ records' # None /\ (~dirty' => disk' = records')
      BY <1>r, <2>1, <3>1
    <3> QED
      BY <1>i, <2>1, <3>1, <3>2, <3>3 DEF BypassesAsked
  <2> QED
    BY <2>4, <2>5, <2>6
<1>4. CASE Succeed
  BY <1>4, <1>c DEF Succeed, Bypass
<1>5. CASE Changed
  <2>1. pc = "attempt" /\ Conclude(cur.path, note_failure(records[cur.path], "FILE_CHANGED", cur.rev))
    BY <1>5 DEF Changed
  <2>2. /\ note_failure(records[cur.path], "FILE_CHANGED", cur.rev) \in Record
        /\ ~Bypass(note_failure(records[cur.path], "FILE_CHANGED", cur.rev))
    BY <2>1, <1>v, NoteType DEF Kinds, Bypass
  <2> QED
    BY <2>1, <2>2, <1>c
<1>6. ASSUME NEW cause \in Causes, Fail(cause) PROVE BypassesAsked'
  <2> DEFINE x == note_failure(records[cur.path], classify(cause[1], cause[2], cause[3]), cur.rev)
  <2>1. pc = "attempt" /\ Conclude(cur.path, x)
    BY <1>6 DEF Fail
  <2>2. x \in Record /\ ~Bypass(x)
    BY <2>1, <1>v, NoteType, ClassifyType DEF Bypass
  <2> HIDE DEF x
  <2> QED
    BY <2>1, <2>2, <1>c
<1>7. CASE EndDocuments
  <2> DEFINE m == IF cancelled \/ target # None THEN records ELSE prune(records)
  <2>1. records \in Map /\ records # None /\ disk' = disk /\ UNCHANGED <<asked, askedDisk, original, target>>
    BY <1>7, <1>t DEF EndDocuments
  <2>2. m \in Map /\ Replace(m) /\ \A p \in Paths : m[p] = NoRec \/ m[p] = records[p]
    BY <1>7, <2>1 DEF prune, Map, EndDocuments
  <2> HIDE DEF m
  <2>3. records' = m /\ records' # None /\ (~dirty' => disk' = records')
    BY <1>r, <2>1, <2>2
  <2>4. \A p \in Paths : Bypass(m[p]) => m[p] = records[p]
    BY <2>2 DEF Bypass
  <2> QED
    BY <1>i, <1>t, <2>1, <2>3, <2>4 DEF BypassesAsked
<1>8. CASE Persist
  <2>1. records # None /\ UNCHANGED <<records, asked, original, target>>
        /\ (original # NoRec => pc = "persist")
    BY <1>8, <1>t DEF Persist
  <2>2. CASE /\ disk' = records /\ dirty' = FALSE
             /\ askedDisk' = [p \in Paths |-> asked[p] \/ (pc = "persist" /\ p = target)]
    BY <1>i, <2>1, <2>2 DEF BypassesAsked
  <2>3. CASE dirty' = TRUE /\ UNCHANGED <<disk, askedDisk>>
    BY <1>i, <2>1, <2>3 DEF BypassesAsked
  <2> QED
    BY <1>8, <2>2, <2>3 DEF Persist, save
<1>9. CASE Flush
  <2>1. records \in Map /\ records # None /\ disk' = disk /\ UNCHANGED <<asked, askedDisk, target>> /\ original' = NoRec
    BY <1>9, <1>t DEF Flush
  <2>2. Restored \in Map /\ Replace(Restored)
    BY <1>9, <2>1, <1>t DEF Restored, Map, Flush
  <2>3. records' = Restored /\ records' # None /\ (~dirty' => disk' = records')
    BY <1>r, <2>1, <2>2
  <2>4. ASSUME NEW p \in Paths, Bypass(Restored[p]) PROVE asked[p]
    <3>1. CASE target # None /\ original # NoRec /\ records[target] = Forced(original)
      <4>1. target \in Paths /\ original \in Record /\ Restored = [records EXCEPT ![target] = original]
        BY <3>1, <1>t DEF Restored
      <4>2. CASE p = target
        <5>1. original.force
          BY <2>1, <2>4, <4>1, <4>2 DEF Bypass, Map
        <5>2. Bypass(records[target])
          BY <3>1, <4>1, ForcedIs, Marks DEF Bypass
        <5> QED
          BY <1>i, <3>1, <4>2, <5>1, <5>2
      <4>3. CASE p # target
        BY <1>i, <2>1, <2>4, <4>1, <4>3 DEF Map
      <4> QED
        BY <4>2, <4>3
    <3>2. CASE ~(target # None /\ original # NoRec /\ records[target] = Forced(original))
      <4>1. Restored = records
        BY <3>2 DEF Restored
      <4> QED
        BY <1>i, <1>t, <2>1, <2>4, <3>2, <4>1, ConstantsAssumption DEF ConstantsAssumption
    <3> QED
      BY <3>1, <3>2
  <2> QED
    BY <1>i, <2>1, <2>3, <2>4 DEF BypassesAsked
<1>10. CASE Tick
  <2>1. /\ records' = Older(records) /\ disk' = Older(disk) /\ original' = older(original)
        /\ UNCHANGED <<dirty, asked, askedDisk, target>>
    BY <1>10 DEF Tick
  <2>2. (records' = None <=> records = None) /\ disk' \in Map
    BY <1>t, <2>1, OlderMap DEF Older
  <2>3. \A p \in Paths : disk'[p] = older(disk[p]) /\ disk[p] \in Record \cup {NoRec}
    BY <1>t, <2>1, OlderMap DEF Map
  <2>4. records # None => \A p \in Paths : records'[p] = older(records[p]) /\ records[p] \in Record \cup {NoRec}
    BY <1>t, <2>1, OlderMap DEF Map
  <2>5. /\ (original' # NoRec <=> original # NoRec)
        /\ (original # NoRec => original \in Record /\ original'.force = original.force)
    BY <1>t, <2>1, OlderType, Marks DEF Pending
  <2>6. \A p \in Paths : Bypass(disk'[p]) => askedDisk'[p]
    BY <1>i, <2>1, <2>3, OlderForced
  <2>7. ASSUME records # None, NEW p \in Paths, Bypass(records'[p])
        PROVE  asked'[p] \/ (original' # NoRec /\ p = target' /\ records'[p] = Forced(original'))
    <3>1. Bypass(records[p])
      BY <2>4, <2>7, OlderForced
    <3>2. records[p] = Forced(original) /\ original # NoRec => records'[p] = Forced(original')
      BY <2>1, <2>4, <2>5, <2>7, OlderForced
    <3> QED
      BY <1>i, <2>1, <2>5, <2>7, <3>1, <3>2
  <2>8. original' # NoRec /\ original'.force /\ Bypass(records'[target']) => asked'[target']
    <3> SUFFICES ASSUME original' # NoRec, original'.force, Bypass(records'[target']) PROVE asked'[target']
      OBVIOUS
    <3>1. original # NoRec /\ original.force /\ target \in Paths /\ records # None /\ target' = target
      BY <1>t, <2>1, <2>5
    <3>2. Bypass(records[target])
      BY <2>4, <3>1, OlderForced
    <3> QED
      BY <1>i, <2>1, <3>1, <3>2
  <2> QED
    BY <1>i, <2>1, <2>2, <2>6, <2>7, <2>8 DEF BypassesAsked
<1>11. CASE Crash
  BY <1>11, <1>i DEF Crash, BypassesAsked
<1>12. CASE PollTimer \/ startReindex \/ (\E p \in Paths : retryFile(p)) \/ on_idle \/ CatchUp
  BY <1>12, <1>s DEF PollTimer, startReindex, retryFile, on_idle, CatchUp, request_start
<1>13. CASE NoteLongIdle \/ cancel \/ Scan \/ (\E p \in Paths : Take(p) \/ Edit(p)) \/ Postpone \/ Escape
            \/ Exit \/ UserInput \/ UNCHANGED vars
  BY <1>13, <1>s DEF NoteLongIdle, cancel, Scan, Take, Edit, Postpone, Escape, Exit, UserInput, vars
<1> QED
  BY <1>1, <1>2, <1>3, <1>4, <1>5, <1>6, <1>7, <1>8, <1>9, <1>10, <1>11, <1>12, <1>13 DEF Next, Step

\* A file inside its wait is attempted again only if the user asked for it and no
\* attempt has had a result since, whatever is queued twice, saved, lost or cancelled:
\* a bypass is used once, and a retry of one file leaves none behind (scheduler.py
\* consumer's should_defer, _restore_single_retry_flag).
THEOREM WaitsAreKept == Spec => BypassWasAsked
<1> DEFINE Asked == \A p \in Paths :
               /\ Take(p) /\ pc' = "attempt"
               /\ records[p] # NoRec /\ records[p].rev = queue[p].rev /\ Waiting(records[p])
               => asked[p] \/ p = target
<1>1. ASSUME Typed, BypassesAsked PROVE Asked
  <2> SUFFICES ASSUME NEW p \in Paths, Take(p), pc' = "attempt",
                      records[p] # NoRec, records[p].rev = queue[p].rev, Waiting(records[p])
               PROVE  asked[p] \/ p = target
    OBVIOUS
  <2>1. pc = "take" /\ ~should_defer(records[p], queue[p].rev)
    BY DEF Take
  <2>2. Bypass(records[p])
    BY <2>1 DEF should_defer, Bypass
  <2>3. records # None
    BY <1>1, <2>1 DEF Typed, Working
  <2> QED
    BY <1>1, <2>2, <2>3 DEF BypassesAsked
<1>2. Typed /\ BypassesAsked => [Asked]_vars
  BY <1>1
<1> QED
  BY <1>2, TypeInit, TypeStep, BypassInit, BypassStep, PTL DEF Spec, BypassWasAsked
=============================================================================
