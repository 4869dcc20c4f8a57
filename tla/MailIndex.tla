------------------------------ MODULE MailIndex ------------------------------
(***************************************************************************)
(* The mail half of a collector cycle: clean up after exclusions           *)
(* (mail_exclusion), then visit the mail files from a cursor, a limited     *)
(* number per scan, embed them in windows and add them to the emails table  *)
(* (mail_scanner, email_indexer).                                           *)
(*                                                                          *)
(* Rows carry a mail_uid, and several files may be copies of one mail: the  *)
(* newest content wins and the other copies only ride along.  Rows that     *)
(* have been replaced or excluded are deleted by id, and an id is in the    *)
(* saved queue (pending_deletes) before its row goes.  Table and state file *)
(* are written one after the other; a Crash may fall between any two        *)
(* writes.  Rows whose uid is a path are left from an old parser (legacy).  *)
(* Sources: knowmate/collector/mail_scanner.py, mail_scan_state.py,         *)
(* mail_exclusion.py, scheduler.py, knowmate/rag/email_indexer.py.          *)
(***************************************************************************)
EXTENDS Naturals, FiniteSets, Sequences, SequencesExt

CONSTANTS
    Paths, Uids,
    Uid,            \* the mail each path is a copy of
    Rank,           \* the order of path keys, for equal times
    Bodies,         \* contents that can be told apart
    Corrupt,        \* the content CorruptMailBodyError is raised for
    First,          \* mtime and content of each file at the start
    LegacyRow,      \* paths with a row under their own name
    MaxTime,        \* bound: mtimes, a second apart
    MaxId,          \* bound: generations in the table or in a queue
    MaxPerScan,     \* mail.max_mails_per_scan
    BatchSize,      \* email_indexer._batch_size, in mails
    Faults,         \* the fault kinds a run lets happen
    MaxFaults,      \* bound: how many faults happen in a behaviour
    MaxEdits,       \* bound: how often the user does something
    None

FaultKinds == {"save", "delete", "lookup", "check", "scan", "parse", "embed",
               "content", "add", "addLost", "cancel", "crash", "recreate"}

Ids   == 1..MaxId
Times == 0..MaxTime
Item  == [p : Paths, t : Times, body : Bodies \cup {Corrupt, None}]

\* MailGeneration: a content chosen for a mail in this scan, and its copies
Generation == [body : Bodies, t : Times, outcome : {"open", "success", "failure"},
               aliases : SUBSET [item : Item, old : SUBSET Ids]]

Running == {"retry", "retried", "reconcile", "exclude", "excluded", "scan", "scanned", "discover",
            "item", "parse", "again", "after", "embed", "commit", "last", "finish",
            "queue", "drop", "clear", "mark"}
Words   == Running \cup {"idle", "cycle", "policy", "single", "empty", "recreated"}

ASSUME ConstantsAssumption ==
    /\ Uid \in [Paths -> Uids] /\ Paths \cap Uids = {}
    /\ Rank \in [Paths -> Ids] /\ \A p, q \in Paths : Rank[p] = Rank[q] => p = q
    /\ First \in [Paths -> [t : 0..MaxTime, body : Bodies \cup {Corrupt}]] /\ LegacyRow \subseteq Paths
    /\ MaxTime \in Nat /\ MaxId \in Nat /\ MaxFaults \in Nat /\ MaxEdits \in Nat
    /\ MaxPerScan \in Nat \ {0} /\ BatchSize \in Nat \ {0}
    /\ Faults \subseteq FaultKinds
    /\ Corrupt \notin Bodies
    /\ None \notin Paths \cup Uids \cup Bodies \cup Generation \cup Words

Key   == [t : Times, p : Paths]
State == [files : [Paths -> Times], pend : SUBSET Ids, cursor : Key \cup {None}]
Row   == [id : Ids, uid : Uids \cup Paths, t : Times, src : Paths]

VARIABLES
    file, excl,     \* the mail files, collector.exclude_files
    table,          \* emails; the rows of one mail, added at once, are one
    disk, mem,      \* mail_scan_state.json and the cycle's state
    dirty,          \* state_dirty
    blank,          \* table_was_recreated, or only table_is_empty
    reconciled,     \* _mail_exclusions_reconciled
    waiting,        \* the mtime each path's failure record defers it for, 0: none
    snap,           \* MailDiscoverySnapshot: listed mtimes and the settings they are for
    pc, scan,       \* where the worker is, and run_mail_scan's locals
    op,             \* the delete_captured_ids in hand and whom it marks afterwards
    completion,     \* last_mail_scan_completion
    edits, faults

settings == <<file, excl>>
store    == <<table, disk>>
memory   == <<mem, dirty, blank, reconciled, waiting, snap>>
vars == <<settings, store, memory, pc, scan, op, completion, edits, faults>>

NoState == [files |-> [p \in Paths |-> 0], pend |-> {}, cursor |-> None]
NoItem  == [p |-> None, t |-> 0, body |-> None]
NoScan  == [job |-> None, todo |-> << >>, n |-> 0, item |-> NoItem, key |-> None,
            win |-> << >>, ready |-> {}, ret |-> None,
            work |-> [u \in Uids |-> None], shadow |-> [u \in Uids |-> 0],
            fresh |-> FALSE, whole |-> TRUE, stop |-> FALSE, cancelled |-> FALSE,
            missed |-> FALSE, flushed |-> FALSE, ids |-> {}]
NoOp    == [ids |-> {}, good |-> {}, bad |-> {}, back |-> None]

TypeOK ==
    /\ file \in [Paths -> [t : Times, body : Bodies \cup {Corrupt}]] /\ excl \subseteq Paths
    /\ table \subseteq Row /\ disk \in State /\ mem \in State
    /\ \A g, h \in table : g.id = h.id => g = h
    /\ dirty \in BOOLEAN /\ blank \in {None, "empty", "recreated"}
    /\ reconciled \subseteq Paths /\ waiting \in [Paths -> Times]
    /\ snap = None \/ snap \in [items : [Paths -> Times], excl : SUBSET Paths]
    /\ pc \in Running \cup {"idle"}
    /\ scan.job \in {None, "cycle", "policy", "single"}
    /\ \A i \in DOMAIN scan.todo : scan.todo[i] \in Item
    /\ pc \in {"parse", "again"} => scan.item \in Item
    /\ \A i \in DOMAIN scan.win : scan.win[i].item \in Item /\ scan.win[i].item.body \in Bodies
    /\ scan.work \in [Uids -> Generation \cup {None}]
    /\ op.ids \subseteq Ids /\ op.good \cup op.bad \subseteq Item
    /\ completion \in {None, "UNKNOWN", "REMAINING", "EXHAUSTED"}
    /\ edits \in 0..MaxEdits /\ faults \in 0..MaxFaults

Fault(kind) == kind \in Faults /\ faults < MaxFaults /\ faults' = faults + 1
UserActs    == edits < MaxEdits /\ edits' = edits + 1

Present(p) == file[p].t > 0

\* The copies that wait for the content of their mail.
Riders == UNION {scan.work[u].aliases : u \in {v \in Uids : scan.work[v] # None}}

\* uuid4: an id nobody knows; ids that are known nowhere may come again.
Known == {g.id : g \in table} \cup disk.pend \cup mem.pend \cup op.ids \cup scan.ids
           \cup (UNION {scan.win[i].old : i \in DOMAIN scan.win})
           \cup (UNION {a.old : a \in Riders})
NewId == CHOOSE i \in Ids \ Known : \A j \in Ids \ Known : i <= j

Rows(ids)    == {g \in table : g.id \in ids}
Legacy(p)    == {g.id : g \in {h \in table : h.uid = p /\ h.src = p}}     \* get_legacy_path_chunk_ids
Current(uid) == {g \in table : g.uid = uid /\ g.id \notin mem.pend}       \* ignoring what waits

Init ==
    /\ file = First
    /\ excl = {}
    /\ table = {[id |-> Rank[p], uid |-> p, t |-> First[p].t, src |-> p] : p \in LegacyRow}
    /\ disk = NoState /\ mem = NoState /\ dirty = FALSE
    /\ blank = IF table = {} THEN "recreated" ELSE None
    /\ reconciled = {} /\ waiting = [p \in Paths |-> 0] /\ snap = None
    /\ pc = "idle" /\ scan = NoScan /\ op = NoOp /\ completion = None
    /\ edits = 0 /\ faults = 0

-----------------------------------------------------------------------------
(* The user, time and crashes.                                              *)

Edit(p) ==
    /\ UserActs
    /\ \E t \in (file[p].t + 1)..MaxTime, b \in Bodies \cup {Corrupt} :
          file' = [file EXCEPT ![p] = [t |-> t, body |-> b]]
    /\ UNCHANGED <<excl, store, memory, pc, scan, op, completion, faults>>

Delete(p) ==
    /\ UserActs /\ Present(p)
    /\ file' = [file EXCEPT ![p].t = 0]
    /\ UNCHANGED <<excl, store, memory, pc, scan, op, completion, faults>>

BackoffExpires(p) ==
    /\ waiting[p] > 0
    /\ waiting' = [waiting EXCEPT ![p] = 0]
    /\ UNCHANGED <<settings, store, mem, dirty, blank, reconciled, snap, pc, scan, op, completion,
                   edits, faults>>

\* mail.discovery_refresh_seconds have passed, or the user asked for a retry.
SnapshotExpires ==
    /\ snap # None /\ snap' = None
    /\ UNCHANGED <<settings, store, mem, dirty, blank, reconciled, waiting, pc, scan, op, completion,
                   edits, faults>>

Restarted ==
    /\ mem' = NoState /\ dirty' = FALSE /\ reconciled' = {} /\ snap' = None
    /\ pc' = "idle" /\ scan' = NoScan /\ op' = NoOp /\ completion' = None
    /\ UNCHANGED <<settings, disk, waiting, edits>>

Crash ==
    /\ Fault("crash") /\ pc # "idle"
    /\ Restarted
    /\ blank' = (IF table = {} THEN "empty" ELSE None) /\ UNCHANGED table

\* get_or_create_emails_table finds no table or one it cannot migrate.
Recreate ==
    /\ Fault("recreate") /\ table # {}
    /\ Restarted
    /\ table' = {} /\ blank' = "recreated"

Cancel ==
    /\ Fault("cancel") /\ scan.job # "policy" /\ pc # "idle" /\ ~scan.cancelled
    /\ scan' = [scan EXCEPT !.cancelled = TRUE]
    /\ UNCHANGED <<settings, store, memory, pc, op, completion, edits>>

-----------------------------------------------------------------------------
(* Starting: a full cycle, an exclusion, or the retry of one mail.          *)

Start(job) == pc = "idle" /\ dirty' = FALSE /\ scan' = [NoScan EXCEPT !.job = job] /\ completion' = None

\* A table that was lost empties the cache, and that is saved before anything else.
BeginCycle ==
    /\ Start("cycle")
    /\ mem' = IF blank # None THEN [disk EXCEPT !.files = NoState.files] ELSE disk
    /\ disk' = mem'
    /\ blank' = None
    /\ snap' = IF blank # None THEN None ELSE snap
    /\ pc' = "retry"
    /\ UNCHANGED <<settings, table, reconciled, waiting, op, edits, faults>>

Exclude(p) ==
    /\ UserActs /\ p \notin excl /\ Start("policy")
    /\ excl' = excl \cup {p}
    /\ mem' = disk
    /\ pc' = "retry"
    /\ UNCHANGED <<file, store, blank, reconciled, waiting, snap, op, faults>>

Unexclude(p) ==
    /\ pc = "idle" /\ p \in excl
    /\ excl' = excl \ {p} /\ reconciled' = reconciled \ {p}
    /\ UNCHANGED <<file, store, mem, dirty, blank, waiting, snap, pc, scan, op, completion, edits,
                   faults>>

RetryOne(p) ==
    /\ UserActs /\ p \notin excl /\ Present(p)
    /\ blank # None => disk.files = NoState.files          \* else: recovery_required
    /\ pc = "idle" /\ dirty' = FALSE /\ completion' = None
    /\ mem' = disk
    /\ LET item == [p |-> p, t |-> file[p].t, body |-> None]
       IN  scan' = [NoScan EXCEPT !.job = "single", !.todo = <<item>>]
    /\ pc' = "item"
    /\ UNCHANGED <<settings, store, blank, reconciled, waiting, snap, op, faults>>

Ended == pc' = "idle" /\ scan' = NoScan /\ mem' = NoState /\ dirty' = FALSE

-----------------------------------------------------------------------------
(* mail_exclusion.reconcile_mail_exclusions, and the retry of deletions     *)
(* that run_mail_scan begins with.                                          *)

Forgotten(s, ids) == [s EXCEPT !.pend = @ \ ids]

RetryPending(from, saved, to) ==
    /\ pc = from
    /\ \/ /\ mem.pend = {} /\ pc' = to
          /\ UNCHANGED <<table, mem, faults>>
       \/ /\ mem.pend # {}
          /\ table' = table \ Rows(mem.pend)
          /\ mem' = Forgotten(mem, mem.pend)
          /\ pc' = saved /\ UNCHANGED faults
       \/ /\ mem.pend # {} /\ Fault("delete") /\ pc' = to
          /\ UNCHANGED <<table, mem>>
    /\ UNCHANGED <<settings, disk, dirty, blank, reconciled, waiting, snap, scan, op, completion, edits>>

\* Only run_mail_scan remembers that the state is still to be saved.
SaveRetried(saved, to) ==
    /\ pc = saved /\ pc' = to
    /\ \/ disk' = mem /\ UNCHANGED <<dirty, faults>>
       \/ Fault("save") /\ dirty' = (saved = "scanned") /\ UNCHANGED disk
    /\ UNCHANGED <<settings, table, mem, blank, reconciled, waiting, snap, scan, op, completion, edits>>

Targets == excl \ reconciled

\* Mutant: the rows of the mail, whatever file they were read from.
RefsByUid(paths) == {g \in table : g.uid \in {Uid[p] : p \in paths}}
Refs(paths) == {g \in table : g.src \in paths}          \* get_source_chunk_refs

Dropped(files, paths, uids) ==
    [p \in Paths |-> IF p \in paths \/ Uid[p] \in uids THEN 0 ELSE files[p]]

AfterExclusion == IF scan.job = "policy" THEN Ended
                  ELSE pc' = "scan" /\ scan' = [scan EXCEPT !.ids = {}] /\ UNCHANGED <<mem, dirty>>

Reconcile ==
    /\ pc = "reconcile"
    /\ LET refs == Refs(Targets)
           ids  == {g.id : g \in refs}
           kept == [mem EXCEPT !.files = Dropped(@, Targets, {g.uid : g \in refs}),
                               !.pend = @ \cup ids]
       IN  \/ /\ Targets = {}
              /\ reconciled' = reconciled \cap excl
              /\ AfterExclusion /\ UNCHANGED <<disk, faults>>
           \/ /\ Targets # {}
              /\ reconciled' = excl
              /\ disk' = IF kept = mem THEN disk ELSE kept
              /\ IF ids = {} /\ scan.job = "policy" THEN Ended
                 ELSE /\ mem' = kept /\ scan' = [scan EXCEPT !.ids = ids] /\ UNCHANGED dirty
                      /\ pc' = IF ids = {} THEN "scan" ELSE "exclude"
              /\ UNCHANGED faults
           \/ /\ Targets # {} /\ (Fault("lookup") \/ (kept # mem /\ Fault("save")))
              /\ reconciled' = reconciled \cap excl
              /\ Ended /\ UNCHANGED disk        \* not ok: no mail scan in this cycle
    /\ UNCHANGED <<settings, table, blank, waiting, snap, op, completion, edits>>

DeleteExcluded ==
    /\ pc = "exclude"
    /\ \/ /\ table' = table \ Rows(scan.ids)
          /\ mem' = Forgotten(mem, scan.ids)
          /\ pc' = "excluded" /\ UNCHANGED <<scan, dirty, faults>>
       \/ Fault("delete") /\ AfterExclusion /\ UNCHANGED table
    /\ UNCHANGED <<settings, disk, blank, reconciled, waiting, snap, op, completion, edits>>

SaveExcluded ==
    /\ pc = "excluded"
    /\ (disk' = mem /\ UNCHANGED faults) \/ (Fault("save") /\ UNCHANGED disk)
    /\ AfterExclusion
    /\ UNCHANGED <<settings, table, blank, reconciled, waiting, snap, op, completion, edits>>

-----------------------------------------------------------------------------
(* Discovery: which files there are and which of them to visit, newest      *)
(* first, from the cursor round to the cursor.                              *)

Listed == [p \in Paths |-> file[p].t]

Before(k, l) == k.t > l.t \/ (k.t = l.t /\ Rank[k.p] < Rank[l.p])

\* Mutant: every scan begins with the newest mail.
FromNewest(seq, cursor) == seq
\* bisect_right and the two loops of _candidates_from_cursor.
Rotated(seq, cursor) ==
    IF cursor = None THEN seq
    ELSE LET passed == Cardinality({i \in DOMAIN seq : ~Before(cursor, [t |-> seq[i].t, p |-> seq[i].p])})
         IN  SubSeq(seq, passed + 1, Len(seq)) \o SubSeq(seq, 1, passed)

cache_matches(s, p, t) == s.files[p] = t

\* A file that was modified since its failure is not deferred.
should_defer(p, t) == waiting[p] = t

Candidates(items) ==
    {[p |-> p, t |-> items[p], body |-> None] :
        p \in {q \in Paths : /\ items[q] > 0 /\ q \notin excl /\ ~should_defer(q, items[q])
                             /\ ~cache_matches(mem, q, items[q])}}

\* The newest copy of each mail that the cache vouches for.
Shadow(items) ==
    [u \in Uids |->
        LET times == {items[p] : p \in {q \in Paths : /\ Uid[q] = u /\ items[q] > 0 /\ q \notin excl
                                                      /\ cache_matches(mem, q, items[q])}}
        IN  IF times = {} THEN 0 ELSE CHOOSE t \in times : \A s \in times : s <= t]

Pruned(s, items) == [s EXCEPT !.files = [p \in Paths |-> IF items[p] > 0 THEN @[p] ELSE 0]]

\* _collect_actionable_candidates over what was listed; whole: nothing was
\* unreadable, reused: it is the list of an earlier cycle.
Collect(items, whole, reused) ==
    LET fresh == ~reused /\ whole /\ ~scan.cancelled
        asked == {p \in Paths : items[p] > 0 /\ p \notin excl}
    IN  /\ snap' = IF reused THEN snap ELSE IF fresh THEN [items |-> items, excl |-> excl] ELSE None
        /\ mem' = IF fresh THEN Pruned(mem, items) ELSE mem
        /\ dirty' = (dirty \/ mem' # mem)
        /\ waiting' = [p \in Paths |-> IF /\ fresh => Present(p)
                                          /\ p \in asked => ~cache_matches(mem, p, items[p])
                                       THEN waiting[p] ELSE 0]
        /\ \E listed \in SetToSeqs(Candidates(items)) :
              /\ \A i, j \in DOMAIN listed : i < j => Before(listed[i], listed[j])
              /\ scan' = [scan EXCEPT !.todo = Rotated(listed, mem.cursor),
                                      !.shadow = Shadow(items), !.fresh = ~reused,
                                      !.whole = whole /\ ~scan.cancelled]

Reusable == snap # None /\ snap.excl = excl

Discover ==
    /\ pc = "discover" /\ pc' = "item"
    /\ \/ Reusable /\ Collect(snap.items, TRUE, TRUE) /\ UNCHANGED faults
       \/ ~Reusable /\ Collect(Listed, TRUE, FALSE) /\ UNCHANGED faults
       \/ /\ ~Reusable /\ Fault("scan")                 \* a directory cannot be read
          /\ \E lost \in SUBSET Paths \ {{}} :
                Collect([p \in Paths |-> IF p \in lost THEN 0 ELSE file[p].t], FALSE, FALSE)
    /\ UNCHANGED <<settings, store, blank, reconciled, op, completion, edits>>

-----------------------------------------------------------------------------
(* One mail of the list: look at it again, parse it, and decide.            *)

MayGoOn == scan.todo # << >> /\ ~scan.cancelled /\ scan.n < MaxPerScan

\* The stat just before parsing; a file that is gone, unchanged after all or to be
\* deferred as it is now costs its place in the scan.
Attempt ==
    /\ pc = "item" /\ MayGoOn
    /\ LET item == Head(scan.todo)
           key  == [t |-> item.t, p |-> item.p]
           live == IF scan.job = "single" THEN item.t ELSE file[item.p].t
           on   == [scan EXCEPT !.todo = Tail(@), !.n = @ + 1, !.key = key]
           skip == scan.job = "cycle" /\ (cache_matches(mem, item.p, live) \/ should_defer(item.p, live))
       IN  /\ snap' = IF scan.job = "single" \/ snap = None \/ live = 0 THEN snap
                      ELSE [snap EXCEPT !.items[item.p] = live]
           /\ IF live = 0 \/ skip
              THEN /\ mem' = [mem EXCEPT !.cursor = key] /\ dirty' = TRUE
                   /\ scan' = [on EXCEPT !.missed = @ \/ live = 0]
                   /\ pc' = "item"
              ELSE /\ scan' = [on EXCEPT !.item = [item EXCEPT !.t = live]]
                   /\ pc' = "parse" /\ UNCHANGED <<mem, dirty>>
    /\ UNCHANGED <<settings, store, blank, reconciled, waiting, op, completion, edits, faults>>

LoopEnds ==
    /\ pc = "item" /\ ~MayGoOn
    /\ pc' = "last"
    /\ UNCHANGED <<settings, store, memory, scan, op, completion, edits, faults>>

Item0 == [scan.item EXCEPT !.body = file[scan.item.p].body]
Work  == scan.work[Uid[scan.item.p]]

\* mark_failure of the item in hand, without a cache entry.
Fails(item, s) ==
    /\ waiting' = [waiting EXCEPT ![item.p] = item.t]
    /\ scan' = [s EXCEPT !.item = NoItem]
    /\ pc' = "after" /\ UNCHANGED op

\* Deletes what ids names, then marks the items.
Marks(ids, good, bad, back) ==
    /\ op' = [ids |-> ids, good |-> good, bad |-> bad, back |-> back]
    /\ pc' = IF ids = {} THEN "mark" ELSE "queue"

ParseFails ==
    /\ pc = "parse"
    /\ IF Present(scan.item.p) THEN Fault("parse") ELSE UNCHANGED faults
    /\ Fails(scan.item, scan)
    /\ UNCHANGED <<settings, store, mem, dirty, blank, reconciled, snap, completion, edits>>

CorruptMail ==
    /\ pc = "parse" /\ Present(scan.item.p) /\ Item0.body = Corrupt
    /\ \/ /\ Marks(Legacy(scan.item.p), {}, {scan.item}, "after") /\ scan' = [scan EXCEPT !.item = NoItem]
          /\ UNCHANGED <<waiting, faults>>
       \/ Fault("lookup") /\ Fails(scan.item, scan)
    /\ UNCHANGED <<settings, store, mem, dirty, blank, reconciled, snap, completion, edits>>

Parsed(item) == pc = "parse" /\ Present(item.p) /\ item.body # Corrupt

\* A copy whose mail the cache, or an earlier copy of this scan, has settled.
Copy ==
    /\ Parsed(Item0)
    /\ LET item  == Item0
           u     == Uid[item.p]
           known == IF Work = None THEN item.t <= scan.shadow[u]
                    ELSE (Work.body = item.body \/ item.t <= Work.t)
           old   == Legacy(item.p)
           here  == Work # None \/ old = {} \/ Current(u) # {}     \* normal_uid_is_current
           so    == IF Work = None THEN "success" ELSE Work.outcome
       IN  /\ known
           /\ \/ /\ so = "open"
                 /\ scan' = [scan EXCEPT !.item = NoItem,
                               !.work[u].aliases = @ \cup {[item |-> item, old |-> old]}]
                 /\ pc' = "after" /\ UNCHANGED <<waiting, op, faults>>
              \/ /\ so = "success" /\ here
                 /\ Marks(old, {item}, {}, "after")
                 /\ scan' = [scan EXCEPT !.item = NoItem]
                 /\ UNCHANGED <<waiting, faults>>
              \/ /\ so = "failure" \/ (so = "success" /\ ~here)
                 /\ Fails(item, scan) /\ UNCHANGED faults
              \/ so # "failure" /\ Fault("lookup") /\ Fails(item, scan)
    /\ UNCHANGED <<settings, store, mem, dirty, blank, reconciled, snap, completion, edits>>

get_index_state(uid, t) ==
    IF Current(uid) = {} THEN "MISSING"
    ELSE IF \A g \in Current(uid) : g.t = t THEN "CURRENT" ELSE "STALE"

\* A single retry keeps what is newer and touches nothing it is not sure of.
get_retry_index_state(uid, t, p) ==
    LET rows == Current(uid)
    IN  CASE rows = {}                                               -> "MISSING"
          [] Cardinality(rows) > 1                                   -> "ERROR"
          [] \E g \in rows : g.t > t \/ (g.t = t /\ g.src = p)       -> "CURRENT"
          [] \E g \in rows : g.t = t                                 -> "ERROR"
          [] OTHER                                                   -> "STALE"

Check(item) == IF scan.job = "single" THEN get_retry_index_state(Uid[item.p], item.t, item.p)
               ELSE get_index_state(Uid[item.p], item.t)

\* begin_generation: the content is chosen for its mail, unless the table has it.
Begin(item) ==
    LET u     == Uid[item.p]
        begun == [scan EXCEPT !.item = NoItem,
                    !.work[u] = [body |-> item.body, t |-> item.t, outcome |-> "open", aliases |-> {}]]
        check == Check(item)
        old   == {g.id : g \in Current(u)}
    IN  \/ /\ Fault("lookup")                       \* get_legacy_path_chunk_ids raised
           /\ Fails(item, [begun EXCEPT !.work[u] = None])
        \/ /\ IF check = "ERROR" THEN UNCHANGED faults ELSE Fault("check")
           /\ Fails(item, [begun EXCEPT !.work[u].outcome = "failure"])
        \/ /\ check = "CURRENT"
           /\ scan' = [begun EXCEPT !.work[u].outcome = "success"]
           /\ Marks(Legacy(item.p), {item}, {}, "after")
           /\ UNCHANGED <<waiting, faults>>
        \/ /\ check \in {"MISSING", "STALE"}
           /\ scan' = [begun EXCEPT !.win = Append(@, [item |-> item, old |-> old \cup Legacy(item.p)]),
                                    !.ret = "after"]
           /\ pc' = IF Len(scan.win) + 1 < BatchSize THEN "after" ELSE "embed"
           /\ UNCHANGED <<waiting, op, faults>>

Choose ==
    /\ \/ /\ Parsed(Item0)
          /\ IF Work = None THEN Item0.t > scan.shadow[Uid[Item0.p]]
             ELSE /\ Work.outcome # "open"
                  /\ Work.body # Item0.body /\ Item0.t > Work.t
          /\ Begin(Item0)
       \/ /\ pc = "again" /\ ~scan.stop /\ Begin(scan.item)
       \/ /\ pc = "again" /\ scan.stop /\ Fails(scan.item, scan) /\ UNCHANGED faults
    /\ UNCHANGED <<settings, store, mem, dirty, blank, reconciled, snap, completion, edits>>

\* Newer content of a mail whose older content is still in the window: that
\* one is finished first.
Collide ==
    /\ Parsed(Item0) /\ Work # None /\ Work.outcome = "open"
    /\ Work.body # Item0.body /\ Item0.t > Work.t
    /\ scan' = [scan EXCEPT !.item = Item0, !.ret = "again"]
    /\ pc' = "embed"
    /\ UNCHANGED <<settings, store, memory, op, completion, edits, faults>>

After ==
    /\ pc = "after"
    /\ pc' = IF scan.stop THEN "last" ELSE "item"
    /\ LET moved == IF scan.job = "single" THEN mem ELSE [mem EXCEPT !.cursor = scan.key]
       IN  /\ mem' = moved
           /\ \/ dirty' = (dirty \/ scan.job # "single") /\ UNCHANGED disk
              \* the table has reached its hard limit of fragments
              \/ /\ ~scan.cancelled /\ dirty' = FALSE
                 /\ disk' = IF dirty \/ scan.job # "single" THEN moved ELSE disk
    /\ UNCHANGED <<settings, table, blank, reconciled, waiting, snap, scan, op, completion, edits, faults>>

-----------------------------------------------------------------------------
(* delete_captured_ids, and the marks that follow it.                       *)

Queued(s, ids) == [s EXCEPT !.pend = @ \cup ids]

QueueIds ==
    /\ pc = "queue"
    /\ mem' = Queued(mem, op.ids)
    /\ \/ disk' = mem' /\ dirty' = FALSE /\ pc' = "drop" /\ UNCHANGED faults
       \/ Fault("save") /\ dirty' = TRUE /\ pc' = "mark" /\ UNCHANGED disk
    /\ UNCHANGED <<settings, table, blank, reconciled, waiting, snap, scan, op, completion, edits>>

DropRows ==
    /\ pc = "drop"
    /\ \/ table' = table \ Rows(op.ids) /\ pc' = "clear" /\ UNCHANGED faults
       \/ Fault("delete") /\ pc' = "mark" /\ UNCHANGED table
    /\ UNCHANGED <<settings, disk, memory, scan, op, completion, edits>>

ClearIds ==
    /\ pc = "clear" /\ pc' = "mark"
    /\ mem' = Forgotten(mem, op.ids)
    /\ \/ disk' = mem' /\ dirty' = FALSE /\ UNCHANGED faults
       \/ Fault("save") /\ dirty' = TRUE /\ UNCHANGED disk
    /\ UNCHANGED <<settings, table, blank, reconciled, waiting, snap, scan, op, completion, edits>>

cache_success(s, items) ==
    [s EXCEPT !.files = [p \in Paths |->
        IF \E i \in items : i.p = p THEN (CHOOSE i \in items : i.p = p).t ELSE @[p]]]

MarkItems ==
    /\ pc = "mark"
    /\ mem' = cache_success(mem, op.good)
    /\ dirty' = (dirty \/ op.good # {})
    /\ waiting' = [p \in Paths |-> IF \E i \in op.bad : i.p = p THEN (CHOOSE i \in op.bad : i.p = p).t
                                   ELSE IF \E i \in op.good : i.p = p THEN 0 ELSE waiting[p]]
    /\ blank' = IF blank = "empty" /\ op.good # {} THEN None ELSE blank
    /\ pc' = op.back /\ op' = NoOp
    /\ UNCHANGED <<settings, store, reconciled, snap, scan, completion, edits, faults>>

-----------------------------------------------------------------------------
(* flush_window: embed the window, then commit mail by mail.                *)

Embed ==
    /\ pc = "embed"
    /\ LET window == DOMAIN scan.win
       IN  \/ /\ ~scan.cancelled /\ pc' = "commit"
              /\ \/ scan' = [scan EXCEPT !.ready = window] /\ UNCHANGED faults
                 \/ /\ window # {} /\ Fault("content")      \* one mail cannot be embedded
                    /\ \E i \in window : scan' = [scan EXCEPT !.ready = window \ {i}]
                 \/ /\ window # {} /\ Fault("embed")        \* the server is gone
                    /\ \E k \in 0..(Len(scan.win) - 1) :
                          scan' = [scan EXCEPT !.ready = 1..k, !.stop = TRUE]
           \/ /\ scan.cancelled /\ UNCHANGED faults         \* the window waits for the next cycle
              /\ scan' = [scan EXCEPT !.stop = TRUE, !.ret = None]
              /\ pc' = scan.ret
    /\ UNCHANGED <<settings, store, memory, op, completion, edits>>

Finished(w, outcome) ==
    [scan EXCEPT !.win = Tail(@), !.ready = {i - 1 : i \in @ \ {1}},
                 !.work[Uid[w.item.p]].outcome = outcome, !.work[Uid[w.item.p]].aliases = {}]

\* Mutant: deletes by mail, after the new row was added.
SameMail(w, aliases) == {NewId} \cup {g.id : g \in {h \in table : h.uid = Uid[w.item.p]}}
OldIds(w, aliases) == w.old \cup UNION {a.old : a \in aliases}

Commit ==
    /\ pc = "commit" /\ scan.win # << >> /\ ~scan.cancelled
    /\ LET w       == Head(scan.win)
           aliases == scan.work[Uid[w.item.p]].aliases
           copies  == {w.item} \cup {a.item : a \in aliases}
           new     == [id |-> NewId, uid |-> Uid[w.item.p], t |-> w.item.t, src |-> w.item.p]
       IN  \/ /\ 1 \in scan.ready /\ Ids \ Known # {}
              /\ table' = table \cup {new}
              /\ scan' = Finished(w, "success")
              /\ Marks(OldIds(w, aliases), copies, {}, "commit")
              /\ UNCHANGED faults
           \/ /\ \/ 1 \notin scan.ready /\ UNCHANGED <<table, faults>>
                 \/ 1 \in scan.ready /\ Fault("add") /\ UNCHANGED table
                 \/ 1 \in scan.ready /\ Ids \ Known # {} /\ Fault("addLost") /\ table' = table \cup {new}
              /\ scan' = Finished(w, "failure")
              /\ Marks({}, {}, copies, "commit")
    /\ UNCHANGED <<settings, disk, memory, completion, edits>>

Flushed ==
    /\ pc = "commit" /\ (scan.win = << >> \/ scan.cancelled)
    /\ pc' = scan.ret
    /\ scan' = [scan EXCEPT !.ret = None, !.ready = {}, !.stop = @ \/ scan.win # << >>,
                            !.flushed = scan.ret = "finish" /\ scan.win = << >> /\ ~scan.stop]
    /\ UNCHANGED <<settings, store, memory, op, completion, edits, faults>>

-----------------------------------------------------------------------------
(* The end of the scan.                                                     *)

LastFlush ==
    /\ pc = "last"
    /\ IF ~scan.stop /\ ~scan.cancelled
       THEN pc' = "embed" /\ scan' = [scan EXCEPT !.ret = "finish"]
       ELSE pc' = "finish" /\ UNCHANGED scan
    /\ UNCHANGED <<settings, store, memory, op, completion, edits, faults>>

Verdict(saved) ==
    IF scan.job = "single" \/ scan.cancelled \/ scan.stop \/ ~scan.whole \/ ~scan.flushed
       \/ ~saved \/ scan.missed THEN "UNKNOWN"
    ELSE IF scan.todo # << >> THEN "REMAINING"
    ELSE IF ~scan.fresh THEN "UNKNOWN" ELSE "EXHAUSTED"

Finish ==
    /\ pc = "finish"
    /\ \/ disk' = (IF dirty THEN mem ELSE disk) /\ completion' = Verdict(TRUE) /\ UNCHANGED faults
       \/ dirty /\ Fault("save") /\ completion' = Verdict(FALSE) /\ UNCHANGED disk
    /\ Ended
    /\ UNCHANGED <<settings, table, blank, reconciled, waiting, snap, op, edits>>
-----------------------------------------------------------------------------
Worker ==
    \/ BeginCycle
    \/ RetryPending("retry", "retried", "reconcile") \/ SaveRetried("retried", "reconcile")
    \/ Reconcile \/ DeleteExcluded \/ SaveExcluded
    \/ RetryPending("scan", "scanned", "discover") \/ SaveRetried("scanned", "discover")
    \/ Discover \/ Attempt \/ LoopEnds
    \/ ParseFails \/ CorruptMail \/ Copy \/ Choose \/ Collide \/ After
    \/ QueueIds \/ DropRows \/ ClearIds \/ MarkItems
    \/ Embed \/ Commit \/ Flushed \/ LastFlush \/ Finish

User == \E p \in Paths : Edit(p) \/ Delete(p) \/ Exclude(p) \/ Unexclude(p) \/ RetryOne(p)

Next == Worker \/ User \/ Cancel \/ Crash \/ Recreate \/ SnapshotExpires
          \/ \E p \in Paths : BackoffExpires(p)

Spec == Init /\ [][Next]_vars

\* Cycles come again, a back-off and a listing run out.
FairSpec ==
    /\ Spec /\ WF_vars(Worker) /\ WF_vars(SnapshotExpires)
    /\ \A p \in Paths : WF_vars(BackoffExpires(p))

-----------------------------------------------------------------------------
(* Properties.                                                              *)

Doomed == disk.pend
Found(u) == {g \in table : g.uid = u /\ g.id \notin Doomed}

\* What the saved cache lets a scan skip can be found: its mail has rows that
\* the saved queue does not name (cache_success, delete_captured_ids,
\* reconcile_mail_exclusions).  A lost table is noticed before the cache is used.
CachedIsSearchable ==
    blank = None => \A p \in Paths : disk.files[p] > 0 => Found(Uid[p]) # {}

\* A mail that can be found is never lost by replacing it, by copies of it or
\* by a crash in between: only if every row of it came from an excluded file,
\* or the table is gone.
FoundStaysFound ==
    [][\A u \in Uids : Found(u) # {} /\ Found(u)' = {}
          => table' = {} \/ \A g \in Found(u) : g.src \in excl]_vars

Wanted(p) == Present(p) /\ file[p].body # Corrupt /\ p \notin excl
Alone(p)  == \A q \in Paths \ {p} : Uid[q] # Uid[p]

Settled ==
    /\ \A p \in Paths : Wanted(p) =>
          \E g \in Found(Uid[p]) : g.src \notin excl /\ (Alone(p) => g.t >= file[p].t)
    /\ \A g \in table : g.src \notin excl
    /\ disk.pend = {}

\* Once the user and the faults rest, every readable mail that is not excluded
\* is found, whatever the limit per scan, and with its last content if it never
\* had another copy (an older copy may replace a newer one across cycles); excluded
\* files and waiting deletions are gone from the table.
EveryMailSettles == <>[]Settled
=============================================================================
