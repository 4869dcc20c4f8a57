----------------------------- MODULE FolderPurge -----------------------------
(***************************************************************************)
(* What happens to the documents of a folder the user no longer watches:   *)
(* the cycle works on the folder list it read at its start, purge_meta     *)
(* decides whether the whole table is read this time, and                  *)
(* _purge_removed_folders drops state entries and rows of every path that  *)
(* lies under no watched folder.  Sources: knowmate/collector/purge_meta.py*)
(* and scheduler.py (_purge_removed_folders and the end of _run_cycle),    *)
(* app/bridge.py (addWatchFolder, removeWatchFolder).                      *)
(*                                                                         *)
(* The files themselves never change here, so a document is either claimed *)
(* by the state as indexed or it is not; DocIndex has the rest.  Times are *)
(* kept as the two comparisons decide makes with them: is the retry still  *)
(* to come, is the last purge still recent.                                *)
(***************************************************************************)
EXTENDS Naturals, FiniteSets

CONSTANTS
    Paths,      \* document paths
    Folders,    \* folders the user may watch
    Root,       \* the folder each path lies under
    MaxRatio,   \* cleanup.max_delete_ratio, in percent
    Builds,     \* app versions (capability_sig) 1..Builds
    Unsupported,\* the versions whose lancedb lacks the projection API
    Faults,     \* the fault kinds a run lets happen
    MaxPurgeFaults,  \* bound: how many of them happen in a behaviour
    None

FaultKinds == {"crash", "clock", "read", "delete", "sidecar", "save", "skip", "cancel"}

Sig == [folders : SUBSET Folders, dry : BOOLEAN]    \* compute_op_sig

\* PurgeMeta.  A new verdict, success, failure or refusal, clears the other two,
\* so that no stale one is ever valid again.
Meta ==
    {m \in [ok : Sig \cup {None}, recent : BOOLEAN,       \* reconciled_sig, last_purge_ts
            failed : Sig \cup {None}, waiting : BOOLEAN,  \* failed_sig, next_retry_ts
            blocked : Sig \cup {None}, reason : {"none", "mass_delete", "unsupported"},
            build : 0..Builds] :                          \* blocked_capability_sig, 0 for none
        /\ m.ok = None \/ (m.failed = None /\ m.blocked = None)
        /\ m.failed = None \/ m.blocked = None
        /\ m.recent => m.ok # None
        /\ m.waiting => m.failed # None
        /\ m.reason # "none" <=> m.blocked # None}

ASSUME PurgeAssumption ==
    /\ Root \in [Paths -> Folders]
    /\ MaxRatio \in Nat
    /\ Builds \in Nat \ {0}
    /\ Unsupported \subseteq 1..Builds
    /\ Faults \subseteq FaultKinds
    /\ MaxPurgeFaults \in Nat
    /\ None \notin Sig
    /\ None \notin Meta

VARIABLES
    watch, dry, build,          \* collector.watch_folders, cleanup.dry_run, the app version
    rows, disk, marker,         \* paths with rows; paths index_state.json claims; the marker
    empty,                      \* Indexer.table_is_empty
    mem, dirty,                 \* the cycle's state and state_dirty
    sidecar, cache,             \* index_state.meta.json and _purge_meta_cache (None at first)
    stage, snap, shared,        \* control; the op_sig of this cycle; whether the cycle
                                \* still iterates the very list the settings hold
    toWalk, queue, done,        \* folders left to walk, paths queued, any path handled
    doomed, broken,             \* stale_paths_db left, delete_failed
    purgeFaults                 \* faults so far (bounded by MaxPurgeFaults)

config  == <<watch, dry, build>>
durable == <<rows, disk, marker>>
memory  == <<mem, dirty, empty>>
meta    == <<sidecar, cache>>
scan    == <<snap, shared, toWalk, queue, done>>
purge   == <<doomed, broken>>
purgeVars == <<config, durable, memory, meta, stage, scan, purge, purgeFaults>>

Fault(kind) == kind \in Faults /\ purgeFaults < MaxPurgeFaults /\ purgeFaults' = purgeFaults + 1

NoMeta == [ok |-> None, recent |-> FALSE, failed |-> None, waiting |-> FALSE,
           blocked |-> None, reason |-> "none", build |-> 0]

NoSnap == [folders |-> {}, dry |-> TRUE]        \* between cycles

Under(fs) == {p \in Paths : Root[p] \in fs}     \* belongs_to_any

PurgeInit ==
    /\ watch \in SUBSET Folders /\ dry \in BOOLEAN /\ build = 1
    /\ rows = {} /\ disk = {} /\ marker = FALSE /\ empty = TRUE
    /\ mem = {} /\ dirty = FALSE
    /\ sidecar = NoMeta /\ cache = None
    /\ stage = "idle" /\ snap = NoSnap /\ shared = FALSE
    /\ toWalk = {} /\ queue = {} /\ done = FALSE
    /\ doomed = {} /\ broken = FALSE
    /\ purgeFaults = 0

-----------------------------------------------------------------------------
(* The settings, changed from the GUI thread at any moment of a cycle.       *)

\* addWatchFolder appends to the list the producer may be iterating: the walk
\* in progress takes the folder in, the signature of the cycle does not.
AddFolder(f) ==
    /\ f \notin watch
    /\ watch' = watch \cup {f}
    /\ \/ UNCHANGED toWalk
       \/ stage = "scan" /\ shared /\ toWalk' = toWalk \cup {f}
    /\ UNCHANGED <<dry, build, durable, memory, meta, stage, snap, shared, queue, done,
                   purge, purgeFaults>>

\* removeWatchFolder installs a new list: the cycle keeps the old one.
RemoveFolder(f) ==
    /\ f \in watch
    /\ watch' = watch \ {f} /\ shared' = FALSE
    /\ UNCHANGED <<dry, build, durable, memory, meta, stage, snap, toWalk, queue, done,
                   purge, purgeFaults>>

\* Only the start of a cycle reads it, so a switch within one is a later switch.
SwitchDryRun ==
    /\ stage = "idle" /\ dry' = ~dry
    /\ UNCHANGED <<watch, build, durable, memory, meta, stage, scan, purge, purgeFaults>>

-----------------------------------------------------------------------------
(* Time.  A saved meta keeps its timestamps and ages with the cached one.    *)

Aged(m) == {m, [m EXCEPT !.waiting = FALSE], [m EXCEPT !.waiting = FALSE, !.recent = FALSE]}

TimePasses ==
    /\ sidecar' \in Aged(sidecar)
    /\ \/ cache = None /\ UNCHANGED cache
       \/ cache = sidecar /\ cache' = sidecar'
       \/ cache \notin {None, sidecar} /\ cache' \in Aged(cache)
    /\ meta' # meta
    /\ UNCHANGED <<config, durable, memory, stage, scan, purge, purgeFaults>>

\* The wall clock is set back: what had expired lies ahead again.
SetBack(m) == IF m = None THEN None
              ELSE [m EXCEPT !.waiting = (m.failed # None), !.recent = (m.ok # None)]

ClockSetBack ==
    /\ Fault("clock")
    /\ sidecar' = SetBack(sidecar) /\ cache' = SetBack(cache)
    /\ UNCHANGED <<config, durable, memory, stage, scan, purge>>

\* Quitting between cycles is ordinary, within a cycle it is a crash; the next
\* start may be a newer version.
Restart ==
    /\ IF stage = "idle" THEN UNCHANGED purgeFaults ELSE Fault("crash")
    /\ build' \in {build, build + 1} \cap 1..Builds
    /\ mem' = {} /\ dirty' = FALSE /\ empty' = (rows = {}) /\ cache' = None
    /\ stage' = "idle" /\ shared' = FALSE /\ toWalk' = {} /\ queue' = {} /\ done' = FALSE
    /\ doomed' = {} /\ broken' = FALSE
    /\ snap' = NoSnap
    /\ UNCHANGED <<watch, dry, durable, sidecar>>

-----------------------------------------------------------------------------
(* The cycle up to the end of the documents.                                 *)

\* A recreated or empty table voids every claim; after an unfinished run every
\* path with rows is looked at again.
Voided == empty /\ disk # {}
Recovering == marker \/ (disk = {} /\ rows # {})
Believed == IF Voided THEN {} ELSE IF Recovering THEN disk \ rows ELSE disk

BeginCycle ==
    /\ stage = "idle"
    /\ mem' = Believed /\ dirty' = (Voided \/ (Recovering /\ rows # {}))
    /\ snap' = [folders |-> watch, dry |-> dry] /\ shared' = TRUE
    /\ toWalk' = watch /\ done' = FALSE /\ stage' = "scan"
    /\ UNCHANGED <<config, durable, empty, meta, queue, purge, purgeFaults>>

\* The producer lists a folder: what the state does not claim is queued.
Walk(f) ==
    /\ stage = "scan" /\ f \in toWalk
    /\ toWalk' = toWalk \ {f}
    /\ queue' = queue \cup (Under({f}) \ mem)
    /\ UNCHANGED <<config, durable, memory, meta, stage, snap, shared, done, purge, purgeFaults>>

\* The consumer indexes a document (or adopts the rows it has): marker, rows,
\* then the entry in memory.
Index(p) ==
    /\ stage = "scan" /\ p \in queue
    /\ queue' = queue \ {p}
    /\ \/ rows' = rows \cup {p} /\ mem' = mem \cup {p} /\ dirty' = TRUE
          /\ marker' = TRUE /\ empty' = FALSE /\ done' = TRUE /\ UNCHANGED purgeFaults
       \/ /\ Fault("skip")                    \* deferred, or taken and failed
          /\ done' \in {done, TRUE} /\ UNCHANGED <<rows, marker, memory>>
    /\ UNCHANGED <<config, disk, meta, stage, snap, shared, toWalk, purge>>

Saved == disk' = mem /\ dirty' = FALSE /\ marker' = FALSE /\ empty' = FALSE

BatchFlush ==
    /\ stage = "scan" /\ dirty
    /\ Saved
    /\ UNCHANGED <<config, rows, mem, meta, stage, scan, purge, purgeFaults>>

\* A cancelled cycle saves its state and never reaches the purge.
Cancel ==
    /\ stage = "scan" /\ queue # {} /\ Fault("cancel")
    /\ toWalk' = {} /\ queue' = {} /\ stage' = "final"
    /\ UNCHANGED <<config, durable, memory, meta, snap, shared, done, purge>>

-----------------------------------------------------------------------------
(* purge_meta.                                                               *)

\* Refused before: for lack of the API until the app changes, for too large a
\* share until the configuration changes.
Blocked(m) == IF m.blocked # None /\ m.reason = "unsupported" THEN m.build = build
                                                              ELSE m.blocked = snap
BackingOff(m)  == m.failed = snap /\ m.waiting
UpToDate(m) == m.ok = snap /\ ~done /\ m.recent

\* Mutant: the last success suffices, whatever this cycle indexed and whenever
\* it was.
NeverReconciled(m) == ~Blocked(m) /\ ~BackingOff(m) /\ m.ok # snap

\* decide: blocked, then back-off, then success skip, then run.
ShouldRun(m) == ~Blocked(m) /\ ~BackingOff(m) /\ ~UpToDate(m)

OnSuccess == [NoMeta EXCEPT !.ok = snap, !.recent = TRUE]

OnFailure == [NoMeta EXCEPT !.failed = snap, !.waiting = TRUE]

OnBlocked(why) == [NoMeta EXCEPT !.blocked = snap, !.reason = why,
                                 !.build = IF why = "unsupported" THEN build ELSE 0]

\* The cached meta, or the sidecar after a start; an unreadable sidecar is none.
Known(m) == IF cache # None THEN m = cache /\ UNCHANGED purgeFaults
            ELSE \/ m = sidecar /\ UNCHANGED purgeFaults
                 \/ m = NoMeta /\ sidecar # NoMeta /\ Fault("sidecar")

Decide ==
    /\ stage = "scan" /\ toWalk = {} /\ queue = {}
    /\ \E m \in {cache, sidecar, NoMeta} \ {None} :
          Known(m) /\ stage' = IF ShouldRun(m) THEN "purge" ELSE "final"
    /\ UNCHANGED <<config, durable, memory, meta, scan, purge>>

-----------------------------------------------------------------------------
(* _purge_removed_folders.                                                   *)

Stale == rows \ Under(snap.folders)
TooMany == Cardinality(Stale) * 100 > MaxRatio * Cardinality(rows)

\* No watched folder is no purge; then the API, the read, and the mass-delete
\* breaker are in the way, and a rehearsal stops before the first change.
PurgeNothing ==
    /\ stage = "purge"
    /\ \/ snap.folders = {} /\ cache' = OnSuccess /\ UNCHANGED purgeFaults
       \/ /\ snap.folders # {} /\ build \in Unsupported
          /\ cache' = OnBlocked("unsupported") /\ UNCHANGED purgeFaults
       \/ /\ snap.folders # {} /\ build \notin Unsupported
          /\ \/ cache' = OnFailure /\ Fault("read")
             \/ Stale # {} /\ TooMany /\ cache' = OnBlocked("mass_delete") /\ UNCHANGED purgeFaults
             \/ /\ Stale = {} \/ (~TooMany /\ snap.dry)
                /\ cache' = OnSuccess /\ UNCHANGED purgeFaults
    /\ stage' = "record"
    /\ UNCHANGED <<config, durable, memory, sidecar, scan, purge>>

\* The state entries go first, in memory, then the rows path by path.
PurgeState ==
    /\ stage = "purge" /\ snap.folders # {} /\ build \notin Unsupported
    /\ Stale # {} /\ ~TooMany /\ ~snap.dry
    /\ mem' = mem \cap Under(snap.folders) /\ dirty' = (dirty \/ mem' # mem)
    /\ doomed' = Stale /\ broken' = FALSE /\ stage' = "delete"
    /\ UNCHANGED <<config, durable, empty, meta, scan, purgeFaults>>

PurgeRows(p) ==
    /\ stage = "delete" /\ p \in doomed
    /\ doomed' = doomed \ {p}
    /\ \/ rows' = rows \ {p} /\ UNCHANGED <<broken, purgeFaults>>
       \/ Fault("delete") /\ broken' = TRUE /\ UNCHANGED rows
    /\ UNCHANGED <<config, disk, marker, memory, meta, stage, scan>>

\* Mutant: a failed deletion is taken for a success.
PurgedRegardless ==
    /\ stage = "delete" /\ doomed = {}
    /\ cache' = OnSuccess
    /\ broken' = FALSE /\ stage' = "record"
    /\ UNCHANGED <<config, durable, memory, sidecar, scan, doomed, purgeFaults>>

Purged ==
    /\ stage = "delete" /\ doomed = {}
    /\ cache' = IF broken THEN OnFailure ELSE OnSuccess
    /\ broken' = FALSE /\ stage' = "record"
    /\ UNCHANGED <<config, durable, memory, sidecar, scan, doomed, purgeFaults>>

RecordMeta ==
    /\ stage = "record"
    /\ \/ sidecar' = cache /\ UNCHANGED purgeFaults
       \/ Fault("sidecar") /\ UNCHANGED sidecar
    /\ stage' = "final"
    /\ UNCHANGED <<config, durable, memory, cache, scan, purge>>

FinalFlush ==
    /\ stage = "final"
    /\ \/ dirty /\ disk' = mem /\ marker' = FALSE /\ empty' = FALSE /\ UNCHANGED purgeFaults
       \/ ~dirty /\ UNCHANGED <<disk, marker, empty, purgeFaults>>
       \/ dirty /\ Fault("save") /\ UNCHANGED <<disk, marker, empty>>
    /\ mem' = {} /\ dirty' = FALSE /\ stage' = "idle" /\ shared' = FALSE /\ done' = FALSE
    /\ snap' = NoSnap
    /\ UNCHANGED <<config, rows, meta, toWalk, queue, purge>>

-----------------------------------------------------------------------------
User == SwitchDryRun \/ \E f \in Folders : AddFolder(f) \/ RemoveFolder(f)

Worker ==
    \/ BeginCycle \/ (\E f \in Folders : Walk(f)) \/ (\E p \in Paths : Index(p)) \/ Decide
    \/ PurgeNothing \/ PurgeState \/ (\E p \in Paths : PurgeRows(p)) \/ Purged
    \/ RecordMeta \/ FinalFlush

PurgeNext == User \/ TimePasses \/ ClockSetBack \/ Restart \/ BatchFlush \/ Cancel \/ Worker

PurgeSpec == PurgeInit /\ [][PurgeNext]_purgeVars

\* Cycles come again as long as the machine is idle at times, and time passes.
FairPurgeSpec == PurgeSpec /\ WF_purgeVars(Worker) /\ WF_purgeVars(TimePasses)

-----------------------------------------------------------------------------
(* Properties.                                                               *)

\* Every variable keeps its type; the purge meta, cached or saved, never holds two
\* verdicts at once (on_success, on_transient_failure, on_blocked).
PurgeTypeOK ==
    /\ watch \subseteq Folders /\ dry \in BOOLEAN /\ build \in 1..Builds
    /\ rows \subseteq Paths /\ disk \subseteq Paths /\ mem \subseteq Paths
    /\ {marker, empty, dirty, shared, done, broken} \subseteq BOOLEAN
    /\ sidecar \in Meta /\ cache \in Meta \cup {None}
    /\ stage \in {"idle", "scan", "purge", "delete", "record", "final"}
    /\ snap \in Sig /\ toWalk \subseteq Folders
    /\ queue \subseteq Paths /\ doomed \subseteq Paths
    /\ purgeFaults \in 0..MaxPurgeFaults

\* A success on record means the work was done: when a cycle is about to save
\* its verdict and the verdict is success for a real run, no row of an unwatched
\* folder is left, so skipping the next read of the table misses nothing.
SuccessMeansPurged ==
    stage = "record" /\ cache.ok = snap /\ ~snap.dry /\ snap.folders # {} => Stale = {}

\* purge_meta.py: the forced reconciliation and the back-off are there so that no
\* mismatch stays for ever.  Once a folder stays removed, its rows go for good,
\* unless a rehearsal, the breaker or the missing API stands in the way.
Refused == \E m \in {sidecar, cache} \ {None} :
              m.reason = "mass_delete" /\ m.blocked = [folders |-> watch, dry |-> dry]
RemovedIsForgotten ==
    \A f \in Folders :
        <>[](f \notin watch /\ watch # {} /\ ~dry /\ build \notin Unsupported)
            => <>[](rows \cap Under({f}) = {} \/ Refused)

=============================================================================
