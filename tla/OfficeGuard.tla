---------------------------- MODULE OfficeGuard ----------------------------
(***************************************************************************)
(* Which Word processes are ours, and who may be terminated.  The worker    *)
(* reads old documents through a Word it starts itself; the user may open   *)
(* and close Word at any moment, and process ids are used again.  The       *)
(* worker registers the process it started (pid and creation identity),     *)
(* refuses to enter Word while the user's is open, and quits it at the end  *)
(* of a cycle.  Two watchdogs on timer threads terminate our process when   *)
(* a call into it hangs.  Excel has the same code; PowerPoint is never      *)
(* terminated and is not modelled here.                                     *)
(*                                                                          *)
(* An instance of a program is numbered by its start: the number is its     *)
(* creation identity.  A record therefore needs no generation: an instance  *)
(* is registered once, and becomes pending once.                            *)
(* Sources: knowmate/secure/office_guard.py, knowmate/secure/com_reader.py, *)
(* knowmate/collector/com_watchdog.py, with their calls in                  *)
(* secure/__init__.py and collector/scheduler.py.                           *)
(***************************************************************************)
EXTENDS Naturals, Sequences, FiniteSets

CONSTANTS
    Pids,
    Tries,       \* attempts at registering an application
    MaxStarts,   \* bound: programs started
    MaxFaults    \* bound: failing queries and terminations, hanging calls, processes that die

ASSUME ConstantsAssumption == Pids # {} /\ Tries \in Nat \ {0} /\ MaxStarts \in Nat /\ MaxFaults \in Nat

VARIABLES
    proc,        \* the instance that runs under a pid, 0 if none
    kind,        \* of every instance started: our Word, the user's, or another program
    owned,       \* _owned_pids
    unverified,  \* _unverified_cleanup[exe] has tokens
    inflight,    \* _cleanup_inflight[exe]
    cooling,     \* now < _cleanup_retry_at[exe]
    closing,     \* _application_closing
    cache,       \* _cache["procs"]
    moved,       \* _guard_epoch is not the one the worker captured last
    pc, w,       \* the worker and its local variables
    app,         \* _tls.word with _tls.word_proof
    kept,        \* _tls.ownership_cleanup has the exe
    poisoned,    \* poisoned_exes has the exe
    active,      \* ComWatchdog._active
    callbacks,   \* its timers that have not run: of the present arm, of an earlier one
    quitTimer,   \* the timer of _OfficeQuitWatchdog is set
    job,         \* cleanup_owned_processes in progress, per thread
    faults

os     == <<proc, kind>>
guard  == <<owned, unverified, inflight, cooling, closing, cache, moved>>
tls    == <<app, kept, poisoned>>
timers == <<active, callbacks, quitTimer>>
vars   == <<os, guard, pc, w, tls, timers, job, faults>>

Threads   == {"worker", "watchdog", "quit"}
Instances == 0..MaxStarts
NoRec     == [id |-> 0, pending |-> FALSE]
NoRecs    == [p \in Pids |-> NoRec]
NoList    == [ok |-> FALSE, of |-> [p \in Pids |-> 0]]
Idle      == [at |-> "idle", recs |-> NoRecs, list |-> NoList, bad |-> FALSE]
NoApp     == [pid |-> CHOOSE p \in Pids : TRUE, id |-> 0]
NoWork    == [then |-> "idle", app |-> NoApp, base |-> {}, list |-> NoList, recs |-> NoRecs,
              id |-> 0, tries |-> 0, external |-> {}, out |-> "ok", fired |-> FALSE]

Ensuring    == {"file", "guard", "getter", "dispatch"}
Registering == {"window", "identity", "confirm", "confirmed", "commit"}
Calls       == {"call", "hung"}

TypeOK ==
    /\ proc \in [Pids -> Instances]
    /\ kind \in Seq({"ours", "user", "other"}) /\ Len(kind) <= MaxStarts
    /\ owned \in [Pids -> [id : Instances, pending : BOOLEAN]]
    /\ {unverified, cooling, closing, moved, kept, poisoned, active, quitTimer} \subseteq BOOLEAN
    /\ inflight \in 0..4
    /\ callbacks \subseteq {"present", "earlier"}
    /\ \A t \in Threads : job[t].at \in {"idle", "gate", "list", "kill"}
    /\ pc \in Ensuring \cup Registering \cup Calls \cup
              {"idle", "retry", "look", "looked", "judge", "decide", "consume", "baseline", "create",
               "publish", "disarm", "recover", "recovering", "quitcall", "quithung", "grace", "quitting"}

-----------------------------------------------------------------------------
(* The operating system.                                                     *)

Running(a)  == a.id # 0 /\ proc[a.pid] = a.id
Word(p)     == proc[p] # 0 /\ kind[proc[p]] # "other"
Faulty      == faults < MaxFaults /\ faults' = faults + 1
Sound       == UNCHANGED faults
Listing     == [ok |-> TRUE, of |-> [p \in Pids |-> IF Word(p) THEN proc[p] ELSE 0]]
Listed(l)   == {p \in Pids : l.of[p] # 0}

\* _enumerate_processes: the list, or None
Enumerated(l) == \/ l = Listing /\ Sound
                 \/ l = NoList /\ Faulty

\* _process_creation_identity: of whatever runs under the pid, or None
Identity(p, i) == \/ i = proc[p] /\ Sound
                  \/ proc[p] # 0 /\ i = 0 /\ Faulty

\* the first start takes a fixed pid: pids differ in nothing but their use
Starts(k, p) == /\ proc[p] = 0 /\ Len(kind) < MaxStarts
                /\ kind = <<>> => p = NoApp.pid
                /\ kind' = Append(kind, k)
                /\ proc' = [proc EXCEPT ![p] = Len(kind) + 1]

UserOpens == /\ \E p \in Pids, k \in {"user", "other"} : Starts(k, p)
             /\ UNCHANGED <<guard, pc, w, tls, timers, job, faults>>

Ends(p) == /\ proc' = [proc EXCEPT ![p] = 0]
           /\ UNCHANGED <<kind, guard, pc, w, tls, timers, job>>

UserCloses == \E p \in Pids : proc[p] # 0 /\ kind[proc[p]] # "ours" /\ Ends(p) /\ Sound
\* a Word of ours nobody registered exits once the worker let its reference go
Released   == \E p \in Pids : /\ proc[p] # 0 /\ kind[proc[p]] = "ours" /\ owned[p].id # proc[p]
                             /\ ~kept /\ pc \notin Registering /\ Ends(p) /\ Sound
OursDies   == \E p \in Pids : proc[p] # 0 /\ kind[proc[p]] = "ours" /\ Ends(p) /\ Faulty

-----------------------------------------------------------------------------
(* The registry.  Every change of it moves the epoch and drops the cache.    *)

StateChanged == moved' = TRUE /\ cache' = NoList
NoChange     == UNCHANGED <<moved, cache>>

\* _gate_reason_unlocked
Pending == \E p \in Pids : owned[p].pending
Gated   == closing \/ unverified \/ inflight > 0 \/ Pending

\* begin_owned_cleanup: every record becomes pending; the snapshot is owned'
BeginOwnedCleanup ==
    /\ owned' = [p \in Pids |-> [owned[p] EXCEPT !.pending = owned[p] # NoRec]]
    /\ IF owned' # owned THEN StateChanged ELSE NoChange

\* assert_registered_app_admitted
Admitted(a) == ~Gated /\ owned[a.pid] = [id |-> a.id, pending |-> FALSE]

\* _mark_owned_cleanup_pending
MarkPending(a) ==
    IF owned[a.pid] = [id |-> a.id, pending |-> FALSE]
    THEN owned' = [owned EXCEPT ![a.pid].pending = TRUE] /\ StateChanged
    ELSE UNCHANGED owned /\ NoChange

\* mutant of Retain: the reference is kept without its gate
RetainUngated == kept' = TRUE /\ UNCHANGED unverified /\ NoChange

\* _retain_unverified_app: one token as long as this worker keeps the exe
Retain ==
    /\ kept' = TRUE
    /\ IF kept THEN UNCHANGED unverified /\ NoChange
               ELSE unverified' = TRUE /\ StateChanged

CoolsDown == /\ cooling /\ cooling' = FALSE
             /\ UNCHANGED <<os, owned, unverified, inflight, closing, cache, moved, pc, w, tls, timers, job, faults>>

Expires == /\ cache.ok /\ cache' = NoList              \* _CACHE_TTL_SEC
           /\ UNCHANGED <<os, owned, unverified, inflight, cooling, closing, moved, pc, w, tls, timers, job, faults>>

BeginApplicationShutdown ==
    /\ ~closing /\ closing' = TRUE
    /\ UNCHANGED <<os, owned, unverified, inflight, cooling, cache, moved, pc, w, tls, timers, job, faults>>

-----------------------------------------------------------------------------
(* cleanup_owned_processes, on the worker or on a timer's thread: close the  *)
(* gate, list the processes, terminate those that are still ours, open it.   *)

StartJob(t, recs) == job' = [job EXCEPT ![t] = [Idle EXCEPT !.at = "gate", !.recs = recs]]

CloseGate(t) ==
    /\ job[t].at = "gate" /\ job' = [job EXCEPT ![t].at = "list"]
    /\ inflight' = inflight + 1 /\ StateChanged
    /\ UNCHANGED <<os, owned, unverified, cooling, closing, pc, w, tls, timers, faults>>

List(t) ==
    /\ job[t].at = "list"
    /\ \E l \in {Listing, NoList} :
          /\ Enumerated(l)
          /\ job' = [job EXCEPT ![t].at = "kill", ![t].list = l, ![t].bad = ~l.ok,
                                ![t].recs = IF l.ok THEN @ ELSE NoRecs]
    /\ UNCHANGED <<os, guard, pc, w, tls, timers>>

\* _remove_owned_if_matches
Remove(p) == /\ owned' = [owned EXCEPT ![p] = NoRec] /\ StateChanged
             /\ UNCHANGED <<unverified, inflight, cooling, closing>>

\* _terminate_and_confirm: one handle for the identity, the termination and the wait
\* mutant of Gone: the identity is not compared
GoneNever(p, r) == FALSE
Gone(p, r)   == proc[p] # 0 /\ proc[p] # r.id            \* identity_changed
TerminateAndConfirm(p, r) ==
    \/ proc[p] = 0 /\ UNCHANGED <<proc, guard>> /\ Sound                      \* identity_unknown
    \/ proc[p] # 0 /\ UNCHANGED <<proc, guard>> /\ Faulty                     \* or remaining, or failed
    \/ Gone(p, r) /\ Remove(p) /\ UNCHANGED proc /\ Sound
    \/ proc[p] # 0 /\ ~Gone(p, r) /\ Remove(p) /\ Sound
       /\ proc' = [proc EXCEPT ![p] = 0]                                      \* terminated

Kill(t, p) ==
    LET r == job[t].recs[p] IN
    /\ job[t].at = "kill" /\ r # NoRec
    /\ \/ owned[p] # r /\ UNCHANGED <<proc, guard>> /\ Sound                  \* ~_record_matches
       \/ owned[p] = r /\ job[t].list.of[p] = 0 /\ Remove(p) /\ UNCHANGED proc /\ Sound
       \/ owned[p] = r /\ job[t].list.of[p] # 0 /\ TerminateAndConfirm(p, r)
    /\ job' = [job EXCEPT ![t].recs[p] = NoRec, ![t].bad = @ \/ owned'[p] = owned[p]]
    /\ UNCHANGED <<kind, pc, w, tls, timers>>

\* mutant of OpenGate: the quit watchdog's own gate is not released
OpenGateOnce(t) ==
    /\ job[t].at = "kill" /\ job[t].recs = NoRecs
    /\ job' = [job EXCEPT ![t] = [Idle EXCEPT !.bad = job[t].bad /\ t = "worker" /\ pc = "recovering"]]
    /\ inflight' = inflight - 1 /\ StateChanged
    /\ active' = (active /\ t # "watchdog")
    /\ UNCHANGED <<os, owned, unverified, cooling, closing, pc, w, tls, callbacks, quitTimer, faults>>

\* the quit watchdog holds a gate of its own around the cleanup; ComWatchdog
\* holds its lock until here
OpenGate(t) ==
    /\ job[t].at = "kill" /\ job[t].recs = NoRecs
    /\ job' = [job EXCEPT ![t] = [Idle EXCEPT !.bad = job[t].bad /\ t = "worker" /\ pc = "recovering"]]
    /\ inflight' = inflight - (IF t = "quit" THEN 2 ELSE 1) /\ StateChanged
    /\ active' = (active /\ t # "watchdog")
    /\ UNCHANGED <<os, owned, unverified, cooling, closing, pc, w, tls, callbacks, quitTimer, faults>>

Cleanup(t) == CloseGate(t) \/ List(t) \/ OpenGate(t) \/ \E p \in Pids : Kill(t, p)

-----------------------------------------------------------------------------
(* ComWatchdog.                                                              *)

\* the check of _fire: armed, and by the arm this timer belongs to
\* mutant of Valid: the generation is not compared
ValidForAny(c) == active
Valid(c) == active /\ c = "present"

Fire ==
    /\ job["watchdog"].at = "idle"
    /\ \E c \in callbacks :
          /\ callbacks' = callbacks \ {c}
          /\ IF ~Valid(c) THEN UNCHANGED <<owned, moved, cache, active, job>>
             ELSE /\ BeginOwnedCleanup                              \* terminate_stuck_office
                  /\ IF owned' = NoRecs THEN active' = FALSE /\ UNCHANGED job
                     ELSE StartJob("watchdog", owned') /\ UNCHANGED active
    /\ UNCHANGED <<os, unverified, inflight, cooling, closing, pc, w, tls, quitTimer, faults>>

Raise(out) == w' = [NoWork EXCEPT !.out = out] /\ pc' = "disarm"

\* disarm waits for a firing in progress; cancelling a timer may come too late
Disarm ==
    /\ pc = "disarm" /\ job["watchdog"].at = "idle"
    /\ active' = FALSE
    /\ callbacks' \in {callbacks, callbacks \ {"present"}}
    /\ pc' = (IF w.out = "poison" THEN "recover" ELSE "idle") /\ w' = NoWork
    /\ UNCHANGED <<os, guard, tls, quitTimer, job, faults>>

-----------------------------------------------------------------------------
(* The worker.  ensure_office_available comes before every step towards      *)
(* Word: in the scheduler, in AutoReader, in the getter and before dispatch. *)

After(k) == CASE k = "file" -> "guard" [] k = "guard" -> "look"
              [] k = "getter" -> "consume" [] k = "dispatch" -> "baseline"

Refused == IF pc = "file" THEN pc' = "idle" /\ UNCHANGED w ELSE Raise("ok")

\* mutant of Proceed: an earlier timer that is still there is not replaced
ProceedOnOldTimer(k) ==
    /\ pc' = After(k)
    /\ IF k = "file"
       THEN /\ active' = TRUE
            /\ callbacks' = (IF callbacks = {} THEN {"present"} ELSE {"earlier"})
       ELSE UNCHANGED <<active, callbacks>>
    /\ w' = NoWork

\* begin of the file's call once the scheduler may arm the watchdog
Proceed(k) ==
    /\ pc' = After(k)
    /\ IF k = "file"
       THEN /\ active' = TRUE                                      \* arm
            /\ callbacks' = {"present"} \cup (IF callbacks = {} THEN {} ELSE {"earlier"})
       ELSE UNCHANGED <<active, callbacks>>
    /\ w' = NoWork

Ensure ==
    /\ pc \in Ensuring
    /\ \E absent \in BOOLEAN :
       /\ IF unverified /\ ~closing
          THEN \/ absent = (Listed(Listing) = {}) /\ Sound         \* office_processes_absent
               \/ ~absent /\ Faulty
          ELSE ~absent /\ Sound
       /\ unverified' = (unverified /\ ~absent)
       /\ IF unverified' # unverified THEN StateChanged ELSE NoChange
       /\ \/ /\ closing \/ unverified' \/ inflight > 0 \/ (Pending /\ cooling)
             /\ Refused /\ UNCHANGED <<cooling, active, callbacks, job>>
          \/ /\ ~(closing \/ unverified' \/ inflight > 0 \/ Pending)
             /\ Proceed(pc) /\ UNCHANGED <<cooling, job>>
          \/ /\ ~(closing \/ unverified' \/ inflight > 0) /\ Pending /\ ~cooling
             /\ cooling' = TRUE
             /\ StartJob("worker", [p \in Pids |-> IF owned[p].pending THEN owned[p] ELSE NoRec])
             /\ w' = [w EXCEPT !.then = pc] /\ pc' = "retry" /\ UNCHANGED <<active, callbacks>>
    /\ UNCHANGED <<os, owned, inflight, closing, tls, quitTimer>>

Retried ==
    /\ pc = "retry" /\ job["worker"].at = "idle"
    /\ IF Pending \/ inflight > 0
       THEN /\ UNCHANGED <<active, callbacks>>
            /\ IF w.then = "file" THEN pc' = "idle" /\ UNCHANGED w ELSE Raise("ok")
       ELSE Proceed(w.then)
    /\ UNCHANGED <<os, guard, tls, quitTimer, job, faults>>

Take == /\ pc = "idle" /\ ~poisoned /\ pc' = "file"
        /\ UNCHANGED <<os, guard, w, tls, timers, job, faults>>

(* inspect_office_for_ext: is Word free?  A listing, perhaps from the cache, *)
(* is compared with the records; what changes in between asks again, once.   *)
Look ==
    /\ pc = "look"
    /\ IF Gated \/ w.tries = 2
       THEN Raise("ok") /\ UNCHANGED moved /\ Sound
       ELSE /\ moved' = FALSE /\ pc' = "looked"
            /\ IF cache.ok THEN w' = [w EXCEPT !.list = cache, !.tries = @ + 1] /\ Sound
               ELSE \E l \in {Listing, NoList} : Enumerated(l) /\ w' = [w EXCEPT !.list = l, !.tries = @ + 1]
    /\ UNCHANGED <<os, owned, unverified, inflight, cooling, closing, cache, tls, timers, job>>

\* mutant of Stale: the epoch is not compared
StaleNever == FALSE
Stale == moved          \* snapshot.epoch != _guard_epoch

\* _cached_process_snapshot publishes, then the records are read
Looked ==
    /\ pc = "looked"
    /\ IF Stale THEN pc' = "look" /\ UNCHANGED <<w, cache>>
       ELSE /\ cache' = (IF w.list.ok THEN w.list ELSE cache)
            /\ w' = [w EXCEPT !.recs = owned] /\ pc' = "judge"
    /\ UNCHANGED <<os, owned, unverified, inflight, cooling, closing, moved, tls, timers, job, faults>>

Proven(p, i) == w.recs[p] # NoRec /\ i = w.recs[p].id

Judge ==
    /\ pc = "judge" /\ pc' = "decide"
    /\ \E unknown \in {{}} \cup {{p} : p \in {q \in Listed(w.list) : proc[q] # 0}} :
          LET identity(p) == IF p \in unknown THEN 0 ELSE proc[p]
              asked == {p \in Listed(w.list) : w.recs[p] # NoRec} IN
          /\ IF unknown = {} THEN Sound ELSE unknown \subseteq asked /\ Faulty
          /\ w' = [w EXCEPT !.external = {p \in Listed(w.list) : ~Proven(p, identity(p))}]
    /\ UNCHANGED <<os, guard, tls, timers, job>>

Decide ==
    /\ pc = "decide"
    /\ IF Gated THEN Raise("ok")
       ELSE IF Stale THEN pc' = "look" /\ UNCHANGED w
       ELSE IF w.external # {} THEN Raise("busy")
       ELSE pc' = "getter" /\ w' = NoWork
    /\ UNCHANGED <<os, guard, tls, timers, job, faults>>

(* _get_word_excel_app: the Word of an earlier file, if its proof still      *)
(* holds, or a new one.                                                      *)
Consume ==
    /\ pc = "consume"
    /\ IF app = NoApp THEN pc' = "dispatch" /\ UNCHANGED <<owned, moved, cache, app, w>>
       ELSE IF Admitted(app)
       THEN pc' = "call" /\ w' = [w EXCEPT !.app = app] /\ UNCHANGED <<owned, moved, cache, app>>
       ELSE app' = NoApp /\ MarkPending(app) /\ Raise("ok")
    /\ UNCHANGED <<os, unverified, inflight, cooling, closing, kept, poisoned, timers, job, faults>>

ForgetsKept == kept /\ ~unverified        \* the gate of the kept reference was released

\* office_pids_live, then ensure_application_open; the dispatch is a step of its own
Baseline ==
    /\ pc = "baseline"
    /\ kept' = (kept /\ ~ForgetsKept)
    /\ \E l \in {Listing, NoList} :
          /\ Enumerated(l)
          /\ IF closing THEN Raise("ok") ELSE pc' = "create" /\ w' = [w EXCEPT !.base = Listed(l)]
    /\ UNCHANGED <<os, guard, app, poisoned, timers, job>>

Create ==
    /\ pc = "create"
    /\ \/ \E p \in Pids :
             /\ Starts("ours", p)
             /\ w' = [w EXCEPT !.app = [pid |-> p, id |-> Len(kind) + 1], !.tries = 0]
             /\ pc' = "window"
       \/ UNCHANGED os /\ \E out \in {"ok", "poison"} : Raise(out)     \* no Word came up
    /\ UNCHANGED <<guard, tls, timers, job, faults>>

-----------------------------------------------------------------------------
(* _register_owned_window: the window of the new application gives a pid,    *)
(* the pid an identity, and both are confirmed before they are recorded.  A  *)
(* window's handle may be used again with its pid.                           *)

GiveUp == /\ Retain /\ Raise("ok") /\ UNCHANGED <<owned, inflight, cooling, closing, app, poisoned>>
Again  == /\ pc' = "window" /\ w' = [w EXCEPT !.tries = @ + 1] /\ UNCHANGED <<guard, tls>>
NotOwned == IF w.tries + 1 = Tries THEN GiveUp ELSE Again
\* a call into an application that is gone: OfficeOwnershipProbeError with a fatal code
ProbeFails == /\ ~Running(w.app) /\ Retain /\ Raise("poison") /\ Sound
              /\ UNCHANGED <<owned, inflight, cooling, closing, app, poisoned>>

Window ==
    /\ pc = "window"
    /\ \/ ProbeFails
       \/ /\ Running(w.app)
          /\ \E l \in {Listing, NoList} :
                /\ Enumerated(l)
                /\ IF ~l.ok THEN NotOwned
                   ELSE /\ pc' = "identity" /\ w' = [w EXCEPT !.list = l, !.recs = owned] /\ moved' = FALSE
                        /\ UNCHANGED <<owned, unverified, inflight, cooling, closing, cache, tls>>
    /\ UNCHANGED <<os, timers, job>>

GetIdentity ==
    /\ pc = "identity"
    /\ \E i \in Instances :
          /\ Identity(w.app.pid, i)
          /\ IF i = 0 \/ w.app.pid \in w.base \/ w.app.pid \notin Listed(w.list) THEN NotOwned
             ELSE pc' = "confirm" /\ w' = [w EXCEPT !.id = i] /\ UNCHANGED <<guard, tls>>
    /\ UNCHANGED <<os, timers, job>>

\* read_hwnd again: the application must still answer
Answers == Running(w.app)

Confirm ==
    /\ pc = "confirm"
    /\ \/ ProbeFails
       \/ Answers /\ pc' = "confirmed" /\ Sound /\ UNCHANGED <<w, guard, tls>>
    /\ UNCHANGED <<os, timers, job>>

Confirmed ==
    /\ pc = "confirmed"
    /\ \E i \in Instances :
          /\ Identity(w.app.pid, i)
          /\ IF i = w.id /\ Word(w.app.pid) THEN pc' = "commit" /\ UNCHANGED <<w, guard, tls>> ELSE NotOwned
    /\ UNCHANGED <<os, timers, job>>

Commit ==
    LET p == w.app.pid
        proof == [pid |-> p, id |-> w.id] IN
    /\ pc = "commit"
    /\ IF owned[p] # w.recs[p] \/ (moved /\ ~Gated) THEN NotOwned /\ Sound
       ELSE /\ StateChanged /\ UNCHANGED <<unverified, inflight, cooling, closing, tls>>
            /\ \/ /\ owned' = [owned EXCEPT ![p] = [id |-> w.id, pending |-> Gated]]
                  /\ pc' = "publish" /\ w' = [w EXCEPT !.app = proof] /\ Sound
               \/ /\ owned' = [owned EXCEPT ![p] = [id |-> w.id, pending |-> TRUE]]   \* its probe document stays open
                  /\ Raise("ok") /\ Faulty
    /\ UNCHANGED <<os, timers, job>>

\* assert_registered_app_admitted, the first settings, _publish_word_excel_app
Publish ==
    /\ pc = "publish"
    /\ IF ~Admitted(w.app) THEN MarkPending(w.app) /\ Raise("ok") /\ UNCHANGED app
       ELSE /\ UNCHANGED <<owned, moved, cache>>
            /\ \/ Running(w.app) /\ app' = w.app /\ pc' = "call" /\ w' = [NoWork EXCEPT !.app = w.app]
               \/ ~Running(w.app) /\ Raise("poison") /\ UNCHANGED app
    /\ UNCHANGED <<os, unverified, inflight, cooling, closing, kept, poisoned, timers, job, faults>>

-----------------------------------------------------------------------------
(* Open, read and close of a document, and the recovery of a dead Word.      *)

Return == /\ pc = "call" /\ Raise("ok")
          /\ UNCHANGED <<os, guard, tls, timers, job, faults>>

Hang == /\ pc = "call" /\ Running(w.app) /\ pc' = "hung" /\ Faulty
        /\ UNCHANGED <<os, guard, w, tls, timers, job>>

Break == /\ pc \in Calls /\ ~Running(w.app) /\ app' = NoApp /\ Raise("poison")
         /\ UNCHANGED <<os, guard, kept, poisoned, timers, job, faults>>

RecoverPoisonedOffice ==
    /\ pc = "recover"
    /\ IF owned = NoRecs
       THEN poisoned' = TRUE /\ pc' = "idle" /\ UNCHANGED <<owned, moved, cache, job>>
       ELSE BeginOwnedCleanup /\ StartJob("worker", owned') /\ pc' = "recovering" /\ UNCHANGED poisoned
    /\ UNCHANGED <<os, unverified, inflight, cooling, closing, w, app, kept, timers, faults>>

Recovered ==
    /\ pc = "recovering" /\ job["worker"].at = "idle"
    /\ poisoned' = job["worker"].bad /\ job' = [job EXCEPT !["worker"] = Idle] /\ pc' = "idle"
    /\ UNCHANGED <<os, guard, w, app, kept, timers, faults>>

-----------------------------------------------------------------------------
(* quit_com_apps, every so many files and at the end of a cycle.             *)

QuitComApps ==
    /\ pc = "idle"
    /\ \E absent \in BOOLEAN :                                 \* prune_unverified_cleanup
          /\ IF unverified THEN \/ absent = (Listed(Listing) = {}) /\ Sound
                                \/ ~absent /\ Faulty
                           ELSE ~absent /\ Sound
          /\ unverified' = (unverified /\ ~absent)
          /\ owned' = [p \in Pids |-> [owned[p] EXCEPT !.pending = owned[p] # NoRec]]
          /\ IF owned' # owned \/ unverified' # unverified THEN StateChanged ELSE NoChange
    /\ w' = [NoWork EXCEPT !.recs = owned', !.app = app]
    /\ IF app = NoApp THEN pc' = "grace" /\ UNCHANGED quitTimer
       ELSE pc' = "quitcall" /\ job["quit"].at = "idle" /\ quitTimer' = (owned' # NoRecs)
    /\ UNCHANGED <<os, inflight, cooling, closing, tls, active, callbacks, job>>

QuitHangs == /\ pc = "quitcall" /\ Running(w.app) /\ pc' = "quithung" /\ Faulty
             /\ UNCHANGED <<os, guard, w, tls, timers, job>>

QuitFires ==
    /\ quitTimer /\ quitTimer' = FALSE
    /\ w' = [w EXCEPT !.fired = TRUE]
    /\ inflight' = inflight + 1 /\ StateChanged                \* begin_shutdown_cleanup
    /\ StartJob("quit", w.recs)
    /\ UNCHANGED <<os, owned, unverified, cooling, closing, pc, tls, active, callbacks, faults>>

\* Quit returns, with the process gone or still there; the reference is let go
QuitReturns ==
    /\ pc = "quitcall" \/ (pc = "quithung" /\ ~Running(w.app))
    /\ proc' \in {proc} \cup (IF Running(w.app) THEN {[proc EXCEPT ![w.app.pid] = 0]} ELSE {})
    /\ quitTimer' = FALSE /\ app' = NoApp /\ pc' = "grace"
    /\ UNCHANGED <<kind, guard, w, kept, poisoned, active, callbacks, job, faults>>

\* wait_for_owned_exit, finish_owned_cleanup; what is left is terminated
Alive(p, r) == proc[p] = r.id
Grace ==
    LET waited == IF w.fired THEN NoRecs ELSE w.recs IN
    /\ pc = "grace"
    /\ \E unasked \in {{}} \cup {{p} : p \in {q \in Pids : waited[q] # NoRec /\ proc[q] # 0}} :
          LET left == {p \in Pids : waited[p] # NoRec /\ (Alive(p, waited[p]) \/ p \in unasked)} IN
          /\ IF unasked = {} THEN Sound ELSE Faulty
          /\ owned' = [p \in Pids |-> IF owned[p] = waited[p] /\ p \notin left THEN NoRec ELSE owned[p]]
          /\ IF owned' # owned THEN StateChanged ELSE NoChange
          /\ IF left = {} THEN UNCHANGED job
             ELSE StartJob("worker", [p \in Pids |-> IF p \in left THEN waited[p] ELSE NoRec])
    /\ pc' = "quitting" /\ w' = NoWork
    /\ UNCHANGED <<os, unverified, inflight, cooling, closing, tls, timers>>

\* a restart between two files, or the end of the cycle and of its thread
Quitted == /\ pc = "quitting" /\ job["worker"].at = "idle" /\ pc' = "idle"
           /\ UNCHANGED <<os, guard, w, app, timers, job, faults>>
Restarted == Quitted /\ UNCHANGED <<kept, poisoned>>
CycleEnds == Quitted /\ kept' = FALSE /\ poisoned' = FALSE

-----------------------------------------------------------------------------
Init ==
    /\ proc = [p \in Pids |-> 0] /\ kind = <<>>
    /\ owned = NoRecs /\ inflight = 0 /\ cache = NoList
    /\ unverified = FALSE /\ cooling = FALSE /\ closing = FALSE /\ moved = FALSE
    /\ pc = "idle" /\ w = NoWork /\ app = NoApp /\ kept = FALSE /\ poisoned = FALSE
    /\ active = FALSE /\ callbacks = {} /\ quitTimer = FALSE
    /\ job = [t \in Threads |-> Idle] /\ faults = 0

Worker == \/ Take \/ Ensure \/ Retried \/ Look \/ Looked \/ Judge \/ Decide \/ Consume \/ Baseline \/ Create
          \/ Window \/ GetIdentity \/ Confirm \/ Confirmed \/ Commit \/ Publish \/ Return \/ Break
          \/ Disarm \/ RecoverPoisonedOffice \/ Recovered
          \/ QuitComApps \/ QuitReturns \/ Grace \/ Restarted \/ CycleEnds

Next == \/ Worker \/ Hang \/ QuitHangs \/ Fire \/ QuitFires
        \/ \E t \in Threads : Cleanup(t)
        \/ CoolsDown \/ Expires \/ BeginApplicationShutdown
        \/ UserOpens \/ UserCloses \/ Released \/ OursDies

Spec == Init /\ [][Next]_vars

(* Timers fire, threads go on, the user closes Word in the end, a Word of   *)
(* ours that was let go exits, and the worker works its cycles: files are    *)
(* taken and quits come again and again.                                     *)
FairSpec ==
    /\ Spec
    /\ WF_vars(Worker) /\ SF_vars(QuitComApps) /\ SF_vars(CycleEnds) /\ SF_vars(Take)
    /\ WF_vars(Fire) /\ WF_vars(QuitFires)
    /\ \A t \in Threads : WF_vars(Cleanup(t))
    /\ WF_vars(CoolsDown) /\ WF_vars(UserCloses) /\ WF_vars(Released)

-----------------------------------------------------------------------------
(* No Word we started is ever forgotten: as long as it runs it is in the     *)
(* registry, or the gate is closed for an unverified one, or the worker is   *)
(* just about to register it.                                                *)
OursAccounted ==
    \A p \in Pids : proc[p] # 0 /\ kind[proc[p]] = "ours" =>
       \/ owned[p].id = proc[p]
       \/ unverified
       \/ pc \in Registering /\ w.app = [pid |-> p, id |-> proc[p]]

(* A cleanup, on whichever thread, never ends a process that is not our      *)
(* Word, however pids are used again between its steps.                      *)
UserOfficeSafe ==
    [][ job' # job => \A p \in Pids : proc[p] # 0 /\ kind[proc[p]] # "ours" => proc'[p] = proc[p] ]_vars

(* The guard tells the user's Word from ours.  It reports busy only when a   *)
(* listed process was the user's or is not the one recorded, never for one   *)
(* of ours whose record a watchdog removed meanwhile; and it lets the worker *)
(* in only if no listed process still running is the user's.                 *)
GuardTellsApart ==
    [][ /\ (pc = "decide" /\ w'.out = "busy" =>
               \E p \in w.external : kind[w.list.of[p]] # "ours" \/ w.recs[p] # NoRec)
        /\ (pc = "decide" /\ pc' = "getter" =>
               \A p \in Listed(w.list) : proc[p] = w.list.of[p] => kind[proc[p]] = "ours") ]_vars

(* The watchdog cleans up only for the call it is armed for: while it does,  *)
(* that call's own timer has run out.                                        *)
OnlyOwnTimeout == job["watchdog"].at # "idle" => "present" \notin callbacks

(* A call that hangs in a registered Word while the watchdog is armed comes  *)
(* back, once queries no longer fail.                                        *)
HungCallEnds ==
    (pc = "hung" /\ active /\ job["watchdog"].at = "idle" /\ faults = MaxFaults) ~> (pc # "hung")

(* Whatever failed, the gate to Word opens again and again, as long as the   *)
(* application runs and no call hangs for ever.                              *)
GateOpens == <>[](closing \/ pc = "hung" \/ pc = "quithung") \/ []<>(~Gated)
=============================================================================
