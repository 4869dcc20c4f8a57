----------------------------- MODULE Lifecycle -----------------------------
(***************************************************************************)
(* Starts and exits of the application.  A process that starts takes the    *)
(* authority lock and listens on the local server, or asks the one that     *)
(* runs to show its window and ends.  The primary writes the dirty marker,  *)
(* builds its window, and on exit waits for the collector's thread, has a   *)
(* helper sweep the Office processes, cuts the thread if it must, joins the *)
(* query thread, and then quits or leaves hard.  Quitting frees the server  *)
(* and the lock, and erases the marker after the event loop has returned.   *)
(*                                                                          *)
(* Durations are left out: a bounded wait may end at any time.  Each        *)
(* process's collector owns at most one Office process.  Once quit() is     *)
(* asked for, no other event of the loop runs.                              *)
(* Sources: knowmate/app/single_instance.py, app/main.py, app/lifecycle.py, *)
(* secure/office_exit.py.                                                   *)
(***************************************************************************)
EXTENDS Naturals, FiniteSets

CONSTANTS
    Starts,       \* bound: processes started, one after another
    MaxCycles,    \* bound: threads of the collector started
    MaxFaults     \* bound: crashes and calls that raise

ASSUME ConstantsAssumption == Starts \in Nat \ {0} /\ MaxCycles \in Nat /\ MaxFaults \in Nat

VARIABLES
    lock,      \* holder of the authority lock, 0 for nobody
    endpoint,  \* the process that listens, or that died listening; 0 for nobody
    marker,    \* dirty_shutdown.flag is on disk
    pc,        \* where each process's GUI thread is
    gui,       \* its window, pending show, finished startup
    inbox,     \* show requests written to its server and not read
    worker,    \* its collector's thread
    office,    \* the Office process its collector started
    query,     \* its query thread, of which only the exit takes notice, runs
    leave,     \* its exit: how the sweep was reached, what is unsafe
    helper,    \* the daemon thread that sweeps Office
    cycles, faults

shared == <<lock, endpoint, marker>>
bounds == <<cycles, faults>>
vars   == <<shared, pc, gui, inbox, worker, office, query, leave, helper, bounds>>

Procs   == 1..Starts
Opening == {"lock", "tell", "again", "listen", "ask", "clean"}
Primary == {"marker", "build", "run"}
Exiting == {"stop", "grace", "more", "office", "recheck", "killed", "decide", "query", "final"}
Closing == {"quit", "unlock", "return", "clearing"}
Places  == {"off", "gone"} \cup Opening \cup Primary \cup Exiting \cup Closing

NewGui    == [window |-> "none", pending |-> FALSE, started |-> FALSE]
NewWorker == [at |-> "idle", cancel |-> FALSE, job |-> FALSE, torn |-> FALSE]
NewOffice == [is |-> "none", tried |-> FALSE]
NewLeave  == [gate |-> FALSE, job |-> FALSE, bad |-> FALSE, open |-> FALSE, mode |-> "none"]

TypeOK ==
    /\ lock \in 0..Starts /\ endpoint \in 0..Starts /\ marker \in BOOLEAN
    /\ pc \in [Procs -> Places]
    /\ gui \in [Procs -> [window : {"none", "splash", "shown", "hidden"}, pending : BOOLEAN,
                          started : BOOLEAN]]
    /\ inbox \in [Procs -> SUBSET Procs]
    /\ worker \in [Procs -> [at : {"idle", "work", "open", "call", "protected"},
                             cancel : BOOLEAN, job : BOOLEAN, torn : BOOLEAN]]
    /\ office \in [Procs -> [is : {"none", "ours", "killed"}, tried : BOOLEAN]]
    /\ query \in [Procs -> BOOLEAN]
    /\ leave \in [Procs -> [gate : BOOLEAN, job : BOOLEAN, bad : BOOLEAN, open : BOOLEAN,
                            mode : {"none", "stopped", "escalate", "raised", "unsafe"}]]
    /\ helper \in [Procs -> {"none", "sweep", "check", "safe", "unsafe"}]
    /\ cycles \in 0..MaxCycles /\ faults \in 0..MaxFaults

Init ==
    /\ lock = 0 /\ endpoint = 0 /\ marker = FALSE
    /\ pc = [p \in Procs |-> "off"] /\ gui = [p \in Procs |-> NewGui]
    /\ inbox = [p \in Procs |-> {}] /\ worker = [p \in Procs |-> NewWorker]
    /\ office = [p \in Procs |-> NewOffice] /\ query = [p \in Procs |-> FALSE]
    /\ leave = [p \in Procs |-> NewLeave] /\ helper = [p \in Procs |-> "none"]
    /\ cycles = 0 /\ faults = 0

At(p, place)   == pc[p] = place
Goto(p, place) == pc' = [pc EXCEPT ![p] = place]
Running(p)     == worker[p].at # "idle"
Fault          == faults < MaxFaults /\ faults' = faults + 1

\* The operating system takes back what a dead process held: the authority lock
\* is stale, and its endpoint may survive it.  Office processes survive.
EndProcess(p) ==
    /\ Goto(p, "gone")
    /\ lock' = IF lock = p THEN 0 ELSE lock
    /\ \/ UNCHANGED endpoint
       \/ endpoint = p /\ endpoint' = 0
    /\ gui' = [gui EXCEPT ![p] = NewGui] /\ inbox' = [inbox EXCEPT ![p] = {}]
    /\ worker' = [worker EXCEPT ![p] = NewWorker] /\ office' = [office EXCEPT ![p] = NewOffice]
    /\ query' = [query EXCEPT ![p] = FALSE] /\ leave' = [leave EXCEPT ![p] = NewLeave]
    /\ helper' = [helper EXCEPT ![p] = "none"]

\* _default_hard_exit: os._exit, with nothing done first.
HardExit(p) == EndProcess(p) /\ UNCHANGED <<marker, bounds>>

Crash(p) ==
    /\ pc[p] \notin {"off", "gone"} /\ Fault
    /\ EndProcess(p) /\ UNCHANGED <<marker, cycles>>

-----------------------------------------------------------------------------
(* single_instance.py: acquire_or_notify_existing.                          *)

inner == <<gui, worker, office, query, leave, helper, bounds>>

Start(p) ==
    /\ At(p, "off") /\ \A q \in Procs : q < p => pc[q] # "off"
    /\ Goto(p, "lock") /\ UNCHANGED <<shared, inbox, inner>>

\* Without the lock a process only asks; the lock can also not be had because its
\* file cannot be made.
LockIgnored(p) ==   \* mutant of TryLock: without the lock it goes on to listen
    /\ At(p, "lock")
    /\ Goto(p, "listen") /\ lock' = IF lock = 0 THEN p ELSE lock
    /\ UNCHANGED <<endpoint, marker, inbox, inner>>
TryLock(p) ==
    /\ At(p, "lock")
    /\ \/ lock = 0 /\ lock' = p /\ Goto(p, "listen")
       \/ UNCHANGED lock /\ Goto(p, "tell")
    /\ UNCHANGED <<endpoint, marker, inbox, inner>>

Listen(p) ==
    /\ At(p, "listen")
    /\ \/ endpoint = 0 /\ endpoint' = p /\ Goto(p, "marker")
       \/ UNCHANGED endpoint /\ Goto(p, "ask")
    /\ UNCHANGED <<lock, marker, inbox, inner>>

\* _notify_existing: once connected it counts as told, even if the request was
\* not written; not told is one that could not connect.
Listening(q) == q # 0 /\ pc[q] \notin {"off", "gone"}
Told(p) ==
    /\ pc[p] \in {"tell", "again", "ask"} /\ Listening(endpoint)
    /\ inbox' \in {inbox, [inbox EXCEPT ![endpoint] = @ \cup {p}]}
    /\ lock' = IF lock = p THEN 0 ELSE lock
    /\ Goto(p, "gone") /\ UNCHANGED <<endpoint, marker, inner>>
NotTold(p) ==
    /\ \/ At(p, "tell") /\ Goto(p, "again")
       \/ At(p, "again") /\ Goto(p, "gone")
       \/ At(p, "ask") /\ Goto(p, "clean")
    /\ UNCHANGED <<shared, inbox, inner>>

\* removeServer and the second listen; its failure gives the lock back.
Clean(p) ==
    /\ At(p, "clean")
    /\ \/ endpoint' = p /\ Goto(p, "marker") /\ UNCHANGED lock
       \/ endpoint' = 0 /\ lock' = 0 /\ Goto(p, "gone")
    /\ UNCHANGED <<marker, inbox, inner>>

-----------------------------------------------------------------------------
(* main.py: initialize_app, and the window's life.                          *)

rest == <<worker, office, query, leave, helper, bounds>>

\* A marker that cannot be written is left as it was.
WriteMarker(p) ==
    /\ At(p, "marker") /\ Goto(p, "build")
    /\ marker' \in {TRUE, marker}
    /\ UNCHANGED <<lock, endpoint, gui, inbox, rest>>

\* MainWindow; a show request that came before it is taken now, ahead of the
\* end of the splash screen.
Build(p) ==
    /\ At(p, "build") /\ Goto(p, "run")
    /\ gui' = [gui EXCEPT ![p] = [window |-> IF @.pending THEN "shown" ELSE "splash",
                                  pending |-> FALSE, started |-> TRUE]]
    /\ UNCHANGED <<shared, inbox, rest>>

\* An exception on the way leaves the loop with code 1.
InitFails(p) ==
    /\ pc[p] \in {"marker", "build"} /\ Fault
    /\ Goto(p, "quit") /\ UNCHANGED <<shared, gui, inbox, worker, office, query, leave, helper, cycles>>

FinishStartup(p) ==
    /\ At(p, "run") /\ gui[p].window = "splash"
    /\ gui' = [gui EXCEPT ![p].window = "shown"]
    /\ UNCHANGED <<shared, pc, inbox, rest>>

\* _on_ready_read: startup pumps these events too.  Nobody takes a request that
\* is noted after Build.
ReadShowLate(p) ==   \* mutant of ReadShow: the signal is connected to nothing
    /\ pc[p] \in Primary /\ inbox[p] # {}
    /\ \E q \in inbox[p] : inbox' = [inbox EXCEPT ![p] = @ \ {q}]
    /\ gui' = [gui EXCEPT ![p].pending = ~At(p, "run")]
    /\ UNCHANGED <<shared, pc, rest>>
ReadShow(p) ==
    /\ pc[p] \in Primary /\ inbox[p] # {}
    /\ \E q \in inbox[p] : inbox' = [inbox EXCEPT ![p] = @ \ {q}]
    /\ gui' = [gui EXCEPT ![p] = IF At(p, "run") THEN [@ EXCEPT !.window = "shown"]
                                 ELSE [@ EXCEPT !.pending = TRUE]]
    /\ UNCHANGED <<shared, pc, rest>>

\* closeEvent with a tray.
HideToTray(p) ==
    /\ At(p, "run") /\ gui[p].window = "shown"
    /\ gui' = [gui EXCEPT ![p].window = "hidden"]
    /\ UNCHANGED <<shared, pc, inbox, rest>>

QueryEnds(p) ==
    /\ query[p] /\ query' = [query EXCEPT ![p] = FALSE]
    /\ UNCHANGED <<shared, pc, gui, inbox, worker, office, leave, helper, bounds>>

-----------------------------------------------------------------------------
(* The collector's thread, as far as an exit can tell.                      *)

frame == <<shared, pc, gui, inbox, query, leave, helper>>
Stage(p, from, to) == worker[p].at = from /\ worker' = [worker EXCEPT ![p].at = to]

\* A cycle, or the job of an exclusion; never while the process leaves.
StartCycle(p, job) ==
    /\ At(p, "run") /\ ~Running(p) /\ cycles < MaxCycles
    /\ cycles' = cycles + 1
    /\ worker' = [worker EXCEPT ![p] = [NewWorker EXCEPT !.at = IF job THEN "protected" ELSE "work",
                                                         !.job = job]]
    /\ UNCHANGED <<frame, office, faults>>

\* Creating an Office process, which registers when the call returns: the gate
\* closed at exit stops the next one, not one under way.
OpenOffice(p) ==
    /\ Stage(p, "work", "open") /\ office[p].is = "none"
    /\ ~leave[p].gate /\ ~worker[p].cancel
    /\ UNCHANGED <<frame, office, bounds>>
OfficeOpened(p) ==
    /\ Stage(p, "open", "call") /\ office' = [office EXCEPT ![p] = [NewOffice EXCEPT !.is = "ours"]]
    /\ UNCHANGED <<frame, bounds>>

\* A call into Office may never return; killing Office fails it.
CallReturns(p) ==
    /\ Stage(p, "call", "work") /\ UNCHANGED <<frame, office, bounds>>

\* An embedding, an optimize, the end-of-cycle cleanup, a job.
Protect(p) ==
    /\ Stage(p, "work", "protected") /\ ~worker[p].cancel /\ UNCHANGED <<frame, office, bounds>>
Unprotect(p) ==
    /\ Stage(p, "protected", "work") /\ UNCHANGED <<frame, office, bounds>>

\* run()'s end tries to quit Office, which may stay.
WorkerEnds(p) ==
    /\ worker[p].at = "work" /\ worker' = [worker EXCEPT ![p].at = "idle", ![p].job = FALSE]
    /\ \/ UNCHANGED office
       \/ office' = [office EXCEPT ![p] = NewOffice]
    /\ UNCHANGED <<frame, bounds>>

-----------------------------------------------------------------------------
(* main.py _shutdown, lifecycle.py stop_worker and finalize_shutdown.       *)

quiet == <<shared, gui, inbox, office, bounds>>

\* The queries are cancelled, the Office gate closed, no collector starts any
\* more; whether a job owns the thread is read once.  The window counts no more.
BeginShutdown(p) ==
    /\ At(p, "run") /\ Goto(p, "stop") /\ gui' = [gui EXCEPT ![p].window = "none"]
    /\ \/ leave' = [leave EXCEPT ![p] = [NewLeave EXCEPT !.gate = TRUE, !.job = worker[p].job]]
          /\ UNCHANGED faults
       \/ Fault /\ \E raises \in {"query", "gate"} :
              leave' = [leave EXCEPT ![p] = [NewLeave EXCEPT !.gate = raises # "gate",
                            !.job = worker[p].job, !.bad = raises = "gate", !.open = raises = "query"]]
    /\ \E asking \in BOOLEAN : query' = [query EXCEPT ![p] = asking]
    /\ UNCHANGED <<shared, inbox, worker, office, helper, cycles>>

\* cleanup_before_worker_termination starts its helper.
Sweep(p, mode) ==
    /\ Goto(p, "office") /\ helper' = [helper EXCEPT ![p] = "sweep"]
    /\ leave' = [leave EXCEPT ![p].mode = mode]
    /\ UNCHANGED <<shared, gui, inbox, office, query>>

CancelWorker(p) ==
    /\ At(p, "stop") /\ Running(p)
    /\ Goto(p, "grace") /\ worker' = [worker EXCEPT ![p].cancel = TRUE]
    /\ UNCHANGED <<quiet, query, leave, helper>>
WorkerStopped(p) ==
    /\ pc[p] \in {"stop", "grace", "more"} /\ ~Running(p)
    /\ Sweep(p, "stopped") /\ UNCHANGED <<worker, bounds>>

\* Work found to be protected after the first wait gets the longer one.
MoreGrace(p) ==
    /\ At(p, "grace") /\ worker[p].at = "protected" /\ Goto(p, "more")
    /\ UNCHANGED <<quiet, worker, query, leave, helper>>
GraceOver(p) ==
    /\ Running(p)
    /\ At(p, "grace") \/ At(p, "more")
    /\ Sweep(p, "escalate") /\ UNCHANGED <<worker, bounds>>
QtRaises(p) ==
    /\ pc[p] \in {"stop", "grace", "more"} /\ Running(p) /\ Fault
    /\ Sweep(p, "raised") /\ UNCHANGED <<worker, cycles>>

\* A helper that is not over within its budget is unsafe, whatever it found.
Swept(p) ==
    /\ At(p, "office")
    /\ \E safe \in {FALSE, helper[p] = "safe"} :
           IF leave[p].mode = "escalate"
           THEN /\ leave' = [leave EXCEPT ![p].mode = IF safe THEN "none" ELSE "unsafe"]
                /\ Goto(p, "recheck")
           ELSE /\ leave' = [leave EXCEPT ![p].mode = "none",
                                           ![p].bad = @ \/ ~safe \/ leave[p].mode = "raised"]
                /\ Goto(p, "decide")
    /\ UNCHANGED <<quiet, worker, query, helper>>

SweepRaises(p) ==
    /\ At(p, "office") /\ Fault
    /\ Goto(p, "decide") /\ leave' = [leave EXCEPT ![p].bad = TRUE]
    /\ UNCHANGED <<shared, gui, inbox, worker, office, query, helper, cycles>>

\* A thread that ended after all is not cut; a job's never is.
Recheck(p) ==
    /\ At(p, "recheck") /\ ~Running(p)
    /\ Goto(p, "decide")
    /\ leave' = [leave EXCEPT ![p].mode = "none", ![p].bad = @ \/ leave[p].mode = "unsafe"]
    /\ UNCHANGED <<quiet, worker, query, helper>>
LeaveJob(p) ==
    /\ At(p, "recheck") /\ Running(p) /\ leave[p].job /\ HardExit(p)
CutThread(p) ==
    /\ At(p, "recheck") /\ Running(p) /\ ~leave[p].job
    /\ Goto(p, "killed")
    /\ \E stops \in BOOLEAN :
           worker' = [worker EXCEPT ![p].torn = TRUE, ![p].at = IF stops THEN "idle" ELSE @]
    /\ UNCHANGED <<quiet, query, leave, helper>>

\* terminate() that stopped the thread may have left locks held: hard exit.
CutAsStopped(p) ==   \* mutant of Cut: a thread cut in time counts as stopped
    /\ At(p, "killed") /\ ~Running(p)
    /\ Goto(p, "decide") /\ UNCHANGED <<quiet, worker, query, leave, helper>>
Cut(p) ==
    /\ At(p, "killed") /\ ~Running(p)
    /\ Goto(p, "decide") /\ leave' = [leave EXCEPT ![p].bad = TRUE]
    /\ UNCHANGED <<quiet, worker, query, helper>>
NotCut(p) == At(p, "killed") /\ Running(p) /\ HardExit(p)

ForcedOut(p) == At(p, "decide") /\ leave[p].bad /\ HardExit(p)
WaitQuery(p) ==
    /\ At(p, "decide") /\ ~leave[p].bad
    /\ Goto(p, "query") /\ UNCHANGED <<quiet, worker, query, leave, helper>>

\* wait_query_shutdown: joined, or not within 8 s, or raised.
QueryJoined(p) ==
    /\ At(p, "query") /\ ~query[p] /\ ~leave[p].open
    /\ Goto(p, "final") /\ UNCHANGED <<quiet, worker, query, leave, helper>>
QueryNotJoined(p) == At(p, "query") /\ HardExit(p)

\* finalize_shutdown.
Quit(p) ==
    /\ At(p, "final")
    /\ IF Running(p) THEN HardExit(p)
       ELSE Goto(p, "quit") /\ UNCHANGED <<quiet, worker, query, leave, helper>>
StatusRaises(p) ==
    /\ pc[p] \in {"recheck", "killed", "final"} /\ Fault
    /\ EndProcess(p) /\ UNCHANGED <<marker, cycles>>

-----------------------------------------------------------------------------
(* office_exit.py: the helper's loop, and main.py after quit().             *)

calm == <<shared, pc, gui, inbox, worker, query, leave, bounds>>

\* What is ours is killed, or resists; while the thread runs a target is tried
\* once.
HelperSweep(p) ==
    /\ helper[p] = "sweep" /\ helper' = [helper EXCEPT ![p] = "check"]
    /\ IF office[p].is = "ours" /\ (~Running(p) \/ ~office[p].tried)
       THEN \E is \in {"ours", "killed"} :
                office' = [office EXCEPT ![p] = [is |-> is, tried |-> TRUE]]
       ELSE UNCHANGED office
    /\ UNCHANGED calm

\* Done only with the thread ended, and nothing registered since the sweep.
Late(p) == office[p].is = "ours" /\ ~office[p].tried
CheckOnce(p) ==   \* mutant of HelperCheck: what registered since is not looked for
    /\ helper[p] = "check"
    /\ IF Running(p)
       THEN helper' = [helper EXCEPT ![p] = "sweep"]
       ELSE helper' = [helper EXCEPT ![p] = "safe"]
    /\ UNCHANGED <<calm, office>>
HelperCheck(p) ==
    /\ helper[p] = "check"
    /\ IF Running(p) \/ Late(p)
       THEN helper' = [helper EXCEPT ![p] = "sweep"]
       ELSE helper' = [helper EXCEPT ![p] = "safe"]
    /\ UNCHANGED <<calm, office>>
HelperGivesUp(p) ==
    /\ helper[p] \in {"sweep", "check"} /\ helper' = [helper EXCEPT ![p] = "unsafe"]
    /\ UNCHANGED <<calm, office>>

\* aboutToQuit closes the server, then gives the lock up.
CloseServer(p) ==
    /\ At(p, "quit") /\ Goto(p, "unlock")
    /\ endpoint' = 0 /\ inbox' = [inbox EXCEPT ![p] = {}]
    /\ UNCHANGED <<lock, marker, gui, rest>>
Unlock(p) ==
    /\ At(p, "unlock") /\ Goto(p, "return") /\ lock' = 0
    /\ UNCHANGED <<endpoint, marker, inbox, gui, rest>>

\* exec() has returned: after a finished startup the marker is erased, within 1 s
\* or not at all.  The interpreter ends only if no lock was left held.
ExecReturns(p) ==
    /\ At(p, "return") /\ ~worker[p].torn
    /\ IF gui[p].started
       THEN Goto(p, "clearing") /\ UNCHANGED <<shared, gui, inbox, rest>>
       ELSE EndProcess(p) /\ UNCHANGED <<marker, bounds>>
EraseMarker(p) ==
    /\ At(p, "clearing") /\ EndProcess(p)
    /\ marker' \in {FALSE, marker} /\ UNCHANGED bounds

-----------------------------------------------------------------------------
Open(p) == TryLock(p) \/ Listen(p) \/ Told(p) \/ NotTold(p) \/ Clean(p)
Begin(p) == WriteMarker(p) \/ Build(p)
Wait(p) == \/ CancelWorker(p) \/ WorkerStopped(p) \/ MoreGrace(p) \/ GraceOver(p) \/ Swept(p)
           \/ Recheck(p) \/ LeaveJob(p) \/ CutThread(p) \/ Cut(p) \/ NotCut(p)
Decide(p) == \/ ForcedOut(p) \/ WaitQuery(p) \/ QueryJoined(p) \/ QueryNotJoined(p) \/ Quit(p)
             \/ CloseServer(p) \/ Unlock(p) \/ ExecReturns(p) \/ EraseMarker(p)
Gui(p) == Open(p) \/ Begin(p) \/ Wait(p) \/ Decide(p)
Collect(p) ==
    \/ \E job \in BOOLEAN : StartCycle(p, job)
    \/ OpenOffice(p) \/ OfficeOpened(p) \/ CallReturns(p) \/ Protect(p) \/ Unprotect(p)
    \/ WorkerEnds(p)
Help(p) == HelperSweep(p) \/ HelperCheck(p) \/ HelperGivesUp(p)
Raises(p) == InitFails(p) \/ QtRaises(p) \/ SweepRaises(p) \/ StatusRaises(p) \/ Crash(p)
Use(p) == Start(p) \/ HideToTray(p) \/ QueryEnds(p) \/ BeginShutdown(p)

Next == \E p \in Procs :
    Gui(p) \/ ReadShow(p) \/ FinishStartup(p) \/ Collect(p) \/ Help(p) \/ Use(p) \/ Raises(p)

Spec == Init /\ [][Next]_vars

\* The GUI thread goes on, and its loop reads what arrives.  Nothing is asked of
\* the collector's thread, of the helper, of the query or of the user.
FairSpec == Spec /\ \A p \in Procs :
    WF_vars(Gui(p)) /\ WF_vars(ReadShow(p)) /\ WF_vars(FinishStartup(p))

-----------------------------------------------------------------------------
\* Between taking its place and giving it up, the primary holds the lock and is
\* the one that listens: no second start, however its connection fails, and no
\* process that leaves, takes the endpoint from it.
PrimaryReachable ==
    \A p \in Procs : pc[p] \in Primary \cup Exiting => lock = p /\ endpoint = p

\* A process that quits, so that its marker may go, leaves nothing behind: no
\* running or cut thread, no query, no sweep under way, the Office gate closed,
\* and no Office process of its own that no sweep has tried, even one that was
\* being created when the sweep looked.
QuitIsClean ==
    \A p \in Procs : pc[p] \in Closing /\ gui[p].started =>
        /\ ~Running(p) /\ ~worker[p].torn /\ ~query[p]
        /\ helper[p] = "safe" /\ leave[p].gate /\ ~Late(p)

\* Only a cycle's thread is ever cut, never a job that rewrites the index; Office
\* was swept first, and the only way on is a hard exit, which keeps the marker.
CutShort ==
    \A p \in Procs : worker[p].torn =>
        /\ ~worker[p].job /\ helper[p] # "none"
        /\ pc[p] \in {"killed", "decide", "gone"} /\ (At(p, "decide") => leave[p].bad)

\* Whatever hangs (the collector in Office, the helper, a query), an exit that
\* began ends the process.
ExitEnds ==
    \A p \in Procs : (pc[p] \in Exiting \cup Closing) ~> At(p, "gone")

\* A second start that reached the server brings the primary's window up, also
\* when it came before the window or while it was in the tray, unless the
\* primary leaves.
SecondStartShows ==
    \A p \in Procs : (inbox[p] # {}) ~> (gui[p].window = "shown" \/ pc[p] \notin Primary)
=============================================================================
