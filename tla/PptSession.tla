----------------------------- MODULE PptSession -----------------------------
(***************************************************************************)
(* PowerPoint is read through COM, shared with the user and never            *)
(* terminated.  The collector either starts one itself, which gives it a     *)
(* ticket, or connects to what COM hands out; a ticket alone is the right    *)
(* to ask that PowerPoint to quit, once, at the end of a cycle.  Until the    *)
(* outcome of a start or of a quit is known, no new COM work is admitted.     *)
(* The worker that does this is the one PptPreparation lets start.            *)
(*                                                                          *)
(* A host (a process of PowerPoint) is numbered by its start, so its number   *)
(* is pid and creation identity in one; what the use of a pid again changes   *)
(* is in OfficeGuard.  The build is the one with the automatic quit enabled.  *)
(* Sources: knowmate/secure/ppt_shutdown.py, com_reader.py, office_guard.py,  *)
(* ppt_launch.py, ppt_caller_quit.py, ppt_process_observation.py,             *)
(* office_exit.py.                                                            *)
(***************************************************************************)
EXTENDS PptPreparation, Sequences, FiniteSets

CONSTANTS
    MaxHosts,    \* bound: PowerPoint processes started
    MaxFaults    \* bound: listings, observations and calls that fail

ASSUME SessionAssumption == MaxHosts \in Nat \ {0} /\ MaxFaults \in Nat

VARIABLES
    hosts,      \* every PowerPoint started so far
    reg,        \* the registries of ppt_shutdown and, for PowerPoint, of office_guard
    pc, w,      \* the worker and its local variables
    tls,        \* _tls.ppt, and whether _tls.ppt_launch_ticket came with it
    poisoned,   \* poisoned_exes has PowerPoint
    helper,     \* the thread office-app-exit
    faults

vars == <<preparing, hosts, reg, pc, w, tls, poisoned, helper, faults>>
env  == <<mode, declined, setup, prep, policy, start, trips>>

Hosts    == 1..MaxHosts
NoTicket == [state |-> "none", host |-> 0]
NoWork   == [app |-> 0, base |-> {}]
NoApp    == [app |-> 0, ticket |-> FALSE]
closing  == prep.closed       \* begin_application_shutdown, in the same handler

Init ==
    /\ PrepInit /\ hosts = <<>> /\ pc = "idle" /\ w = NoWork /\ tls = NoApp
    /\ reg = [ticket |-> NoTicket, watch |-> [h \in Hosts |-> "none"], yielded |-> {},
              owned |-> [h \in Hosts |-> "none"], unverified |-> FALSE]
    /\ poisoned = FALSE /\ helper = "none" /\ faults = 0

Starting == {"launch", "create", "bind", "bound", "prove", "commit"}

TypeOK ==
    /\ PrepTypeOK
    /\ hosts \in Seq([by : {"launch", "com", "user"}, docs : BOOLEAN, asked : Nat,
                      state : {"up", "leaving", "kept", "gone"}]) /\ Len(hosts) <= MaxHosts
    /\ reg.ticket \in [state : {"none", "launching", "ready", "pending"}, host : 0..MaxHosts]
    /\ reg.watch \in [Hosts -> {"none", "open", "failed"}] /\ reg.yielded \subseteq Hosts
    /\ reg.owned \in [Hosts -> {"none", "held", "pending"}]
    /\ pc \in Starting \cup {"idle", "file", "guard", "dispatch", "activate", "own", "configure",
                             "open", "quit", "ask", "asking", "poll", "observe"}
    /\ w.app \in 0..MaxHosts /\ w.base \subseteq Hosts /\ tls.app \in 0..MaxHosts
    /\ {reg.unverified, tls.ticket, poisoned} \subseteq BOOLEAN
    /\ helper \in {"none", "running", "over"} /\ faults \in 0..MaxFaults

-----------------------------------------------------------------------------
(* The system: the user opens and closes PowerPoint and documents at will.   *)

Live    == {h \in DOMAIN hosts : hosts[h].state # "gone"}
Pays(n) == faults + n <= MaxFaults /\ faults' = faults + n

Opened(by) == Append(hosts, [by |-> by, docs |-> by = "user", asked |-> 0, state |-> "up"])
Room       == Len(hosts) < MaxHosts

UserOpens == Room /\ hosts' = Opened("user")
\* a document in a PowerPoint that is up; if it is closing, the user may keep it
UserOpensIn(h) == ~hosts[h].docs /\ hosts' = [hosts EXCEPT ![h].docs = TRUE]
UserCloses(h)  == hosts[h].docs /\ hosts' = [hosts EXCEPT ![h].docs = FALSE]
CloseCancelled(h) == /\ hosts[h].state = "leaving" /\ hosts[h].docs
                     /\ hosts' = [hosts EXCEPT ![h].state = "kept"]
\* it leaves, hands over to another one, is closed or dies
HostEnds(h) == hosts' = [hosts EXCEPT ![h].state = "gone", ![h].docs = FALSE]

System ==
    /\ \/ UserOpens
       \/ \E h \in Live : UserOpensIn(h) \/ UserCloses(h) \/ CloseCancelled(h) \/ HostEnds(h)
    /\ UNCHANGED <<preparing, reg, pc, w, tls, poisoned, helper, faults>>

-----------------------------------------------------------------------------
(* The registries.  An outcome is the registry after an observation and the   *)
(* number of faults it took.                                                  *)

Outcome(r, n) == [reg |-> r, cost |-> n]

\* prune_released_nonterminable_processes
Pruned(r) == [r EXCEPT !.owned = [h \in Hosts |-> IF h \in Live THEN @[h] ELSE "none"]]

\* _finish_observation, of each of the hosts
Finished(r, ended) ==
    [r EXCEPT !.ticket  = IF @.host \in ended THEN NoTicket ELSE @,
              !.watch   = [h \in Hosts |-> IF h \in ended THEN "none" ELSE @[h]],
              !.yielded = @ \ ended,
              !.owned   = [h \in Hosts |-> IF h \in ended \ r.yielded THEN "none" ELSE @[h]]]

\* mutant of TicketGone: only a known process can be seen to be gone
TicketGoneKnown(t) == t.host # 0 /\ t.host \notin Live
\* without a pid, only the absence of every PowerPoint tells
TicketGone(t) == IF t.host = 0 THEN Live = {} ELSE t.host \notin Live

\* the last part of observe_pending, on a fresh listing
Relisted(r, n) ==
    LET dropped == [r EXCEPT !.ticket = NoTicket,
                             !.watch = [h \in Hosts |-> IF h = r.ticket.host THEN "none" ELSE @[h]]]
    IN {Outcome(r, n + 1)} \cup
       (IF TicketGone(r.ticket) THEN {Outcome(Pruned(dropped), n), Outcome(dropped, n + 1)}
                                ELSE {Outcome(r, n)})

\* observe_pending
Observed(r) ==
    LET h == r.ticket.host IN
    IF r.ticket.state # "pending" THEN {Outcome(r, 0)}
    ELSE IF h = 0 \/ r.watch[h] # "open" THEN Relisted(r, 0)
    ELSE {Outcome(IF h \in Live THEN r ELSE Finished(r, {h}), 0)}
         \cup Relisted([r EXCEPT !.watch[h] = "failed"], 1)

\* observe_exit: every retained handle is polled, then the ticket; at most one fails.
\* The prune follows in quit_com_apps.
ExitObserved(r) ==
    LET open  == {h \in Hosts : r.watch[h] = "open"}
        seen  == Finished(r, open \ Live)
        lost(h) == [Finished(r, (open \ Live) \ {h}) EXCEPT !.watch[h] = "failed"]
    IN Observed(seen) \cup
       UNION {{Outcome(o.reg, o.cost + 1) : o \in Observed(lost(h))} : h \in open}

\* _gate_reason_unlocked, for the worker; its own launching ticket does not count
GateClosed(r) == \/ closing \/ r.ticket.state = "pending" \/ r.unverified
                 \/ \E h \in Hosts : r.owned[h] = "pending"

External(r) == {h \in Live : r.owned[h] # "held"}

\* abandon
Abandoned(r) == IF tls.ticket /\ r.ticket = [state |-> "ready", host |-> tls.app]
                THEN [r EXCEPT !.ticket.state = "pending"] ELSE r

\* the host is left to the user: _remove_owned_if_matches, _yield_observation
Yielded(r, h) == [r EXCEPT !.ticket = NoTicket, !.owned[h] = "none",
                           !.yielded = IF r.watch[h] = "none" THEN @ ELSE @ \cup {h}]

-----------------------------------------------------------------------------
(* One file: admission, then an application, then the read.                   *)

Stays == UNCHANGED <<preparing, hosts, helper>>
Go(p) == pc' = p /\ UNCHANGED <<w, tls, poisoned>>
\* the file fails or is put off
Back  == pc' = "idle" /\ w' = NoWork /\ UNCHANGED <<tls, poisoned>>
\* a failed call; some errors end PowerPoint for this cycle
BackPoisoned == pc' = "idle" /\ w' = NoWork /\ poisoned' \in {poisoned, TRUE}
Keep  == UNCHANGED <<reg, faults>>

Take == /\ worker = "running" /\ pc = "idle" /\ ~poisoned
        /\ Go("file") /\ Keep /\ Stays

\* the tokens and the pending records of ensure_office_available; a retry is
\* made unless the last one is less than the cooldown ago
Retried(r, retry) ==
    [r EXCEPT !.unverified = @ /\ Live # {},
              !.owned = IF (r.unverified /\ Live # {}) \/ ~retry THEN @
                        ELSE [h \in Hosts |-> IF @[h] = "pending" /\ h \notin Live THEN "none" ELSE @[h]]]

Settled(o) ==
    IF o.reg.ticket.state = "pending" THEN {o}
    ELSE {Outcome(Retried(o.reg, b), o.cost) : b \in BOOLEAN}
         \cup (IF o.reg.unverified THEN {Outcome(o.reg, o.cost + 1)} ELSE {})      \* no listing
Ensured == IF closing THEN {Outcome(reg, 0)} ELSE UNION {Settled(o) : o \in Observed(reg)}

\* ensure_office_available, then the look for the user's PowerPoint, for which
\* a listing may be up to two seconds old
Enter ==
    /\ pc = "file"
    /\ \E o \in Ensured :
          /\ reg' = o.reg /\ Pays(o.cost)
          /\ \/ ~GateClosed(o.reg) /\ Go("guard")
             \/ (GateClosed(o.reg) \/ External(o.reg) # {}) /\ Back
    /\ Stays

\* PowerPointComReader.parse up to _get_ppt_app, the machine guard included: it
\* may be busy.  A direct start needs policy "ready" and an installation that
\* is found in order again.
Admit ==
    /\ pc = "guard"
    /\ \/ Back /\ Keep
       \/ /\ policy # "ppt_pending" /\ ~closing
          /\ \E o \in Observed(reg) :
                /\ Pays(o.cost)
                /\ \/ o.reg.ticket.state = "pending" /\ reg' = o.reg /\ Back
                   \/ /\ o.reg.ticket.state # "pending" /\ tls.app = 0 /\ reg' = o.reg
                      /\ \/ policy = "ready" /\ Go("launch")
                         \/ Go("dispatch")
                   \/ /\ o.reg.ticket.state # "pending" /\ tls.app # 0
                      /\ IF ~GateClosed(o.reg) /\ o.reg.owned[tls.app] = "held"
                         THEN reg' = o.reg /\ Go("open")
                         ELSE /\ reg' = Abandoned(o.reg) /\ tls' = NoApp
                              /\ pc' = "idle" /\ UNCHANGED <<w, poisoned>>
    /\ Stays

-----------------------------------------------------------------------------
(* launch_and_bind.                                                           *)

\* prepare_powerpoint_dispatch
Prepared == ~GateClosed(reg) /\ External(reg) = {}

\* mutant of Vacant: a PowerPoint of ours that is still there does not matter
VacantForUs == TRUE
Vacant == Live = {}

Launch ==
    /\ pc = "launch"
    /\ \/ Back /\ Keep                                          \* refused, or no listing
       \/ Go("dispatch") /\ Keep                                \* untrusted path, or a host of ours
       \/ /\ Prepared /\ Vacant /\ Go("create") /\ UNCHANGED faults
          /\ reg' = [reg EXCEPT !.ticket.state = "launching"]
    /\ Stays

TicketPending == reg' = [reg EXCEPT !.ticket.state = "pending"]

\* mutant of Create: the process is looked for among those that are running
CreateByListing ==
    /\ pc = "create" /\ UNCHANGED <<preparing, helper>>
    /\ \/ closing /\ TicketPending /\ Back /\ UNCHANGED <<hosts, faults>>
       \/ /\ ~closing /\ Room /\ hosts' = Opened("launch") /\ Go("bind") /\ Pays(0)
          /\ \E h \in Live \cup {Len(hosts) + 1} : reg' = [reg EXCEPT !.ticket.host = h]

\* CreateProcess: not started; started; started, but its identity cannot be read
Create ==
    /\ pc = "create" /\ UNCHANGED <<preparing, helper>>
    /\ \/ closing /\ TicketPending /\ Back /\ UNCHANGED <<hosts, faults>>
       \/ ~closing /\ reg' = [reg EXCEPT !.ticket = NoTicket] /\ Go("dispatch") /\ UNCHANGED <<hosts, faults>>
       \/ /\ ~closing /\ Room /\ hosts' = Opened("launch")
          /\ \/ Go("bind") /\ Pays(0)
                /\ reg' = [reg EXCEPT !.ticket.host = Len(hosts) + 1]
             \/ Back /\ Pays(1)
                /\ \E h \in {0, Len(hosts) + 1} :
                      reg' = [reg EXCEPT !.ticket = [state |-> "pending", host |-> h]]

\* check_target; a launching ticket is the worker's alone
Target == ~closing /\ Live = {reg.ticket.host}

LaunchFails == /\ pc \in {"bind", "bound", "prove", "commit"} /\ TicketPending
               /\ Back /\ UNCHANGED faults /\ Stays

\* wait_for_active_app: the check, the lookup, the check again; alerts
Bind    == /\ pc = "bind" /\ Target
           /\ \E h \in Live : w' = [w EXCEPT !.app = h] /\ pc' = "bound"
           /\ UNCHANGED <<tls, poisoned>> /\ Keep /\ Stays
Confirm == pc = "bound" /\ Target /\ w.app \in Live /\ Go("prove") /\ Keep /\ Stays

\* exact_hwnd and _register_owned_window
Prove  == /\ pc = "prove" /\ Live = {w.app} /\ w.app = reg.ticket.host /\ ~GateClosed(reg)
          /\ reg' = [reg EXCEPT !.owned[w.app] = "held"]
          /\ Go("commit") /\ UNCHANGED faults /\ Stays
Commit == /\ pc = "commit" /\ ~closing
          /\ reg' = [reg EXCEPT !.ticket.state = "ready", !.watch[w.app] = "open"]
          /\ tls' = [app |-> w.app, ticket |-> TRUE] /\ w' = NoWork /\ pc' = "configure"
          /\ UNCHANGED <<poisoned, faults>> /\ Stays

-----------------------------------------------------------------------------
(* _dispatch_owned_app: PowerPoint runs once, so COM hands out what is there.  *)

Dispatch ==
    /\ pc = "dispatch"
    /\ \E o \in Ensured :
          /\ reg' = o.reg /\ Pays(o.cost)
          /\ \/ /\ ~GateClosed(o.reg) /\ External(o.reg) = {}
                /\ w' = [app |-> 0, base |-> Live] /\ pc' = "activate" /\ UNCHANGED <<tls, poisoned>>
             \/ Back
    /\ Stays

\* _retain_unverified_app, then the error
Retain == reg' = [reg EXCEPT !.unverified = TRUE] /\ BackPoisoned /\ UNCHANGED tls

Activate ==
    /\ pc = "activate" /\ UNCHANGED <<preparing, helper>>
    /\ \/ /\ BackPoisoned /\ UNCHANGED <<tls, reg, faults>>       \* it raised, perhaps after a start
          /\ \/ UNCHANGED hosts
             \/ ~closing /\ Live = {} /\ Room /\ hosts' = Opened("com")
       \/ /\ ~closing /\ UNCHANGED hosts
          /\ \E h \in Live :
             \/ w' = [w EXCEPT !.app = h] /\ pc' = "own" /\ UNCHANGED <<tls, poisoned>> /\ Keep
             \/ Retain /\ Pays(1)
       \/ /\ ~closing /\ Live = {} /\ Room /\ hosts' = Opened("com")
          /\ \/ w' = [w EXCEPT !.app = Len(hosts) + 1] /\ pc' = "own" /\ UNCHANGED <<tls, poisoned>> /\ Keep
             \/ Retain /\ Pays(1)

\* a process that was there before must be one we hold; a new one is taken for ours
Ownable(h) == h \in Live /\ (h \in w.base => reg.owned[h] = "held")

\* _register_owned_app_record; closing the document used for it may fail
Own ==
    /\ pc = "own" /\ Stays
    /\ \/ /\ Ownable(w.app) /\ ~GateClosed(reg)
          /\ \/ /\ reg' = [reg EXCEPT !.owned[w.app] = "held"]
                /\ tls' = [app |-> w.app, ticket |-> FALSE] /\ w' = NoWork /\ pc' = "configure"
                /\ Pays(0) /\ UNCHANGED poisoned
             \/ reg' = [reg EXCEPT !.owned[w.app] = "pending"] /\ BackPoisoned /\ Pays(1) /\ UNCHANGED tls
       \/ Ownable(w.app) /\ ~GateClosed(reg) /\ Retain /\ Pays(1)
       \/ ~(Ownable(w.app) /\ ~GateClosed(reg)) /\ Retain /\ Pays(0)

ReleasePoisoned == reg' = Abandoned(reg) /\ tls' = NoApp /\ BackPoisoned

Configure ==
    /\ pc = "configure" /\ Stays
    /\ \/ tls.app \in Live /\ ~closing /\ Go("open") /\ Keep
       \/ tls.app \in Live /\ ~closing /\ ReleasePoisoned /\ Pays(1)
       \/ (tls.app \notin Live \/ closing) /\ ReleasePoisoned /\ Pays(0)

\* Open, the slides, Close: read or an error of the file, or the connection is lost
Read ==
    /\ pc = "open" /\ Stays
    /\ \/ tls.app \in Live /\ Back /\ Keep
       \/ tls.app \in Live /\ ReleasePoisoned /\ Pays(1)
       \/ tls.app \notin Live /\ ReleasePoisoned /\ Pays(0)

-----------------------------------------------------------------------------
(* The end of a cycle: quit_com_apps, request_quit, observe_exit.             *)

\* prune_unverified_cleanup
EndCycle ==
    /\ worker = "running" /\ pc = "idle"
    /\ \/ reg' = [reg EXCEPT !.unverified = @ /\ Live # {}] /\ Pays(0)
       \/ reg.unverified /\ UNCHANGED reg /\ Pays(1)
    /\ Go(IF tls.app = 0 THEN "observe" ELSE "quit") /\ Stays

Released == tls' = NoApp /\ pc' = "observe" /\ UNCHANGED <<w, poisoned>>

ExactOrigin == tls.ticket /\ reg.ticket = [state |-> "ready", host |-> tls.app]

Quit ==
    /\ pc = "quit" /\ UNCHANGED faults /\ Stays
    /\ \/ ~ExactOrigin /\ Released /\ UNCHANGED reg
       \* unknown identity, another gate, the machine guard, a lost connection
       \/ ExactOrigin /\ Released /\ reg' = Abandoned(reg)
       \/ /\ ExactOrigin /\ tls.app \in Live /\ reg.owned[tls.app] = "held" /\ ~reg.unverified
          /\ \/ Released /\ reg' = Yielded(reg, tls.app)         \* no compatible service
             \/ /\ reg' = [reg EXCEPT !.ticket.state = "pending", !.owned[tls.app] = "pending"]
                /\ Go("ask")

\* check_quit_target
QuitTarget == /\ reg.ticket = [state |-> "pending", host |-> tls.app] /\ Live = {tls.app}
              /\ reg.watch[tls.app] = "open" /\ reg.owned[tls.app] = "pending"

Ask == /\ pc = "ask" /\ Keep /\ Stays
       /\ \/ QuitTarget /\ Go("asking")
          \/ Released                      \* it does not hold, or cannot be found out

\* TryQuitIfIdle in the host's own thread; QueryQuitOutcome after it
Asking ==
    /\ pc = "asking" /\ UNCHANGED <<preparing, helper, faults>>
    /\ \/ /\ tls.app \in Live
          /\ \/ /\ ~hosts[tls.app].docs /\ Go("poll") /\ UNCHANGED reg
                /\ hosts' = [hosts EXCEPT ![tls.app].state = "leaving", ![tls.app].asked = @ + 1]
             \/ /\ Released /\ reg' = Yielded(reg, tls.app)      \* protected, not supported, failed
                /\ hosts' = [hosts EXCEPT ![tls.app].asked = @ + 1]
       \/ Released /\ UNCHANGED <<reg, hosts>>

Poll ==
    /\ pc = "poll" /\ UNCHANGED faults /\ Stays
    /\ \/ Released /\ UNCHANGED reg
       \/ /\ QuitTarget /\ hosts[tls.app].state = "kept"
          /\ Released /\ reg' = Yielded(reg, tls.app)

\* observe_exit, the prune and pending_cleanup_result; the worker's run is over
ObserveExit ==
    /\ pc = "observe"
    /\ \E o \in ExitObserved(reg) :
          \/ reg' = Pruned(o.reg) /\ Pays(o.cost)
          \/ reg' = o.reg /\ Pays(o.cost + 1)
    /\ pc' = "idle" /\ poisoned' = FALSE /\ worker' = "idle"
    /\ UNCHANGED <<env, hosts, w, tls, helper>>

-----------------------------------------------------------------------------
(* Application exit: cleanup_before_worker_termination on its own thread.      *)

Help ==
    /\ closing
    /\ \/ helper = "none" /\ helper' = "running" /\ Keep
       \/ /\ helper = "running" /\ UNCHANGED helper
          /\ \E o \in ExitObserved(reg) : reg' = o.reg /\ Pays(o.cost)
       \/ /\ helper = "running" /\ helper' = "over" /\ UNCHANGED faults
          /\ reg' = [reg EXCEPT !.watch = [h \in Hosts |-> "none"], !.yielded = {}]   \* close_observations
    /\ UNCHANGED <<preparing, hosts, pc, w, tls, poisoned>>

Prepare == PrepNext /\ UNCHANGED <<hosts, reg, pc, w, tls, poisoned, helper, faults>>

Local  == Enter \/ Admit \/ Launch \/ Create \/ Dispatch \/ Activate \/ Ask \/ ObserveExit
Remote == \/ Bind \/ Confirm \/ Prove \/ Commit \/ LaunchFails \/ Own \/ Configure \/ Read
          \/ Quit \/ Asking \/ Poll

Next == Take \/ Local \/ Remote \/ EndCycle \/ Help \/ System \/ Prepare

Spec == Init /\ [][Next]_vars

\* A call into a PowerPoint that is gone fails; one into a PowerPoint that is up
\* need not return.  The waits for it to start and to be found are bounded.  A cycle's files are finite, and the idle scheduler asks for
\* a cycle again and again.
Fairness ==
    /\ PrepFairness /\ WF_vars(Local)
    /\ WF_vars(Remote /\ w.app \notin Live /\ tls.app \notin Live)
    /\ SF_vars(EndCycle) /\ SF_vars(Prepare /\ worker # "running" /\ worker' = "running")

FairSpec == Spec /\ Fairness

-----------------------------------------------------------------------------
(* Properties.                                                                *)

\* A PowerPoint is asked to quit at most once, and only if this program started
\* it: one it merely reads through may be the user's, even when it is registered
\* as ours (request_quit, _exact_origin).
OneQuitEach == \A h \in DOMAIN hosts : /\ hosts[h].asked <= 1
                                       /\ hosts[h].asked > 0 => hosts[h].by = "launch"

\* At most one PowerPoint that this program brought up is running, whatever
\* became of earlier starts and quits (the ticket and the admission gate).
OneHost == Cardinality({h \in Live : hosts[h].by # "user"}) <= 1

\* No PowerPoint is brought up while the installation helper may be at work:
\* a helper that outlives its observation leaves the policy at "ppt_pending".
SetupUndisturbed ==
    [][Len(hosts') > Len(hosts) /\ hosts'[Len(hosts')].by # "user" => setup # "running"]_vars

\* Once no PowerPoint is running, the gate opens for the next file, unless
\* PowerPoint comes up again or the program exits: no outcome stays unresolved.
GateReopens == (Live = {}) ~> (~GateClosed(reg) \/ Live # {} \/ closing)
=============================================================================
