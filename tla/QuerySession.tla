---------------------------- MODULE QuerySession ----------------------------
(***************************************************************************)
(* One question at a time.  The GUI thread owns a controller that starts a  *)
(* worker thread per question, waits for its queued signals, cancels it on  *)
(* request, on timeout or at exit, and admits the next question only when   *)
(* the thread has really ended.  The worker opens the index, asks the       *)
(* embedding server over HTTP, searches two tables and asks the language    *)
(* model; cancelling it sets two events and cuts the socket it waits on.    *)
(*                                                                          *)
(* A document stands for its rows; the collector writes while a question is *)
(* answered, so a search may find any of them.  The exclusions in force     *)
(* change by a policy job only.  Of a response it is kept whose worker gave *)
(* it; its status is wording.                                               *)
(* Sources: knowmate/app/query_controller.py, app/query_worker.py,          *)
(* rag/embedding_cancel.py, rag/embedding.py, rag/retriever.py,             *)
(* agents/knowledge_agent.py, app/bridge.py.                                *)
(***************************************************************************)
EXTENDS Naturals, Sequences, FiniteSets

CONSTANTS
    Documents, Mails,  \* what the tables chunks and emails may hold
    Questions,         \* bound: questions the user asks, numbered from 1
    Attempts,          \* range(2) of _call_api_request
    MaxCancels         \* bound: cancelQuery calls

ASSUME ConstantsAssumption == Questions \in Nat \ {0} /\ Attempts \in Nat \ {0} /\ MaxCancels \in Nat

VARIABLES
    ctl,       \* the controller's fields; req is the worker's question, 0 for None
    gui,       \* the GUI thread inside a call that is not atomic for the worker
    events,    \* signals queued to the GUI thread
    asked,     \* the last question the user sent
    said,      \* terminal responses and rejections emitted, per question
    cancels,   \* cancelQuery calls so far
    exit,      \* the application's exit: not begun, or what wait_for_shutdown returned
    excl,      \* collector.exclude_files in force
    policy,    \* a policy job owns the storage (policy.blocked)
    thread,    \* what the worker of each question is doing
    flags,     \* its cancellation: the query's event, the embedding's event
    net,       \* its embedding request: attempt, bound socket, sockets cut
    result,    \* the sources it will report
    snap       \* its copy of the request and of the settings

env    == <<excl, policy>>
worker == <<thread, net, result, snap>>
vars   == <<ctl, gui, events, asked, said, cancels, exit, env, flags, worker>>

Qs      == 1..Questions
Docs    == Documents \cup Mails
Scopes  == {"documents", "mail"}
NoCtl   == [req |-> 0, terminal |-> FALSE, finished |-> FALSE, retired |-> FALSE,
            closing |-> FALSE, timer |-> FALSE, join |-> FALSE]
AtLoop  == [at |-> "loop", of |-> 0, socket |-> 0]
NoNet   == [try |-> 0, bound |-> 0, cut |-> {}]
NoSnap  == [scopes |-> {}, excl |-> {}]
Unset   == [query |-> FALSE, embed |-> FALSE]

Stages  == {"none", "start", "open", "embed", "try", "connect", "bind", "bound", "respond",
            "read", "got", "lost", "failed", "documents", "keywords", "mail", "llm",
            "final", "close", "emit", "ending", "native", "gone"}
Waiting == {"respond", "read"}
Alive(q) == thread[q] \notin {"none", "gone"}

TypeOK ==
    /\ ctl \in [req : 0..Questions, terminal : BOOLEAN, finished : BOOLEAN, retired : BOOLEAN,
                closing : BOOLEAN, timer : BOOLEAN, join : BOOLEAN]
    /\ gui \in [at : {"loop", "flag", "signal", "look", "cut", "wait"}, of : 0..Questions,
                socket : 0..Attempts]
    /\ \A i \in DOMAIN events : events[i] \in
           [kind : {"result", "finished"}, of : Qs, docs : SUBSET Docs]
    /\ asked \in 0..Questions /\ cancels \in 0..MaxCancels
    /\ exit \in {"open", "joined", "unsafe"} /\ excl \subseteq Docs /\ policy \in BOOLEAN
    /\ thread \in [Qs -> Stages]
    /\ flags \in [Qs -> [query : BOOLEAN, embed : BOOLEAN]]
    /\ net \in [Qs -> [try : 0..Attempts, bound : 0..Attempts, cut : SUBSET (1..Attempts)]]
    /\ snap \in [Qs -> [scopes : SUBSET Scopes, excl : SUBSET Docs]]
    /\ result \in [Qs -> SUBSET Docs]
    /\ said \in [Qs -> Seq(0..Questions)]

-----------------------------------------------------------------------------
(* The controller, on the GUI thread.                                       *)

Looping == gui.at = "loop"
Busy    == ctl.req # 0

\* What the window is told about question q: the result of the worker of question
\* "by", or a text of the controller (0).
Tell(q, by) == said' = [said EXCEPT ![q] = Append(@, by)]

\* _emit_terminal: once per question, and never after the exit has begun.
MuteAtExit == ctl.closing   \* mutant of Mute: a second terminal response is not held back
Mute == ctl.terminal \/ ctl.closing
EmitTerminal(by) == IF Mute THEN UNCHANGED said ELSE Tell(ctl.req, by)
Told(c) == IF Mute THEN c ELSE [c EXCEPT !.terminal = TRUE, !.timer = FALSE]

\* _release_joined.
Release(c) == [c EXCEPT !.req = 0, !.retired = FALSE, !.timer = FALSE, !.join = FALSE]

\* sendQuery and submit: the settings and the request are copied for the worker.
Accepts == ~policy /\ ~Busy /\ ~ctl.closing
Send(q, scopes) ==
    /\ Looping /\ q = asked + 1 /\ asked' = q
    /\ IF Accepts
       THEN /\ ctl' = [ctl EXCEPT !.req = q, !.terminal = FALSE, !.finished = FALSE,
                                  !.retired = FALSE, !.timer = TRUE]
            /\ thread' = [thread EXCEPT ![q] = "start"]
            /\ snap' = [snap EXCEPT ![q] = [scopes |-> scopes, excl |-> excl]]
            /\ UNCHANGED said
       ELSE /\ Tell(q, 0)
            /\ UNCHANGED <<ctl, thread, snap>>
    /\ UNCHANGED <<gui, events, cancels, exit, env, flags, net, result>>

\* The worker cannot be made or started: one error, and the lease is given back.
SendFails(q) ==
    /\ Looping /\ q = asked + 1 /\ asked' = q /\ Accepts
    /\ Tell(q, 0)
    /\ \E made \in BOOLEAN :
           ctl' = [Release(ctl) EXCEPT !.terminal = TRUE, !.finished = made]
    /\ UNCHANGED <<gui, events, cancels, exit, env, flags, worker>>

\* worker.cancel, in steps the worker may run between: the query's event, the
\* embedding's event, the bound socket read under the lock, and its cut.
StartCancel == gui' = [AtLoop EXCEPT !.at = "flag", !.of = ctl.req]
CancelFlag ==
    /\ gui.at = "flag" /\ gui' = [gui EXCEPT !.at = "signal"]
    /\ flags' = [flags EXCEPT ![gui.of].query = TRUE]
    /\ UNCHANGED <<ctl, events, asked, said, cancels, exit, env, worker>>
CancelSignal ==
    /\ gui.at = "signal" /\ gui' = [gui EXCEPT !.at = "look"]
    /\ flags' = [flags EXCEPT ![gui.of].embed = TRUE]
    /\ UNCHANGED <<ctl, events, asked, said, cancels, exit, env, worker>>
CancelLook ==
    /\ gui.at = "look" /\ gui' = [gui EXCEPT !.at = "cut", !.socket = net[gui.of].bound]
    /\ UNCHANGED <<ctl, events, asked, said, cancels, exit, env, flags, worker>>
CancelCut ==
    /\ gui.at = "cut" /\ gui' = AtLoop
    /\ net' = [net EXCEPT ![gui.of].cut = @ \cup ({gui.socket} \ {0})]
    /\ UNCHANGED <<ctl, events, asked, said, cancels, exit, env, flags, thread, result, snap>>

\* cancel: the question is answered at once, its worker keeps the lease.
Cancel ==
    /\ EmitTerminal(0)
    /\ ctl' = [Told(ctl) EXCEPT !.retired = TRUE, !.timer = FALSE]
    /\ StartCancel

\* cancelQuery from the window, possibly for a question that is over.
CancelQuery(q) ==
    /\ Looping /\ q <= asked /\ cancels < MaxCancels /\ cancels' = cancels + 1
    /\ IF ctl.req = q THEN Cancel ELSE UNCHANGED <<ctl, gui, said>>
    /\ UNCHANGED <<events, asked, exit, env, flags, worker>>

\* mutant of OnTimeout: the timed-out worker is retired but not cancelled
OnTimeoutOnlyTells ==
    /\ Looping /\ ctl.timer /\ ~ctl.closing /\ EmitTerminal(0)
    /\ ctl' = [Told(ctl) EXCEPT !.retired = TRUE, !.timer = FALSE]
    /\ UNCHANGED <<gui, events, asked, cancels, exit, env, flags, worker>>
OnTimeout ==
    /\ Looping /\ ctl.timer /\ ~ctl.closing /\ Cancel
    /\ UNCHANGED <<events, asked, cancels, exit, env, flags, worker>>

Taken == events' = Tail(events)
IsNext(kind) == Looping /\ events # <<>> /\ Head(events).kind = kind

OnResult ==
    /\ IsNext("result") /\ Taken
    /\ LET e == Head(events) IN
       IF e.of = ctl.req /\ ~ctl.retired
       THEN EmitTerminal(e.of) /\ ctl' = Told(ctl)
       ELSE UNCHANGED <<said, ctl>>
    /\ UNCHANGED <<gui, asked, cancels, exit, env, flags, worker>>

\* _poll_join: only the end of the native thread gives the lease back.
Joined(c) == IF c.finished /\ thread[c.req] = "gone" THEN Release(c) ELSE c
OnFinished ==
    /\ IsNext("finished") /\ Taken
    /\ IF Head(events).of = ctl.req
       THEN LET c == Joined([Told(ctl) EXCEPT !.finished = TRUE]) IN
            /\ EmitTerminal(0)
            /\ ctl' = [c EXCEPT !.join = c.req # 0 /\ ~c.closing]
       ELSE UNCHANGED <<said, ctl>>
    /\ UNCHANGED <<gui, asked, cancels, exit, env, flags, worker>>
PollJoin ==
    /\ Looping /\ ctl.join /\ thread[ctl.req] = "gone"
    /\ ctl' = Joined(ctl)
    /\ UNCHANGED <<gui, events, asked, said, cancels, exit, env, flags, worker>>

\* The application exits: begin_query_shutdown, and later wait_query_shutdown.
BeginShutdown ==
    /\ Looping /\ ~ctl.closing
    /\ ctl' = [ctl EXCEPT !.closing = TRUE, !.retired = TRUE, !.timer = FALSE, !.join = FALSE]
    /\ IF Busy THEN StartCancel ELSE UNCHANGED gui
    /\ UNCHANGED <<events, asked, said, cancels, exit, env, flags, worker>>
WaitForShutdown ==
    /\ Looping /\ ctl.closing /\ exit = "open"
    /\ \/ ~Busy /\ exit' = "joined" /\ UNCHANGED ctl
       \/ Busy /\ thread[ctl.req] = "gone" /\ exit' = "joined" /\ ctl' = Release(ctl)
       \/ Busy /\ Alive(ctl.req) /\ exit' = "unsafe" /\ UNCHANGED ctl
    /\ UNCHANGED <<gui, events, asked, said, cancels, env, flags, worker>>

\* The rest of the window: a policy job needs the storage for itself, and is
\* refused while a question is being worked on (_query_policy_busy).
MayChangePolicyUntilExit == ~ctl.closing   \* mutant of MayChangePolicy: not refused while a question runs
MayChangePolicy == ~Busy /\ ~ctl.closing
PolicyBegins ==
    /\ Looping /\ ~policy /\ MayChangePolicy /\ policy' = TRUE
    /\ UNCHANGED <<ctl, gui, events, asked, said, cancels, exit, excl, flags, worker>>
PolicyEnds(new) ==
    /\ policy /\ policy' = FALSE /\ excl' = new
    /\ UNCHANGED <<ctl, gui, events, asked, said, cancels, exit, flags, worker>>

-----------------------------------------------------------------------------
(* The worker thread of question q.                                         *)

gstate == <<ctl, gui, asked, said, cancels, exit, env, flags>>
local  == <<net, result, snap>>

Go(q, stage)   == thread' = [thread EXCEPT ![q] = stage]
Ends(q, docs, stage) == Go(q, stage) /\ result' = [result EXCEPT ![q] = docs]

\* QueryCancellation.check, and the embedding's own check.
Cancelled(q) == flags[q].query \/ flags[q].embed
Aborted(q)   == flags[q].embed

\* A stage that checks, works, and goes on, fails, or meets the cancellation.
Stage(q, here) == thread[q] = here /\ UNCHANGED <<gstate, events>>
Stops(q)  == Cancelled(q) /\ Ends(q, {}, "close") /\ UNCHANGED <<net, snap>>

Start(q) ==
    /\ Stage(q, "start")
    /\ \/ Stops(q)
       \/ ~Cancelled(q) /\ Go(q, "open") /\ UNCHANGED local
       \/ ~Cancelled(q) /\ Ends(q, {}, "emit") /\ UNCHANGED <<net, snap>>
\* An index that cannot be opened, or the agent without a search, answers text.
OpenIndex(q) ==
    /\ Stage(q, "open")
    /\ \/ Stops(q)
       \/ ~Cancelled(q) /\ (\E next \in {"embed", "failed"} : Go(q, next)) /\ UNCHANGED local
\* Whatever failed becomes a text, unless the question was cancelled.
Apologise(q) ==
    /\ Stage(q, "failed")
    /\ \/ Stops(q)
       \/ ~Cancelled(q) /\ Ends(q, {}, "final") /\ UNCHANGED <<net, snap>>

\* embed: request(), then up to Attempts connections; the fake mode has none.
Embed(q) ==
    /\ Stage(q, "embed")
    /\ \/ Stops(q)
       \/ ~Cancelled(q) /\ (\E next \in {"try", "documents"} : Go(q, next)) /\ UNCHANGED local
Unbound(q) == net' = [net EXCEPT ![q].bound = 0]
Aborts(q)  == Aborted(q) /\ Unbound(q) /\ Ends(q, {}, "close") /\ UNCHANGED snap
Try(q) ==
    /\ Stage(q, "try")
    /\ \/ Aborts(q)
       \/ /\ ~Aborted(q) /\ Go(q, "connect")
          /\ net' = [net EXCEPT ![q].try = @ + 1] /\ UNCHANGED <<result, snap>>
Connect(q) ==
    /\ Stage(q, "connect")
    /\ \E next \in {"bind", "lost"} : Go(q, next)
    /\ UNCHANGED local
\* bind_socket: the socket is published first, the event is read after.
BindSocket(q) ==
    /\ Stage(q, "bind") /\ Go(q, "bound")
    /\ net' = [net EXCEPT ![q].bound = net[q].try] /\ UNCHANGED <<result, snap>>
\* mutant of BoundCheck: bind_socket does not read the event again
BoundCheckMissing(q) == Stage(q, "bound") /\ Go(q, "respond") /\ UNCHANGED local
BoundCheck(q) ==
    /\ Stage(q, "bound")
    /\ \/ Aborts(q)
       \/ ~Aborted(q) /\ Go(q, "respond") /\ UNCHANGED local
IsCut(q) == net[q].try \in net[q].cut
\* The server answers, or not; a wait on a socket that was cut ends at once.
Answer(q) ==
    /\ Stage(q, "respond")
    /\ \/ Aborts(q)
       \/ ~Aborted(q) /\ Go(q, "read") /\ UNCHANGED local
Body(q) == Stage(q, "read") /\ Go(q, "got") /\ UNCHANGED local
Drops(q) ==
    /\ thread[q] \in Waiting /\ UNCHANGED <<gstate, events>>
    /\ Go(q, "lost") /\ UNCHANGED local
Got(q) ==
    /\ Stage(q, "got")
    /\ \/ Aborts(q)
       \/ /\ ~Aborted(q) /\ Unbound(q) /\ UNCHANGED <<result, snap>>
          /\ \E next \in {"documents", "failed"} : Go(q, next)

Lost(q) ==
    /\ Stage(q, "lost")
    /\ \/ Aborts(q)
       \/ ~Aborted(q) /\ net[q].try < Attempts /\ Go(q, "try") /\ UNCHANGED local
       \/ ~Aborted(q) /\ net[q].try = Attempts /\ Unbound(q) /\ Go(q, "failed")
          /\ UNCHANGED <<result, snap>>

\* _search_table: what is not excluded by the question's copy of the settings.
\* Failures of the keyword and of the mail search are only logged.
Finds(q, table, scope, next, onError) ==
    \/ Stops(q)
    \/ /\ ~Cancelled(q) /\ UNCHANGED <<net, snap>>
       /\ \E found \in SUBSET table :
              Ends(q, result[q] \cup
                       (IF scope \in snap[q].scopes THEN found \ snap[q].excl ELSE {}), next)
    \/ ~Cancelled(q) /\ Go(q, onError) /\ UNCHANGED local
SearchDocuments(q) ==
    Stage(q, "documents") /\ Finds(q, Documents, "documents", "keywords", "failed")
SearchKeywords(q) ==
    Stage(q, "keywords") /\ Finds(q, Documents, "documents", "mail", "mail")
SearchMail(q) == Stage(q, "mail") /\ Finds(q, Mails, "mail", "llm", "llm")
AskModel(q) ==
    /\ Stage(q, "llm")
    /\ \/ Stops(q)
       \/ ~Cancelled(q) /\ (\E next \in {"final", "failed"} : Go(q, next)) /\ UNCHANGED local
Finish(q) ==
    /\ Stage(q, "final")
    /\ \/ Stops(q)
       \/ ~Cancelled(q) /\ Go(q, "close") /\ UNCHANGED local
CloseRegistry(q) ==
    /\ Stage(q, "close")
    /\ \/ Go(q, "emit") /\ UNCHANGED local
       \/ Ends(q, {}, "emit") /\ UNCHANGED <<net, snap>>

\* The signals: the result, which may fail to be sent, and the thread's finished.
Post(kind, q, docs) == events' = Append(events, [kind |-> kind, of |-> q, docs |-> docs])
Emit(q) ==
    /\ thread[q] = "emit" /\ Go(q, "ending")
    /\ Post("result", q, result[q]) \/ UNCHANGED events
    /\ UNCHANGED <<gstate, local>>
EmitFinished(q) ==
    /\ thread[q] = "ending" /\ Go(q, "native")
    /\ Post("finished", q, {})
    /\ UNCHANGED <<gstate, local>>
ThreadEnds(q) ==
    /\ thread[q] = "native" /\ Go(q, "gone")
    /\ net' = [net EXCEPT ![q] = NoNet] /\ snap' = [snap EXCEPT ![q] = NoSnap]
    /\ result' = [result EXCEPT ![q] = {}]
    /\ UNCHANGED <<gstate, events>>
-----------------------------------------------------------------------------
Init ==
    /\ ctl = NoCtl /\ gui = AtLoop /\ events = <<>> /\ asked = 0
    /\ said = [q \in Qs |-> <<>>] /\ cancels = 0 /\ exit = "open"
    /\ excl = {} /\ policy = FALSE
    /\ thread = [q \in Qs |-> "none"] /\ flags = [q \in Qs |-> Unset]
    /\ net = [q \in Qs |-> NoNet] /\ snap = [q \in Qs |-> NoSnap]
    /\ result = [q \in Qs |-> {}]

CancelSteps == CancelFlag \/ CancelSignal \/ CancelLook \/ CancelCut
\* What the worker does without waiting for the embedding server, and the wait
\* on a socket that was cut.
Runs(q) ==
    \/ Start(q) \/ OpenIndex(q) \/ Apologise(q) \/ Embed(q) \/ Try(q) \/ Connect(q)
    \/ BindSocket(q) \/ BoundCheck(q) \/ Got(q) \/ Lost(q)
    \/ SearchDocuments(q) \/ SearchKeywords(q) \/ SearchMail(q) \/ AskModel(q)
    \/ Finish(q) \/ CloseRegistry(q) \/ Emit(q) \/ EmitFinished(q) \/ ThreadEnds(q)
    \/ IsCut(q) /\ Drops(q)
Served(q) == Answer(q) \/ Body(q) \/ Drops(q)

Next ==
    \/ \E q \in Qs : \/ \E scopes \in SUBSET Scopes \ {{}} : Send(q, scopes)
                     \/ SendFails(q) \/ CancelQuery(q) \/ Runs(q) \/ Served(q)
    \/ CancelSteps \/ OnTimeout \/ OnResult \/ OnFinished \/ PollJoin
    \/ BeginShutdown \/ WaitForShutdown
    \/ PolicyBegins \/ (\E new \in SUBSET Docs : PolicyEnds(new))

Spec == Init /\ [][Next]_vars
\* The GUI thread runs its loop, timers fire, and the worker runs; the index and
\* the language model return (their calls have timeouts of their own), the
\* embedding server need not.
FairSpec ==
    /\ Spec
    /\ WF_vars(CancelSteps) /\ WF_vars(OnTimeout) /\ WF_vars(OnResult) /\ WF_vars(OnFinished)
    /\ WF_vars(PollJoin) /\ \A q \in Qs : WF_vars(Runs(q))
-----------------------------------------------------------------------------
\* A question is answered at most once, whatever its result, its timeout, its
\* cancellations and the end of its thread race for, and never with what another
\* question's worker found (ISSUE_B_query_async.md: late results are dropped).
OneAnswerEach ==
    \A q \in Qs : /\ Len(said[q]) <= 1
                  /\ \A i \in DOMAIN said[q] : said[q][i] \in {0, q}

\* A worker that is not held by the controller has really ended: no second one
\* is started beside it, and no policy job beside it either; and an exit that
\* reports success leaves none behind.
SingleFlight ==
    /\ \A q \in Qs : Alive(q) => ctl.req = q
    /\ policy => \A q \in Qs : ~Alive(q)

\* No wake-up is lost between cancel and bind_socket: once cancel has returned,
\* the worker does not wait on a socket that nobody cut.
CancelReaches ==
    \A q \in Qs : Looping /\ Cancelled(q) /\ thread[q] \in Waiting => IsCut(q)

\* An answer shows no document that is excluded when the user gets it, although
\* its rows may still be in the tables and the worker uses a copy of the
\* settings (ISSUE_B_query_async.md: excluded documents are filtered even when
\* their deletion failed).
AnswersRespectPolicy ==
    [][\A q \in Qs : said'[q] = Append(said[q], q) => Head(events).docs \cap excl = {}]_vars

\* Every question that was accepted is answered and gives its lease back, though
\* the embedding server may never answer, unless the application exits.
QuestionEnds ==
    \A q \in Qs : ctl.req = q ~> ctl.closing \/ (ctl.req # q /\ said[q] # <<>>)
=============================================================================
