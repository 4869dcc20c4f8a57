------------------------- MODULE QuerySessionProofs -------------------------
(* One question at a time, for any number of questions, connections and      *)
(* cancellations: one worker, one answer, a cancel that reaches the socket,  *)
(* and no excluded document in an answer.                                    *)
EXTENDS QuerySession, TLAPS

-----------------------------------------------------------------------------
(* Type correctness.                                                         *)

\* The types of the records, as in TypeOK; the queue of signals is a sequence.
CtlType    == [req : 0..Questions, terminal : BOOLEAN, finished : BOOLEAN, retired : BOOLEAN,
               closing : BOOLEAN, timer : BOOLEAN, join : BOOLEAN]
GuiType    == [at : {"loop", "flag", "signal", "look", "cut", "wait"}, of : 0..Questions,
               socket : 0..Attempts]
EventType  == [kind : {"result", "finished"}, of : Qs, docs : SUBSET Docs]
FlagsType  == [query : BOOLEAN, embed : BOOLEAN]
NetType    == [try : 0..Attempts, bound : 0..Attempts, cut : SUBSET (1..Attempts)]
SnapType   == [scopes : SUBSET Scopes, excl : SUBSET Docs]

\* The embedding's attempts by the worker's place: it connects only while one is
\* left, and waits on the socket it published.
NetOK(q) ==
    /\ thread[q] \in {"none", "start", "open", "embed"} => net[q].try = 0
    /\ thread[q] = "try" => net[q].try < Attempts
    /\ thread[q] \in {"connect", "bind", "bound"} \cup Waiting => net[q].try # 0
    /\ thread[q] \in {"bound"} \cup Waiting => net[q].bound = net[q].try

\* While it cancels, the GUI thread does so for a question.
Cancelling == gui.at # "loop" => gui.of # 0

Typed == TypeOK /\ events \in Seq(EventType) /\ Cancelling /\ \A q \in Qs : NetOK(q)

LEMMA TypesNamed ==
    TypeOK <=> /\ ctl \in CtlType /\ gui \in GuiType
               /\ \A i \in DOMAIN events : events[i] \in EventType
               /\ asked \in 0..Questions /\ cancels \in 0..MaxCancels
               /\ exit \in {"open", "joined", "unsafe"} /\ excl \subseteq Docs /\ policy \in BOOLEAN
               /\ thread \in [Qs -> Stages] /\ flags \in [Qs -> FlagsType] /\ net \in [Qs -> NetType]
               /\ snap \in [Qs -> SnapType] /\ result \in [Qs -> SUBSET Docs]
               /\ said \in [Qs -> Seq(0..Questions)]
BY DEF TypeOK, CtlType, GuiType, EventType, FlagsType, NetType, SnapType

\* What a step of the worker of question q may do.
WorkerSteps(q) ==
    /\ UNCHANGED gstate /\ Alive(q)
    /\ thread' \in [Qs -> Stages] /\ net' \in [Qs -> NetType] /\ result' \in [Qs -> SUBSET Docs]
    /\ snap' \in [Qs -> SnapType]
    /\ thread'[q] # "none" /\ NetOK(q)'
    /\ \A p \in Qs \ {q} :
          thread'[p] = thread[p] /\ net'[p] = net[p] /\ result'[p] = result[p] /\ snap'[p] = snap[p]
    /\ Aborted(q) /\ thread'[q] \in Waiting => thread[q] \in Waiting /\ net'[q] = net[q]
    /\ result[q] \cap snap[q].excl = {} => result'[q] \cap snap'[q].excl = {}
    /\ Alive(q)' => snap'[q] = snap[q]
    /\ \/ UNCHANGED events
       \/ \E e \in EventType : /\ e.of = q /\ (e.kind = "result" => e.docs = result[q])
                               /\ events' = Append(events, e)

LEMMA WorkerStep ==
    ASSUME Typed, NEW q \in Qs, Runs(q) \/ Served(q)
    PROVE  WorkerSteps(q)
<1>t. /\ thread \in [Qs -> Stages] /\ net \in [Qs -> NetType] /\ result \in [Qs -> SUBSET Docs]
      /\ snap \in [Qs -> SnapType] /\ NetOK(q) /\ Attempts \in Nat \ {0}
  BY TypesNamed, ConstantsAssumption DEF Typed, ConstantsAssumption
<1> USE DEF Stage, Go, Ends, NetOK, Alive, Stages, Waiting, local, Cancelled, Aborted
\* The worker goes on to the next place with what it has.
<1>g. ASSUME NEW st \in Stages \ {"none"}, Go(q, st), UNCHANGED <<gstate, events, local>>, Alive(q),
             st = "try" => net[q].try < Attempts,
             st \in {"start", "open", "embed"} => net[q].try = 0,
             st \in {"connect", "bind", "bound"} \cup Waiting => net[q].try # 0,
             st \in {"bound"} \cup Waiting => net[q].bound = net[q].try,
             Aborted(q) /\ st \in Waiting => thread[q] \in Waiting
      PROVE  WorkerSteps(q)
  BY <1>g, <1>t DEF WorkerSteps
\* It drops what it found.
<1>d. ASSUME NEW st \in {"close", "emit", "final"}, Ends(q, {}, st), UNCHANGED <<gstate, events, net, snap>>,
             Alive(q)
      PROVE  WorkerSteps(q)
  BY <1>d, <1>t DEF WorkerSteps
<1>a. ASSUME Aborts(q), UNCHANGED <<gstate, events>>, Alive(q) PROVE WorkerSteps(q)
  BY <1>a, <1>t DEF WorkerSteps, Aborts, Unbound, NetType
<1> USE DEF Stops
<1>1. CASE Start(q)
  BY <1>1, <1>t, <1>g, <1>d, <1>a DEF Start
<1>2. CASE OpenIndex(q)
  BY <1>2, <1>t, <1>g, <1>d, <1>a DEF OpenIndex
<1>3. CASE Apologise(q)
  BY <1>3, <1>t, <1>g, <1>d, <1>a DEF Apologise
<1>4. CASE Embed(q)
  BY <1>4, <1>t, <1>g, <1>d, <1>a DEF Embed
<1>5. CASE Try(q)
  <2>1. CASE Aborts(q)
    BY <1>5, <2>1, <1>a DEF Try
  <2>2. CASE net' = [net EXCEPT ![q].try = @ + 1] /\ Go(q, "connect") /\ ~Aborts(q)
    <3>1. net[q].try \in 0..Attempts /\ net[q].try < Attempts /\ net[q] \in NetType
      BY <1>5, <1>t DEF Try, NetType
    <3>2. [net[q] EXCEPT !.try = @ + 1] \in NetType
      BY <3>1, <1>t DEF NetType
    <3>3. net' = [net EXCEPT ![q] = [net[q] EXCEPT !.try = @ + 1]] /\ net'[q].try = net[q].try + 1
      BY <2>2, <1>t DEF NetType
    <3>4. net' \in [Qs -> NetType] /\ net'[q].try # 0
      BY <3>1, <3>2, <3>3, <1>t
    <3> HIDE <2>2
    <3>5. Go(q, "connect") /\ \A p \in Qs \ {q} : net'[p] = net[p]
      BY <2>2, <1>t
    <3> QED
      BY <1>5, <2>2, <3>4, <3>5, <1>t DEF Try, WorkerSteps
  <2> QED
    BY <1>5, <2>1, <2>2 DEF Try
<1>6. CASE Connect(q)
  BY <1>6, <1>t, <1>g, <1>d, <1>a DEF Connect
<1>7. CASE BindSocket(q)
  BY <1>7, <1>t, <1>g, <1>d, <1>a DEF BindSocket, NetType, WorkerSteps
<1>8. CASE BoundCheck(q)
  BY <1>8, <1>t, <1>g, <1>d, <1>a DEF BoundCheck
<1>9. CASE Got(q)
  <2>1. CASE Aborts(q)
    BY <1>9, <2>1, <1>a DEF Got
  <2>2. ASSUME NEW next \in {"documents", "failed"}, Unbound(q), Go(q, next), UNCHANGED <<result, snap>>
        PROVE  WorkerSteps(q)
    BY <1>9, <2>2, <1>t DEF Got, Unbound, NetType, WorkerSteps
  <2> QED
    BY <1>9, <2>1, <2>2 DEF Got
<1>10. CASE Lost(q)
  <2>1. CASE Aborts(q)
    BY <1>10, <2>1, <1>a DEF Lost
  <2>2. CASE net[q].try < Attempts /\ Go(q, "try") /\ UNCHANGED local
    BY <1>10, <2>2, <1>t, <1>g DEF Lost, Unbound
  <2>3. CASE Unbound(q) /\ Go(q, "failed") /\ UNCHANGED <<result, snap>>
    BY <1>10, <2>3, <1>t DEF Lost, Unbound, NetType, WorkerSteps
  <2> QED
    BY <1>10, <2>1, <2>2, <2>3 DEF Lost
<1>11. CASE SearchDocuments(q)
  BY <1>11, <1>t, <1>g, <1>d, <1>a DEF SearchDocuments, Finds, WorkerSteps, Docs
<1>12. CASE SearchKeywords(q)
  BY <1>12, <1>t, <1>g, <1>d, <1>a DEF SearchKeywords, Finds, WorkerSteps, Docs
<1>13. CASE SearchMail(q)
  BY <1>13, <1>t, <1>g, <1>d, <1>a DEF SearchMail, Finds, WorkerSteps, Docs
<1>14. CASE AskModel(q)
  BY <1>14, <1>t, <1>g, <1>d, <1>a DEF AskModel
<1>15. CASE Finish(q)
  BY <1>15, <1>t, <1>g, <1>d, <1>a DEF Finish
<1>16. CASE CloseRegistry(q)
  BY <1>16, <1>t, <1>g, <1>d, <1>a DEF CloseRegistry
<1>17. CASE Emit(q)
  BY <1>17, <1>t, <1>g, <1>d, <1>a DEF Emit, Post, WorkerSteps, EventType
<1>18. CASE EmitFinished(q)
  BY <1>18, <1>t, <1>g, <1>d, <1>a DEF EmitFinished, Post, WorkerSteps, EventType
<1>19. CASE ThreadEnds(q)
  BY <1>19, <1>t, <1>g, <1>d, <1>a DEF ThreadEnds, WorkerSteps, NoNet, NoSnap, NetType, SnapType
<1>20. CASE Answer(q)
  BY <1>20, <1>t, <1>g, <1>d, <1>a DEF Answer
<1>21. CASE Body(q)
  BY <1>21, <1>t, <1>g, <1>d, <1>a DEF Body
<1>22. CASE Drops(q)
  BY <1>22, <1>t, <1>g, <1>d, <1>a DEF Drops
<1> QED
  BY <1>1, <1>2, <1>3, <1>4, <1>5, <1>6, <1>7, <1>8, <1>9, <1>10, <1>11, <1>12, <1>13, <1>14, <1>15, <1>16, <1>17, <1>18, <1>19, <1>20, <1>21, <1>22 DEF Runs, Served

-----------------------------------------------------------------------------
(* The lease.                                                                *)

\* The controller holds the worker that is alive, no policy job runs meanwhile, and
\* what polls or times out belongs to a question.  Later questions are unasked.
Leased ==
    /\ \A q \in Qs : Alive(q) => ctl.req = q
    /\ policy => ctl.req = 0
    /\ ctl.timer \/ ctl.join => ctl.req # 0
    /\ ctl.req <= asked
    /\ \A q \in Qs : q > asked => thread[q] = "none"

LEMMA TypedInit == Init => Typed
<1> SUFFICES ASSUME Init PROVE Typed
  OBVIOUS
<1>1. 0 \in 0..Questions /\ 0 \in 0..Attempts /\ 0 \in 0..MaxCancels
  BY ConstantsAssumption DEF ConstantsAssumption
<1>2. NoCtl \in CtlType /\ AtLoop \in GuiType /\ Unset \in FlagsType /\ NoNet \in NetType
      /\ NoSnap \in SnapType /\ NoNet.try = 0
  BY <1>1 DEF NoCtl, AtLoop, Unset, NoNet, NoSnap, CtlType, GuiType, FlagsType, NetType, SnapType
<1>3. /\ ctl \in CtlType /\ gui \in GuiType /\ asked \in 0..Questions /\ cancels \in 0..MaxCancels
      /\ exit \in {"open", "joined", "unsafe"} /\ excl \subseteq Docs /\ policy \in BOOLEAN
  BY <1>1, <1>2 DEF Init
<1>4. /\ flags \in [Qs -> FlagsType] /\ net \in [Qs -> NetType] /\ snap \in [Qs -> SnapType]
      /\ result \in [Qs -> SUBSET Docs] /\ said \in [Qs -> Seq(0..Questions)]
  BY <1>2 DEF Init
<1>5. thread \in [Qs -> Stages] /\ \A q \in Qs : NetOK(q)
  BY <1>2 DEF Init, Stages, NetOK, Waiting
<1>6. events = <<>>
  BY DEF Init
<1> QED
  BY <1>3, <1>4, <1>5, <1>6, TypesNamed DEF Typed, Cancelling, Init, AtLoop

\* The controller's fields after what several of its methods do.
LEMMA ReleaseFields ==
    ASSUME NEW c \in CtlType
    PROVE  /\ Release(c) \in CtlType /\ Release(c).req = 0 /\ ~Release(c).timer /\ ~Release(c).join
           /\ Release(c).terminal = c.terminal /\ Release(c).closing = c.closing
<1>1. 0 \in 0..Questions
  BY ConstantsAssumption DEF ConstantsAssumption
<1> QED
  BY <1>1 DEF Release, CtlType

LEMMA ToldFields ==
    ASSUME NEW c \in CtlType
    PROVE  /\ Told(c) \in CtlType /\ Told(c).req = c.req /\ Told(c).join = c.join
           /\ Told(c).closing = c.closing /\ Told(c).finished = c.finished
           /\ (Told(c).timer => c.timer) /\ (IF Mute THEN Told(c) = c ELSE Told(c).terminal)
BY DEF Told, CtlType

LEMMA JoinedFields ==
    ASSUME NEW c \in CtlType
    PROVE  /\ Joined(c) \in CtlType /\ Joined(c).terminal = c.terminal
           /\ Joined(c).closing = c.closing
           /\ (Joined(c).timer => c.timer) /\ (Joined(c).join => c.join)
           /\ \/ Joined(c) = c
              \/ /\ Joined(c).req = 0 /\ ~Joined(c).timer /\ ~Joined(c).join
                 /\ thread[c.req] = "gone"
BY ReleaseFields DEF Joined

\* The steps of the GUI thread that may answer a question: they leave the worker
\* alone and may give its lease back once the thread is gone.
Answers(by) ==
    /\ EmitTerminal(by) /\ ctl' \in CtlType
    /\ \/ ctl'.req = ctl.req
       \/ ctl'.req = 0 /\ ~ctl'.timer /\ ~ctl'.join /\ thread[ctl.req] = "gone"
    /\ ctl'.closing = ctl.closing /\ (ctl'.timer => ctl.timer) /\ (ctl'.join => ctl'.req # 0)
    /\ ctl'.terminal = (ctl.terminal \/ ~Mute)

LEMMA CancelAnswers ==
    ASSUME Typed, Leased, Cancel PROVE Answers(0) /\ ctl'.req = ctl.req
<1>1. ctl \in CtlType /\ Told(ctl) \in CtlType
  BY TypesNamed, ToldFields DEF Typed
<1>2. /\ EmitTerminal(0) /\ ctl' = [Told(ctl) EXCEPT !.retired = TRUE, !.timer = FALSE]
  BY DEF Cancel
<1>3. /\ ctl' \in CtlType /\ ctl'.req = Told(ctl).req /\ ctl'.closing = Told(ctl).closing
      /\ ctl'.timer = FALSE /\ ctl'.join = Told(ctl).join /\ ctl'.terminal = Told(ctl).terminal
  BY <1>1, <1>2 DEF CtlType
<1>4. /\ Told(ctl).req = ctl.req /\ Told(ctl).closing = ctl.closing /\ Told(ctl).join = ctl.join
      /\ Told(ctl).terminal = (ctl.terminal \/ ~Mute)
  BY <1>1, ToldFields DEF Mute, CtlType
<1> QED
  BY <1>2, <1>3, <1>4 DEF Answers, Leased

LEMMA ResultAnswers ==
    ASSUME Typed, Leased, OnResult
    PROVE  \/ UNCHANGED <<said, ctl>>
           \/ Answers(Head(events).of) /\ Head(events).of = ctl.req /\ ctl'.req = ctl.req
<1>1. ctl \in CtlType
  BY TypesNamed DEF Typed
<1>2. CASE EmitTerminal(Head(events).of) /\ Head(events).of = ctl.req /\ ctl' = Told(ctl)
  BY <1>1, <1>2, ToldFields DEF Answers, Leased, Mute, CtlType
<1> QED
  BY <1>2 DEF OnResult

LEMMA FinishedAnswers ==
    ASSUME Typed, Leased, OnFinished
    PROVE  \/ UNCHANGED <<said, ctl>>
           \/ Answers(0) /\ Head(events).of = ctl.req
<1>1. ctl \in CtlType
  BY TypesNamed DEF Typed
<1> DEFINE d == [Told(ctl) EXCEPT !.finished = TRUE]
           c == Joined(d)
<1>2. /\ d \in CtlType /\ d.req = ctl.req /\ d.closing = ctl.closing /\ (d.timer => ctl.timer)
      /\ d.join = ctl.join /\ d.terminal = (ctl.terminal \/ ~Mute)
  <2>1. /\ Told(ctl) \in CtlType /\ Told(ctl).req = ctl.req /\ Told(ctl).closing = ctl.closing
        /\ Told(ctl).join = ctl.join /\ (Told(ctl).timer => ctl.timer)
        /\ Told(ctl).terminal = (ctl.terminal \/ ~Mute)
    BY <1>1, ToldFields DEF Mute, CtlType
  <2> QED
    BY <2>1 DEF CtlType
<1>3. CASE Head(events).of = ctl.req
  <2>1. EmitTerminal(0) /\ ctl' = [c EXCEPT !.join = c.req # 0 /\ ~c.closing]
    BY <1>3 DEF OnFinished
  <2> HIDE DEF d
  <2>2. /\ c \in CtlType /\ c.terminal = d.terminal /\ c.closing = d.closing /\ (c.timer => d.timer)
        /\ \/ c.req = d.req
           \/ c.req = 0 /\ ~c.timer /\ thread[d.req] = "gone"
    BY <1>2, JoinedFields
  <2> HIDE DEF c
  <2>3. /\ ctl' \in CtlType /\ ctl'.req = c.req /\ ctl'.timer = c.timer /\ ctl'.terminal = c.terminal
        /\ ctl'.closing = c.closing /\ (ctl'.join => c.req # 0)
    BY <2>1, <2>2 DEF CtlType
  <2> QED
    BY <1>2, <1>3, <2>1, <2>2, <2>3 DEF Answers
<1>4. CASE Head(events).of # ctl.req
  BY <1>4 DEF OnFinished
<1> QED
  BY <1>3, <1>4

LEMMA PollFields ==
    ASSUME Typed, Leased, PollJoin
    PROVE  /\ ctl' \in CtlType /\ ctl'.terminal = ctl.terminal
           /\ (ctl'.timer => ctl.timer) /\ (ctl'.join => ctl.join)
           /\ \/ ctl' = ctl
              \/ ctl'.req = 0 /\ ~ctl'.timer /\ ~ctl'.join /\ thread[ctl.req] = "gone"
<1>1. ctl \in CtlType /\ ctl' = Joined(ctl)
  BY TypesNamed DEF Typed, PollJoin
<1> QED
  BY <1>1, JoinedFields

LEMMA TypedStep == Typed /\ Leased /\ [Next]_vars => Typed'
<1> SUFFICES ASSUME Typed, Leased, [Next]_vars PROVE Typed'
  OBVIOUS
<1>t. /\ ctl \in CtlType /\ gui \in GuiType /\ events \in Seq(EventType)
      /\ asked \in 0..Questions /\ cancels \in 0..MaxCancels
      /\ exit \in {"open", "joined", "unsafe"} /\ excl \subseteq Docs /\ policy \in BOOLEAN
      /\ thread \in [Qs -> Stages] /\ flags \in [Qs -> FlagsType] /\ net \in [Qs -> NetType]
      /\ snap \in [Qs -> SnapType] /\ result \in [Qs -> SUBSET Docs]
      /\ said \in [Qs -> Seq(0..Questions)] /\ \A q \in Qs : NetOK(q)
  BY TypesNamed DEF Typed
<1>q. ASSUME /\ ctl' \in CtlType /\ gui' \in GuiType /\ events' \in Seq(EventType)
             /\ asked' \in 0..Questions /\ cancels' \in 0..MaxCancels
             /\ exit' \in {"open", "joined", "unsafe"} /\ excl' \subseteq Docs /\ policy' \in BOOLEAN
             /\ thread' \in [Qs -> Stages] /\ flags' \in [Qs -> FlagsType] /\ net' \in [Qs -> NetType]
             /\ snap' \in [Qs -> SnapType] /\ result' \in [Qs -> SUBSET Docs]
             /\ said' \in [Qs -> Seq(0..Questions)] /\ \A q \in Qs : NetOK(q)'
             /\ Cancelling'
      PROVE  Typed'
  <2>1. \A i \in DOMAIN events' : events'[i] \in EventType
    BY <1>q
  <2> QED
    BY <1>q, <2>1 DEF Typed, TypeOK, CtlType, GuiType, EventType, FlagsType, NetType, SnapType
<1>g. UNCHANGED gui => Cancelling'
  BY DEF Typed, Cancelling
<1>n. UNCHANGED <<thread, net>> => \A q \in Qs : NetOK(q)'
  BY <1>t DEF NetOK
<1>c. Qs \subseteq 0..Questions /\ 0 \in 0..Questions /\ 0 \in 0..Attempts
  BY ConstantsAssumption DEF ConstantsAssumption, Qs
<1>e. ASSUME NEW by \in 0..Questions, EmitTerminal(by) PROVE said' \in [Qs -> Seq(0..Questions)]
  <2>1. UNCHANGED said \/ said' = [said EXCEPT ![ctl.req] = Append(@, by)]
    BY <1>e DEF EmitTerminal, Tell
  <2>2. ctl.req \in Qs => Append(said[ctl.req], by) \in Seq(0..Questions)
    BY <1>e, <1>t
  <2> QED
    BY <2>1, <2>2, <1>t
<1>s. ASSUME StartCancel, ctl.req # 0 PROVE gui' \in GuiType /\ Cancelling'
  BY <1>s, <1>t, <1>c DEF StartCancel, AtLoop, GuiType, CtlType, Cancelling
<1>h. AtLoop \in GuiType /\ AtLoop.at = "loop"
  BY <1>c DEF AtLoop, GuiType
<1> USE DEF env, worker
<1>1. ASSUME NEW q \in Qs, NEW scopes \in SUBSET Scopes, Send(q, scopes) PROVE Typed'
  <2>1. asked' \in 0..Questions
    BY <1>1, <1>c DEF Send
  <2>2. CASE Accepts
    <3>1. ctl' \in CtlType /\ thread' \in [Qs -> Stages] /\ UNCHANGED <<said, net, gui>>
      <4>1. ctl' = [ctl EXCEPT !.req = q, !.terminal = FALSE, !.finished = FALSE,
                               !.retired = FALSE, !.timer = TRUE]
        BY <1>1, <2>2 DEF Send
      <4>2. ctl' \in CtlType
        BY <4>1, <1>t, <1>c DEF CtlType
      <4>3. thread' = [thread EXCEPT ![q] = "start"] /\ UNCHANGED <<said, net, gui>>
        BY <1>1, <2>2 DEF Send
      <4> QED
        BY <4>2, <4>3, <1>t DEF Stages
    <3>2. [scopes |-> scopes, excl |-> excl] \in SnapType
      BY <1>t DEF SnapType
    <3>3. snap' \in [Qs -> SnapType]
      BY <1>1, <2>2, <3>2, <1>t DEF Send
    <3>4. thread[q] = "none"
      BY <1>1, <1>t DEF Send, Leased, Qs
    <3>5. \A p \in Qs : NetOK(p)'
      BY <1>1, <2>2, <3>1, <3>4, <1>t DEF Send, NetOK, Waiting
    <3> QED
      BY <1>1, <2>1, <3>1, <3>3, <3>5, <1>g, <1>t, <1>q DEF Send
  <2>3. CASE ~Accepts
    <3>1. said' \in [Qs -> Seq(0..Questions)]
      <4>1. said' = [said EXCEPT ![q] = Append(@, 0)]
        BY <1>1, <2>3 DEF Send, Tell
      <4>2. Append(said[q], 0) \in Seq(0..Questions)
        BY <1>t, <1>c
      <4> QED
        BY <4>1, <4>2, <1>t
    <3> QED
      BY <1>1, <2>1, <2>3, <3>1, <1>g, <1>n, <1>t, <1>q DEF Send
  <2> QED
    BY <2>2, <2>3
<1>2. ASSUME NEW q \in Qs, SendFails(q) PROVE Typed'
  <2>1. said' \in [Qs -> Seq(0..Questions)] /\ asked' \in 0..Questions
    BY <1>2, <1>t, <1>c DEF SendFails, Tell
  <2>2. ctl' \in CtlType
    <3>1. Release(ctl) \in CtlType
      BY <1>t, ReleaseFields
    <3> QED
      BY <1>2, <3>1 DEF SendFails, CtlType
  <2> QED
    BY <1>2, <2>1, <2>2, <1>g, <1>n, <1>t, <1>q DEF SendFails
<1>3. ASSUME NEW q \in Qs, CancelQuery(q) PROVE Typed'
  <2>1. ctl' \in CtlType /\ gui' \in GuiType /\ said' \in [Qs -> Seq(0..Questions)] /\ Cancelling'
    <3>1. CASE Cancel /\ ctl.req = q
      BY <3>1, CancelAnswers, <1>c, <1>e, <1>s DEF Answers, Cancel, Qs
    <3> QED
      BY <1>3, <3>1, <1>g, <1>t DEF CancelQuery
  <2>2. cancels' \in 0..MaxCancels
    BY <1>3, <1>t, ConstantsAssumption DEF CancelQuery, ConstantsAssumption
  <2> QED
    BY <1>3, <2>1, <2>2, <1>g, <1>n, <1>t, <1>q DEF CancelQuery
<1>4. CASE CancelFlag
  BY <1>4, <1>n, <1>t, <1>q DEF CancelFlag, GuiType, FlagsType, Typed, Cancelling
<1>5. CASE CancelSignal
  BY <1>5, <1>n, <1>t, <1>q DEF CancelSignal, GuiType, FlagsType, Typed, Cancelling
<1>6. CASE CancelLook
  <2>1. gui.of \in Qs
    BY <1>6, <1>t DEF CancelLook, Typed, Cancelling, GuiType, Qs
  <2>2. net[gui.of].bound \in 0..Attempts
    BY <2>1, <1>t DEF NetType
  <2>3. gui' \in GuiType /\ Cancelling'
    <3> DEFINE s == net[gui.of].bound
    <3>1. gui' = [gui EXCEPT !.at = "cut", !.socket = s] /\ s \in 0..Attempts /\ gui.of # 0
      BY <1>6, <2>1, <2>2 DEF CancelLook, Qs
    <3> HIDE DEF s
    <3> QED
      BY <3>1, <1>t DEF GuiType, Cancelling
  <2> QED
    BY <1>6, <2>3, <1>g, <1>n, <1>t, <1>q DEF CancelLook
<1>7. CASE CancelCut
  <2>1. gui.socket \in 0..Attempts
    BY <1>t DEF GuiType
  <2>2. net' \in [Qs -> NetType] /\ \A q \in Qs : net'[q].try = net[q].try /\ net'[q].bound = net[q].bound
    <3> DEFINE new == [net[gui.of] EXCEPT !.cut = @ \cup ({gui.socket} \ {0})]
    <3>1. gui.of \in Qs
      BY <1>7, <1>t DEF CancelCut, Typed, Cancelling, GuiType, Qs
    <3>2. {gui.socket} \ {0} \subseteq 1..Attempts
      BY <2>1, ConstantsAssumption DEF ConstantsAssumption
    <3>3. /\ new \in NetType /\ new.try = net[gui.of].try /\ new.bound = net[gui.of].bound
      BY <3>1, <3>2, <1>t DEF NetType
    <3>4. net' = [net EXCEPT ![gui.of] = new]
      BY <1>7, <3>1, <1>t DEF CancelCut
    <3> HIDE DEF new
    <3> QED
      BY <3>1, <3>3, <3>4, <1>t
  <2>3. \A q \in Qs : NetOK(q)'
    BY <1>7, <2>2, <1>t DEF CancelCut, NetOK
  <2> QED
    BY <1>7, <2>2, <2>3, <1>h, <1>t, <1>q DEF CancelCut, Cancelling
<1>8. CASE OnTimeout
  BY <1>8, CancelAnswers, <1>c, <1>e, <1>s, <1>n, <1>t, <1>q DEF OnTimeout, Answers, Cancel, Leased
<1>9. CASE OnResult
  <2>1. ctl' \in CtlType /\ said' \in [Qs -> Seq(0..Questions)]
    BY <1>9, ResultAnswers, <1>e, <1>t DEF Answers, CtlType
  <2>2. events' \in Seq(EventType)
    BY <1>9, <1>t DEF OnResult, IsNext, Taken
  <2> QED
    BY <1>9, <2>1, <2>2, <1>g, <1>n, <1>t, <1>q DEF OnResult
<1>10. CASE OnFinished
  <2>1. ctl' \in CtlType /\ said' \in [Qs -> Seq(0..Questions)]
    BY <1>10, FinishedAnswers, <1>c, <1>e, <1>t DEF Answers
  <2>2. events' \in Seq(EventType)
    BY <1>10, <1>t DEF OnFinished, IsNext, Taken
  <2> QED
    BY <1>10, <2>1, <2>2, <1>g, <1>n, <1>t, <1>q DEF OnFinished
<1>11. CASE PollJoin
  BY <1>11, PollFields, <1>g, <1>n, <1>t, <1>q DEF PollJoin
<1>12. CASE BeginShutdown
  BY <1>12, <1>s, <1>g, <1>n, <1>t, <1>q DEF BeginShutdown, CtlType, Busy
<1>13. CASE WaitForShutdown
  <2>1. Release(ctl) \in CtlType
    BY <1>t, ReleaseFields
  <2> QED
    BY <1>13, <2>1, <1>g, <1>n, <1>t, <1>q DEF WaitForShutdown
<1>14. CASE PolicyBegins
  BY <1>14, <1>g, <1>n, <1>t, <1>q DEF PolicyBegins
<1>15. ASSUME NEW new \in SUBSET Docs, PolicyEnds(new) PROVE Typed'
  BY <1>15, <1>g, <1>n, <1>t, <1>q DEF PolicyEnds
<1>16. ASSUME NEW q \in Qs, Runs(q) \/ Served(q) PROVE Typed'
  <2>1. WorkerSteps(q)
    BY <1>16, WorkerStep
  <2>2. events' \in Seq(EventType)
    <3>1. events \in Seq(EventType)
      BY <1>t
    <3>2. CASE UNCHANGED events
      BY <3>1, <3>2
    <3>3. ASSUME NEW e \in EventType, events' = Append(events, e) PROVE events' \in Seq(EventType)
      BY <3>1, <3>3
    <3> QED
      BY <2>1, <3>2, <3>3 DEF WorkerSteps
  <2>3. ASSUME NEW p \in Qs PROVE NetOK(p)'
    <3>1. CASE p = q
      BY <2>1, <3>1 DEF WorkerSteps
    <3>2. CASE p # q
      BY <2>1, <3>2, <1>t DEF WorkerSteps, NetOK
    <3> QED
      BY <3>1, <3>2
  <2> QED
    BY <2>1, <2>2, <2>3, <1>g, <1>t, <1>q DEF WorkerSteps, gstate
<1>17. CASE UNCHANGED vars
  BY <1>17, <1>g, <1>n, <1>t, <1>q DEF vars
<1> QED
  BY <1>1, <1>2, <1>3, <1>4, <1>5, <1>6, <1>7, <1>8, <1>9, <1>10, <1>11, <1>12, <1>13, <1>14, <1>15,
     <1>16, <1>17
  DEF Next, CancelSteps

LEMMA LeasedInit == Init => Leased
<1> SUFFICES ASSUME Init PROVE Leased
  OBVIOUS
<1>1. ctl.req = 0 /\ ctl.timer = FALSE /\ ctl.join = FALSE /\ asked = 0 /\ policy = FALSE
      /\ thread = [q \in Qs |-> "none"]
  BY DEF Init, NoCtl
<1> QED
  BY <1>1 DEF Leased, Alive

LEMMA LeasedStep == Typed /\ Leased /\ [Next]_vars => Leased'
<1> SUFFICES ASSUME Typed, Leased, [Next]_vars PROVE Leased'
  OBVIOUS
<1>t. /\ ctl \in CtlType /\ asked \in 0..Questions /\ thread \in [Qs -> Stages]
  BY TypesNamed DEF Typed
<1> USE DEF env, worker, Leased, Alive
<1>a. ASSUME NEW by, Answers(by), UNCHANGED <<asked, env, thread>> PROVE Leased'
  <2>1. ctl.req \in 0..Questions /\ ctl'.req \in 0..Questions
    BY <1>a, <1>t DEF Answers, CtlType
  <2> QED
    BY <1>a, <1>t, <2>1 DEF Answers
<1>s. UNCHANGED <<ctl, asked, env, thread>> => Leased'
  OBVIOUS
<1>1. ASSUME NEW q \in Qs, NEW scopes \in SUBSET Scopes, Send(q, scopes) PROVE Leased'
  <2>1. CASE Accepts
    <3>1. ctl'.req = q /\ asked' = q /\ q = asked + 1 /\ ~policy /\ UNCHANGED policy
          /\ thread' = [thread EXCEPT ![q] = "start"] /\ ctl.req = 0
      BY <1>1, <2>1, <1>t DEF Send, CtlType, Accepts, Busy
    <3> QED
      BY <3>1, <1>t DEF Qs
  <2>2. CASE ~Accepts
    BY <1>1, <2>2, <1>t DEF Send, Qs, CtlType
  <2> QED
    BY <2>1, <2>2
<1>2. ASSUME NEW q \in Qs, SendFails(q) PROVE Leased'
  <2>1. PICK made \in BOOLEAN : ctl' = [Release(ctl) EXCEPT !.terminal = TRUE, !.finished = made]
    BY <1>2 DEF SendFails
  <2>2. ctl'.req = 0 /\ ~ctl'.timer /\ ~ctl'.join
    BY <2>1, <1>t, ReleaseFields DEF CtlType
  <2>3. ctl.req = 0 /\ asked' = asked + 1 /\ UNCHANGED <<policy, thread>>
    BY <1>2 DEF SendFails, Accepts, Busy
  <2> QED
    BY <2>2, <2>3, <1>t DEF Qs
<1>3. ASSUME NEW q \in Qs, CancelQuery(q) PROVE Leased'
  BY <1>3, <1>a, <1>s, CancelAnswers DEF CancelQuery
<1>4. CASE CancelSteps
  BY <1>4, <1>s DEF CancelSteps, CancelFlag, CancelSignal, CancelLook, CancelCut
<1>5. CASE OnTimeout
  BY <1>5, <1>a, CancelAnswers DEF OnTimeout
<1>6. CASE OnResult
  BY <1>6, <1>a, <1>s, ResultAnswers DEF OnResult
<1>7. CASE OnFinished
  BY <1>7, <1>a, <1>s, FinishedAnswers DEF OnFinished
<1>8. CASE PollJoin
  <2>1. ctl.req \in 0..Questions
    BY <1>t DEF CtlType
  <2> QED
    BY <1>8, <1>t, <2>1, PollFields DEF PollJoin
<1>9. CASE BeginShutdown
  BY <1>9, <1>t DEF BeginShutdown, CtlType
<1>10. CASE WaitForShutdown
  <2>1. CASE UNCHANGED ctl
    BY <1>10, <2>1, <1>s DEF WaitForShutdown
  <2>2. CASE thread[ctl.req] = "gone" /\ ctl' = Release(ctl)
    <3>1. ctl'.req = 0 /\ ~ctl'.timer /\ ~ctl'.join
      BY <2>2, <1>t, ReleaseFields
    <3> QED
      BY <1>10, <2>2, <3>1, <1>t DEF WaitForShutdown
  <2> QED
    BY <1>10, <2>1, <2>2 DEF WaitForShutdown
<1>11. CASE PolicyBegins
  BY <1>11 DEF PolicyBegins, MayChangePolicy, Busy
<1>12. ASSUME NEW new \in SUBSET Docs, PolicyEnds(new) PROVE Leased'
  BY <1>12 DEF PolicyEnds
<1>13. ASSUME NEW q \in Qs, Runs(q) \/ Served(q) PROVE Leased'
  BY <1>13, <1>t, WorkerStep DEF WorkerSteps, gstate
<1>14. CASE UNCHANGED vars
  BY <1>14, <1>s DEF vars
<1> QED
  BY <1>1, <1>2, <1>3, <1>4, <1>5, <1>6, <1>7, <1>8, <1>9, <1>10, <1>11, <1>12, <1>13, <1>14
  DEF Next

\* Every value the session keeps stays within its type, for any number of questions
\* and attempts.
THEOREM TypeCorrect == Spec => []TypeOK
<1>1. Typed => TypeOK
  BY DEF Typed
<1> QED
  BY <1>1, TypedInit, TypedStep, LeasedInit, LeasedStep, PTL DEF Spec

\* No second worker runs beside the one the controller holds, and no policy job
\* beside a worker.
THEOREM OneWorker == Spec => []SingleFlight
<1>1. Typed /\ Leased => SingleFlight
  BY DEF Leased, SingleFlight, Qs
<1> QED
  BY <1>1, TypedInit, TypedStep, LeasedInit, LeasedStep, PTL DEF Spec

-----------------------------------------------------------------------------
(* Answers.                                                                  *)

\* A question has been told nothing until the controller marks it terminal.
Answered ==
    /\ \A q \in Qs : said[q] \in {<<>>, <<0>>, <<q>>}
    /\ \A q \in Qs : q > asked \/ (q = ctl.req /\ ~ctl.terminal) => said[q] = <<>>

LEMMA AnsweredInit == Init => Answered
<1> SUFFICES ASSUME Init PROVE Answered
  OBVIOUS
<1>1. said = [q \in Qs |-> <<>>]
  BY DEF Init
<1> QED
  BY <1>1 DEF Answered

LEMMA AnsweredStep == Typed /\ Leased /\ Answered /\ [Next]_vars => Answered'
<1> SUFFICES ASSUME Typed, Leased, Answered, [Next]_vars PROVE Answered'
  OBVIOUS
<1>t. /\ ctl \in CtlType /\ ctl.req \in 0..Questions /\ ctl.terminal \in BOOLEAN /\ asked \in 0..Questions
      /\ said \in [Qs -> Seq(0..Questions)]
  BY TypesNamed DEF Typed, CtlType
<1> USE DEF env, worker
\* The first and only answer of the current question, or none.
<1>a. ASSUME NEW by \in {0, ctl.req}, Answers(by), ctl.req # 0, UNCHANGED asked PROVE Answered'
  <2>1. ctl.req \in Qs /\ ctl'.req \in {ctl.req, 0} /\ ctl'.terminal = (ctl.terminal \/ ~Mute)
    BY <1>a, <1>t DEF Answers, Qs
  <2>2. CASE Mute
    <3>1. UNCHANGED said /\ ctl'.terminal = ctl.terminal
      BY <1>a, <1>t, <2>1, <2>2 DEF Answers, EmitTerminal
    <3> QED
      BY <1>a, <1>t, <2>1, <3>1 DEF Answered, Qs
  <2>3. CASE ~Mute
    <3>1. said[ctl.req] = <<>>
      BY <2>1, <2>3 DEF Mute, Answered
    <3>2. said' = [said EXCEPT ![ctl.req] = <<by>>]
      BY <1>a, <2>1, <2>3, <3>1, <1>t DEF Answers, EmitTerminal, Tell
    <3>3. \A p \in Qs : said'[p] = IF p = ctl.req THEN <<by>> ELSE said[p]
      BY <3>2, <1>t
    <3>4. ctl'.terminal /\ ctl.req <= asked
      BY <2>1, <2>3 DEF Leased
    <3>5. \A p \in Qs : said'[p] \in {<<>>, <<0>>, <<p>>}
      BY <1>a, <3>3 DEF Answered
    <3>6. \A p \in Qs : p > asked' \/ (p = ctl'.req /\ ~ctl'.terminal) => said'[p] = <<>>
      BY <1>a, <1>t, <3>3, <3>4 DEF Answered, Qs
    <3> QED
      BY <3>5, <3>6 DEF Answered
  <2> QED
    BY <2>2, <2>3
<1>s. ASSUME UNCHANGED <<said, asked>>, ctl'.req \in {ctl.req, 0}, ctl'.terminal = ctl.terminal PROVE Answered'
  BY <1>s, <1>t DEF Answered, Qs
<1>s1. UNCHANGED <<said, asked, ctl>> => Answered'
  BY DEF Answered
\* A rejection is the first word on a new question.
<1>r. ASSUME NEW q \in Qs, q = asked + 1, asked' = q, Tell(q, 0), ctl'.req = 0 \/ UNCHANGED ctl PROVE Answered'
  <2>1. said[q] = <<>>
    BY <1>r, <1>t DEF Answered
  <2>2. said' = [said EXCEPT ![q] = <<0>>]
    BY <1>r, <1>t, <2>1 DEF Tell
  <2>3. \A p \in Qs : said'[p] \in {<<>>, <<0>>, <<p>>}
    BY <2>2, <1>t DEF Answered
  <2>4. ASSUME NEW p \in Qs, p > asked' \/ (p = ctl'.req /\ ~ctl'.terminal) PROVE said'[p] = <<>>
    <3>1. p # q /\ (p > asked \/ (p = ctl.req /\ ~ctl.terminal))
      BY <1>r, <2>4, <1>t DEF Qs, Leased
    <3> QED
      BY <2>2, <3>1, <1>t DEF Answered
  <2> QED
    BY <2>3, <2>4 DEF Answered
<1>1. ASSUME NEW q \in Qs, NEW scopes \in SUBSET Scopes, Send(q, scopes) PROVE Answered'
  <2>1. CASE Accepts
    <3>1. ctl'.req = q /\ asked' = q /\ q = asked + 1 /\ UNCHANGED said
      BY <1>1, <2>1, <1>t DEF Send, CtlType
    <3> QED
      BY <3>1, <1>t DEF Answered, Qs
  <2>2. CASE ~Accepts
    BY <1>1, <2>2, <1>r DEF Send
  <2> QED
    BY <2>1, <2>2
<1>2. ASSUME NEW q \in Qs, SendFails(q) PROVE Answered'
  <2>1. PICK made \in BOOLEAN : ctl' = [Release(ctl) EXCEPT !.terminal = TRUE, !.finished = made]
    BY <1>2 DEF SendFails
  <2>2. ctl'.req = 0
    BY <2>1, <1>t, ReleaseFields DEF CtlType
  <2> QED
    BY <1>2, <1>r, <2>2 DEF SendFails
<1>3. ASSUME NEW q \in Qs, CancelQuery(q) PROVE Answered'
  BY <1>3, <1>a, <1>s1, CancelAnswers DEF CancelQuery, Qs
<1>4. CASE CancelSteps
  BY <1>4, <1>s1 DEF CancelSteps, CancelFlag, CancelSignal, CancelLook, CancelCut
<1>5. CASE OnTimeout
  BY <1>5, <1>a, CancelAnswers DEF OnTimeout, Leased
<1>e. IsNext("result") \/ IsNext("finished") => Head(events).of # 0
  <2>1. events \in Seq(EventType)
    BY DEF Typed
  <2>2. events # <<>> => Head(events) \in EventType
    BY <2>1
  <2> QED
    BY <2>2 DEF IsNext, EventType, Qs
<1>6. CASE OnResult
  BY <1>6, <1>a, <1>e, <1>s1, ResultAnswers DEF OnResult
<1>7. CASE OnFinished
  BY <1>7, <1>a, <1>e, <1>s1, FinishedAnswers DEF OnFinished
<1>8. CASE PollJoin
  BY <1>8, <1>s, PollFields DEF PollJoin
<1>9. CASE BeginShutdown
  BY <1>9, <1>s, <1>t DEF BeginShutdown, CtlType
<1>10. CASE WaitForShutdown
  BY <1>10, <1>s, <1>t, ReleaseFields DEF WaitForShutdown
<1>11. CASE PolicyBegins
  BY <1>11, <1>s1 DEF PolicyBegins
<1>12. ASSUME NEW new \in SUBSET Docs, PolicyEnds(new) PROVE Answered'
  BY <1>12, <1>s1 DEF PolicyEnds
<1>13. ASSUME NEW q \in Qs, Runs(q) \/ Served(q) PROVE Answered'
  BY <1>13, <1>s1, WorkerStep DEF WorkerSteps, gstate
<1>14. CASE UNCHANGED vars
  BY <1>14, <1>s1 DEF vars
<1> QED
  BY <1>1, <1>2, <1>3, <1>4, <1>5, <1>6, <1>7, <1>8, <1>9, <1>10, <1>11, <1>12, <1>13, <1>14
  DEF Next

\* Every question is answered at most once, and never with another worker's result,
\* whatever its result, its timeout, its cancellations and its end race for.
THEOREM AnswersOnce == Spec => []OneAnswerEach
<1>1. Typed /\ Answered => OneAnswerEach
  <2> SUFFICES ASSUME Typed, Answered, NEW q \in Qs
               PROVE  Len(said[q]) <= 1 /\ \A i \in DOMAIN said[q] : said[q][i] \in {0, q}
    BY DEF OneAnswerEach
  <2>1. said[q] = <<>> \/ said[q] = <<0>> \/ said[q] = <<q>>
    BY DEF Answered
  <2>2. CASE said[q] = <<>>
    BY <2>2
  <2>3. ASSUME NEW x \in {0, q}, said[q] = <<x>>
        PROVE  Len(said[q]) <= 1 /\ \A i \in DOMAIN said[q] : said[q][i] \in {0, q}
    BY <2>3
  <2> QED
    BY <2>1, <2>2, <2>3
<1> QED
  BY <1>1, TypedInit, TypedStep, LeasedInit, LeasedStep, AnsweredInit, AnsweredStep, PTL DEF Spec

-----------------------------------------------------------------------------
(* Cancellation.                                                             *)

\* The two events are set one after the other, and from the second until the cut
\* the GUI thread is about to cut the very socket the worker waits on: BoundCheck
\* lets no worker in after the event.
Reached ==
    \A q \in Qs :
        /\ flags[q].query => flags[q].embed \/ (gui.at = "signal" /\ gui.of = q)
        /\ flags[q].embed /\ thread[q] \in Waiting =>
              IsCut(q) \/ (gui.of = q /\ (gui.at = "look" \/ (gui.at = "cut" /\ gui.socket = net[q].try)))

LEMMA ReachedInit == Init => Reached
<1> SUFFICES ASSUME Init, NEW q \in Qs PROVE flags[q] = Unset
  BY DEF Reached, Unset
<1> QED
  BY DEF Init

LEMMA ReachedStep == Typed /\ Leased /\ Reached /\ [Next]_vars => Reached'
<1> SUFFICES ASSUME Typed, Leased, Reached, [Next]_vars PROVE Reached'
  OBVIOUS
<1>t. /\ gui \in GuiType /\ thread \in [Qs -> Stages] /\ flags \in [Qs -> FlagsType]
      /\ net \in [Qs -> NetType] /\ \A q \in Qs : NetOK(q)
      /\ gui.at # "loop" => gui.of \in Qs
  BY TypesNamed DEF Typed, Cancelling, GuiType, Qs
<1> USE DEF env, worker
<1>s. UNCHANGED <<gui, flags, thread, net>> => Reached'
  BY DEF Reached, IsCut
\* Nothing is under way when the GUI thread starts to cancel.
<1>b. ASSUME Looping, gui' = gui \/ StartCancel, UNCHANGED <<flags, thread, net>> PROVE Reached'
  BY <1>b DEF Reached, IsCut, Looping, StartCancel, AtLoop
<1>1. ASSUME NEW q \in Qs, NEW scopes \in SUBSET Scopes, Send(q, scopes) PROVE Reached'
  <2>1. UNCHANGED <<gui, flags, net>> /\ (thread' = thread \/ thread' = [thread EXCEPT ![q] = "start"])
    BY <1>1 DEF Send
  <2> QED
    BY <2>1, <1>t DEF Reached, IsCut, Waiting
<1>2. ASSUME NEW q \in Qs, SendFails(q) PROVE Reached'
  BY <1>2, <1>s DEF SendFails
<1>3. ASSUME NEW q \in Qs, CancelQuery(q) PROVE Reached'
  BY <1>3, <1>b DEF CancelQuery, Cancel
<1>4. CASE CancelFlag
  <2>1. flags' = [flags EXCEPT ![gui.of].query = TRUE] /\ gui' = [gui EXCEPT !.at = "signal"]
        /\ UNCHANGED <<thread, net>> /\ gui.at = "flag"
    BY <1>4 DEF CancelFlag
  <2> QED
    BY <2>1, <1>t DEF Reached, IsCut, GuiType, FlagsType
<1>5. CASE CancelSignal
  <2>1. flags' = [flags EXCEPT ![gui.of].embed = TRUE] /\ gui' = [gui EXCEPT !.at = "look"]
        /\ UNCHANGED <<thread, net>> /\ gui.at = "signal"
    BY <1>5 DEF CancelSignal
  <2> QED
    BY <2>1, <1>t DEF Reached, IsCut, GuiType, FlagsType
\* The socket it reads under the lock is the one a waiting worker published.
<1>6. CASE CancelLook
  <2>1. gui' = [gui EXCEPT !.at = "cut", !.socket = net[gui.of].bound]
        /\ UNCHANGED <<flags, thread, net>> /\ gui.at = "look"
    BY <1>6 DEF CancelLook
  <2>2. thread[gui.of] \in Waiting => net[gui.of].bound = net[gui.of].try
    BY <2>1, <1>t DEF NetOK
  <2> QED
    BY <2>1, <2>2, <1>t DEF Reached, IsCut, GuiType
<1>7. CASE CancelCut
  <2>1. net' = [net EXCEPT ![gui.of].cut = @ \cup ({gui.socket} \ {0})] /\ gui' = AtLoop
        /\ UNCHANGED <<flags, thread>> /\ gui.at = "cut"
    BY <1>7 DEF CancelCut
  <2>2. thread[gui.of] \in Waiting => net[gui.of].try # 0
    BY <2>1, <1>t DEF NetOK
  <2>3. \A q \in Qs : net'[q].try = net[q].try /\ net[q].cut \subseteq net'[q].cut
    BY <2>1, <1>t DEF NetType
  <2>4. gui.socket # 0 => gui.socket \in net'[gui.of].cut
    BY <2>1, <1>t DEF NetType
  <2> QED
    BY <2>1, <2>2, <2>3, <2>4, <1>t DEF Reached, IsCut
<1>8. CASE OnTimeout
  BY <1>8, <1>b DEF OnTimeout, Cancel
<1>9. CASE OnResult
  BY <1>9, <1>s DEF OnResult
<1>10. CASE OnFinished
  BY <1>10, <1>s DEF OnFinished
<1>11. CASE PollJoin \/ WaitForShutdown \/ PolicyBegins
  BY <1>11, <1>s DEF PollJoin, WaitForShutdown, PolicyBegins
<1>12. CASE BeginShutdown
  BY <1>12, <1>b DEF BeginShutdown
<1>13. ASSUME NEW new \in SUBSET Docs, PolicyEnds(new) PROVE Reached'
  BY <1>13, <1>s DEF PolicyEnds
\* A worker that is waiting was already, on the same socket, or its event was not set.
<1>14. ASSUME NEW q \in Qs, Runs(q) \/ Served(q) PROVE Reached'
  <2>1. WorkerSteps(q) /\ UNCHANGED <<gui, flags>>
    BY <1>14, WorkerStep DEF WorkerSteps, gstate
  <2>2. \A p \in Qs : flags[p].embed /\ thread'[p] \in Waiting =>
                        thread[p] \in Waiting /\ net'[p] = net[p]
    BY <2>1 DEF WorkerSteps, Aborted
  <2> QED
    BY <2>1, <2>2 DEF Reached, IsCut
<1>15. CASE UNCHANGED vars
  BY <1>15, <1>s DEF vars
<1> QED
  BY <1>1, <1>2, <1>3, <1>4, <1>5, <1>6, <1>7, <1>8, <1>9, <1>10, <1>11, <1>12, <1>13, <1>14, <1>15
  DEF Next, CancelSteps

\* Once cancel has returned the worker waits on no socket that nobody cut, however
\* its steps and those of cancel fall.
THEOREM CancelIsNotLost == Spec => []CancelReaches
<1>1. Typed /\ Reached => CancelReaches
  BY DEF Reached, CancelReaches, Looping, Cancelled
<1> QED
  BY <1>1, TypedInit, TypedStep, LeasedInit, LeasedStep, ReachedInit, ReachedStep, PTL DEF Spec

-----------------------------------------------------------------------------
(* What an answer shows.                                                     *)

\* The worker's copy of the settings is what is in force, as no policy job runs
\* beside it, and it found nothing that this copy excludes.
Searched ==
    \A q \in Qs :
        /\ result[q] \cap snap[q].excl = {}
        /\ Alive(q) => snap[q].excl = excl
        /\ thread[q] = "none" => result[q] = {}

\* A result in the queue is of a question already asked, and of the current one
\* only if it was found under the exclusions in force.
Queued ==
    \A i \in DOMAIN events :
        /\ events[i].of <= asked
        /\ events[i].kind = "result" /\ events[i].of = ctl.req => events[i].docs \cap excl = {}

Filtered == Searched /\ Queued

LEMMA FilteredInit == Init => Filtered
<1> SUFFICES ASSUME Init PROVE Filtered
  OBVIOUS
<1>1. events = <<>> /\ \A q \in Qs : result[q] = {} /\ thread[q] = "none"
  BY DEF Init
<1> QED
  BY <1>1 DEF Filtered, Searched, Queued, Alive

LEMMA FilteredStep == Typed /\ Leased /\ Filtered /\ [Next]_vars => Filtered'
<1> SUFFICES ASSUME Typed, Leased, Filtered, [Next]_vars PROVE Filtered'
  OBVIOUS
<1>t. /\ ctl \in CtlType /\ ctl.req \in 0..Questions /\ asked \in 0..Questions /\ events \in Seq(EventType)
      /\ excl \subseteq Docs /\ thread \in [Qs -> Stages] /\ result \in [Qs -> SUBSET Docs]
      /\ snap \in [Qs -> SnapType]
  BY TypesNamed DEF Typed, CtlType
<1>i. \A i \in DOMAIN events : events[i].of \in Qs
  <2>1. \A i \in DOMAIN events : events[i] \in EventType
    BY <1>t
  <2> QED
    BY <2>1 DEF EventType
<1>f. Searched /\ Queued
  BY DEF Filtered
<1>w. UNCHANGED <<thread, result, snap, excl>> => Searched'
  BY <1>f DEF Searched, Alive
<1>e. UNCHANGED <<events, asked, excl>> /\ ctl'.req \in {ctl.req, 0} => Queued'
  BY <1>f, <1>i DEF Queued, Qs
<1>p. Searched' /\ Queued' => Filtered'
  BY DEF Filtered
<1>u. events # <<>> /\ Taken /\ UNCHANGED <<asked, excl>> /\ ctl'.req \in {ctl.req, 0} => Queued'
  <2> SUFFICES ASSUME events # <<>>, Taken, UNCHANGED <<asked, excl>>, ctl'.req \in {ctl.req, 0},
                      NEW i \in DOMAIN events'
               PROVE  /\ events'[i].of <= asked'
                      /\ events'[i].kind = "result" /\ events'[i].of = ctl'.req => events'[i].docs \cap excl' = {}
    BY DEF Queued
  <2>1. i + 1 \in DOMAIN events /\ events'[i] = events[i + 1]
    BY <1>t DEF Taken
  <2> QED
    BY <2>1, <1>f, <1>i DEF Queued, Qs
<1> USE DEF env, worker
<1>1. ASSUME NEW q \in Qs, NEW scopes \in SUBSET Scopes, Send(q, scopes) PROVE Filtered'
  <2>1. q = asked + 1 /\ asked' = q /\ UNCHANGED <<events, excl, result>> /\ thread[q] = "none"
    BY <1>1, <1>t DEF Send, Leased, Qs
  <2>2. CASE Accepts
    <3>1. ctl'.req = q /\ thread' = [thread EXCEPT ![q] = "start"]
          /\ snap' = [snap EXCEPT ![q] = [scopes |-> scopes, excl |-> excl]]
      BY <1>1, <2>2, <1>t DEF Send, CtlType
    <3>2. Searched'
      BY <2>1, <3>1, <1>t, <1>f DEF Searched, Alive
    <3>3. Queued'
      BY <2>1, <3>1, <1>t, <1>f, <1>i DEF Queued, Qs
    <3> QED
      BY <3>2, <3>3, <1>p
  <2>3. CASE ~Accepts
    <3>1. UNCHANGED <<ctl, thread, snap>>
      BY <1>1, <2>3 DEF Send
    <3>2. Queued'
      BY <2>1, <3>1, <1>t, <1>f, <1>i DEF Queued, Qs
    <3> QED
      BY <2>1, <3>1, <3>2, <1>w, <1>p
  <2> QED
    BY <2>2, <2>3
<1>2. ASSUME NEW q \in Qs, SendFails(q) PROVE Filtered'
  <2>1. PICK made \in BOOLEAN : ctl' = [Release(ctl) EXCEPT !.terminal = TRUE, !.finished = made]
    BY <1>2 DEF SendFails
  <2>2. ctl'.req = 0
    BY <2>1, <1>t, ReleaseFields DEF CtlType
  <2>3. asked' = asked + 1 /\ UNCHANGED <<events, excl, worker>>
    BY <1>2 DEF SendFails
  <2>4. Queued'
    BY <2>2, <2>3, <1>t, <1>f, <1>i DEF Queued, Qs
  <2> QED
    BY <2>3, <2>4, <1>w, <1>p
<1>3. ASSUME NEW q \in Qs, CancelQuery(q) PROVE Filtered'
  BY <1>3, <1>w, <1>e, <1>p, CancelAnswers DEF CancelQuery
<1>4. CASE CancelSteps
  BY <1>4, <1>w, <1>e, <1>p DEF CancelSteps, CancelFlag, CancelSignal, CancelLook, CancelCut
<1>5. CASE OnTimeout
  BY <1>5, <1>w, <1>e, <1>p, CancelAnswers DEF OnTimeout
<1>6. CASE OnResult
  BY <1>6, <1>w, <1>u, <1>p, ResultAnswers DEF OnResult, IsNext
<1>7. CASE OnFinished
  BY <1>7, <1>w, <1>u, <1>p, FinishedAnswers DEF OnFinished, IsNext, Answers
<1>8. CASE PollJoin
  BY <1>8, <1>w, <1>e, <1>p, PollFields DEF PollJoin
<1>9. CASE BeginShutdown
  BY <1>9, <1>t, <1>w, <1>e, <1>p DEF BeginShutdown, CtlType
<1>10. CASE WaitForShutdown
  BY <1>10, <1>t, <1>w, <1>e, <1>p, ReleaseFields DEF WaitForShutdown
<1>11. CASE PolicyBegins
  BY <1>11, <1>w, <1>e, <1>p DEF PolicyBegins
\* The exclusions change while nothing is held, so that nothing was found under others.
<1>12. ASSUME NEW new \in SUBSET Docs, PolicyEnds(new) PROVE Filtered'
  <2>1. ctl.req = 0 /\ UNCHANGED <<ctl, events, asked, worker>>
    BY <1>12 DEF PolicyEnds, Leased
  <2>2. \A q \in Qs : ~Alive(q)
    BY <2>1 DEF Leased, Qs
  <2>3. Searched' /\ Queued'
    BY <2>1, <2>2, <1>f, <1>i DEF Qs, Alive, Searched, Queued
  <2> QED
    BY <2>3, <1>p
<1>13. ASSUME NEW q \in Qs, Runs(q) \/ Served(q) PROVE Filtered'
  <2>1. WorkerSteps(q) /\ UNCHANGED <<ctl, asked, excl>> /\ Alive(q)
    BY <1>13, WorkerStep DEF WorkerSteps, gstate
  <2>2. Searched'
    <3>1. ASSUME NEW p \in Qs, p # q
          PROVE  /\ result'[p] \cap snap'[p].excl = {} /\ (Alive(p)' => snap'[p].excl = excl')
                 /\ (thread'[p] = "none" => result'[p] = {})
      BY <2>1, <3>1, <1>f DEF WorkerSteps, Alive, Searched
    <3>2. /\ result'[q] \cap snap'[q].excl = {} /\ (Alive(q)' => snap'[q].excl = excl')
          /\ (thread'[q] = "none" => result'[q] = {})
      BY <2>1, <1>f DEF WorkerSteps, Alive, Searched
    <3> QED
      BY <3>1, <3>2 DEF Searched
  <2>3. Queued'
    <3>1. CASE UNCHANGED events
      BY <2>1, <3>1, <1>e
    <3>2. ASSUME NEW e \in EventType, e.of = q, e.kind = "result" => e.docs = result[q], events' = Append(events, e)
          PROVE  Queued'
      <4>1. e.of <= asked /\ (e.kind = "result" => e.docs \cap excl = {})
        <5>1. ctl.req = q /\ ctl.req <= asked
          BY <2>1 DEF Leased
        <5>2. result[q] \cap snap[q].excl = {} /\ snap[q].excl = excl
          BY <2>1, <1>f DEF Searched
        <5> QED
          BY <3>2, <5>1, <5>2
      <4>2. \A i \in DOMAIN events' : events'[i] = e \/ (i \in DOMAIN events /\ events'[i] = events[i])
        BY <3>2, <1>t
      <4> QED
        BY <2>1, <4>1, <4>2, <1>f DEF Queued
    <3> QED
      BY <2>1, <3>1, <3>2 DEF WorkerSteps
  <2> QED
    BY <2>2, <2>3, <1>p
<1>14. CASE UNCHANGED vars
  BY <1>14, <1>w, <1>e, <1>p DEF vars
<1> QED
  BY <1>1, <1>2, <1>3, <1>4, <1>5, <1>6, <1>7, <1>8, <1>9, <1>10, <1>11, <1>12, <1>13, <1>14
  DEF Next

\* The answer a user gets shows nothing excluded at that moment, although the worker
\* searched under a copy of the settings.
THEOREM NothingExcludedShown == Spec => AnswersRespectPolicy
<1>1. Typed /\ Leased /\ Answered /\ Filtered /\ [Next]_vars =>
        [\A q \in Qs : said'[q] = Append(said[q], q) => Head(events).docs \cap excl = {}]_vars
  <2> SUFFICES ASSUME Typed, Leased, Answered, Filtered, Next, NEW q \in Qs,
                      said'[q] = Append(said[q], q)
               PROVE  Head(events).docs \cap excl = {}
    OBVIOUS
  <2>t. /\ said \in [Qs -> Seq(0..Questions)] /\ said[q] \in Seq(0..Questions) /\ q \in 0..Questions /\ q # 0
        /\ events \in Seq(EventType) /\ ctl.req \in 0..Questions
    BY TypesNamed DEF Typed, Qs, CtlType
  <2>a. said'[q] # said[q]
    BY <2>t
  <2>b. ~(said'[q] = Append(said[q], 0))
    BY <2>t
  <2>c. ~UNCHANGED said
    BY <2>a
  <2>d. ASSUME NEW p, Tell(p, 0) PROVE FALSE
    BY <2>d, <2>a, <2>b, <2>t DEF Tell
  <2>e. ~EmitTerminal(0)
    BY <2>c, <2>d DEF EmitTerminal
  <2>f. ~Cancel
    BY <2>e DEF Cancel
  <2> USE DEF env, worker
  <2>1. ASSUME NEW p \in Qs, NEW scopes \in SUBSET Scopes, Send(p, scopes) PROVE FALSE
    BY <2>1, <2>c, <2>d DEF Send
  <2>2. ASSUME NEW p \in Qs, SendFails(p) PROVE FALSE
    BY <2>2, <2>d DEF SendFails
  <2>3. ASSUME NEW p \in Qs, CancelQuery(p) PROVE FALSE
    BY <2>3, <2>c, <2>f DEF CancelQuery
  <2>4. ~CancelSteps
    BY <2>c DEF CancelSteps, CancelFlag, CancelSignal, CancelLook, CancelCut
  <2>5. ~OnTimeout
    BY <2>f DEF OnTimeout
  <2>6. ~OnFinished
    BY <2>c, <2>e DEF OnFinished
  <2>7. ~(PollJoin \/ BeginShutdown \/ WaitForShutdown \/ PolicyBegins)
    BY <2>c DEF PollJoin, BeginShutdown, WaitForShutdown, PolicyBegins
  <2>8. ASSUME NEW new \in SUBSET Docs, PolicyEnds(new) PROVE FALSE
    BY <2>8, <2>c DEF PolicyEnds
  <2>9. ASSUME NEW p \in Qs, Runs(p) \/ Served(p) PROVE FALSE
    BY <2>9, <2>c, WorkerStep DEF WorkerSteps, gstate
  <2>10. OnResult
    BY <2>1, <2>2, <2>3, <2>4, <2>5, <2>6, <2>7, <2>8, <2>9 DEF Next
  <2>11. /\ events # <<>> /\ Head(events).kind = "result" /\ Head(events).of = ctl.req
    BY <2>10, <2>c DEF OnResult, IsNext
  <2>12. 1 \in DOMAIN events /\ Head(events) = events[1]
    BY <2>11, <2>t
  <2> QED
    BY <2>11, <2>12 DEF Filtered, Queued
<1> QED
  BY <1>1, TypedInit, TypedStep, LeasedInit, LeasedStep, AnsweredInit, AnsweredStep,
     FilteredInit, FilteredStep, PTL DEF Spec, AnswersRespectPolicy
=============================================================================
