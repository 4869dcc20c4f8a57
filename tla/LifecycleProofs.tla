--------------------------- MODULE LifecycleProofs ---------------------------
(* Starts and exits for any number of processes, cycles and faults: the       *)
(* primary keeps the lock and the endpoint, a quit leaves nothing running,    *)
(* and only a cycle's thread is ever cut.                                     *)
EXTENDS Lifecycle, TLAPS

-----------------------------------------------------------------------------
(* Type correctness.                                                         *)

\* The types of one process's state, as in TypeOK.
GuiType    == [window : {"none", "splash", "shown", "hidden"}, pending : BOOLEAN, started : BOOLEAN]
WorkerType == [at : {"idle", "work", "open", "call", "protected"},
               cancel : BOOLEAN, job : BOOLEAN, torn : BOOLEAN]
OfficeType == [is : {"none", "ours", "killed"}, tried : BOOLEAN]
LeaveType  == [gate : BOOLEAN, job : BOOLEAN, bad : BOOLEAN, open : BOOLEAN,
               mode : {"none", "stopped", "escalate", "raised", "unsafe"}]
HelperType == {"none", "sweep", "check", "safe", "unsafe"}

LEMMA TypesNamed ==
    TypeOK <=> /\ lock \in 0..Starts /\ endpoint \in 0..Starts /\ marker \in BOOLEAN
               /\ pc \in [Procs -> Places] /\ gui \in [Procs -> GuiType]
               /\ inbox \in [Procs -> SUBSET Procs]
               /\ worker \in [Procs -> WorkerType] /\ office \in [Procs -> OfficeType]
               /\ query \in [Procs -> BOOLEAN] /\ leave \in [Procs -> LeaveType]
               /\ helper \in [Procs -> HelperType]
               /\ cycles \in 0..MaxCycles /\ faults \in 0..MaxFaults
BY DEF TypeOK, GuiType, WorkerType, OfficeType, LeaveType, HelperType

LEMMA TypeInit == Init => TypeOK
<1>1. /\ NewGui \in GuiType /\ NewWorker \in WorkerType
      /\ NewOffice \in OfficeType /\ NewLeave \in LeaveType
  BY DEF NewGui, NewWorker, NewOffice, NewLeave, GuiType, WorkerType, OfficeType, LeaveType
<1>2. 0 \in 0..Starts /\ 0 \in 0..MaxCycles /\ 0 \in 0..MaxFaults
  BY ConstantsAssumption DEF ConstantsAssumption
<1>3. "off" \in Places /\ "none" \in HelperType
  BY DEF Places, HelperType
<1> SUFFICES ASSUME Init PROVE TypeOK
  OBVIOUS
<1>4. /\ lock \in 0..Starts /\ endpoint \in 0..Starts /\ marker \in BOOLEAN
      /\ cycles \in 0..MaxCycles /\ faults \in 0..MaxFaults
  BY <1>2 DEF Init
<1>5. /\ pc \in [Procs -> Places] /\ gui \in [Procs -> GuiType]
      /\ inbox \in [Procs -> SUBSET Procs] /\ worker \in [Procs -> WorkerType]
  BY <1>1, <1>3 DEF Init
<1>6. /\ office \in [Procs -> OfficeType] /\ query \in [Procs -> BOOLEAN]
      /\ leave \in [Procs -> LeaveType] /\ helper \in [Procs -> HelperType]
  BY <1>1, <1>3 DEF Init
<1> QED
  BY <1>4, <1>5, <1>6, TypesNamed

\* The end of a process leaves everything typed.
LEMMA EndType ==
    ASSUME TypeOK, NEW p \in Procs, EndProcess(p)
    PROVE  /\ lock' \in 0..Starts /\ endpoint' \in 0..Starts
           /\ pc' \in [Procs -> Places] /\ gui' \in [Procs -> GuiType]
           /\ inbox' \in [Procs -> SUBSET Procs]
           /\ worker' \in [Procs -> WorkerType] /\ office' \in [Procs -> OfficeType]
           /\ query' \in [Procs -> BOOLEAN] /\ leave' \in [Procs -> LeaveType]
           /\ helper' \in [Procs -> HelperType]
<1>1. /\ NewGui \in GuiType /\ NewWorker \in WorkerType
      /\ NewOffice \in OfficeType /\ NewLeave \in LeaveType
  BY DEF NewGui, NewWorker, NewOffice, NewLeave, GuiType, WorkerType, OfficeType, LeaveType
<1> QED
  BY <1>1, TypesNamed, ConstantsAssumption DEF EndProcess, Goto, Places, HelperType, ConstantsAssumption

\* The steps of one process, as the disjuncts of Next.
Step(p) ==
    Gui(p) \/ ReadShow(p) \/ FinishStartup(p) \/ Collect(p) \/ Help(p) \/ Use(p) \/ Raises(p)

LEMMA TypeStep == TypeOK /\ [Next]_vars => TypeOK'
<1> SUFFICES ASSUME TypeOK, [Next]_vars PROVE TypeOK'
  OBVIOUS
<1>t. /\ lock \in 0..Starts /\ endpoint \in 0..Starts /\ marker \in BOOLEAN
      /\ pc \in [Procs -> Places] /\ gui \in [Procs -> GuiType]
      /\ inbox \in [Procs -> SUBSET Procs]
      /\ worker \in [Procs -> WorkerType] /\ office \in [Procs -> OfficeType]
      /\ query \in [Procs -> BOOLEAN] /\ leave \in [Procs -> LeaveType]
      /\ helper \in [Procs -> HelperType]
      /\ cycles \in 0..MaxCycles /\ faults \in 0..MaxFaults
  BY TypesNamed
<1>q. ASSUME /\ lock' \in 0..Starts /\ endpoint' \in 0..Starts /\ marker' \in BOOLEAN
             /\ pc' \in [Procs -> Places] /\ gui' \in [Procs -> GuiType]
             /\ inbox' \in [Procs -> SUBSET Procs]
             /\ worker' \in [Procs -> WorkerType] /\ office' \in [Procs -> OfficeType]
             /\ query' \in [Procs -> BOOLEAN] /\ leave' \in [Procs -> LeaveType]
             /\ helper' \in [Procs -> HelperType]
             /\ cycles' \in 0..MaxCycles /\ faults' \in 0..MaxFaults
      PROVE  TypeOK'
  BY <1>q DEF TypeOK, GuiType, WorkerType, OfficeType, LeaveType, HelperType
<1>p. Procs \subseteq 0..Starts /\ 0 \in 0..Starts
  BY ConstantsAssumption DEF ConstantsAssumption, Procs
<1>f. Fault => faults' \in 0..MaxFaults
  BY <1>t, ConstantsAssumption DEF ConstantsAssumption, Fault
<1>w. NewWorker \in WorkerType /\ NewOffice \in OfficeType /\ NewLeave \in LeaveType
  BY DEF NewWorker, NewOffice, NewLeave, WorkerType, OfficeType, LeaveType
<1> USE DEF shared, bounds, At, Goto
<1>1. ASSUME NEW p \in Procs, Step(p) PROVE TypeOK'
  <2>1. CASE TryLock(p)
    BY <2>1, <1>t, <1>q, <1>p
    DEF TryLock, inner, Places, Opening, Primary, Exiting, Closing
  <2>2. CASE Listen(p)
    BY <2>2, <1>t, <1>q, <1>p
    DEF Listen, inner, Places, Opening, Primary, Exiting, Closing
  <2>3. CASE Told(p)
    BY <2>3, <1>t, <1>q, <1>p
    DEF Told, inner, Listening, Places, Opening, Primary, Exiting, Closing
  <2>4. CASE NotTold(p)
    BY <2>4, <1>t, <1>q
    DEF NotTold, inner, Places, Opening, Primary, Exiting, Closing
  <2>5. CASE Clean(p)
    BY <2>5, <1>t, <1>q, <1>p
    DEF Clean, inner, Places, Opening, Primary, Exiting, Closing
  <2>6. CASE WriteMarker(p)
    BY <2>6, <1>t, <1>q
    DEF WriteMarker, rest, Places, Opening, Primary, Exiting, Closing
  <2>7. CASE Build(p)
    BY <2>7, <1>t, <1>q
    DEF Build, rest, GuiType, Places, Opening, Primary, Exiting, Closing
  <2>8. CASE CancelWorker(p)
    BY <2>8, <1>t, <1>q
    DEF CancelWorker, quiet, WorkerType, Places, Opening, Primary, Exiting, Closing
  <2>9. CASE WorkerStopped(p)
    BY <2>9, <1>t, <1>q
    DEF WorkerStopped, Sweep, LeaveType, HelperType, Places, Opening, Primary, Exiting, Closing
  <2>10. CASE MoreGrace(p)
    BY <2>10, <1>t, <1>q
    DEF MoreGrace, quiet, Places, Opening, Primary, Exiting, Closing
  <2>11. CASE GraceOver(p)
    BY <2>11, <1>t, <1>q
    DEF GraceOver, Sweep, LeaveType, HelperType, Places, Opening, Primary, Exiting, Closing
  <2>12. CASE Swept(p)
    <3>1. PICK safe \in BOOLEAN :
             \/ /\ leave' = [leave EXCEPT ![p].mode = IF safe THEN "none" ELSE "unsafe"]
                /\ Goto(p, "recheck")
             \/ /\ leave' = [leave EXCEPT ![p].mode = "none",
                                        ![p].bad = @ \/ ~safe \/ leave[p].mode = "raised"]
                /\ Goto(p, "decide")
      BY <2>12 DEF Swept
    <3>2. leave' \in [Procs -> LeaveType]
      <4> DEFINE bad == leave[p].bad \/ ~safe \/ leave[p].mode = "raised"
      <4>1. bad \in BOOLEAN /\ leave[p] \in LeaveType
        BY <1>t DEF LeaveType
      <4>2. leave' \in {[leave EXCEPT ![p] = [@ EXCEPT !.mode = "none"]],
                       [leave EXCEPT ![p] = [@ EXCEPT !.mode = "unsafe"]],
                       [leave EXCEPT ![p] = [@ EXCEPT !.mode = "none", !.bad = bad]]}
        BY <3>1, <1>t
      <4> HIDE DEF bad
      <4> QED
        <5>1. /\ [leave[p] EXCEPT !.mode = "none"] \in LeaveType
              /\ [leave[p] EXCEPT !.mode = "unsafe"] \in LeaveType
              /\ [leave[p] EXCEPT !.mode = "none", !.bad = bad] \in LeaveType
          BY <4>1 DEF LeaveType
        <5> QED
          BY <4>2, <5>1, <1>t
    <3>3. pc' \in [Procs -> Places]
      BY <3>1, <1>t DEF Places, Opening, Primary, Exiting, Closing
    <3> QED
      BY <2>12, <3>2, <3>3, <1>t, <1>q DEF Swept, quiet
  <2>13. CASE Recheck(p)
    <3> DEFINE bad == leave[p].bad \/ leave[p].mode = "unsafe"
    <3>1. bad \in BOOLEAN /\ leave[p] \in LeaveType
      BY <1>t DEF LeaveType
    <3>2. leave' = [leave EXCEPT ![p] = [@ EXCEPT !.mode = "none", !.bad = bad]]
      BY <2>13, <1>t DEF Recheck
    <3>3. pc' \in [Procs -> Places]
      BY <2>13, <1>t DEF Recheck, Places, Opening, Primary, Exiting, Closing
    <3> HIDE DEF bad
    <3>4. leave' \in [Procs -> LeaveType]
      BY <3>1, <3>2, <1>t DEF LeaveType
    <3> QED
      BY <2>13, <3>3, <3>4, <1>t, <1>q DEF Recheck, quiet
  <2>14. CASE LeaveJob(p)
    BY <2>14, <1>t, <1>q, EndType DEF LeaveJob, HardExit
  <2>15. CASE CutThread(p)
    <3>1. PICK stops \in BOOLEAN :
             worker' = [worker EXCEPT ![p].torn = TRUE, ![p].at = IF stops THEN "idle" ELSE @]
      BY <2>15 DEF CutThread
    <3>2. worker' \in [Procs -> WorkerType]
      <4>1. /\ [worker[p] EXCEPT !.torn = TRUE, !.at = "idle"] \in WorkerType
            /\ [worker[p] EXCEPT !.torn = TRUE] \in WorkerType
        BY <1>t DEF WorkerType
      <4>2. worker' \in {[worker EXCEPT ![p] = [worker[p] EXCEPT !.torn = TRUE, !.at = "idle"]],
                        [worker EXCEPT ![p] = [worker[p] EXCEPT !.torn = TRUE]]}
        BY <3>1, <1>t DEF WorkerType
      <4> QED
        BY <4>1, <4>2, <1>t
    <3>3. pc' \in [Procs -> Places]
      BY <2>15, <1>t DEF CutThread, Places, Opening, Primary, Exiting, Closing
    <3> QED
      BY <2>15, <3>2, <3>3, <1>t, <1>q DEF CutThread, quiet
  <2>16. CASE Cut(p)
    BY <2>16, <1>t, <1>q
    DEF Cut, quiet, LeaveType, Places, Opening, Primary, Exiting, Closing
  <2>17. CASE NotCut(p)
    BY <2>17, <1>t, <1>q, EndType DEF NotCut, HardExit
  <2>18. CASE ForcedOut(p)
    BY <2>18, <1>t, <1>q, EndType DEF ForcedOut, HardExit
  <2>19. CASE WaitQuery(p)
    BY <2>19, <1>t, <1>q
    DEF WaitQuery, quiet, Places, Opening, Primary, Exiting, Closing
  <2>20. CASE QueryJoined(p)
    BY <2>20, <1>t, <1>q
    DEF QueryJoined, quiet, Places, Opening, Primary, Exiting, Closing
  <2>21. CASE QueryNotJoined(p)
    BY <2>21, <1>t, <1>q, EndType DEF QueryNotJoined, HardExit
  <2>22. CASE Quit(p)
    BY <2>22, <1>t, <1>q, EndType
    DEF Quit, HardExit, quiet, Places, Opening, Primary, Exiting, Closing
  <2>23. CASE CloseServer(p)
    BY <2>23, <1>t, <1>q, <1>p
    DEF CloseServer, rest, Places, Opening, Primary, Exiting, Closing
  <2>24. CASE Unlock(p)
    BY <2>24, <1>t, <1>q, <1>p
    DEF Unlock, rest, Places, Opening, Primary, Exiting, Closing
  <2>25. CASE ExecReturns(p)
    BY <2>25, <1>t, <1>q, EndType DEF ExecReturns, rest, Places, Closing
  <2>26. CASE EraseMarker(p)
    BY <2>26, <1>t, <1>q, EndType DEF EraseMarker, rest, Places, Closing
  <2>27. CASE ReadShow(p)
    <3>1. /\ [gui[p] EXCEPT !.window = "shown"] \in GuiType
          /\ [gui[p] EXCEPT !.pending = TRUE] \in GuiType
      BY <1>t DEF GuiType
    <3>2. gui' \in {[gui EXCEPT ![p] = [gui[p] EXCEPT !.window = "shown"]],
                    [gui EXCEPT ![p] = [gui[p] EXCEPT !.pending = TRUE]]}
      BY <2>27, <1>t DEF ReadShow
    <3>3. gui' \in [Procs -> GuiType]
      BY <3>1, <3>2, <1>t
    <3>4. inbox' \in [Procs -> SUBSET Procs]
      BY <2>27, <1>t DEF ReadShow
    <3> QED
      BY <2>27, <3>3, <3>4, <1>t, <1>q DEF ReadShow, rest
  <2>28. CASE FinishStartup(p)
    BY <2>28, <1>t, <1>q
    DEF FinishStartup, rest, GuiType
  <2>29. CASE OpenOffice(p)
    BY <2>29, <1>t, <1>q
    DEF OpenOffice, frame, Stage, WorkerType
  <2>30. CASE OfficeOpened(p)
    BY <2>30, <1>t, <1>q, <1>w
    DEF OfficeOpened, frame, Stage, WorkerType, OfficeType, NewOffice
  <2>31. CASE CallReturns(p)
    BY <2>31, <1>t, <1>q
    DEF CallReturns, frame, Stage, WorkerType
  <2>32. CASE Protect(p)
    BY <2>32, <1>t, <1>q
    DEF Protect, frame, Stage, WorkerType
  <2>33. CASE Unprotect(p)
    BY <2>33, <1>t, <1>q
    DEF Unprotect, frame, Stage, WorkerType
  <2>34. CASE WorkerEnds(p)
    <3>1. worker' \in [Procs -> WorkerType]
      <4>1. [worker[p] EXCEPT !.at = "idle", !.job = FALSE] \in WorkerType
        BY <1>t DEF WorkerType
      <4>2. worker' = [worker EXCEPT ![p] = [worker[p] EXCEPT !.at = "idle", !.job = FALSE]]
        BY <2>34, <1>t DEF WorkerEnds
      <4> QED
        BY <4>1, <4>2, <1>t
    <3>2. office' \in [Procs -> OfficeType]
      BY <2>34, <1>t, <1>w DEF WorkerEnds
    <3> QED
      BY <2>34, <3>1, <3>2, <1>t, <1>q DEF WorkerEnds, frame
  <2>35. CASE HelperSweep(p)
    <3>1. helper' \in [Procs -> HelperType]
      BY <2>35, <1>t DEF HelperSweep, HelperType
    <3>2. office' = office \/ \E is \in {"ours", "killed"} :
                                office' = [office EXCEPT ![p] = [is |-> is, tried |-> TRUE]]
      BY <2>35 DEF HelperSweep
    <3>3. office' \in [Procs -> OfficeType]
      <4>1. \A is \in {"ours", "killed"} : [is |-> is, tried |-> TRUE] \in OfficeType
        BY DEF OfficeType
      <4> QED
        BY <3>2, <4>1, <1>t
    <3> QED
      BY <2>35, <3>1, <3>3, <1>t, <1>q DEF HelperSweep, calm
  <2>36. CASE HelperCheck(p)
    BY <2>36, <1>t, <1>q
    DEF HelperCheck, calm, HelperType
  <2>37. CASE HelperGivesUp(p)
    BY <2>37, <1>t, <1>q
    DEF HelperGivesUp, calm, HelperType
  <2>38. CASE InitFails(p)
    BY <2>38, <1>t, <1>q, <1>f
    DEF InitFails, Places, Opening, Primary, Exiting, Closing
  <2>39. CASE QtRaises(p)
    BY <2>39, <1>t, <1>q, <1>f
    DEF QtRaises, Sweep, LeaveType, HelperType, Places, Opening, Primary, Exiting, Closing
  <2>40. CASE SweepRaises(p)
    BY <2>40, <1>t, <1>q, <1>f
    DEF SweepRaises, LeaveType, Places, Opening, Primary, Exiting, Closing
  <2>41. CASE StatusRaises(p)
    BY <2>41, <1>t, <1>q, <1>f, EndType DEF StatusRaises
  <2>42. CASE Crash(p)
    BY <2>42, <1>t, <1>q, <1>f, EndType DEF Crash
  <2>43. CASE Start(p)
    BY <2>43, <1>t, <1>q
    DEF Start, inner, Places, Opening, Primary, Exiting, Closing
  <2>44. CASE HideToTray(p)
    BY <2>44, <1>t, <1>q
    DEF HideToTray, rest, GuiType
  <2>45. CASE QueryEnds(p)
    BY <2>45, <1>t, <1>q
    DEF QueryEnds
  <2>46. CASE BeginShutdown(p)
    <3>1. worker[p].job \in BOOLEAN
      BY <1>t DEF WorkerType
    <3>2. leave' \in [Procs -> LeaveType]
      <4> DEFINE new(raises) == [NewLeave EXCEPT !.gate = raises # "gate", !.job = worker[p].job,
                                                 !.bad = raises = "gate", !.open = raises = "query"]
                 good == [NewLeave EXCEPT !.gate = TRUE, !.job = worker[p].job]
      <4>1. good \in LeaveType /\ new("query") \in LeaveType /\ new("gate") \in LeaveType
        BY <3>1 DEF NewLeave, LeaveType
      <4>2. \/ leave' = [leave EXCEPT ![p] = good]
            \/ \E raises \in {"query", "gate"} : leave' = [leave EXCEPT ![p] = new(raises)]
        BY <2>46 DEF BeginShutdown
      <4>3. leave' \in {[leave EXCEPT ![p] = good], [leave EXCEPT ![p] = new("query")],
                       [leave EXCEPT ![p] = new("gate")]}
        BY <4>2
      <4> HIDE DEF good, new
      <4> QED
        BY <4>1, <4>3, <1>t
    <3>3. gui' \in [Procs -> GuiType] /\ query' \in [Procs -> BOOLEAN]
      BY <2>46, <1>t DEF BeginShutdown, GuiType
    <3>4. pc' \in [Procs -> Places] /\ faults' \in 0..MaxFaults
      BY <2>46, <1>t, <1>f DEF BeginShutdown, Places, Opening, Primary, Exiting, Closing
    <3> QED
      BY <2>46, <3>2, <3>3, <3>4, <1>t, <1>q DEF BeginShutdown
  <2>47. ASSUME NEW job \in BOOLEAN, StartCycle(p, job) PROVE TypeOK'
    <3>1. [NewWorker EXCEPT !.at = IF job THEN "protected" ELSE "work", !.job = job] \in WorkerType
      BY DEF NewWorker, WorkerType
    <3>2. cycles' \in 0..MaxCycles
      BY <2>47, <1>t, ConstantsAssumption DEF ConstantsAssumption, StartCycle
    <3> QED
      BY <2>47, <3>1, <3>2, <1>t, <1>q DEF StartCycle, frame
  <2> QED
    BY <1>1, <2>1, <2>2, <2>3, <2>4, <2>5, <2>6, <2>7, <2>8, <2>9, <2>10, <2>11, <2>12, <2>13, <2>14, <2>15, <2>16, <2>17, <2>18, <2>19, <2>20, <2>21, <2>22, <2>23, <2>24, <2>25, <2>26, <2>27, <2>28, <2>29, <2>30, <2>31, <2>32, <2>33, <2>34, <2>35, <2>36, <2>37, <2>38, <2>39, <2>40, <2>41, <2>42, <2>43, <2>44, <2>45, <2>46, <2>47
    DEF Step, Gui, Open, Begin, Wait, Decide, Collect, Help, Raises, Use
<1>2. CASE UNCHANGED vars
  BY <1>2, <1>t, <1>q DEF vars
<1> QED
  BY <1>1, <1>2 DEF Next, Step

\* The state of every process and of what they share keeps its type.
THEOREM TypeCorrect == Spec => []TypeOK
BY TypeInit, TypeStep, PTL DEF Spec

-----------------------------------------------------------------------------
(* The place of the primary.                                                 *)

\* Where a process holds the lock, and where it has the endpoint too.
Holds  == {"listen", "ask", "clean"} \cup Primary \cup Exiting \cup {"quit", "unlock"}
Serves == Primary \cup Exiting

\* The lock names its holder from TryLock to Unlock, also at the steps before it
\* listens and after it stopped: only the holder touches the endpoint.
OnePrimary ==
    /\ \A p \in Procs : pc[p] \in Holds => lock = p
    /\ \A p \in Procs : pc[p] \in Serves => endpoint = p

LEMMA OnePrimaryInit == Init => OnePrimary
BY DEF Init, OnePrimary, Holds, Serves, Primary, Exiting

LEMMA OnePrimaryStep == TypeOK /\ OnePrimary /\ [Next]_vars => OnePrimary'
<1> SUFFICES ASSUME TypeOK, OnePrimary, [Next]_vars PROVE OnePrimary'
  OBVIOUS
<1>t. pc \in [Procs -> Places] /\ 0 \notin Procs
  BY DEF TypeOK, Procs
<1>1. ASSUME NEW p \in Procs, Step(p) PROVE OnePrimary'
  <2> USE DEF shared, At, Goto
  \* A step that leaves lock and endpoint alone and takes no place that needs them.
  <2>w. ASSUME UNCHANGED <<lock, endpoint>>, NEW x, pc' = [pc EXCEPT ![p] = x],
               x \in Holds => pc[p] \in Holds, x \in Serves => pc[p] \in Serves
        PROVE  OnePrimary'
    BY <2>w, <1>t DEF OnePrimary
  <2>s. UNCHANGED <<lock, endpoint, pc>> => OnePrimary'
    BY DEF OnePrimary
  \* Another holder cannot have what the dead process gives back.
  <2>e. EndProcess(p) => OnePrimary'
    BY <1>t DEF EndProcess, OnePrimary, Holds, Serves, Primary, Exiting
  <2>h. \A q \in Procs : pc[p] \in Holds /\ pc[q] \in Holds => q = p
    BY DEF OnePrimary
  <2>i. Serves \subseteq Holds /\ "gone" \notin Holds /\ "return" \notin Holds
        /\ "clearing" \notin Holds /\ "tell" \notin Holds
        /\ {"listen", "ask", "clean", "quit", "unlock", "marker"} \subseteq Holds
        /\ {"listen", "ask", "clean", "quit", "unlock"} \cap Serves = {}
    BY DEF Holds, Serves, Primary, Exiting
  <2>1. CASE NotTold(p)
    BY <2>1, <2>w, <2>i DEF NotTold, Holds, Serves, Primary, Exiting
  <2>2. CASE WriteMarker(p)
    BY <2>2, <2>w DEF WriteMarker, Holds, Serves, Primary, Exiting
  <2>3. CASE Build(p)
    BY <2>3, <2>w DEF Build, Holds, Serves, Primary, Exiting
  <2>4. CASE CancelWorker(p)
    BY <2>4, <2>w DEF CancelWorker, quiet, Holds, Serves, Primary, Exiting
  <2>5. CASE WorkerStopped(p)
    BY <2>5, <2>w DEF WorkerStopped, Sweep, Holds, Serves, Primary, Exiting
  <2>6. CASE MoreGrace(p)
    BY <2>6, <2>w DEF MoreGrace, quiet, Holds, Serves, Primary, Exiting
  <2>7. CASE GraceOver(p)
    BY <2>7, <2>w DEF GraceOver, Sweep, Holds, Serves, Primary, Exiting
  <2>8. CASE Swept(p)
    BY <2>8, <2>w DEF Swept, quiet, Holds, Serves, Primary, Exiting
  <2>9. CASE Recheck(p)
    BY <2>9, <2>w DEF Recheck, quiet, Holds, Serves, Primary, Exiting
  <2>10. CASE CutThread(p)
    BY <2>10, <2>w DEF CutThread, quiet, Holds, Serves, Primary, Exiting
  <2>11. CASE Cut(p)
    BY <2>11, <2>w DEF Cut, quiet, Holds, Serves, Primary, Exiting
  <2>12. CASE WaitQuery(p)
    BY <2>12, <2>w DEF WaitQuery, quiet, Holds, Serves, Primary, Exiting
  <2>13. CASE QueryJoined(p)
    BY <2>13, <2>w DEF QueryJoined, quiet, Holds, Serves, Primary, Exiting
  <2>14. CASE Quit(p)
    BY <2>14, <2>w, <2>e DEF Quit, HardExit, quiet, Holds, Serves, Primary, Exiting
  <2>15. CASE InitFails(p)
    BY <2>15, <2>w DEF InitFails, Holds, Serves, Primary, Exiting
  <2>16. CASE QtRaises(p)
    BY <2>16, <2>w DEF QtRaises, Sweep, Holds, Serves, Primary, Exiting
  <2>17. CASE SweepRaises(p)
    BY <2>17, <2>w DEF SweepRaises, Holds, Serves, Primary, Exiting
  <2>18. CASE Start(p)
    BY <2>18, <2>w DEF Start, Holds, Serves, Primary, Exiting
  <2>19. CASE BeginShutdown(p)
    BY <2>19, <2>w DEF BeginShutdown, Holds, Serves, Primary, Exiting
  <2>20. CASE ReadShow(p)
    BY <2>20, <2>s DEF ReadShow
  <2>21. CASE FinishStartup(p)
    BY <2>21, <2>s DEF FinishStartup
  <2>22. CASE OpenOffice(p)
    BY <2>22, <2>s DEF OpenOffice, frame
  <2>23. CASE OfficeOpened(p)
    BY <2>23, <2>s DEF OfficeOpened, frame
  <2>24. CASE CallReturns(p)
    BY <2>24, <2>s DEF CallReturns, frame
  <2>25. CASE Protect(p)
    BY <2>25, <2>s DEF Protect, frame
  <2>26. CASE Unprotect(p)
    BY <2>26, <2>s DEF Unprotect, frame
  <2>27. CASE WorkerEnds(p)
    BY <2>27, <2>s DEF WorkerEnds, frame
  <2>28. CASE HelperSweep(p)
    BY <2>28, <2>s DEF HelperSweep, calm
  <2>29. CASE HelperCheck(p)
    BY <2>29, <2>s DEF HelperCheck, calm
  <2>30. CASE HelperGivesUp(p)
    BY <2>30, <2>s DEF HelperGivesUp, calm
  <2>31. CASE HideToTray(p)
    BY <2>31, <2>s DEF HideToTray
  <2>32. CASE QueryEnds(p)
    BY <2>32, <2>s DEF QueryEnds
  <2>33. ASSUME NEW job \in BOOLEAN, StartCycle(p, job) PROVE OnePrimary'
    BY <2>33, <2>s DEF StartCycle, frame
  <2>34. CASE LeaveJob(p)
    BY <2>34, <2>e DEF LeaveJob, HardExit
  <2>35. CASE NotCut(p)
    BY <2>35, <2>e DEF NotCut, HardExit
  <2>36. CASE ForcedOut(p)
    BY <2>36, <2>e DEF ForcedOut, HardExit
  <2>37. CASE QueryNotJoined(p)
    BY <2>37, <2>e DEF QueryNotJoined, HardExit
  <2>38. CASE StatusRaises(p)
    BY <2>38, <2>e DEF StatusRaises
  <2>39. CASE Crash(p)
    BY <2>39, <2>e DEF Crash
  <2>40. CASE EraseMarker(p)
    BY <2>40, <2>e DEF EraseMarker
  <2>41. CASE ExecReturns(p)
    BY <2>41, <2>e, <2>w, <2>i DEF ExecReturns
  <2>42. CASE TryLock(p)
    BY <2>42, <1>t, <2>i, <2>w DEF TryLock, OnePrimary
  <2>43. CASE Listen(p)
    BY <2>43, <1>t, <2>i, <2>h, <2>w DEF Listen, OnePrimary
  <2>44. CASE Told(p)
    BY <2>44, <1>t, <2>i DEF Told, OnePrimary
  <2>45. CASE Clean(p)
    BY <2>45, <1>t, <2>i, <2>h DEF Clean, OnePrimary
  <2>46. CASE CloseServer(p)
    BY <2>46, <1>t, <2>i, <2>h DEF CloseServer, OnePrimary
  <2>47. CASE Unlock(p)
    BY <2>47, <1>t, <2>i, <2>h DEF Unlock, OnePrimary
  <2> QED
    BY <1>1, <2>1, <2>2, <2>3, <2>4, <2>5, <2>6, <2>7, <2>8, <2>9, <2>10, <2>11, <2>12, <2>13, <2>14, <2>15, <2>16, <2>17, <2>18, <2>19, <2>20, <2>21, <2>22, <2>23, <2>24, <2>25, <2>26, <2>27, <2>28, <2>29, <2>30, <2>31, <2>32, <2>33, <2>34, <2>35, <2>36, <2>37, <2>38, <2>39, <2>40, <2>41, <2>42, <2>43, <2>44, <2>45, <2>46, <2>47
    DEF Step, Gui, Open, Begin, Wait, Decide, Collect, Help, Raises, Use
<1>2. CASE UNCHANGED vars
  BY <1>2 DEF vars, shared, OnePrimary
<1> QED
  BY <1>1, <1>2 DEF Next, Step

\* Between taking its place and giving it up the primary holds the lock and is the
\* one that listens, however many processes are started and however they end.
THEOREM PrimaryStaysReachable == Spec => []PrimaryReachable
<1>1. OnePrimary => PrimaryReachable
  BY DEF OnePrimary, PrimaryReachable, Holds, Serves
<1> QED
  BY <1>1, TypeInit, TypeStep, OnePrimaryInit, OnePrimaryStep, PTL DEF Spec

-----------------------------------------------------------------------------
(* What an exit has seen to at each of its places.                           *)

\* Before the event loop has a window no startup is finished, so that an
\* exception there may quit at once.
Young(p) == pc[p] \in {"off", "gone", "marker", "build"} \cup Opening => ~gui[p].started

\* A thread is cut only after the sweep, never a job's, and the way on is hard.
OnlyCycles(p) ==
    /\ worker[p].torn => /\ pc[p] \in {"killed", "decide"} /\ helper[p] # "none"
                         /\ ~worker[p].job /\ (At(p, "decide") => leave[p].bad)
    /\ pc[p] \in Exiting /\ ~leave[p].job => ~worker[p].job
    /\ At(p, "killed") => ~leave[p].job

\* A query is waited for after everything else.
QueryWaited(p) == query[p] => pc[p] \in Exiting \ {"final"}

\* Once the helper is safe nothing of Office's can start any more: it became so
\* with the thread ended, in an exit that lets no new thread start.
SafeStays(p) ==
    /\ helper[p] # "none" => pc[p] \in {"office", "recheck", "killed", "decide", "query", "final"} \cup Closing
    /\ helper[p] = "safe" => ~Running(p) /\ ~Late(p)

\* An exit that is not bad closed the gate and, after its sweep, has a safe helper.
GoodExit(p) ==
    /\ pc[p] \in Exiting => leave[p].gate \/ leave[p].bad
    /\ At(p, "recheck") /\ leave[p].mode # "unsafe" => helper[p] = "safe"
    /\ pc[p] \in {"office", "recheck", "killed"} => helper[p] # "none"
    /\ At(p, "decide") /\ ~leave[p].bad => helper[p] = "safe"
    /\ pc[p] \in {"query", "final"} => ~leave[p].bad /\ helper[p] = "safe"
    /\ pc[p] \in Closing /\ gui[p].started => leave[p].gate /\ helper[p] = "safe"

\* What the invariant says of one process.
Left(p)  == Young(p) /\ OnlyCycles(p) /\ QueryWaited(p) /\ SafeStays(p) /\ GoodExit(p)
Leaving  == \A p \in Procs : Left(p)

LEMMA LeavingInit == Init => Leaving
<1> SUFFICES ASSUME Init, NEW p \in Procs PROVE Left(p)
  BY DEF Leaving
<1>1. /\ pc[p] = "off" /\ gui[p] = NewGui /\ worker[p] = NewWorker /\ office[p] = NewOffice
      /\ query[p] = FALSE /\ helper[p] = "none"
  BY DEF Init
<1> QED
  BY <1>1 DEF NewGui, NewWorker, Left, Young, OnlyCycles, QueryWaited, SafeStays, GoodExit, At,
              Exiting, Closing

\* A process changes nothing of another's that the exit depends on.
LEMMA Others ==
    ASSUME TypeOK, NEW p \in Procs, NEW q \in Procs, p # q, Step(q)
    PROVE  /\ pc'[p] = pc[p] /\ gui'[p] = gui[p] /\ worker'[p] = worker[p]
           /\ office'[p] = office[p] /\ query'[p] = query[p]
           /\ leave'[p] = leave[p] /\ helper'[p] = helper[p]
<1>t. /\ pc \in [Procs -> Places] /\ gui \in [Procs -> GuiType]
      /\ worker \in [Procs -> WorkerType] /\ office \in [Procs -> OfficeType]
      /\ query \in [Procs -> BOOLEAN] /\ leave \in [Procs -> LeaveType]
      /\ helper \in [Procs -> HelperType]
  BY TypesNamed
<1> DEFINE Same == /\ pc'[p] = pc[p] /\ gui'[p] = gui[p] /\ worker'[p] = worker[p]
                   /\ office'[p] = office[p] /\ query'[p] = query[p]
                   /\ leave'[p] = leave[p] /\ helper'[p] = helper[p]
<1>e. EndProcess(q) => Same
  BY <1>t DEF EndProcess, Goto
<1> USE DEF At, Goto
<1>1. CASE TryLock(q)
  BY <1>1, <1>t DEF TryLock, inner
<1>2. CASE Listen(q)
  BY <1>2, <1>t DEF Listen, inner
<1>3. CASE Told(q)
  BY <1>3, <1>t DEF Told, inner
<1>4. CASE NotTold(q)
  BY <1>4, <1>t DEF NotTold, inner
<1>5. CASE Clean(q)
  BY <1>5, <1>t DEF Clean, inner
<1>6. CASE WriteMarker(q)
  BY <1>6, <1>t DEF WriteMarker, rest
<1>7. CASE Build(q)
  BY <1>7, <1>t DEF Build, rest
<1>8. CASE CancelWorker(q)
  BY <1>8, <1>t DEF CancelWorker, quiet
<1>9. CASE WorkerStopped(q)
  BY <1>9, <1>t DEF WorkerStopped, Sweep
<1>10. CASE MoreGrace(q)
  BY <1>10, <1>t DEF MoreGrace, quiet
<1>11. CASE GraceOver(q)
  BY <1>11, <1>t DEF GraceOver, Sweep
<1>12. CASE Swept(q)
  BY <1>12, <1>t DEF Swept, quiet
<1>13. CASE Recheck(q)
  BY <1>13, <1>t DEF Recheck, quiet
<1>14. CASE LeaveJob(q)
  BY <1>14, <1>e DEF LeaveJob, HardExit
<1>15. CASE CutThread(q)
  BY <1>15, <1>t DEF CutThread, quiet
<1>16. CASE Cut(q)
  BY <1>16, <1>t DEF Cut, quiet
<1>17. CASE NotCut(q)
  BY <1>17, <1>e DEF NotCut, HardExit
<1>18. CASE ForcedOut(q)
  BY <1>18, <1>e DEF ForcedOut, HardExit
<1>19. CASE WaitQuery(q)
  BY <1>19, <1>t DEF WaitQuery, quiet
<1>20. CASE QueryJoined(q)
  BY <1>20, <1>t DEF QueryJoined, quiet
<1>21. CASE QueryNotJoined(q)
  BY <1>21, <1>e DEF QueryNotJoined, HardExit
<1>22. CASE Quit(q)
  BY <1>22, <1>e, <1>t DEF Quit, HardExit, quiet
<1>23. CASE CloseServer(q)
  BY <1>23, <1>t DEF CloseServer, rest
<1>24. CASE Unlock(q)
  BY <1>24, <1>t DEF Unlock, rest
<1>25. CASE ExecReturns(q)
  BY <1>25, <1>e, <1>t DEF ExecReturns, rest
<1>26. CASE EraseMarker(q)
  BY <1>26, <1>e DEF EraseMarker
<1>27. CASE ReadShow(q)
  BY <1>27, <1>t DEF ReadShow, rest
<1>28. CASE FinishStartup(q)
  BY <1>28, <1>t DEF FinishStartup, rest
<1>29. CASE OpenOffice(q)
  BY <1>29, <1>t DEF OpenOffice, frame, Stage
<1>30. CASE OfficeOpened(q)
  BY <1>30, <1>t DEF OfficeOpened, frame, Stage
<1>31. CASE CallReturns(q)
  BY <1>31, <1>t DEF CallReturns, frame, Stage
<1>32. CASE Protect(q)
  BY <1>32, <1>t DEF Protect, frame, Stage
<1>33. CASE Unprotect(q)
  BY <1>33, <1>t DEF Unprotect, frame, Stage
<1>34. CASE WorkerEnds(q)
  BY <1>34, <1>t DEF WorkerEnds, frame
<1>35. CASE HelperSweep(q)
  BY <1>35, <1>t DEF HelperSweep, calm
<1>36. CASE HelperCheck(q)
  BY <1>36, <1>t DEF HelperCheck, calm
<1>37. CASE HelperGivesUp(q)
  BY <1>37, <1>t DEF HelperGivesUp, calm
<1>38. CASE InitFails(q)
  BY <1>38, <1>t DEF InitFails
<1>39. CASE QtRaises(q)
  BY <1>39, <1>t DEF QtRaises, Sweep
<1>40. CASE SweepRaises(q)
  BY <1>40, <1>t DEF SweepRaises
<1>41. CASE StatusRaises(q)
  BY <1>41, <1>e DEF StatusRaises
<1>42. CASE Crash(q)
  BY <1>42, <1>e DEF Crash
<1>43. CASE Start(q)
  BY <1>43, <1>t DEF Start, inner
<1>44. CASE HideToTray(q)
  BY <1>44, <1>t DEF HideToTray, rest
<1>45. CASE QueryEnds(q)
  BY <1>45, <1>t DEF QueryEnds
<1>46. CASE BeginShutdown(q)
  BY <1>46, <1>t DEF BeginShutdown
<1>47. ASSUME NEW job \in BOOLEAN, StartCycle(q, job) PROVE Same
  BY <1>47, <1>t DEF StartCycle, frame
<1> QED
  BY <1>1, <1>2, <1>3, <1>4, <1>5, <1>6, <1>7, <1>8, <1>9, <1>10, <1>11, <1>12, <1>13, <1>14, <1>15, <1>16, <1>17, <1>18, <1>19, <1>20, <1>21, <1>22, <1>23, <1>24, <1>25, <1>26, <1>27, <1>28, <1>29, <1>30, <1>31, <1>32, <1>33, <1>34, <1>35, <1>36, <1>37, <1>38, <1>39, <1>40, <1>41, <1>42, <1>43, <1>44, <1>45, <1>46, <1>47
  DEF Step, Gui, Open, Begin, Wait, Decide, Collect, Help, Raises, Use

LEMMA LeftStep ==
    ASSUME TypeOK, NEW p \in Procs, Left(p), Step(p)
    PROVE  Left(p)'
<1>t. /\ pc \in [Procs -> Places] /\ gui \in [Procs -> GuiType]
      /\ worker \in [Procs -> WorkerType] /\ office \in [Procs -> OfficeType]
      /\ query \in [Procs -> BOOLEAN] /\ leave \in [Procs -> LeaveType]
      /\ helper \in [Procs -> HelperType]
  BY TypesNamed
<1> USE DEF At, Goto
<1>e. ASSUME EndProcess(p) PROVE Left(p)'
  <2>1. /\ pc'[p] = "gone" /\ gui'[p] = NewGui /\ worker'[p] = NewWorker
        /\ office'[p] = NewOffice /\ query'[p] = FALSE /\ helper'[p] = "none"
    BY <1>e, <1>t DEF EndProcess
  <2> QED
    BY <2>1 DEF NewGui, NewWorker, Left, Young, OnlyCycles, QueryWaited, SafeStays, GoodExit,
                Exiting, Closing
<1> USE DEF Left, Young, OnlyCycles, QueryWaited, SafeStays, GoodExit, Running, Late,
            Opening, Primary, Exiting, Closing
<1>1. CASE TryLock(p)
  BY <1>1, <1>t
  DEF TryLock, inner
<1>2. CASE Listen(p)
  BY <1>2, <1>t
  DEF Listen, inner
<1>3. CASE Told(p)
  BY <1>3, <1>t
  DEF Told, inner
<1>4. CASE NotTold(p)
  BY <1>4, <1>t
  DEF NotTold, inner
<1>5. CASE Clean(p)
  BY <1>5, <1>t
  DEF Clean, inner
<1>6. CASE WriteMarker(p)
  BY <1>6, <1>t
  DEF WriteMarker, rest
<1>7. CASE Build(p)
  BY <1>7, <1>t
  DEF Build, rest, GuiType
<1>8. CASE CancelWorker(p)
  BY <1>8, <1>t
  DEF CancelWorker, quiet, WorkerType
<1>9. CASE WorkerStopped(p)
  BY <1>9, <1>t
  DEF WorkerStopped, Sweep, LeaveType
<1>10. CASE MoreGrace(p)
  BY <1>10, <1>t
  DEF MoreGrace, quiet
<1>11. CASE GraceOver(p)
  BY <1>11, <1>t
  DEF GraceOver, Sweep, LeaveType
<1>12. CASE Swept(p)
  <2>1. PICK safe \in {FALSE, helper[p] = "safe"} :
           IF leave[p].mode = "escalate"
           THEN /\ leave' = [leave EXCEPT ![p].mode = IF safe THEN "none" ELSE "unsafe"]
                /\ Goto(p, "recheck")
           ELSE /\ leave' = [leave EXCEPT ![p].mode = "none",
                                           ![p].bad = @ \/ ~safe \/ leave[p].mode = "raised"]
                /\ Goto(p, "decide")
    BY <1>12 DEF Swept
  <2>2. /\ At(p, "office") /\ UNCHANGED <<gui, office, worker, query, helper>>
    BY <1>12 DEF Swept, quiet
  <2>3. safe => helper[p] = "safe"
    BY <2>1
  <2>4. leave[p] \in LeaveType /\ pc[p] = "office"
    BY <1>t, <2>2
  <2>5. CASE leave[p].mode = "escalate"
    <3>1. /\ pc'[p] = "recheck" /\ leave'[p].mode = (IF safe THEN "none" ELSE "unsafe")
          /\ leave'[p].bad = leave[p].bad /\ leave'[p].gate = leave[p].gate
          /\ leave'[p].job = leave[p].job
      BY <1>t, <2>1, <2>4, <2>5 DEF LeaveType
    <3> QED
      BY <2>2, <2>3, <2>4, <3>1
  <2>6. CASE leave[p].mode # "escalate"
    <3>1. /\ pc'[p] = "decide" /\ leave'[p].bad = (leave[p].bad \/ ~safe \/ leave[p].mode = "raised")
          /\ leave'[p].gate = leave[p].gate /\ leave'[p].job = leave[p].job
      BY <1>t, <2>1, <2>4, <2>6 DEF LeaveType
    <3> QED
      BY <2>2, <2>3, <2>4, <3>1
  <2> QED
    BY <2>5, <2>6
<1>13. CASE Recheck(p)
  BY <1>13, <1>t
  DEF Recheck, quiet, LeaveType
<1>14. CASE LeaveJob(p)
  BY <1>14, <1>e
  DEF LeaveJob, HardExit
<1>15. CASE CutThread(p)
  BY <1>15, <1>t
  DEF CutThread, quiet, WorkerType
<1>16. CASE Cut(p)
  BY <1>16, <1>t
  DEF Cut, quiet, LeaveType
<1>17. CASE NotCut(p)
  BY <1>17, <1>e
  DEF NotCut, HardExit
<1>18. CASE ForcedOut(p)
  BY <1>18, <1>e
  DEF ForcedOut, HardExit
<1>19. CASE WaitQuery(p)
  BY <1>19, <1>t
  DEF WaitQuery, quiet
<1>20. CASE QueryJoined(p)
  BY <1>20, <1>t
  DEF QueryJoined, quiet
<1>21. CASE QueryNotJoined(p)
  BY <1>21, <1>e
  DEF QueryNotJoined, HardExit
<1>22. CASE Quit(p)
  BY <1>22, <1>e, <1>t
  DEF Quit, HardExit, quiet
<1>23. CASE CloseServer(p)
  BY <1>23, <1>t
  DEF CloseServer, rest
<1>24. CASE Unlock(p)
  BY <1>24, <1>t
  DEF Unlock, rest
<1>25. CASE ExecReturns(p)
  BY <1>25, <1>e, <1>t
  DEF ExecReturns, rest
<1>26. CASE EraseMarker(p)
  BY <1>26, <1>e
  DEF EraseMarker
<1>27. CASE ReadShow(p)
  BY <1>27, <1>t
  DEF ReadShow, rest, GuiType
<1>28. CASE FinishStartup(p)
  BY <1>28, <1>t
  DEF FinishStartup, rest, GuiType
<1>29. CASE OpenOffice(p)
  BY <1>29, <1>t
  DEF OpenOffice, frame, Stage, WorkerType
<1>30. CASE OfficeOpened(p)
  BY <1>30, <1>t
  DEF OfficeOpened, frame, Stage, WorkerType, OfficeType, NewOffice
<1>31. CASE CallReturns(p)
  BY <1>31, <1>t
  DEF CallReturns, frame, Stage, WorkerType
<1>32. CASE Protect(p)
  BY <1>32, <1>t
  DEF Protect, frame, Stage, WorkerType
<1>33. CASE Unprotect(p)
  BY <1>33, <1>t
  DEF Unprotect, frame, Stage, WorkerType
<1>34. CASE WorkerEnds(p)
  BY <1>34, <1>t
  DEF WorkerEnds, frame, WorkerType, OfficeType, NewOffice
<1>35. CASE HelperSweep(p)
  BY <1>35, <1>t
  DEF HelperSweep, calm, OfficeType
<1>36. CASE HelperCheck(p)
  BY <1>36, <1>t
  DEF HelperCheck, calm
<1>37. CASE HelperGivesUp(p)
  BY <1>37, <1>t
  DEF HelperGivesUp, calm
<1>38. CASE InitFails(p)
  BY <1>38, <1>t
  DEF InitFails
<1>39. CASE QtRaises(p)
  BY <1>39, <1>t
  DEF QtRaises, Sweep, LeaveType
<1>40. CASE SweepRaises(p)
  BY <1>40, <1>t
  DEF SweepRaises, LeaveType
<1>41. CASE StatusRaises(p)
  BY <1>41, <1>e
  DEF StatusRaises
<1>42. CASE Crash(p)
  BY <1>42, <1>e
  DEF Crash
<1>43. CASE Start(p)
  BY <1>43, <1>t
  DEF Start, inner
<1>44. CASE HideToTray(p)
  BY <1>44, <1>t
  DEF HideToTray, rest, GuiType
<1>45. CASE QueryEnds(p)
  BY <1>45, <1>t
  DEF QueryEnds
<1>46. CASE BeginShutdown(p)
  <2>1. leave'[p].job = worker[p].job /\ (leave'[p].gate \/ leave'[p].bad)
    <3>1. CASE leave' = [leave EXCEPT ![p] = [NewLeave EXCEPT !.gate = TRUE, !.job = worker[p].job]]
      BY <1>t, <3>1 DEF NewLeave
    <3>2. CASE \E raises \in {"query", "gate"} :
              leave' = [leave EXCEPT ![p] = [NewLeave EXCEPT !.gate = raises # "gate",
                            !.job = worker[p].job, !.bad = raises = "gate", !.open = raises = "query"]]
      <4>1. PICK raises \in {"query", "gate"} :
              leave' = [leave EXCEPT ![p] = [NewLeave EXCEPT !.gate = raises # "gate",
                            !.job = worker[p].job, !.bad = raises = "gate", !.open = raises = "query"]]
        BY <3>2
      <4>2. leave'[p] = [NewLeave EXCEPT !.gate = raises # "gate", !.job = worker[p].job,
                                         !.bad = raises = "gate", !.open = raises = "query"]
        BY <1>t, <4>1
      <4> QED
        BY <4>2 DEF NewLeave
    <3> QED
      BY <1>46, <3>1, <3>2 DEF BeginShutdown
  <2>2. pc[p] = "run" /\ pc'[p] = "stop" /\ UNCHANGED <<worker, office, helper>>
    BY <1>46, <1>t DEF BeginShutdown
  <2> QED
    BY <2>1, <2>2, <1>t DEF WorkerType
<1>47. ASSUME NEW job \in BOOLEAN, StartCycle(p, job) PROVE Left(p)'
  BY <1>47, <1>t DEF StartCycle, frame, NewWorker
<1> QED
  BY <1>1, <1>2, <1>3, <1>4, <1>5, <1>6, <1>7, <1>8, <1>9, <1>10, <1>11, <1>12, <1>13, <1>14, <1>15, <1>16, <1>17, <1>18, <1>19, <1>20, <1>21, <1>22, <1>23, <1>24, <1>25, <1>26, <1>27, <1>28, <1>29, <1>30, <1>31, <1>32, <1>33, <1>34, <1>35, <1>36, <1>37, <1>38, <1>39, <1>40, <1>41, <1>42, <1>43, <1>44, <1>45, <1>46, <1>47
  DEF Step, Gui, Open, Begin, Wait, Decide, Collect, Help, Raises, Use

LEMMA LeavingStep == TypeOK /\ Leaving /\ [Next]_vars => Leaving'
<1> SUFFICES ASSUME TypeOK, Leaving, [Next]_vars, NEW p \in Procs PROVE Left(p)'
  BY DEF Leaving
<1>0. Left(p)
  BY DEF Leaving
<1>s. ASSUME /\ pc'[p] = pc[p] /\ gui'[p] = gui[p] /\ worker'[p] = worker[p]
             /\ office'[p] = office[p] /\ query'[p] = query[p]
             /\ leave'[p] = leave[p] /\ helper'[p] = helper[p]
      PROVE  Left(p)'
  BY <1>0, <1>s DEF Left, Young, OnlyCycles, QueryWaited, SafeStays, GoodExit, At, Running, Late
<1>1. ASSUME NEW q \in Procs, Step(q) PROVE Left(p)'
  <2>1. CASE q = p
    BY <1>0, <1>1, <2>1, LeftStep
  <2>2. CASE q # p
    BY <1>1, <1>s, <2>2, Others
  <2> QED
    BY <2>1, <2>2
<1>2. CASE UNCHANGED vars
  BY <1>2, <1>s DEF vars
<1> QED
  BY <1>1, <1>2 DEF Next, Step

\* A process that quits leaves no thread, query or sweep running, the Office gate
\* closed, and no Office process of its own that no sweep has tried.
THEOREM QuitLeavesNothing == Spec => []QuitIsClean
<1>1. TypeOK /\ Leaving => QuitIsClean
  <2> SUFFICES ASSUME TypeOK, Leaving, NEW p \in Procs, pc[p] \in Closing, gui[p].started
               PROVE  /\ ~Running(p) /\ ~worker[p].torn /\ ~query[p]
                      /\ helper[p] = "safe" /\ leave[p].gate /\ ~Late(p)
    BY DEF QuitIsClean
  <2>1. Left(p)
    BY DEF Leaving
  <2> QED
    BY <2>1 DEF Left, OnlyCycles, QueryWaited, SafeStays, GoodExit, Closing, Exiting
<1> QED
  BY <1>1, TypeInit, TypeStep, LeavingInit, LeavingStep, PTL DEF Spec

\* Only a cycle's thread is ever cut, after Office was swept, and then the process
\* leaves hard.
THEOREM CutOnlyCycles == Spec => []CutShort
<1>1. Leaving => CutShort
  BY DEF Leaving, Left, OnlyCycles, CutShort
<1> QED
  BY <1>1, TypeInit, TypeStep, LeavingInit, LeavingStep, PTL DEF Spec
=============================================================================
