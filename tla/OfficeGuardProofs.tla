------------------------- MODULE OfficeGuardProofs -------------------------
(* Proofs about OfficeGuard: the types with the count of the gate, then that *)
(* no Word of ours is forgotten, that no cleanup ends a process of the user, *)
(* that a watchdog fires for its own call only, and that the guard tells the *)
(* user's Word from ours.                                                    *)
EXTENDS OfficeGuard, Integers, TLAPS

App    == [pid : Pids, id : Instances]
Rec    == [id : Instances, pending : BOOLEAN]
Recs   == [Pids -> Rec]
Lists  == [ok : BOOLEAN, of : [Pids -> Instances]]
Job    == [at : {"idle", "gate", "list", "kill"}, recs : Recs, list : Lists, bad : BOOLEAN]
Work   == [then : Ensuring \cup {"idle"}, app : App, base : SUBSET Pids, list : Lists, recs : Recs,
           id : Instances, tries : Nat, external : SUBSET Pids,
           out : {"ok", "busy", "poison"}, fired : BOOLEAN]
Points == Ensuring \cup Registering \cup Calls \cup
          {"idle", "retry", "look", "looked", "judge", "decide", "consume", "baseline", "create",
           "publish", "disarm", "recover", "recovering", "quitcall", "quithung", "grace", "quitting"}

Typed ==
    /\ proc \in [Pids -> Instances]
    /\ kind \in Seq({"ours", "user", "other"}) /\ Len(kind) <= MaxStarts
    /\ owned \in Recs
    /\ unverified \in BOOLEAN /\ inflight \in Int /\ cooling \in BOOLEAN /\ closing \in BOOLEAN
    /\ cache \in Lists /\ moved \in BOOLEAN
    /\ pc \in Points /\ w \in Work /\ app \in App /\ kept \in BOOLEAN /\ poisoned \in BOOLEAN
    /\ active \in BOOLEAN /\ callbacks \in SUBSET {"present", "earlier"} /\ quitTimer \in BOOLEAN
    /\ job \in [Threads -> Job]
    /\ pc = "retry" => w.then \in Ensuring
    /\ app = NoApp \/ app.id # 0
    /\ pc = "publish" => w.app.id # 0
    /\ pc \in {"confirm", "confirmed", "commit"} => w.id # 0

(* The count of the gate is that of the cleanups under way, each thread has  *)
(* at most one, and the quit watchdog has a gate of its own around its own.  *)
Held(t)  == IF job[t].at \in {"list", "kill"} THEN 1 ELSE 0
Around   == IF job["quit"].at # "idle" THEN 1 ELSE 0
GatesCounted ==
    /\ inflight = Held("worker") + Held("watchdog") + Held("quit") + Around
    /\ job["worker"].at # "idle" => pc \in {"retry", "recovering", "quitting"}
    /\ quitTimer => job["quit"].at = "idle"

(* Numbers of instances are of instances that were started, and every record *)
(* ever made, wherever it was copied, is of a Word of ours.                  *)
Started(l) == \A p \in Pids : l.of[p] <= Len(kind)
OfOurs(r)  == \A p \in Pids : r[p] # NoRec => r[p].id \in 1..Len(kind) /\ kind[r[p].id] = "ours"
Numbered ==
    /\ \A p \in Pids : proc[p] <= Len(kind)
    /\ Started(cache) /\ Started(w.list) /\ \A t \in Threads : Started(job[t].list)
    /\ OfOurs(owned) /\ OfOurs(w.recs) /\ \A t \in Threads : OfOurs(job[t].recs)

(* While a Word of ours is being registered it is the only one that can be   *)
(* ours under its pid, and what is about to be recorded is its number.       *)
OursAt(p) == proc[p] # 0 /\ kind[proc[p]] = "ours"
Registered ==
    /\ pc \in Registering => /\ w.app.id \in 1..Len(kind) /\ kind[w.app.id] = "ours"
                             /\ OursAt(w.app.pid) => proc[w.app.pid] = w.app.id
                             /\ pc = "confirm" /\ Running(w.app) => w.id = w.app.id
                             /\ pc \in {"confirmed", "commit"} => w.id = w.app.id
    /\ pc \in Registering \cup {"create"} /\ kept => unverified

(* A cleanup that did not find a process in its list takes one for gone that *)
(* really is.                                                                *)
Accounted ==
    /\ OursAccounted
    /\ \A t \in Threads : job[t].at = "kill" =>
          \A p \in Pids : job[t].recs[p] # NoRec /\ job[t].list.of[p] = 0 => proc[p] # job[t].recs[p].id

InCall == Points \ {"idle", "file", "retry", "recover", "recovering", "quitcall", "quithung", "grace", "quitting"}
Armed ==
    /\ OnlyOwnTimeout
    /\ job["watchdog"].at # "idle" => active
    /\ active => pc \in InCall \/ (pc = "retry" /\ w.then # "file")

Known(l) == \A p \in Pids :
    l.of[p] # 0 /\ kind[l.of[p]] = "ours" => owned[p].id = l.of[p] \/ unverified
Judged ==
    /\ Known(cache)
    /\ pc \in {"looked", "judge", "decide"} /\ ~moved => Known(w.list)
    /\ pc \in {"judge", "decide"} /\ ~moved => w.recs = owned
    /\ pc = "decide" => w.external \subseteq Listed(w.list)
    /\ pc = "decide" => \A p \in Listed(w.list) \ w.external :
          w.recs[p] # NoRec /\ (proc[p] = w.list.of[p] => proc[p] = w.recs[p].id)
Spoken == w.out # "ok" => pc = "disarm"
-----------------------------------------------------------------------------
(* Types.                                                                    *)

\* The values the model starts from have their types.
LEMMA Values ==
    /\ NoRec \in Rec /\ NoRecs \in Recs /\ NoList \in Lists /\ NoApp \in App
    /\ Idle \in Job /\ NoWork \in Work
    /\ \A p \in Pids : NoRecs[p] = NoRec /\ NoList.of[p] = 0
<1>1. Pids # {} /\ 0 \in Instances
  BY ConstantsAssumption DEF ConstantsAssumption, Instances
<1>2. NoRec \in Rec /\ NoRecs \in Recs /\ NoList \in Lists /\ NoApp \in App
  BY <1>1 DEF NoRec, Rec, NoRecs, Recs, NoList, Lists, NoApp, App
<1>3. Idle \in Job
  BY <1>2 DEF Idle, Job
<1>4. NoWork \in Work
  BY <1>1, <1>2 DEF NoWork, Work
<1>5. \A p \in Pids : NoRecs[p] = NoRec /\ NoList.of[p] = 0
  BY DEF NoRecs, NoList
<1> QED
  BY <1>2, <1>3, <1>4, <1>5

\* A listing names, of every pid, the Word that runs under it.
LEMMA ListingType ==
    ASSUME proc \in [Pids -> Instances]
    PROVE  /\ Listing \in Lists /\ Listing.ok
           /\ \A p \in Pids : Listing.of[p] = IF Word(p) THEN proc[p] ELSE 0
BY ConstantsAssumption DEF Listing, Lists, Instances, ConstantsAssumption

\* What a change of the table of records may keep: the same instances, recorded
\* under the same pids.
SameOwners ==
    /\ owned' \in Recs
    /\ \A p \in Pids : owned'[p].id = owned[p].id /\ (owned'[p] = NoRec <=> owned[p] = NoRec)
Epoch == StateChanged \/ (NoChange /\ UNCHANGED owned)

LEMMA Pendings ==
    ASSUME NEW r \in Rec, NEW b \in BOOLEAN
    PROVE  /\ [r EXCEPT !.pending = b] = [id |-> r.id, pending |-> b]
           /\ [r EXCEPT !.pending = b] \in Rec
           /\ (b = TRUE <=> r # NoRec) => ([r EXCEPT !.pending = b] = NoRec <=> r = NoRec)
<1>1. [r EXCEPT !.pending = b] = [id |-> r.id, pending |-> b]
  BY DEF Rec
<1>2. [id |-> r.id, pending |-> b] \in Rec
  BY DEF Rec
<1>3. CASE b = TRUE
  BY <1>1, <1>2, <1>3 DEF NoRec
<1>4. CASE b = FALSE
  <2>0. NoRec.id = 0
    BY DEF NoRec
  <2>1. r = NoRec => [id |-> r.id, pending |-> b] = NoRec
    <3> SUFFICES ASSUME r = NoRec PROVE [id |-> r.id, pending |-> b] = NoRec
      OBVIOUS
    <3>1. r.id = 0
      BY <2>0
    <3> QED
      BY <1>4, <3>1 DEF NoRec
  <2> QED
    BY <1>1, <1>2, <1>4, <2>1
<1> QED
  BY <1>3, <1>4

LEMMA Begun ==
    ASSUME owned \in Recs,
           owned' = [p \in Pids |-> [owned[p] EXCEPT !.pending = owned[p] # NoRec]]
    PROVE  SameOwners
<1>1. ASSUME NEW p \in Pids
      PROVE  /\ owned'[p] \in Rec /\ owned'[p].id = owned[p].id
             /\ owned'[p] = NoRec <=> owned[p] = NoRec
  <2> DEFINE b == owned[p] # NoRec
  <2>1. owned[p] \in Rec /\ owned'[p] = [owned[p] EXCEPT !.pending = b] /\ b \in BOOLEAN
    BY DEF Recs
  <2>2. b = TRUE <=> owned[p] # NoRec
    OBVIOUS
  <2> HIDE DEF b
  <2>3. /\ owned'[p] = [id |-> owned[p].id, pending |-> b] /\ owned'[p] \in Rec
        /\ owned'[p] = NoRec <=> owned[p] = NoRec
    BY <2>1, <2>2, Pendings
  <2> QED
    BY <2>3
<1>2. owned' \in Recs
  BY <1>1 DEF Recs
<1> QED
  BY <1>1, <1>2 DEF SameOwners

LEMMA CleanupBegun ==
    ASSUME owned \in Recs, cache \in Lists, moved \in BOOLEAN, BeginOwnedCleanup
    PROVE  SameOwners /\ Epoch /\ cache' \in Lists /\ moved' \in BOOLEAN
BY Begun, Values DEF BeginOwnedCleanup, Epoch, StateChanged, NoChange

LEMMA Marked ==
    ASSUME owned \in Recs, cache \in Lists, moved \in BOOLEAN, NEW a \in App, a.id # 0,
           MarkPending(a)
    PROVE  SameOwners /\ Epoch /\ cache' \in Lists /\ moved' \in BOOLEAN
<1>1. a.pid \in Pids
  BY DEF App
<1>2. CASE owned[a.pid] = [id |-> a.id, pending |-> FALSE]
  <2>1. owned' = [owned EXCEPT ![a.pid].pending = TRUE] /\ StateChanged
    BY <1>2 DEF MarkPending
  <2>2. owned[a.pid] \in Rec
    BY <1>1 DEF Recs
  <2>3. [owned[a.pid] EXCEPT !.pending = TRUE] = [id |-> owned[a.pid].id, pending |-> TRUE]
    BY <2>2, Pendings
  <2>4. owned' = [owned EXCEPT ![a.pid] = [id |-> owned[a.pid].id, pending |-> TRUE]]
    BY <2>1, <2>3, <1>1
  <2>5. [id |-> owned[a.pid].id, pending |-> TRUE] \in Rec
    BY <2>2 DEF Rec
  <2>6. \A p \in Pids : owned'[p] = IF p = a.pid THEN [id |-> owned[p].id, pending |-> TRUE] ELSE owned[p]
    BY <1>1, <2>4 DEF Recs
  <2>7. owned' \in Recs
    BY <1>1, <2>4, <2>5 DEF Recs
  <2>8. owned'[a.pid] # NoRec /\ owned[a.pid] # NoRec
    <3>1. owned[a.pid].id = a.id /\ owned'[a.pid].id = a.id
      <4>1. owned[a.pid].id = a.id
        BY <1>2
      <4>2. owned'[a.pid] = [id |-> owned[a.pid].id, pending |-> TRUE]
        BY <1>1, <2>6
      <4> QED
        BY <4>1, <4>2
    <3>2. NoRec.id = 0
      BY DEF NoRec
    <3> QED
      BY <3>1, <3>2
  <2> QED
    BY <2>1, <2>6, <2>7, <2>8, Values DEF SameOwners, Epoch, StateChanged
<1>3. CASE owned[a.pid] # [id |-> a.id, pending |-> FALSE]
  BY <1>3 DEF MarkPending, SameOwners, Epoch, NoChange
<1> QED
  BY <1>2, <1>3

\* What letting go of a step, with or without an error, leaves of the worker.
LEMMA Raised ==
    ASSUME NEW out \in {"ok", "busy", "poison"}, Raise(out)
    PROVE  /\ w' \in Work /\ pc' = "disarm"
           /\ w'.app = NoApp /\ w'.recs = NoRecs /\ w'.list = NoList /\ w'.out = out
<1>1. w' = [NoWork EXCEPT !.out = out] /\ NoWork \in Work /\ pc' = "disarm"
  BY Values DEF Raise
<1>2. NoWork.app = NoApp /\ NoWork.recs = NoRecs /\ NoWork.list = NoList
  BY DEF NoWork
<1> QED
  BY <1>1, <1>2 DEF Work

LEMMA Restarts ==
    NoWork.app = NoApp /\ NoWork.recs = NoRecs /\ NoWork.list = NoList /\ NoWork.then = "idle" /\ NoApp.id = 0
BY DEF NoWork, NoApp

LEMMA JobStarts ==
    ASSUME job \in [Threads -> Job], NEW t \in Threads, NEW recs \in Recs, StartJob(t, recs)
    PROVE  /\ job' \in [Threads -> Job]
           /\ job'[t].at = "gate" /\ job'[t].recs = recs /\ job'[t].list = NoList
           /\ \A u \in Threads \ {t} : job'[u] = job[u]
<1> DEFINE new == [Idle EXCEPT !.at = "gate", !.recs = recs]
<1>1. Idle \in Job /\ Idle.list = NoList
  BY Values DEF Idle
<1>2. new \in Job /\ new.at = "gate" /\ new.recs = recs /\ new.list = NoList
  BY <1>1 DEF Job
<1>3. job' = [job EXCEPT ![t] = new]
  BY DEF StartJob
<1> HIDE DEF new
<1> QED
  BY <1>2, <1>3

\* The steps of a cleanup, by what they do to its record.
LEMMA GateCloses ==
    ASSUME job \in [Threads -> Job], NEW t \in Threads, CloseGate(t)
    PROVE  /\ job' \in [Threads -> Job] /\ job'[t].at = "list"
           /\ job'[t].recs = job[t].recs /\ job'[t].list = job[t].list
           /\ \A u \in Threads \ {t} : job'[u] = job[u]
<1>1. job[t] \in Job /\ job' = [job EXCEPT ![t] = [job[t] EXCEPT !.at = "list"]]
  BY DEF CloseGate
<1>2. /\ [job[t] EXCEPT !.at = "list"] \in Job /\ [job[t] EXCEPT !.at = "list"].at = "list"
      /\ [job[t] EXCEPT !.at = "list"].recs = job[t].recs /\ [job[t] EXCEPT !.at = "list"].list = job[t].list
  BY <1>1 DEF Job
<1> QED
  BY <1>1, <1>2

LEMMA JobLists ==
    ASSUME proc \in [Pids -> Instances], job \in [Threads -> Job], NEW t \in Threads, List(t)
    PROVE  /\ job' \in [Threads -> Job] /\ job'[t].at = "kill"
           /\ \/ job'[t].recs = job[t].recs /\ job'[t].list = Listing
              \/ job'[t].recs = NoRecs /\ job'[t].list = NoList
           /\ \A u \in Threads \ {t} : job'[u] = job[u]
<1>1. PICK l \in {Listing, NoList} :
         job' = [job EXCEPT ![t].at = "kill", ![t].list = l, ![t].bad = ~l.ok,
                            ![t].recs = IF l.ok THEN @ ELSE NoRecs]
  BY DEF List
<1> DEFINE bad == ~l.ok
           recs == IF l.ok THEN job[t].recs ELSE NoRecs
           new == [job[t] EXCEPT !.at = "kill", !.list = l, !.bad = bad, !.recs = recs]
<1>2. job[t] \in Job /\ l \in Lists /\ NoRecs \in Recs
  BY Values, ListingType
<1>3. bad \in BOOLEAN /\ recs \in Recs
  BY <1>2 DEF Job, Lists
<1>4. job' = [job EXCEPT ![t] = new]
  BY <1>1
<1>5. \/ recs = job[t].recs /\ l = Listing
      \/ recs = NoRecs /\ l = NoList
  <2>1. Listing.ok /\ ~NoList.ok
    BY ListingType DEF NoList
  <2> QED
    BY <2>1
<1> HIDE DEF bad, recs
<1>6. new \in Job /\ new.at = "kill" /\ new.list = l /\ new.recs = recs
  BY <1>2, <1>3 DEF Job
<1> HIDE DEF new
<1> QED
  BY <1>4, <1>5, <1>6

LEMMA JobKills ==
    ASSUME job \in [Threads -> Job], NEW t \in Threads, NEW p \in Pids, Kill(t, p)
    PROVE  /\ job' \in [Threads -> Job] /\ job[t].at = "kill" /\ job'[t].at = "kill" /\ job'[t].list = job[t].list
           /\ \A q \in Pids : job'[t].recs[q] = IF q = p THEN NoRec ELSE job[t].recs[q]
           /\ \A u \in Threads \ {t} : job'[u] = job[u]
<1>1. job' = [job EXCEPT ![t].recs[p] = NoRec, ![t].bad = @ \/ owned'[p] = owned[p]]
  BY DEF Kill
<1> DEFINE bad == job[t].bad \/ owned'[p] = owned[p]
           recs == [job[t].recs EXCEPT ![p] = NoRec]
           new == [job[t] EXCEPT !.recs = recs, !.bad = bad]
<1>2. job[t] \in Job /\ job[t].at = "kill"
  BY DEF Kill
<1>3. bad \in BOOLEAN
  BY <1>2 DEF Job
<1>4. recs \in Recs /\ \A q \in Pids : recs[q] = IF q = p THEN NoRec ELSE job[t].recs[q]
  BY <1>2, Values DEF Job, Recs
<1>5. job' = [job EXCEPT ![t] = new]
  BY <1>1
<1> HIDE DEF bad, recs
<1>6. new \in Job /\ new.at = "kill" /\ new.list = job[t].list /\ new.recs = recs
  BY <1>2, <1>3, <1>4 DEF Job
<1> HIDE DEF new
<1> QED
  BY <1>2, <1>4, <1>5, <1>6

LEMMA GateOpened ==
    ASSUME job \in [Threads -> Job], NEW t \in Threads, OpenGate(t)
    PROVE  /\ job' \in [Threads -> Job] /\ job'[t].at = "idle" /\ job'[t].recs = NoRecs /\ job'[t].list = NoList
           /\ \A u \in Threads \ {t} : job'[u] = job[u]
<1> DEFINE bad == job[t].bad /\ t = "worker" /\ pc = "recovering"
           new == [Idle EXCEPT !.bad = bad]
<1>1. job' = [job EXCEPT ![t] = new]
  BY DEF OpenGate
<1>2. Idle \in Job /\ Idle.at = "idle" /\ Idle.recs = NoRecs /\ Idle.list = NoList /\ job[t].bad \in BOOLEAN
  BY Values DEF Idle, Job
<1>3. bad \in BOOLEAN
  BY <1>2
<1> HIDE DEF bad
<1>4. new \in Job /\ new.at = "idle" /\ new.recs = NoRecs /\ new.list = NoList
  BY <1>2, <1>3 DEF Job
<1> HIDE DEF new
<1> QED
  BY <1>1, <1>4

LEMMA TypedInit == Init => Typed
<1> SUFFICES ASSUME Init PROVE Typed
  OBVIOUS
<1>1. 0 \in Instances /\ MaxStarts \in Nat
  BY ConstantsAssumption DEF ConstantsAssumption, Instances
<1>2. proc \in [Pids -> Instances]
  BY <1>1 DEF Init
<1>3. kind \in Seq({"ours", "user", "other"}) /\ Len(kind) <= MaxStarts
  BY <1>1 DEF Init
<1>4. pc = "idle" /\ pc \in Points
  BY DEF Init, Points
<1>5. job \in [Threads -> Job]
  BY Values DEF Init
<1> QED
  <2>1. owned \in Recs /\ cache \in Lists /\ w \in Work /\ app \in App /\ app = NoApp
    BY Values DEF Init
  <2>2. inflight = 0 /\ callbacks = {}
    BY DEF Init
  <2>3. {} \in SUBSET {"present", "earlier"}
    OBVIOUS
  <2>4. /\ unverified \in BOOLEAN /\ cooling \in BOOLEAN /\ closing \in BOOLEAN /\ moved \in BOOLEAN
        /\ kept \in BOOLEAN /\ poisoned \in BOOLEAN /\ active \in BOOLEAN /\ quitTimer \in BOOLEAN
    BY DEF Init
  <2> QED
    BY <1>2, <1>3, <1>4, <1>5, <2>1, <2>2, <2>3, <2>4 DEF Typed

LEMMA TypedStep == Typed /\ [Next]_vars => Typed'
<1> SUFFICES ASSUME Typed, [Next]_vars PROVE Typed'
  OBVIOUS
<1>t. /\ proc \in [Pids -> Instances] /\ kind \in Seq({"ours", "user", "other"}) /\ Len(kind) <= MaxStarts
      /\ owned \in Recs /\ unverified \in BOOLEAN /\ inflight \in Int
      /\ cooling \in BOOLEAN /\ closing \in BOOLEAN /\ cache \in Lists /\ moved \in BOOLEAN
      /\ pc \in Points /\ w \in Work /\ app \in App /\ kept \in BOOLEAN /\ poisoned \in BOOLEAN
      /\ active \in BOOLEAN /\ callbacks \in SUBSET {"present", "earlier"} /\ quitTimer \in BOOLEAN
      /\ job \in [Threads -> Job]
      /\ pc = "retry" => w.then \in Ensuring
      /\ app = NoApp \/ app.id # 0
      /\ pc = "publish" => w.app.id # 0
      /\ pc \in {"confirm", "confirmed", "commit"} => w.id # 0
  BY DEF Typed
<1>v. /\ NoRecs \in Recs /\ NoList \in Lists /\ NoApp \in App /\ NoWork \in Work /\ Idle \in Job
      /\ NoRec \in Rec /\ 0 \in Instances /\ MaxStarts \in Nat
  BY Values, ConstantsAssumption DEF ConstantsAssumption, Instances
<1>w. /\ w.app \in App /\ w.list \in Lists /\ w.recs \in Recs /\ w.id \in Instances /\ w.tries \in Nat
      /\ w.base \in SUBSET Pids /\ w.external \in SUBSET Pids /\ w.then \in Ensuring \cup {"idle"}
      /\ w.out \in {"ok", "busy", "poison"}
  BY <1>t DEF Work
<1>l. Listing \in Lists
  BY <1>t, ListingType
<1> USE DEF os, guard, tls, timers
\* What the system and the thread of a cleanup leave of the worker.
<1>os. ASSUME proc' \in [Pids -> Instances], kind' \in Seq({"ours", "user", "other"}), Len(kind') <= MaxStarts,
              UNCHANGED <<guard, pc, w, tls, timers, job>>
       PROVE  Typed'
  BY <1>os, <1>t DEF Typed
<1>st. ASSUME NEW k \in {"ours", "user", "other"}, NEW p \in Pids, Starts(k, p)
       PROVE  /\ proc' \in [Pids -> Instances] /\ kind' \in Seq({"ours", "user", "other"})
              /\ Len(kind') <= MaxStarts /\ Len(kind) + 1 \in Instances
  BY <1>st, <1>t, <1>v DEF Starts, Instances
<1>e. ASSUME NEW p \in Pids, Ends(p) PROVE Typed'
  <2>1. proc' \in [Pids -> Instances]
    BY <1>e, <1>t, <1>v DEF Ends
  <2> QED
    BY <1>e, <2>1, <1>t DEF Ends, Typed
<1>1. CASE UserOpens
  <2>1. PICK p \in Pids, k \in {"user", "other"} : Starts(k, p)
    BY <1>1 DEF UserOpens
  <2> QED
    BY <1>1, <2>1, <1>st, <1>os DEF UserOpens
<1>2. CASE UserCloses
  BY <1>2, <1>e DEF UserCloses
<1>3. CASE Released
  BY <1>3, <1>e DEF Released
<1>4. CASE OursDies
  BY <1>4, <1>e DEF OursDies
<1>5. CASE CoolsDown
  BY <1>5, <1>t DEF CoolsDown, Typed
<1>6. CASE Expires
  BY <1>6, <1>t, <1>v DEF Expires, Typed
<1>7. CASE BeginApplicationShutdown
  BY <1>7, <1>t DEF BeginApplicationShutdown, Typed
\* Cleanups.
<1>8. ASSUME NEW t \in Threads, CloseGate(t) PROVE Typed'
  <2>1. job' \in [Threads -> Job]
    BY <1>8, <1>t, GateCloses
  <2> QED
    BY <1>8, <2>1, <1>t, <1>v DEF CloseGate, StateChanged, Typed
<1>9. ASSUME NEW t \in Threads, List(t) PROVE Typed'
  <2>1. job' \in [Threads -> Job]
    BY <1>9, <1>t, JobLists
  <2> QED
    BY <1>9, <2>1, <1>t DEF List, Typed
<1>10. ASSUME NEW t \in Threads, OpenGate(t) PROVE Typed'
  <2>1. job' \in [Threads -> Job]
    BY <1>10, <1>t, GateOpened
  <2> QED
    BY <1>10, <2>1, <1>t, <1>v DEF OpenGate, StateChanged, Typed
<1>11. ASSUME NEW t \in Threads, NEW p \in Pids, Kill(t, p) PROVE Typed'
  <2>1. /\ proc' \in [Pids -> Instances] /\ owned' \in Recs /\ cache' \in Lists /\ moved' \in BOOLEAN
        /\ UNCHANGED <<unverified, inflight, cooling, closing>>
    BY <1>11, <1>t, <1>v DEF Kill, TerminateAndConfirm, Remove, StateChanged, Recs
  <2>2. job' \in [Threads -> Job]
    BY <1>11, <1>t, JobKills
  <2> QED
    BY <1>11, <2>1, <2>2, <1>t DEF Kill, Typed
<1>12. CASE Fire
  <2>1. PICK c \in callbacks :
           /\ callbacks' = callbacks \ {c}
           /\ IF ~Valid(c) THEN UNCHANGED <<owned, moved, cache, active, job>>
              ELSE /\ BeginOwnedCleanup
                   /\ IF owned' = NoRecs THEN active' = FALSE /\ UNCHANGED job
                      ELSE StartJob("watchdog", owned') /\ UNCHANGED active
    BY <1>12 DEF Fire
  <2>2. /\ owned' \in Recs /\ moved' \in BOOLEAN /\ cache' \in Lists /\ active' \in BOOLEAN
        /\ job' \in [Threads -> Job]
    BY <2>1, <1>t, CleanupBegun, JobStarts DEF SameOwners, Threads
  <2> QED
    BY <1>12, <2>1, <2>2, <1>t DEF Fire, Typed
<1>13. CASE QuitFires
  <2>1. w' \in Work /\ job' \in [Threads -> Job] /\ w'.then = w.then /\ w'.app = w.app /\ w'.id = w.id
    BY <1>13, <1>t, <1>w, JobStarts DEF QuitFires, Work, Threads
  <2>2. inflight' \in Int /\ quitTimer' \in BOOLEAN /\ cache' \in Lists /\ moved' \in BOOLEAN
    <3>1. inflight' = inflight + 1 /\ quitTimer' = FALSE /\ cache' = NoList /\ moved' = TRUE
      BY <1>13 DEF QuitFires, StateChanged
    <3>2. inflight + 1 \in Int
      BY <1>t
    <3> QED
      BY <3>1, <3>2, <1>v
  <2> QED
    BY <1>13, <2>1, <2>2, <1>t DEF QuitFires, Typed
\* The worker.
<1>r. ASSUME NEW out \in {"ok", "busy", "poison"}, Raise(out)
      PROVE  w' \in Work /\ pc' \in Points /\ pc' = "disarm"
  BY <1>r, Raised DEF Points
<1>14. CASE Disarm
  BY <1>14, <1>t, <1>v DEF Disarm, Typed, Points
<1>p. ASSUME NEW k \in Ensuring, Proceed(k)
      PROVE  /\ w' \in Work /\ pc' \in {"guard", "look", "consume", "baseline"} /\ pc' \in Points
             /\ active' \in BOOLEAN /\ callbacks' \in SUBSET {"present", "earlier"}
  BY <1>p, <1>t, <1>v DEF Proceed, After, Ensuring, Points
<1>15. CASE Ensure
  <2>1. /\ unverified' \in BOOLEAN /\ cache' \in Lists /\ moved' \in BOOLEAN
        /\ UNCHANGED <<os, owned, inflight, closing, tls, quitTimer>>
    BY <1>15, <1>t, <1>v DEF Ensure, StateChanged, NoChange
  <2>2. CASE Refused /\ UNCHANGED <<cooling, active, callbacks, job>>
    BY <2>1, <2>2, <1>r, <1>t DEF Refused, Typed, Points, Ensuring
  <2>3. CASE Proceed(pc) /\ UNCHANGED <<cooling, job>>
    <3>1. pc \in Ensuring
      BY <1>15 DEF Ensure
    <3> QED
      BY <2>1, <2>3, <3>1, <1>p, <1>t DEF Typed
  <2>4. CASE /\ cooling' = TRUE
             /\ StartJob("worker", [p \in Pids |-> IF owned[p].pending THEN owned[p] ELSE NoRec])
             /\ w' = [w EXCEPT !.then = pc] /\ pc' = "retry" /\ UNCHANGED <<active, callbacks>>
    <3>1. pc \in Ensuring
      BY <1>15 DEF Ensure
    <3>2. w' \in Work /\ w'.then = pc
      BY <2>4, <3>1, <1>t DEF Work
    <3>3. [p \in Pids |-> IF owned[p].pending THEN owned[p] ELSE NoRec] \in Recs
      BY <1>t, <1>v DEF Recs
    <3>4. job' \in [Threads -> Job]
      BY <2>4, <3>3, <1>t, JobStarts DEF Threads
    <3> QED
      BY <2>1, <2>4, <3>1, <3>2, <3>4, <1>t DEF Typed, Points
  <2> QED
    BY <1>15, <2>2, <2>3, <2>4 DEF Ensure
<1>16. CASE Retried
  <2>1. CASE pc' = "idle" /\ UNCHANGED <<active, callbacks, w>>
    BY <1>16, <2>1, <1>t DEF Retried, Typed, Points
  <2>2. CASE Raise("ok") /\ UNCHANGED <<active, callbacks>>
    BY <1>16, <2>2, <1>r, <1>t DEF Retried, Typed
  <2>3. CASE Proceed(w.then)
    BY <1>16, <2>3, <1>p, <1>t DEF Retried, Typed
  <2> QED
    BY <1>16, <2>1, <2>2, <2>3 DEF Retried
<1>17. CASE Take
  BY <1>17, <1>t DEF Take, Typed, Points, Ensuring
<1>18. CASE Look
  <2>1. CASE Raise("ok") /\ UNCHANGED moved
    BY <1>18, <2>1, <1>r, <1>t DEF Look, Typed
  <2>2. ASSUME NEW l \in {cache, Listing, NoList}, w' = [w EXCEPT !.list = l, !.tries = @ + 1],
               moved' = FALSE, pc' = "looked"
        PROVE  Typed'
    <3>1. w' \in Work
      <4>1. l \in Lists /\ w.tries + 1 \in Nat
        BY <2>2, <1>t, <1>v, <1>l, <1>w
      <4> QED
        BY <2>2, <4>1, <1>t DEF Work
    <3> QED
      BY <1>18, <2>2, <3>1, <1>t DEF Look, Typed, Points
  <2> QED
    BY <1>18, <2>1, <2>2 DEF Look
<1>19. CASE Looked
  <2>1. CASE pc' = "look" /\ UNCHANGED <<w, cache>>
    BY <1>19, <2>1, <1>t DEF Looked, Typed, Points
  <2>2. CASE /\ cache' = (IF w.list.ok THEN w.list ELSE cache)
             /\ w' = [w EXCEPT !.recs = owned] /\ pc' = "judge"
    <3>1. w' \in Work /\ cache' \in Lists
      BY <2>2, <1>t, <1>w DEF Work
    <3> QED
      BY <1>19, <2>2, <3>1, <1>t DEF Looked, Typed, Points
  <2> QED
    BY <1>19, <2>1, <2>2 DEF Looked
<1>20. CASE Judge
  <2>1. PICK external \in SUBSET Pids : w' = [w EXCEPT !.external = external]
    <3>1. \A S : {p \in Listed(w.list) : p \in S} \in SUBSET Pids
      BY DEF Listed
    <3>2. \E f : w' = [w EXCEPT !.external = {p \in Listed(w.list) : ~Proven(p, f[p])}]
      <4>1. PICK unknown : w' = [w EXCEPT !.external =
                  {p \in Listed(w.list) : ~Proven(p, IF p \in unknown THEN 0 ELSE proc[p])}]
        BY <1>20 DEF Judge
      <4>2. \A p \in Listed(w.list) :
               [q \in Pids |-> IF q \in unknown THEN 0 ELSE proc[q]][p] = IF p \in unknown THEN 0 ELSE proc[p]
        BY DEF Listed
      <4>3. {p \in Listed(w.list) : ~Proven(p, IF p \in unknown THEN 0 ELSE proc[p])}
            = {p \in Listed(w.list) :
                 ~Proven(p, [q \in Pids |-> IF q \in unknown THEN 0 ELSE proc[q]][p])}
        BY <4>2
      <4> QED
        BY <4>1, <4>3
    <3> QED
      BY <3>2 DEF Listed
  <2>2. w' \in Work
    BY <2>1, <1>t DEF Work
  <2> QED
    BY <1>20, <2>2, <1>t DEF Judge, Typed, Points
<1>21. CASE Decide
  <2>1. CASE \E out \in {"ok", "busy"} : Raise(out)
    BY <1>21, <2>1, <1>r, <1>t DEF Decide, Typed
  <2>2. CASE pc' = "look" /\ UNCHANGED w
    BY <1>21, <2>2, <1>t DEF Decide, Typed, Points
  <2>3. CASE pc' = "getter" /\ w' = NoWork
    BY <1>21, <2>3, <1>t, <1>v DEF Decide, Typed, Points, Ensuring
  <2> QED
    BY <1>21, <2>1, <2>2, <2>3 DEF Decide
<1>22. CASE Consume
  <2>1. CASE pc' = "dispatch" /\ UNCHANGED <<owned, moved, cache, app, w>>
    BY <1>22, <2>1, <1>t DEF Consume, Typed, Points, Ensuring
  <2>2. CASE pc' = "call" /\ w' = [w EXCEPT !.app = app] /\ UNCHANGED <<owned, moved, cache, app>>
    <3>1. w' \in Work
      BY <2>2, <1>t DEF Work
    <3> QED
      BY <1>22, <2>2, <3>1, <1>t DEF Consume, Typed, Points, Calls
  <2>3. CASE app # NoApp /\ app' = NoApp /\ MarkPending(app) /\ Raise("ok")
    <3>1. owned' \in Recs /\ cache' \in Lists /\ moved' \in BOOLEAN
      BY <2>3, <1>t, Marked DEF SameOwners
    <3> QED
      BY <1>22, <2>3, <3>1, <1>r, <1>t, <1>v DEF Consume, Typed
  <2> QED
    BY <1>22, <2>1, <2>2, <2>3 DEF Consume
<1>23. CASE Baseline
  <2>1. CASE closing /\ Raise("ok")
    BY <1>23, <2>1, <1>r, <1>t DEF Baseline, Typed
  <2>2. ASSUME NEW l \in {Listing, NoList}, pc' = "create", w' = [w EXCEPT !.base = Listed(l)]
        PROVE  Typed'
    <3>1. w' \in Work
      BY <2>2, <1>t DEF Work, Listed
    <3> QED
      BY <1>23, <2>2, <3>1, <1>t DEF Baseline, Typed, Points
  <2> QED
    BY <1>23, <2>1, <2>2 DEF Baseline
<1>24. CASE Create
  <2>1. ASSUME NEW p \in Pids, Starts("ours", p), pc' = "window",
               w' = [w EXCEPT !.app = [pid |-> p, id |-> Len(kind) + 1], !.tries = 0]
        PROVE  Typed'
    <3>1. [pid |-> p, id |-> Len(kind) + 1] \in App
      BY <2>1, <1>st DEF App
    <3>2. w' \in Work
      BY <2>1, <3>1, <1>t DEF Work
    <3> QED
      BY <1>24, <2>1, <3>2, <1>st, <1>t DEF Create, Typed, Points, Registering
  <2>2. CASE UNCHANGED os /\ \E out \in {"ok", "poison"} : Raise(out)
    BY <1>24, <2>2, <1>r, <1>t DEF Create, Typed
  <2> QED
    BY <1>24, <2>1, <2>2 DEF Create
\* Registration.
<1>n. ASSUME NotOwned
      PROVE  /\ owned' \in Recs /\ unverified' \in BOOLEAN /\ cache' \in Lists /\ moved' \in BOOLEAN
             /\ kept' \in BOOLEAN /\ UNCHANGED <<owned, inflight, cooling, closing, app, poisoned>>
             /\ w' \in Work /\ pc' \in Points /\ pc' \in {"disarm", "window"}
  <2>1. CASE GiveUp
    BY <2>1, <1>r, <1>t, <1>v DEF GiveUp, Retain, StateChanged, NoChange
  <2>2. CASE Again
    <3>1. w' \in Work
      BY <2>2, <1>t, <1>w DEF Again, Work
    <3> QED
      BY <2>2, <3>1, <1>t DEF Again, Points, Registering
  <2> QED
    BY <1>n, <2>1, <2>2 DEF NotOwned
<1>no. ASSUME NotOwned, UNCHANGED <<os, timers, job>> PROVE Typed'
  BY <1>n, <1>no, <1>t DEF Typed
<1>pf. ASSUME ProbeFails, UNCHANGED <<os, timers, job>> PROVE Typed'
  <2>1. w' \in Work /\ pc' \in Points /\ pc' = "disarm"
    BY <1>pf, <1>r DEF ProbeFails
  <2> QED
    BY <1>pf, <2>1, <1>t, <1>v DEF ProbeFails, Retain, StateChanged, NoChange, Typed
<1>25. CASE Window
  <2>1. ASSUME NEW l \in {Listing, NoList}, pc' = "identity", w' = [w EXCEPT !.list = l, !.recs = owned],
               moved' = FALSE, UNCHANGED <<owned, unverified, inflight, cooling, closing, cache, tls>>
        PROVE  Typed'
    <3>1. w' \in Work
      <4>1. l \in Lists
        BY <2>1, <1>v, <1>l
      <4> QED
        BY <2>1, <4>1, <1>t DEF Work
    <3> QED
      BY <1>25, <2>1, <3>1, <1>t DEF Window, Typed, Points, Registering
  <2> QED
    BY <1>25, <2>1, <1>no, <1>pf DEF Window
<1>26. CASE GetIdentity
  <2>1. PICK i \in Instances :
           IF i = 0 \/ w.app.pid \in w.base \/ w.app.pid \notin Listed(w.list) THEN NotOwned
           ELSE pc' = "confirm" /\ w' = [w EXCEPT !.id = i] /\ UNCHANGED <<guard, tls>>
    BY <1>26 DEF GetIdentity
  <2>2. UNCHANGED <<os, timers, job>>
    BY <1>26 DEF GetIdentity
  <2>3. ASSUME i # 0, pc' = "confirm", w' = [w EXCEPT !.id = i], UNCHANGED <<guard, tls>> PROVE Typed'
    <3>1. w' \in Work /\ w'.id = i
      BY <2>3, <1>t DEF Work
    <3> QED
      BY <2>2, <2>3, <3>1, <1>t DEF Typed, Points, Registering
  <2> QED
    BY <2>1, <2>2, <2>3, <1>no
<1>27. CASE Confirm
  <2>1. CASE pc' = "confirmed" /\ UNCHANGED <<w, guard, tls>>
    BY <1>27, <2>1, <1>t DEF Confirm, Typed, Points, Registering
  <2> QED
    BY <1>27, <2>1, <1>pf DEF Confirm
<1>28. CASE Confirmed
  <2>1. CASE pc' = "commit" /\ UNCHANGED <<w, guard, tls>>
    BY <1>28, <2>1, <1>t DEF Confirmed, Typed, Points, Registering
  <2>2. UNCHANGED <<os, timers, job>> /\ (NotOwned \/ (pc' = "commit" /\ UNCHANGED <<w, guard, tls>>))
    BY <1>28 DEF Confirmed
  <2> QED
    BY <2>1, <2>2, <1>no
<1>29. CASE Commit
  <2> DEFINE p == w.app.pid
  <2>0. p \in Pids /\ w.id # 0 /\ UNCHANGED <<os, timers, job>>
    BY <1>29, <1>t, <1>w DEF Commit, App
  <2>1. CASE NotOwned
    BY <2>1, <2>0, <1>no
  <2>2. ASSUME NEW b \in BOOLEAN, owned' = [owned EXCEPT ![p] = [id |-> w.id, pending |-> b]],
               StateChanged, UNCHANGED <<unverified, inflight, cooling, closing, tls>>,
               \/ pc' = "publish" /\ w' = [w EXCEPT !.app = [pid |-> p, id |-> w.id]]
               \/ Raise("ok")
        PROVE  Typed'
    <3>1. owned' \in Recs
      BY <2>0, <2>2, <1>t, <1>w DEF Recs, Rec
    <3>2. [pid |-> p, id |-> w.id] \in App
      BY <2>0, <1>w DEF App
    <3>3. w' \in Work /\ pc' \in Points /\ pc' \in {"publish", "disarm"} /\ (pc' = "publish" => w'.app.id # 0)
      <4>1. CASE pc' = "publish" /\ w' = [w EXCEPT !.app = [pid |-> p, id |-> w.id]]
        BY <4>1, <2>0, <3>2, <1>t DEF Work, Points
      <4>2. CASE Raise("ok")
        BY <4>2, <1>r
      <4> QED
        BY <2>2, <4>1, <4>2
    <3> QED
      BY <2>0, <2>2, <3>1, <3>3, <1>t, <1>v DEF StateChanged, Typed
  <2>3. Gated \in BOOLEAN
    BY <1>t DEF Gated, Pending
  <2> QED
    BY <1>29, <2>1, <2>2, <2>3 DEF Commit
<1>30. CASE Publish
  <2>1. CASE MarkPending(w.app) /\ Raise("ok") /\ UNCHANGED app
    <3>1. owned' \in Recs /\ cache' \in Lists /\ moved' \in BOOLEAN
      BY <1>30, <2>1, <1>t, <1>w, Marked DEF Publish, SameOwners
    <3> QED
      BY <1>30, <2>1, <3>1, <1>r, <1>t DEF Publish, Typed
  <2>2. CASE /\ UNCHANGED <<owned, moved, cache>> /\ app' = w.app /\ pc' = "call"
             /\ w' = [NoWork EXCEPT !.app = w.app]
    <3>1. w' \in Work
      BY <2>2, <1>v, <1>w DEF Work
    <3> QED
      BY <1>30, <2>2, <3>1, <1>t, <1>w DEF Publish, Typed, Points, Calls
  <2>3. CASE UNCHANGED <<owned, moved, cache, app>> /\ Raise("poison")
    BY <1>30, <2>3, <1>r, <1>t DEF Publish, Typed
  <2> QED
    BY <1>30, <2>1, <2>2, <2>3 DEF Publish
\* Documents and recovery.
<1>31. CASE Return
  BY <1>31, <1>r, <1>t DEF Return, Typed
<1>32. CASE Hang
  BY <1>32, <1>t DEF Hang, Typed, Points, Calls
<1>33. CASE Break
  BY <1>33, <1>r, <1>t, <1>v DEF Break, Typed
<1>34. CASE RecoverPoisonedOffice
  <2>1. CASE poisoned' = TRUE /\ pc' = "idle" /\ UNCHANGED <<owned, moved, cache, job>>
    BY <1>34, <2>1, <1>t DEF RecoverPoisonedOffice, Typed, Points
  <2>2. CASE BeginOwnedCleanup /\ StartJob("worker", owned') /\ pc' = "recovering" /\ UNCHANGED poisoned
    <3>1. owned' \in Recs /\ cache' \in Lists /\ moved' \in BOOLEAN
      BY <2>2, <1>t, CleanupBegun DEF SameOwners
    <3>2. job' \in [Threads -> Job]
      BY <2>2, <3>1, <1>t, JobStarts DEF Threads
    <3> QED
      BY <1>34, <2>2, <3>1, <3>2, <1>t DEF RecoverPoisonedOffice, Typed, Points
  <2> QED
    BY <1>34, <2>1, <2>2 DEF RecoverPoisonedOffice
<1>35. CASE Recovered
  <2>1. job' \in [Threads -> Job] /\ poisoned' \in BOOLEAN
    BY <1>35, <1>t, <1>v DEF Recovered, Job, Threads
  <2> QED
    BY <1>35, <2>1, <1>t DEF Recovered, Typed, Points
\* Quitting.
<1>36. CASE QuitComApps
  <2>1. SameOwners
    BY <1>36, <1>t, Begun DEF QuitComApps
  <2>2. owned' \in Recs /\ unverified' \in BOOLEAN /\ cache' \in Lists /\ moved' \in BOOLEAN
    BY <1>36, <2>1, <1>t, <1>v DEF QuitComApps, SameOwners, StateChanged, NoChange
  <2>3. w' \in Work
    <3>1. w' = [NoWork EXCEPT !.recs = owned', !.app = app]
      BY <1>36 DEF QuitComApps
    <3> QED
      BY <3>1, <2>2, <1>t, <1>v DEF Work
  <2>4. /\ pc' \in {"grace", "quitcall"} /\ quitTimer' \in BOOLEAN
        /\ UNCHANGED <<os, inflight, cooling, closing, tls, active, callbacks, job>>
    BY <1>36, <1>t DEF QuitComApps
  <2> QED
    BY <2>2, <2>3, <2>4, <1>t DEF Typed, Points
<1>37. CASE QuitHangs
  BY <1>37, <1>t DEF QuitHangs, Typed, Points
<1>38. CASE QuitReturns
  <2>1. proc' \in [Pids -> Instances]
    BY <1>38, <1>t, <1>v DEF QuitReturns
  <2> QED
    BY <1>38, <2>1, <1>t, <1>v DEF QuitReturns, Typed, Points
<1>39. CASE Grace
  <2> DEFINE waited == IF w.fired THEN NoRecs ELSE w.recs
  <2>1. PICK unasked : LET left == {p \in Pids : waited[p] # NoRec /\ (Alive(p, waited[p]) \/ p \in unasked)} IN
          /\ owned' = [p \in Pids |-> IF owned[p] = waited[p] /\ p \notin left THEN NoRec ELSE owned[p]]
          /\ IF owned' # owned THEN StateChanged ELSE NoChange
          /\ IF left = {} THEN UNCHANGED job
             ELSE StartJob("worker", [p \in Pids |-> IF p \in left THEN waited[p] ELSE NoRec])
    BY <1>39 DEF Grace
  <2> DEFINE left == {p \in Pids : waited[p] # NoRec /\ (Alive(p, waited[p]) \/ p \in unasked)}
  <2>2. waited \in Recs
    BY <1>v, <1>w
  <2>a. /\ owned' = [p \in Pids |-> IF owned[p] = waited[p] /\ p \notin left THEN NoRec ELSE owned[p]]
        /\ IF owned' # owned THEN StateChanged ELSE NoChange
        /\ IF left = {} THEN UNCHANGED job
           ELSE StartJob("worker", [p \in Pids |-> IF p \in left THEN waited[p] ELSE NoRec])
    BY <2>1
  <2> HIDE DEF waited, left
  <2>3. owned' \in Recs
    BY <2>a, <1>t, <1>v DEF Recs
  <2>4. cache' \in Lists /\ moved' \in BOOLEAN
    BY <2>a, <1>t, <1>v DEF StateChanged, NoChange
  <2>5. [p \in Pids |-> IF p \in left THEN waited[p] ELSE NoRec] \in Recs
    BY <2>2, <1>v DEF Recs
  <2>6. job' \in [Threads -> Job]
    BY <2>a, <2>5, <1>t, JobStarts DEF Threads
  <2>7. /\ pc' = "quitting" /\ w' = NoWork
        /\ UNCHANGED <<os, unverified, inflight, cooling, closing, tls, timers>>
    BY <1>39 DEF Grace
  <2> QED
    BY <2>3, <2>4, <2>6, <2>7, <1>t, <1>v DEF Typed, Points
<1>40. CASE Restarted \/ CycleEnds
  BY <1>40, <1>t DEF Restarted, CycleEnds, Quitted, Typed, Points
<1>41. CASE UNCHANGED vars
  BY <1>41, <1>t DEF vars, Typed
<1> QED
  BY <1>1, <1>2, <1>3, <1>4, <1>5, <1>6, <1>7, <1>8, <1>9, <1>10, <1>11, <1>12, <1>13, <1>14, <1>15, <1>16,
     <1>17, <1>18, <1>19, <1>20, <1>21, <1>22, <1>23, <1>24, <1>25, <1>26, <1>27, <1>28, <1>29, <1>30, <1>31,
     <1>32, <1>33, <1>34, <1>35, <1>36, <1>37, <1>38, <1>39, <1>40, <1>41
  DEF Next, Worker, Cleanup

-----------------------------------------------------------------------------
(* The count of the gate.                                                    *)

LEMMA GatesInit == Init => GatesCounted
<1> SUFFICES ASSUME Init PROVE GatesCounted
  OBVIOUS
<1>1. \A t \in Threads : job[t].at = "idle"
  BY DEF Init, Idle
<1> QED
  BY <1>1 DEF Init, GatesCounted, Held, Around, Threads

LEMMA GatesStep == Typed /\ GatesCounted /\ [Next]_vars => GatesCounted'
<1> SUFFICES ASSUME Typed, GatesCounted, [Next]_vars PROVE GatesCounted'
  OBVIOUS
<1>t. /\ job \in [Threads -> Job] /\ inflight \in Int /\ pc \in Points /\ w \in Work /\ quitTimer \in BOOLEAN
      /\ owned \in Recs /\ proc \in [Pids -> Instances]
  BY DEF Typed
<1>g. /\ inflight = Held("worker") + Held("watchdog") + Held("quit") + Around
      /\ job["worker"].at # "idle" => pc \in {"retry", "recovering", "quitting"}
      /\ quitTimer => job["quit"].at = "idle"
  BY DEF GatesCounted
<1> USE DEF os, guard, tls, timers
\* A step that leaves the cleanups alone and starts none.
<1>u. ASSUME UNCHANGED <<job, inflight>>, pc \in {"retry", "recovering", "quitting"} =>
                job["worker"].at = "idle" \/ pc' = pc,
             quitTimer' \in {quitTimer, FALSE}
      PROVE  GatesCounted'
  <2>1. Held("worker")' = Held("worker") /\ Held("watchdog")' = Held("watchdog")
        /\ Held("quit")' = Held("quit") /\ Around' = Around
    BY <1>u DEF Held, Around
  <2>2. quitTimer' => job["quit"].at = "idle"
    BY <1>u, <1>g, <1>t
  <2>3. job["worker"].at # "idle" => pc' \in {"retry", "recovering", "quitting"}
    BY <1>u, <1>g
  <2> QED
    BY <1>u, <1>g, <2>1, <2>2, <2>3 DEF GatesCounted
\* A cleanup of the worker or of the watchdog begins.
<1>b. ASSUME NEW t \in {"worker", "watchdog"}, NEW recs \in Recs, StartJob(t, recs), job[t].at = "idle",
             UNCHANGED <<inflight, quitTimer>>,
             \/ t = "worker" /\ pc' \in {"retry", "recovering", "quitting"}
             \/ t = "watchdog" /\ pc' = pc
      PROVE  GatesCounted'
  <2>1. /\ job'[t].at = "gate" /\ \A u \in Threads \ {t} : job'[u] = job[u]
    BY <1>b, <1>t, JobStarts DEF Threads
  <2>2. Held("worker")' = Held("worker") /\ Held("watchdog")' = Held("watchdog")
    BY <1>b, <2>1 DEF Held, Threads
  <2>3. Held("quit")' = Held("quit") /\ Around' = Around
    BY <1>b, <2>1 DEF Held, Around, Threads
  <2> QED
    BY <1>b, <1>g, <2>1, <2>2, <2>3 DEF GatesCounted, Threads
<1>1. ASSUME NEW t \in Threads, CloseGate(t) PROVE GatesCounted'
  <2>1. job'[t].at = "list" /\ \A u \in Threads \ {t} : job'[u] = job[u]
    BY <1>1, <1>t, GateCloses
  <2>2. job[t].at = "gate" /\ inflight' = inflight + 1 /\ UNCHANGED <<pc, quitTimer>>
    BY <1>1 DEF CloseGate
  <2> QED
    BY <1>t, <1>g, <2>1, <2>2 DEF GatesCounted, Held, Around, Threads
<1>2. ASSUME NEW t \in Threads, List(t) PROVE GatesCounted'
  <2>1. job'[t].at = "kill" /\ \A u \in Threads \ {t} : job'[u] = job[u]
    BY <1>2, <1>t, JobLists
  <2>2. job[t].at = "list" /\ UNCHANGED <<inflight, pc, quitTimer>>
    BY <1>2 DEF List
  <2> QED
    BY <1>t, <1>g, <2>1, <2>2 DEF GatesCounted, Held, Around, Threads
<1>3. ASSUME NEW t \in Threads, NEW p \in Pids, Kill(t, p) PROVE GatesCounted'
  <2>1. job[t].at = "kill" /\ job'[t].at = "kill" /\ \A u \in Threads \ {t} : job'[u] = job[u]
    BY <1>3, <1>t, JobKills
  <2>2. UNCHANGED <<inflight, pc, quitTimer>>
    BY <1>3 DEF Kill, TerminateAndConfirm, Remove
  <2> QED
    BY <1>t, <1>g, <2>1, <2>2 DEF GatesCounted, Held, Around, Threads
<1>4. ASSUME NEW t \in Threads, OpenGate(t) PROVE GatesCounted'
  <2>1. job'[t].at = "idle" /\ \A u \in Threads \ {t} : job'[u] = job[u]
    BY <1>4, <1>t, GateOpened
  <2>2. /\ job[t].at = "kill" /\ inflight' = inflight - (IF t = "quit" THEN 2 ELSE 1)
        /\ UNCHANGED <<pc, quitTimer>>
    BY <1>4 DEF OpenGate
  <2> QED
    BY <1>t, <1>g, <2>1, <2>2 DEF GatesCounted, Held, Around, Threads
<1>5. CASE Fire
  <2>1. UNCHANGED <<inflight, pc, quitTimer>> /\ job["watchdog"].at = "idle"
    BY <1>5 DEF Fire
  <2>2. CASE UNCHANGED job
    BY <2>1, <2>2, <1>u
  <2>3. CASE BeginOwnedCleanup /\ StartJob("watchdog", owned')
    <3>1. owned' \in Recs
      BY <2>3, <1>t, CleanupBegun DEF Typed, SameOwners
    <3> QED
      BY <2>1, <2>3, <3>1, <1>b
  <2> QED
    BY <1>5, <2>2, <2>3 DEF Fire
<1>6. CASE QuitFires
  <2>1. w.recs \in Recs
    BY <1>t DEF Work
  <2>2. /\ quitTimer /\ quitTimer' = FALSE /\ inflight' = inflight + 1 /\ StartJob("quit", w.recs)
        /\ pc' = pc
    BY <1>6 DEF QuitFires
  <2>3. job'["quit"].at = "gate" /\ \A u \in Threads \ {"quit"} : job'[u] = job[u]
    BY <2>1, <2>2, <1>t, JobStarts DEF Threads
  <2> QED
    BY <1>t, <1>g, <2>2, <2>3 DEF GatesCounted, Held, Around, Threads
<1>7. CASE Ensure
  <2>1. pc \in Ensuring /\ UNCHANGED <<inflight, quitTimer>>
    BY <1>7 DEF Ensure
  <2>2. CASE UNCHANGED job
    BY <2>1, <2>2, <1>u DEF Ensuring
  <2>3. CASE /\ StartJob("worker", [p \in Pids |-> IF owned[p].pending THEN owned[p] ELSE NoRec])
             /\ pc' = "retry"
    <3>1. [p \in Pids |-> IF owned[p].pending THEN owned[p] ELSE NoRec] \in Recs
      BY <1>t, Values DEF Recs
    <3>2. job["worker"].at = "idle"
      BY <2>1, <1>g DEF Ensuring
    <3> QED
      BY <2>1, <2>3, <3>1, <3>2, <1>b
  <2> QED
    BY <1>7, <2>2, <2>3 DEF Ensure
<1>8. CASE RecoverPoisonedOffice
  <2>1. pc = "recover" /\ UNCHANGED <<inflight, quitTimer>>
    BY <1>8 DEF RecoverPoisonedOffice
  <2>2. CASE UNCHANGED job
    BY <2>1, <2>2, <1>u
  <2>3. CASE BeginOwnedCleanup /\ StartJob("worker", owned') /\ pc' = "recovering"
    <3>1. owned' \in Recs
      BY <2>3, <1>t, CleanupBegun DEF Typed, SameOwners
    <3> QED
      BY <2>1, <2>3, <3>1, <1>b, <1>g
  <2> QED
    BY <1>8, <2>2, <2>3 DEF RecoverPoisonedOffice
<1>9. CASE Recovered
  <2>1. /\ pc' = "idle" /\ job' = [job EXCEPT !["worker"] = Idle] /\ UNCHANGED <<inflight, quitTimer>>
        /\ job["worker"].at = "idle"
    BY <1>9 DEF Recovered
  <2>2. job'["worker"].at = "idle" /\ \A u \in Threads \ {"worker"} : job'[u] = job[u]
    BY <2>1, <1>t DEF Idle, Threads
  <2> QED
    BY <1>t, <1>g, <2>1, <2>2 DEF GatesCounted, Held, Around, Threads
<1>10. CASE QuitComApps
  <2>1. /\ UNCHANGED <<inflight, job>> /\ pc = "idle"
        /\ quitTimer' = quitTimer \/ (job["quit"].at = "idle" /\ pc' = "quitcall")
    BY <1>10 DEF QuitComApps
  <2> QED
    BY <1>t, <1>g, <2>1 DEF GatesCounted, Held, Around, Threads
<1>11. CASE Grace
  <2>1. pc = "grace" /\ pc' = "quitting" /\ UNCHANGED <<inflight, quitTimer>>
    BY <1>11 DEF Grace
  <2>2. CASE UNCHANGED job
    BY <2>1, <2>2, <1>u
  <2>3. ASSUME ~UNCHANGED job PROVE GatesCounted'
    <3> DEFINE waited == IF w.fired THEN NoRecs ELSE w.recs
    <3>1. waited \in Recs
      BY <1>t, Values DEF Work
    <3>2. \E left : StartJob("worker", [p \in Pids |-> IF p \in left THEN waited[p] ELSE NoRec])
      BY <1>11, <2>3 DEF Grace
    <3> HIDE DEF waited
    <3>3. PICK left : StartJob("worker", [p \in Pids |-> IF p \in left THEN waited[p] ELSE NoRec])
      BY <3>2
    <3>4. [p \in Pids |-> IF p \in left THEN waited[p] ELSE NoRec] \in Recs
      BY <3>1, Values DEF Recs
    <3> QED
      BY <2>1, <3>3, <3>4, <1>b, <1>g
  <2> QED
    BY <2>2, <2>3
<1>12. ASSUME ~(\/ Fire \/ QuitFires \/ Ensure \/ RecoverPoisonedOffice \/ Recovered \/ QuitComApps \/ Grace),
              \A t \in Threads : ~Cleanup(t)
       PROVE  GatesCounted'
  <2>1. /\ UNCHANGED <<job, inflight>>
        /\ pc \in {"retry", "recovering", "quitting"} => job["worker"].at = "idle" \/ pc' = pc
        /\ quitTimer' \in {quitTimer, FALSE}
    BY <1>12 DEF Next, Worker, vars, Retried, Look, Looked, Judge, Decide, Consume, Baseline, Create, Window,
       GetIdentity, Confirm, Confirmed, Commit, Publish, Return, Break, Disarm, QuitReturns, Restarted, CycleEnds,
       Quitted, Take, Hang, QuitHangs, CoolsDown, Expires, BeginApplicationShutdown, UserOpens, UserCloses,
       Released, OursDies, Ends, NotOwned, GiveUp, Again, ProbeFails, Calls, Registering
  <2> QED
    BY <2>1, <1>u
<1> QED
  BY <1>1, <1>2, <1>3, <1>4, <1>5, <1>6, <1>7, <1>8, <1>9, <1>10, <1>11, <1>12 DEF Cleanup

\* So the count stays within its range.
LEMMA GatesRange == Typed /\ GatesCounted => TypeOK
<1> SUFFICES ASSUME Typed, GatesCounted PROVE TypeOK
  OBVIOUS
<1>1. \A t \in Threads : job[t] \in Job /\ job[t].at \in {"idle", "gate", "list", "kill"}
  BY DEF Typed, Job
<1>2. inflight = Held("worker") + Held("watchdog") + Held("quit") + Around
  BY DEF GatesCounted
<1>3. inflight \in 0..4
  BY <1>2 DEF Held, Around
<1>4. owned \in [Pids -> [id : Instances, pending : BOOLEAN]]
  BY DEF Typed, Recs, Rec
<1> QED
  BY <1>1, <1>3, <1>4 DEF Typed, TypeOK, Points

-----------------------------------------------------------------------------
(* Where the numbers and the records come from.                              *)

\* Instances are only added, and a pid changes only to none or to a new one.
LEMMA InstancesGrow ==
    ASSUME Typed, [Next]_vars
    PROVE  /\ kind' = kind \/ \E k \in {"ours", "user", "other"} : kind' = Append(kind, k)
           /\ \A p \in Pids : \/ proc'[p] \in {proc[p], 0}
                              \/ proc'[p] = Len(kind) + 1 /\ Len(kind') = Len(kind) + 1
                                 /\ (Create \/ kind'[proc'[p]] # "ours")
           /\ \A p \in Pids : proc'[p] = Len(kind) + 1 /\ proc'[p] # proc[p] /\ Create =>
                 w'.app = [pid |-> p, id |-> proc'[p]] /\ pc' = "window"
<1> DEFINE Goal == /\ kind' = kind \/ \E k \in {"ours", "user", "other"} : kind' = Append(kind, k)
                   /\ \A p \in Pids : \/ proc'[p] \in {proc[p], 0}
                                      \/ proc'[p] = Len(kind) + 1 /\ Len(kind') = Len(kind) + 1
                                         /\ (Create \/ kind'[proc'[p]] # "ours")
                   /\ \A p \in Pids : proc'[p] = Len(kind) + 1 /\ proc'[p] # proc[p] /\ Create =>
                         w'.app = [pid |-> p, id |-> proc'[p]] /\ pc' = "window"
<1>t. proc \in [Pids -> Instances] /\ kind \in Seq({"ours", "user", "other"}) /\ w \in Work
  BY DEF Typed
<1> USE DEF os, guard, tls, timers
<1>u. UNCHANGED os => Goal
  OBVIOUS
<1>e. ASSUME UNCHANGED kind, NEW q \in Pids, proc' = [proc EXCEPT ![q] = 0] PROVE Goal
  BY <1>e, <1>t, ConstantsAssumption DEF Instances, ConstantsAssumption
<1>s. ASSUME NEW k \in {"ours", "user", "other"}, NEW q \in Pids, Starts(k, q)
      PROVE  /\ kind' = Append(kind, k) /\ Len(kind') = Len(kind) + 1 /\ kind'[Len(kind) + 1] = k
             /\ \A p \in Pids : proc'[p] = IF p = q THEN Len(kind) + 1 ELSE proc[p]
             /\ proc[q] = 0
  BY <1>s, <1>t DEF Starts
<1>1. CASE UserOpens
  <2>1. PICK q \in Pids, k \in {"user", "other"} : Starts(k, q)
    BY <1>1 DEF UserOpens
  <2>2. ~Create
    <3>1. UNCHANGED <<pc>>
      BY <1>1 DEF UserOpens
    <3>2. Create => pc = "create" /\ pc' \in {"window", "disarm"}
      BY DEF Create, Raise
    <3> QED
      BY <3>1, <3>2
  <2> QED
    BY <2>1, <2>2, <1>s
<1>2. CASE Create
  <2>1. CASE UNCHANGED os
    BY <2>1, <1>u
  <2>2. ASSUME NEW q \in Pids, Starts("ours", q), pc' = "window",
               w' = [w EXCEPT !.app = [pid |-> q, id |-> Len(kind) + 1], !.tries = 0]
        PROVE  Goal
    <3>1. w'.app = [pid |-> q, id |-> Len(kind) + 1]
      BY <2>2, <1>t DEF Work
    <3> QED
      BY <1>2, <2>2, <3>1, <1>s
  <2> QED
    BY <1>2, <2>1, <2>2 DEF Create
<1>3. CASE UserCloses \/ Released \/ OursDies
  BY <1>3, <1>e DEF UserCloses, Released, OursDies, Ends
<1>4. ASSUME NEW t \in Threads, NEW p \in Pids, Kill(t, p) PROVE Goal
  <2>1. UNCHANGED kind /\ (UNCHANGED proc \/ proc' = [proc EXCEPT ![p] = 0])
    BY <1>4 DEF Kill, TerminateAndConfirm
  <2> QED
    BY <2>1, <1>u, <1>e
<1>5. CASE QuitReturns
  <2>1. UNCHANGED kind /\ (UNCHANGED proc \/ proc' = [proc EXCEPT ![w.app.pid] = 0])
    BY <1>5 DEF QuitReturns
  <2>2. w.app.pid \in Pids
    BY <1>t DEF Work, App
  <2> QED
    BY <2>1, <2>2, <1>u, <1>e
<1>6. ASSUME ~(UserOpens \/ Create \/ UserCloses \/ Released \/ OursDies \/ QuitReturns),
             \A t \in Threads, p \in Pids : ~Kill(t, p)
      PROVE  UNCHANGED os
  BY <1>6 DEF Next, Worker, Cleanup, vars, Take, Ensure, Retried, Look, Looked, Judge, Decide, Consume, Baseline,
     Window, GetIdentity, Confirm, Confirmed, Commit, Publish, Return, Break, Disarm, RecoverPoisonedOffice,
     Recovered, QuitComApps, Grace, Restarted, CycleEnds, Quitted, Hang, QuitHangs, Fire, QuitFires, CloseGate,
     List, OpenGate, CoolsDown, Expires, BeginApplicationShutdown
<1> QED
  BY <1>1, <1>2, <1>3, <1>4, <1>5, <1>6, <1>u

\* What the table of records becomes: the same instances less those removed, or
\* with the one just registered; and every change of it moves the epoch.
OwnedStep ==
    /\ StateChanged \/ UNCHANGED <<owned, unverified>>
    /\ \A p \in Pids : \/ /\ owned'[p] = NoRec
                          /\ owned[p] = NoRec \/ Grace \/ \E t \in Threads : Kill(t, p)
                       \/ owned'[p].id = owned[p].id /\ owned[p] # NoRec
                       \/ pc = "commit" /\ p = w.app.pid /\ owned'[p].id = w.id

LEMMA OwnedSources ==
    ASSUME Typed, [Next]_vars
    PROVE  OwnedStep
<1>t. /\ owned \in Recs /\ cache \in Lists /\ moved \in BOOLEAN /\ w \in Work /\ app \in App
      /\ proc \in [Pids -> Instances] /\ unverified \in BOOLEAN
      /\ app = NoApp \/ app.id # 0
      /\ pc = "publish" => w.app.id # 0
  BY DEF Typed
<1>w. w.app \in App /\ w.app.pid \in Pids
  BY <1>t DEF Work, App
<1> USE DEF os, guard, tls, timers
<1>u. UNCHANGED <<owned, unverified>> => OwnedStep
  BY DEF OwnedStep
<1>c. StateChanged /\ UNCHANGED owned => OwnedStep
  BY DEF OwnedStep
<1>s. SameOwners /\ Epoch /\ UNCHANGED unverified => OwnedStep
  BY DEF OwnedStep, SameOwners, Epoch, NoChange
<1>1. ASSUME NEW t \in Threads, NEW p \in Pids, Kill(t, p) PROVE OwnedStep
  <2>1. UNCHANGED owned \/ Remove(p)
    BY <1>1 DEF Kill, TerminateAndConfirm
  <2>2. UNCHANGED unverified
    BY <1>1 DEF Kill, TerminateAndConfirm, Remove
  <2>3. ASSUME Remove(p) PROVE OwnedStep
    <3>1. owned' = [owned EXCEPT ![p] = NoRec] /\ StateChanged
      BY <2>3 DEF Remove
    <3>2. owned'[p] = NoRec /\ \A q \in Pids \ {p} : owned'[q] = owned[q]
      BY <3>1, <1>t DEF Recs
    <3>3. \E u \in Threads : Kill(u, p)
      BY <1>1
    <3> QED
      BY <3>1, <3>2, <3>3 DEF OwnedStep
  <2> QED
    BY <2>1, <2>2, <2>3, <1>u
<1>2. CASE Fire
  BY <1>2, <1>t, <1>u, <1>s, CleanupBegun DEF Fire
<1>3. CASE RecoverPoisonedOffice
  BY <1>3, <1>t, <1>u, <1>s, CleanupBegun DEF RecoverPoisonedOffice
<1>4. CASE QuitComApps
  <2>1. SameOwners
    BY <1>4, <1>t, Begun DEF QuitComApps
  <2>2. StateChanged \/ UNCHANGED <<owned, unverified>>
    BY <1>4 DEF QuitComApps
  <2> QED
    BY <2>1, <2>2 DEF OwnedStep, SameOwners
<1>5. CASE Grace
  <2>1. \A p \in Pids : owned'[p] \in {NoRec, owned[p]}
    <3> DEFINE waited == IF w.fired THEN NoRecs ELSE w.recs
               left(unasked) == {p \in Pids : waited[p] # NoRec /\ (Alive(p, waited[p]) \/ p \in unasked)}
    <3>1. PICK unasked :
             owned' = [p \in Pids |-> IF owned[p] = waited[p] /\ p \notin left(unasked) THEN NoRec ELSE owned[p]]
      BY <1>5 DEF Grace
    <3> HIDE DEF waited, left
    <3> QED
      BY <3>1
  <2>2. (StateChanged \/ UNCHANGED owned) /\ UNCHANGED unverified
    BY <1>5 DEF Grace
  <2>3. \A p \in Pids : owned'[p] = NoRec \/ (owned'[p].id = owned[p].id /\ owned[p] # NoRec)
    BY <2>1
  <2> QED
    BY <1>5, <2>2, <2>3 DEF OwnedStep
<1>6. CASE Consume
  BY <1>6, <1>t, <1>u, <1>s, Marked DEF Consume
<1>7. CASE Publish
  BY <1>7, <1>t, <1>w, <1>u, <1>s, Marked DEF Publish
<1>n. ASSUME NotOwned PROVE OwnedStep
  <2>1. UNCHANGED owned /\ (StateChanged \/ UNCHANGED unverified)
    BY <1>n DEF NotOwned, GiveUp, Again, Retain
  <2> QED
    BY <2>1, <1>u, <1>c
<1>p. ASSUME ProbeFails PROVE OwnedStep
  <2>1. UNCHANGED owned /\ (StateChanged \/ UNCHANGED unverified)
    BY <1>p DEF ProbeFails, Retain
  <2> QED
    BY <2>1, <1>u, <1>c
<1>8. CASE Commit
  <2>1. ASSUME NEW b, owned' = [owned EXCEPT ![w.app.pid] = [id |-> w.id, pending |-> b]], StateChanged
        PROVE  OwnedStep
    <3>1. pc = "commit" /\ owned'[w.app.pid].id = w.id /\ \A p \in Pids \ {w.app.pid} : owned'[p] = owned[p]
      BY <1>8, <2>1, <1>t, <1>w DEF Commit, Recs
    <3> QED
      BY <2>1, <3>1 DEF OwnedStep
  <2> QED
    BY <1>8, <2>1, <1>n DEF Commit
<1>9. CASE Window \/ GetIdentity \/ Confirm \/ Confirmed
  <2>1. NotOwned \/ ProbeFails \/ UNCHANGED <<owned, unverified>>
    BY <1>9 DEF Window, GetIdentity, Confirm, Confirmed
  <2> QED
    BY <2>1, <1>n, <1>p, <1>u
<1>10. CASE Ensure
  BY <1>10, <1>u, <1>c DEF Ensure
<1>11. ASSUME NEW t \in Threads, CloseGate(t) \/ OpenGate(t) PROVE OwnedStep
  BY <1>11, <1>u DEF CloseGate, OpenGate
<1>12. ASSUME ~(\/ Fire \/ RecoverPoisonedOffice \/ QuitComApps \/ Grace \/ Consume \/ Publish \/ Commit \/ Window
                \/ GetIdentity \/ Confirm \/ Confirmed \/ Ensure),
              \A t \in Threads, p \in Pids : ~Kill(t, p)
       PROVE  OwnedStep
  <2>1. UNCHANGED <<owned, unverified>>
    BY <1>12 DEF Next, Worker, Cleanup, vars, Take, Retried, Look, Looked, Judge, Decide, Baseline, Create,
       Return, Break, Disarm, Recovered, QuitReturns, Restarted, CycleEnds, Quitted, Hang, QuitHangs, QuitFires,
       CloseGate, List, OpenGate, CoolsDown, Expires, BeginApplicationShutdown, UserOpens, UserCloses, Released,
       OursDies, Ends
  <2> QED
    BY <2>1, <1>u
<1> QED
  BY <1>1, <1>2, <1>3, <1>4, <1>5, <1>6, <1>7, <1>8, <1>9, <1>10, <1>11, <1>12

\* Only an inspection that is not stale fills the cache.
LEMMA CacheSources ==
    ASSUME [Next]_vars, ~(Looked /\ ~moved)
    PROVE  cache' \in {cache, NoList}
<1> USE DEF os, guard, tls, timers
<1>1. CASE Looked
  BY <1>1 DEF Looked, Stale
<1>2. CASE Expires
  BY <1>2 DEF Expires
<1>3. CASE UNCHANGED vars
  BY <1>3 DEF vars
<1>4. ASSUME NEW t \in Threads, Cleanup(t) PROVE cache' \in {cache, NoList}
  BY <1>4 DEF Cleanup, CloseGate, List, Kill, TerminateAndConfirm, Remove, OpenGate, StateChanged
<1>5. CASE Fire \/ QuitFires
  BY <1>5 DEF Fire, QuitFires, BeginOwnedCleanup, StateChanged, NoChange
<1>6. CASE Hang \/ QuitHangs \/ CoolsDown \/ BeginApplicationShutdown \/ UserOpens \/ UserCloses \/ Released
           \/ OursDies
  BY <1>6 DEF Hang, QuitHangs, CoolsDown, BeginApplicationShutdown, UserOpens, UserCloses, Released, OursDies, Ends
<1>7. CASE Take \/ Ensure \/ Retried \/ Look \/ Judge \/ Decide \/ Consume \/ Baseline \/ Create
  BY <1>7 DEF Take, Ensure, Retried, Look, Judge, Decide, Consume, Baseline, Create, MarkPending, StateChanged,
     NoChange
<1>8. CASE Window \/ GetIdentity \/ Confirm \/ Confirmed \/ Commit \/ Publish \/ Return \/ Break
  BY <1>8 DEF Window, GetIdentity, Confirm, Confirmed, Commit, Publish, Return, Break, NotOwned, GiveUp, Again,
     ProbeFails, Retain, MarkPending, StateChanged, NoChange
<1>9. CASE Disarm \/ RecoverPoisonedOffice \/ Recovered \/ QuitComApps \/ QuitReturns \/ Grace \/ Restarted
           \/ CycleEnds
  BY <1>9 DEF Disarm, RecoverPoisonedOffice, Recovered, QuitComApps, QuitReturns, Grace, Restarted, CycleEnds,
     Quitted, BeginOwnedCleanup, StateChanged, NoChange
<1> QED
  BY <1>1, <1>2, <1>3, <1>4, <1>5, <1>6, <1>7, <1>8, <1>9 DEF Next, Worker

\* What the worker and the cleanups hold are copies of the records and of listings.
WorkStep ==
    /\ cache' \in {cache, NoList, w.list}
    /\ w'.list \in {w.list, NoList, cache, Listing}
    /\ \A p \in Pids : w'.recs[p] \in {w.recs[p], NoRec, owned[p], owned'[p]}

LEMMA WorkSources ==
    ASSUME Typed, [Next]_vars
    PROVE  WorkStep
<1>t. w \in Work /\ w.app \in App
  BY DEF Typed, Work
<1> USE DEF os, guard, tls, timers
<1>c. cache' \in {cache, NoList, w.list}
  <2>1. CASE Looked
    BY <2>1 DEF Looked
  <2> QED
    BY <2>1, CacheSources
<1> DEFINE Copies == /\ w'.list \in {w.list, NoList, cache, Listing}
                     /\ \A p \in Pids : w'.recs[p] \in {w.recs[p], NoRec, owned[p], owned'[p]}
<1> SUFFICES Copies
  BY <1>c DEF WorkStep
<1>u. UNCHANGED w => Copies
  OBVIOUS
<1>k. w'.list = w.list /\ w'.recs = w.recs => Copies
  OBVIOUS
<1>0. w' = NoWork => Copies
  BY Restarts, Values
<1>r. ASSUME NEW out \in {"ok", "busy", "poison"}, Raise(out) PROVE Copies
  BY <1>r, Raised, Values
<1>n. NotOwned => Copies
  <2>1. GiveUp => Copies
    BY <1>r DEF GiveUp
  <2>2. Again => w'.list = w.list /\ w'.recs = w.recs
    BY <1>t DEF Again, Work
  <2> QED
    BY <2>1, <2>2, <1>k DEF NotOwned
<1>p. ProbeFails => Copies
  BY <1>r DEF ProbeFails
<1>1. CASE Ensure
  <2>1. w' = [w EXCEPT !.then = pc] => w'.list = w.list /\ w'.recs = w.recs
    BY <1>t DEF Work
  <2> QED
    BY <1>1, <2>1, <1>u, <1>0, <1>k, <1>r DEF Ensure, Refused, Proceed
<1>2. CASE Retried
  BY <1>2, <1>u, <1>0, <1>r DEF Retried, Proceed
<1>3. CASE Look
  <2>1. ASSUME NEW l, w' = [w EXCEPT !.list = l, !.tries = @ + 1] PROVE w'.list = l /\ w'.recs = w.recs
    BY <2>1, <1>t DEF Work
  <2> QED
    BY <1>3, <2>1, <1>r DEF Look
<1>4. CASE Looked
  <2>1. w' = [w EXCEPT !.recs = owned] => w'.list = w.list /\ w'.recs = owned
    BY <1>t DEF Work
  <2> QED
    BY <1>4, <2>1, <1>u DEF Looked
<1>5. CASE Judge
  <2>1. ASSUME NEW S, w' = [w EXCEPT !.external = S] PROVE w'.list = w.list /\ w'.recs = w.recs
    BY <2>1, <1>t DEF Work
  <2> QED
    BY <1>5, <2>1, <1>k DEF Judge
<1>6. CASE Decide
  BY <1>6, <1>r, <1>u, <1>0 DEF Decide
<1>7. CASE Consume
  <2>1. w' = [w EXCEPT !.app = app] => w'.list = w.list /\ w'.recs = w.recs
    BY <1>t DEF Work
  <2> QED
    BY <1>7, <2>1, <1>r, <1>u, <1>k DEF Consume
<1>8. CASE Baseline
  <2>1. ASSUME NEW S, w' = [w EXCEPT !.base = S] PROVE w'.list = w.list /\ w'.recs = w.recs
    BY <2>1, <1>t DEF Work
  <2> QED
    BY <1>8, <2>1, <1>k, <1>r DEF Baseline
<1>9. CASE Create
  <2>1. ASSUME NEW a, w' = [w EXCEPT !.app = a, !.tries = 0] PROVE w'.list = w.list /\ w'.recs = w.recs
    BY <2>1, <1>t DEF Work
  <2> QED
    BY <1>9, <2>1, <1>k, <1>r DEF Create
<1>10. CASE Window
  <2>1. ASSUME NEW l, w' = [w EXCEPT !.list = l, !.recs = owned] PROVE w'.list = l /\ w'.recs = owned
    BY <2>1, <1>t DEF Work
  <2> QED
    BY <1>10, <2>1, <1>n, <1>p DEF Window
<1>11. CASE GetIdentity
  <2>1. ASSUME NEW i, w' = [w EXCEPT !.id = i] PROVE w'.list = w.list /\ w'.recs = w.recs
    BY <2>1, <1>t DEF Work
  <2> QED
    BY <1>11, <2>1, <1>n, <1>k DEF GetIdentity
<1>12. CASE Confirm \/ Confirmed
  BY <1>12, <1>n, <1>p, <1>u DEF Confirm, Confirmed
<1>13. CASE Commit
  <2>1. ASSUME NEW a, w' = [w EXCEPT !.app = a] PROVE w'.list = w.list /\ w'.recs = w.recs
    BY <2>1, <1>t DEF Work
  <2> QED
    BY <1>13, <2>1, <1>n, <1>k, <1>r DEF Commit
<1>14. CASE Publish
  <2>1. ASSUME NEW a, w' = [NoWork EXCEPT !.app = a] PROVE w'.list = NoWork.list /\ w'.recs = NoWork.recs
    BY <2>1, Values DEF Work
  <2> QED
    BY <1>14, <2>1, <1>r, Restarts, Values DEF Publish
<1>15. CASE Return \/ Break
  BY <1>15, <1>r DEF Return, Break
<1>16. CASE Disarm \/ Grace
  BY <1>16, <1>0 DEF Disarm, Grace
<1>17. CASE QuitComApps
  <2>1. w' = [NoWork EXCEPT !.recs = owned', !.app = app]
    BY <1>17 DEF QuitComApps
  <2>2. w'.list = NoWork.list /\ w'.recs = owned'
    BY <2>1, Values DEF Work
  <2> QED
    BY <2>2, Restarts
<1>18. CASE QuitFires
  <2>1. w' = [w EXCEPT !.fired = TRUE]
    BY <1>18 DEF QuitFires
  <2>2. w'.list = w.list /\ w'.recs = w.recs
    BY <2>1, <1>t DEF Work
  <2> QED
    BY <2>2, <1>k
<1>19. ASSUME ~(\/ Ensure \/ Retried \/ Look \/ Looked \/ Judge \/ Decide \/ Consume \/ Baseline \/ Create \/ Window
                \/ GetIdentity \/ Confirm \/ Confirmed \/ Commit \/ Publish \/ Return \/ Break \/ Disarm \/ Grace
                \/ QuitComApps \/ QuitFires)
       PROVE  UNCHANGED w
  BY <1>19 DEF Next, Worker, Cleanup, vars, Take, RecoverPoisonedOffice, Recovered, QuitReturns, Restarted,
     CycleEnds, Quitted, Hang, QuitHangs, Fire, CloseGate, List, Kill, OpenGate, CoolsDown, Expires,
     BeginApplicationShutdown, UserOpens, UserCloses, Released, OursDies, Ends
<1> QED
  BY <1>1, <1>2, <1>3, <1>4, <1>5, <1>6, <1>7, <1>8, <1>9, <1>10, <1>11, <1>12, <1>13, <1>14, <1>15, <1>16,
     <1>17, <1>18, <1>19, <1>u

JobStep ==
    \A t \in Threads :
       /\ job'[t].list \in {job[t].list, NoList, Listing}
       /\ \A p \in Pids : job'[t].recs[p] \in {job[t].recs[p], NoRec, owned[p], owned'[p], w.recs[p]}

LEMMA JobSources ==
    ASSUME Typed, [Next]_vars
    PROVE  JobStep
<1>t. /\ job \in [Threads -> Job] /\ owned \in Recs /\ w \in Work /\ w.recs \in Recs
      /\ proc \in [Pids -> Instances] /\ cache \in Lists /\ moved \in BOOLEAN
  BY DEF Typed, Work
<1> USE DEF os, guard, tls, timers
<1>u. UNCHANGED job => JobStep
  BY DEF JobStep
<1>b. ASSUME NEW t \in Threads, NEW recs \in Recs, StartJob(t, recs),
             \A p \in Pids : recs[p] \in {NoRec, owned[p], owned'[p], w.recs[p]}
      PROVE  JobStep
  <2>1. /\ job'[t].recs = recs /\ job'[t].list = NoList /\ \A u \in Threads \ {t} : job'[u] = job[u]
    BY <1>b, <1>t, JobStarts
  <2> QED
    BY <1>b, <2>1 DEF JobStep
<1>1. ASSUME NEW t \in Threads, Cleanup(t) PROVE JobStep
  <2>1. CASE CloseGate(t)
    BY <2>1, <1>t, GateCloses DEF JobStep
  <2>2. CASE List(t)
    BY <2>2, <1>t, JobLists, Values DEF JobStep
  <2>3. CASE OpenGate(t)
    BY <2>3, <1>t, GateOpened, Values DEF JobStep
  <2>4. ASSUME NEW p \in Pids, Kill(t, p) PROVE JobStep
    BY <2>4, <1>t, JobKills DEF JobStep
  <2> QED
    BY <1>1, <2>1, <2>2, <2>3, <2>4 DEF Cleanup
<1>2. CASE Fire
  <2>1. ASSUME BeginOwnedCleanup, StartJob("watchdog", owned') PROVE JobStep
    <3>1. owned' \in Recs
      BY <2>1, <1>t, CleanupBegun DEF SameOwners
    <3> QED
      BY <2>1, <3>1, <1>b DEF Threads
  <2> QED
    BY <1>2, <2>1, <1>u DEF Fire
<1>3. CASE RecoverPoisonedOffice
  <2>1. ASSUME BeginOwnedCleanup, StartJob("worker", owned') PROVE JobStep
    <3>1. owned' \in Recs
      BY <2>1, <1>t, CleanupBegun DEF SameOwners
    <3> QED
      BY <2>1, <3>1, <1>b DEF Threads
  <2> QED
    BY <1>3, <2>1, <1>u DEF RecoverPoisonedOffice
<1>4. CASE QuitFires
  <2>1. StartJob("quit", w.recs)
    BY <1>4 DEF QuitFires
  <2> QED
    BY <2>1, <1>t, <1>b DEF Threads
<1>5. CASE Ensure
  <2> DEFINE recs == [p \in Pids |-> IF owned[p].pending THEN owned[p] ELSE NoRec]
  <2>1. UNCHANGED job \/ StartJob("worker", recs)
    BY <1>5 DEF Ensure
  <2>2. recs \in Recs /\ \A p \in Pids : recs[p] \in {NoRec, owned[p]}
    BY <1>t, Values DEF Recs
  <2> HIDE DEF recs
  <2> QED
    BY <2>1, <2>2, <1>u, <1>b DEF Threads
<1>6. CASE Recovered
  <2>1. job' = [job EXCEPT !["worker"] = Idle]
    BY <1>6 DEF Recovered
  <2>2. Idle.list = NoList /\ Idle.recs = NoRecs
    BY DEF Idle
  <2> QED
    BY <2>1, <2>2, <1>t, Values DEF JobStep
<1>7. CASE Grace
  <2> DEFINE waited == IF w.fired THEN NoRecs ELSE w.recs
             recs(left) == [p \in Pids |-> IF p \in left THEN waited[p] ELSE NoRec]
  <2>1. UNCHANGED job \/ \E left : StartJob("worker", recs(left))
    <3> DEFINE left(unasked) == {p \in Pids : waited[p] # NoRec /\ (Alive(p, waited[p]) \/ p \in unasked)}
    <3>1. PICK unasked : UNCHANGED job \/ StartJob("worker", recs(left(unasked)))
      BY <1>7 DEF Grace
    <3> QED
      BY <3>1
  <2>2. \A left : recs(left) \in Recs /\ \A p \in Pids : recs(left)[p] \in {NoRec, w.recs[p]}
    BY <1>t, Values DEF Recs
  <2> HIDE DEF recs
  <2> QED
    BY <2>1, <2>2, <1>u, <1>b DEF Threads
<1>8. ASSUME ~(\/ Fire \/ RecoverPoisonedOffice \/ QuitFires \/ Ensure \/ Recovered \/ Grace),
             \A t \in Threads : ~Cleanup(t)
      PROVE  UNCHANGED job
  BY <1>8 DEF Next, Worker, vars, Take, Retried, Look, Looked, Judge, Decide, Consume, Baseline, Create, Window,
     GetIdentity, Confirm, Confirmed, Commit, Publish, Return, Break, Disarm, QuitComApps, QuitReturns, Restarted,
     CycleEnds, Quitted, Hang, QuitHangs, CoolsDown, Expires, BeginApplicationShutdown, UserOpens, UserCloses,
     Released, OursDies, Ends
<1> QED
  BY <1>1, <1>2, <1>3, <1>4, <1>5, <1>6, <1>7, <1>8, <1>u

\* A cleanup begins at its gate.
LEMMA JobBegins ==
    ASSUME Typed, [Next]_vars, \A t \in Threads : ~Cleanup(t)
    PROVE  \A t \in Threads : job'[t] = job[t] \/ job'[t].at \in {"idle", "gate"}
<1>t. job \in [Threads -> Job]
  BY DEF Typed
<1> USE DEF os, guard, tls, timers
<1>b. ASSUME NEW u \in Threads, NEW recs, StartJob(u, recs)
      PROVE  \A t \in Threads : job'[t] = job[t] \/ job'[t].at \in {"idle", "gate"}
  <2>1. job' = [job EXCEPT ![u] = [Idle EXCEPT !.at = "gate", !.recs = recs]]
    BY <1>b DEF StartJob
  <2>2. [Idle EXCEPT !.at = "gate", !.recs = recs].at = "gate"
    BY DEF Idle
  <2> QED
    BY <1>t, <2>1, <2>2
<1>1. CASE Fire
  BY <1>1, <1>b DEF Fire, Threads
<1>2. CASE RecoverPoisonedOffice
  BY <1>2, <1>b DEF RecoverPoisonedOffice, Threads
<1>3. CASE QuitFires
  BY <1>3, <1>b DEF QuitFires, Threads
<1>4. CASE Ensure
  BY <1>4, <1>b DEF Ensure, Threads
<1>5. CASE Grace
  BY <1>5, <1>b DEF Grace, Threads
<1>6. CASE Recovered
  BY <1>6, <1>t DEF Recovered, Idle, Threads
<1>7. ASSUME ~(\/ Fire \/ RecoverPoisonedOffice \/ QuitFires \/ Ensure \/ Recovered \/ Grace) PROVE UNCHANGED job
  BY <1>7 DEF Next, Worker, vars, Take, Retried, Look, Looked, Judge, Decide, Consume, Baseline, Create, Window,
     GetIdentity, Confirm, Confirmed, Commit, Publish, Return, Break, Disarm, QuitComApps, QuitReturns, Restarted,
     CycleEnds, Quitted, Hang, QuitHangs, CoolsDown, Expires, BeginApplicationShutdown, UserOpens, UserCloses,
     Released, OursDies, Ends
<1> QED
  BY <1>1, <1>2, <1>3, <1>4, <1>5, <1>6, <1>7

LEMMA KindKept ==
    ASSUME Typed, [Next]_vars
    PROVE  /\ Len(kind) \in Nat /\ Len(kind') \in Nat /\ Len(kind) <= Len(kind')
           /\ \A i \in 1..Len(kind) : i \in 1..Len(kind') /\ kind'[i] = kind[i]
           /\ proc \in [Pids -> Nat]
<1>1. kind \in Seq({"ours", "user", "other"}) /\ proc \in [Pids -> Nat]
  BY ConstantsAssumption DEF Typed, Instances, ConstantsAssumption
<1>2. kind' = kind \/ \E k \in {"ours", "user", "other"} : kind' = Append(kind, k)
  BY InstancesGrow
<1> QED
  BY <1>1, <1>2

LEMMA NumberedInit == Init => Numbered /\ Registered
<1> SUFFICES ASSUME Init PROVE Numbered /\ Registered
  OBVIOUS
<1>1. Len(kind) = 0 /\ \A p \in Pids : proc[p] = 0
  BY DEF Init
<1>2. cache = NoList /\ w.list = NoList /\ \A t \in Threads : job[t].list = NoList /\ job[t].recs = NoRecs
  BY Restarts DEF Init, Idle
<1>3. owned = NoRecs /\ w.recs = NoRecs
  BY Restarts DEF Init
<1>4. Numbered
  BY <1>1, <1>2, <1>3, Values DEF Numbered, Started, OfOurs
<1> QED
  BY <1>4 DEF Init, Registered, Registering

LEMMA NumberedStep == Typed /\ Numbered /\ Registered /\ [Next]_vars => Numbered'
<1> SUFFICES ASSUME Typed, Numbered, Registered, [Next]_vars PROVE Numbered'
  OBVIOUS
<1>k. /\ Len(kind) \in Nat /\ Len(kind') \in Nat /\ Len(kind) <= Len(kind')
      /\ \A i \in 1..Len(kind) : i \in 1..Len(kind') /\ kind'[i] = kind[i]
      /\ proc \in [Pids -> Nat]
  BY KindKept
<1>n. /\ \A p \in Pids : proc[p] <= Len(kind)
      /\ Started(cache) /\ Started(w.list) /\ \A t \in Threads : Started(job[t].list)
      /\ OfOurs(owned) /\ OfOurs(w.recs) /\ \A t \in Threads : OfOurs(job[t].recs)
  BY DEF Numbered
<1>1. \A p \in Pids : proc'[p] <= Len(kind')
  BY <1>k, <1>n, InstancesGrow
<1>l. Started(Listing) /\ Started(NoList)
  BY <1>k, <1>n, Values, ListingType DEF Started, Typed
<1>m. \A l \in Lists : Started(l) => \A p \in Pids : l.of[p] <= Len(kind')
  <2> SUFFICES ASSUME NEW l \in Lists, Started(l), NEW p \in Pids PROVE l.of[p] <= Len(kind')
    OBVIOUS
  <2>1. l.of[p] \in Nat
    BY ConstantsAssumption DEF Lists, Instances, ConstantsAssumption
  <2> QED
    BY <2>1, <1>k DEF Started
<1>2. Started(cache)' /\ Started(w.list)'
  <2>1. /\ cache \in Lists /\ w.list \in Lists /\ NoList \in Lists /\ Listing \in Lists
    BY Values, ListingType DEF Typed, Work
  <2>2. cache' \in {cache, NoList, w.list} /\ w'.list \in {w.list, NoList, cache, Listing}
    BY WorkSources DEF WorkStep
  <2>3. cache' \in Lists /\ Started(cache') /\ w'.list \in Lists /\ Started(w'.list)
    BY <2>1, <2>2, <1>n, <1>l
  <2> QED
    BY <2>3, <1>m DEF Started
<1>3. ASSUME NEW t \in Threads PROVE Started(job[t].list)'
  <2>1. job[t].list \in Lists /\ NoList \in Lists /\ Listing \in Lists
    BY Values, ListingType DEF Typed, Job
  <2>2. job'[t].list \in {job[t].list, NoList, Listing}
    BY JobSources DEF JobStep
  <2>3. job'[t].list \in Lists /\ Started(job'[t].list)
    BY <2>1, <2>2, <1>n, <1>l
  <2> QED
    BY <2>3, <1>m DEF Started
<1> DEFINE OK(r) == r # NoRec => r.id \in 1..Len(kind') /\ kind'[r.id] = "ours"
<1>o. \A p \in Pids : OK(owned'[p]) /\ OK(owned[p]) /\ OK(w.recs[p]) /\ OK(NoRec)
  <2> SUFFICES ASSUME NEW p \in Pids PROVE OK(owned'[p]) /\ OK(owned[p]) /\ OK(w.recs[p]) /\ OK(NoRec)
    OBVIOUS
  <2>1. OK(owned[p]) /\ OK(w.recs[p]) /\ OK(NoRec)
    BY <1>k, <1>n DEF OfOurs
  <2>2. CASE owned'[p].id = owned[p].id /\ owned[p] # NoRec
    BY <2>1, <2>2
  <2>3. CASE pc = "commit" /\ owned'[p].id = w.id
    <3>1. w.id \in 1..Len(kind) /\ kind[w.id] = "ours"
      BY <2>3 DEF Registered, Registering
    <3> QED
      BY <2>1, <2>3, <3>1, <1>k
  <2> QED
    BY <2>1, <2>2, <2>3, OwnedSources DEF OwnedStep
<1>4. OfOurs(owned)'
  BY <1>o DEF OfOurs
<1>5. OfOurs(w.recs)'
  BY <1>o, WorkSources DEF OfOurs, WorkStep
<1>6. ASSUME NEW t \in Threads PROVE OfOurs(job[t].recs)'
  <2>1. \A p \in Pids : OK(job[t].recs[p])
    BY <1>k, <1>n DEF OfOurs
  <2>2. \A p \in Pids : OK(job'[t].recs[p])
    <3> HIDE DEF OK
    <3> QED
      BY <2>1, <1>o, JobSources DEF JobStep
  <2> QED
    BY <2>2 DEF OfOurs
<1> QED
  BY <1>1, <1>2, <1>3, <1>4, <1>5, <1>6 DEF Numbered

\* An instance that has ended does not come back.
LEMMA StaysGone ==
    ASSUME Typed, Numbered, [Next]_vars, NEW p \in Pids, NEW i \in 1..Len(kind), proc'[p] = i
    PROVE  proc[p] = i
BY KindKept, InstancesGrow

\* A Word of ours that runs ran before, or is the one the worker has just made.
LEMMA OursKept ==
    ASSUME Typed, Numbered, [Next]_vars, NEW p \in Pids, OursAt(p)'
    PROVE  \/ OursAt(p) /\ proc'[p] = proc[p]
           \/ Create /\ w'.app = [pid |-> p, id |-> proc'[p]] /\ pc' = "window" /\ proc'[p] = Len(kind')
<1>1. proc'[p] # 0 /\ kind'[proc'[p]] = "ours"
  BY DEF OursAt
<1>2. CASE proc'[p] = proc[p]
  <2>1. proc[p] \in 1..Len(kind)
    BY <1>1, <1>2, KindKept DEF Numbered
  <2> QED
    BY <1>1, <1>2, <2>1, KindKept DEF OursAt
<1>3. CASE proc'[p] # proc[p]
  <2>1. proc'[p] = Len(kind) + 1 /\ Len(kind') = Len(kind) + 1 /\ Create
    BY <1>1, <1>3, InstancesGrow
  <2> QED
    BY <1>3, <2>1, InstancesGrow
<1> QED
  BY <1>2, <1>3

LEMMA RegisteredStep == Typed /\ Numbered /\ Registered /\ [Next]_vars => Registered'
<1> SUFFICES ASSUME Typed, Numbered, Registered, [Next]_vars PROVE Registered'
  OBVIOUS
<1>t. /\ w \in Work /\ w.app \in App /\ w.app.pid \in Pids /\ proc \in [Pids -> Instances]
      /\ kept \in BOOLEAN /\ unverified \in BOOLEAN
  BY DEF Typed, Work, App
<1>k. /\ Len(kind) \in Nat /\ Len(kind') \in Nat /\ Len(kind) <= Len(kind')
      /\ \A i \in 1..Len(kind) : i \in 1..Len(kind') /\ kind'[i] = kind[i]
  BY KindKept
<1> USE DEF os, guard, tls, timers
<1>g. pc' \notin Registering \cup {"create"} => Registered'
  BY DEF Registered, Registering
\* A step from one place of the registration to the next, or none.
<1>f. ASSUME ~Create, pc \in Registering, w'.app = w.app, kept' => kept \/ unverified', unverified => unverified',
             pc' = "confirm" /\ Running(w.app)' => w'.id = w.app.id,
             pc' \in {"confirmed", "commit"} => w'.id = w.app.id
      PROVE  Registered'
  <2>1. w.app.id \in 1..Len(kind) /\ kind[w.app.id] = "ours" /\ (kept => unverified)
    BY <1>f DEF Registered
  <2>2. w.app.id \in 1..Len(kind') /\ kind'[w.app.id] = "ours"
    BY <2>1, <1>k
  <2>3. OursAt(w.app.pid)' => proc'[w.app.pid] = w.app.id
    <3>0. PICK p \in Pids : p = w.app.pid
      BY <1>t
    <3>1. OursAt(p)' => OursAt(p) /\ proc'[p] = proc[p]
      BY <1>f, OursKept
    <3>2. OursAt(p) => proc[p] = w.app.id
      BY <1>f, <3>0 DEF Registered
    <3> QED
      BY <1>f, <3>0, <3>1, <3>2 DEF OursAt
  <2> QED
    BY <1>f, <2>1, <2>2, <2>3 DEF Registered, Running, OursAt
<1>u. ASSUME ~Create, w'.app = w.app, w'.id = w.id, pc' = pc, kept' = kept, unverified' = unverified
      PROVE  Registered'
  <2>1. CASE pc \in Registering
    <3>1. Running(w.app)' /\ pc = "confirm" => w.id = w.app.id
      <4>1. w.app.id \in 1..Len(kind)
        BY <2>1 DEF Registered
      <4>2. Running(w.app)' => Running(w.app)
        <5>1. proc'[w.app.pid] = w.app.id => proc[w.app.pid] = w.app.id
          BY <1>t, <4>1, StaysGone
        <5> QED
          BY <1>u, <5>1 DEF Running
      <4> QED
        BY <2>1, <4>2 DEF Registered
    <3>2. pc \in {"confirmed", "commit"} => w.id = w.app.id
      BY <2>1 DEF Registered
    <3> QED
      BY <1>u, <2>1, <3>1, <3>2, <1>f
  <2>2. CASE pc \notin Registering
    BY <1>u, <2>2 DEF Registered
  <2> QED
    BY <2>1, <2>2
<1>n. ASSUME ~Create, NotOwned, pc \in Registering PROVE Registered'
  <2>1. CASE GiveUp
    BY <2>1, <1>g DEF GiveUp, Raise, Registering
  <2>2. CASE Again
    <3>1. w'.app = w.app /\ w'.id = w.id
      BY <2>2, <1>t DEF Again, Work
    <3> QED
      BY <1>n, <2>2, <3>1, <1>f DEF Again
  <2> QED
    BY <1>n, <2>1, <2>2 DEF NotOwned
<1>p. ProbeFails => Registered'
  BY <1>g DEF ProbeFails, Raise, Registering
<1>c. Create => pc = "create"
  BY DEF Create
<1>1. CASE Baseline
  BY <1>1 DEF Baseline, Raise, ForgetsKept, Registered, Registering
<1>2. CASE Create
  <2>1. CASE \E out \in {"ok", "poison"} : Raise(out)
    BY <2>1, <1>g DEF Raise, Registering
  <2>2. ASSUME NEW p \in Pids, Starts("ours", p), pc' = "window",
               w' = [w EXCEPT !.app = [pid |-> p, id |-> Len(kind) + 1], !.tries = 0]
        PROVE  Registered'
    <3>1. w'.app = [pid |-> p, id |-> Len(kind) + 1]
      BY <2>2, <1>t DEF Work
    <3>2. kind' = Append(kind, "ours") /\ proc'[p] = Len(kind) + 1
      BY <2>2, <1>t DEF Starts
    <3>3. Len(kind) + 1 \in 1..Len(kind') /\ kind'[Len(kind) + 1] = "ours"
      BY <3>2, <1>k DEF Typed
    <3>4. UNCHANGED <<kept, unverified>> /\ (kept => unverified)
      BY <1>2 DEF Create, Registered
    <3> QED
      BY <2>2, <3>1, <3>2, <3>3, <3>4 DEF Registered, OursAt
  <2> QED
    BY <1>2, <2>1, <2>2 DEF Create
<1>3. CASE Window
  <2>0. ~Create /\ pc \in Registering
    BY <1>3, <1>c DEF Window, Registering
  <2>1. ASSUME NEW l, w' = [w EXCEPT !.list = l, !.recs = owned], pc' = "identity",
               UNCHANGED <<owned, unverified, inflight, cooling, closing, cache, tls>>
        PROVE  Registered'
    <3>1. w'.app = w.app
      BY <2>1, <1>t DEF Work
    <3> QED
      BY <2>0, <2>1, <3>1, <1>f
  <2> QED
    BY <1>3, <2>0, <2>1, <1>n, <1>p DEF Window
<1>4. CASE GetIdentity
  <2>0. ~Create /\ pc \in Registering
    BY <1>4, <1>c DEF GetIdentity, Registering
  <2>1. ASSUME NEW i \in Instances, Identity(w.app.pid, i), i # 0, w' = [w EXCEPT !.id = i], pc' = "confirm",
               UNCHANGED os, UNCHANGED <<guard, tls>>
        PROVE  Registered'
    <3>1. w'.app = w.app /\ w'.id = i
      BY <2>1, <1>t DEF Work
    <3>2. i = proc[w.app.pid]
      BY <2>1 DEF Identity
    <3>3. Running(w.app)' => i = w.app.id
      BY <2>1, <3>1, <3>2 DEF Running
    <3> QED
      BY <2>0, <2>1, <3>1, <3>3, <1>f
  <2> QED
    BY <1>4, <2>0, <2>1, <1>n DEF GetIdentity
<1>5. CASE Confirm
  <2>0. ~Create /\ pc \in Registering
    BY <1>5, <1>c DEF Confirm, Registering
  <2>1. ASSUME Answers, pc' = "confirmed", UNCHANGED <<w, guard, tls>> PROVE Registered'
    <3>1. w.id = w.app.id
      BY <1>5, <2>0, <2>1 DEF Registered, Answers, Confirm
    <3> QED
      BY <2>0, <2>1, <3>1, <1>f
  <2> QED
    BY <1>5, <2>1, <1>p DEF Confirm
<1>6. CASE Confirmed
  <2>0. ~Create /\ pc \in Registering /\ w.id = w.app.id
    BY <1>6, <1>c DEF Confirmed, Registering, Registered
  <2> QED
    BY <1>6, <2>0, <1>n, <1>f DEF Confirmed
<1>7. CASE Commit
  <2>0. ~Create /\ pc \in Registering
    BY <1>7, <1>c DEF Commit, Registering
  <2>1. NotOwned \/ pc' \in {"publish", "disarm"}
    BY <1>7 DEF Commit, Raise
  <2> QED
    BY <2>0, <2>1, <1>n, <1>g DEF Registering
<1>8. CASE QuitFires
  <2>1. w'.app = w.app /\ w'.id = w.id /\ UNCHANGED <<pc, kept, unverified, kind>>
    BY <1>8, <1>t DEF QuitFires, Work
  <2>2. ~Create
    <3>1. Create => pc' # pc
      BY DEF Create, Raise
    <3> QED
      BY <2>1, <3>1
  <2> QED
    BY <2>1, <2>2, <1>u
<1>9. ASSUME NEW t \in Threads, Cleanup(t) PROVE Registered'
  <2>1. UNCHANGED <<pc, w, kept, unverified>>
    BY <1>9 DEF Cleanup, CloseGate, List, Kill, TerminateAndConfirm, Remove, OpenGate
  <2>2. ~Create
    BY <2>1 DEF Create, Raise
  <2> QED
    BY <2>1, <2>2, <1>u
<1>10. CASE Fire \/ CoolsDown \/ Expires \/ BeginApplicationShutdown \/ UserOpens \/ UserCloses \/ Released
            \/ OursDies \/ UNCHANGED vars
  <2>1. UNCHANGED <<pc, w, kept, unverified>>
    BY <1>10 DEF vars, Fire, CoolsDown, Expires, BeginApplicationShutdown, UserOpens, UserCloses, Released,
       OursDies, Ends
  <2>2. ~Create
    BY <2>1 DEF Create, Raise
  <2> QED
    BY <2>1, <2>2, <1>u
<1>11. CASE Take \/ Ensure \/ Retried \/ Look \/ Looked \/ Judge \/ Decide \/ Consume \/ Publish \/ Return \/ Break
            \/ Disarm \/ RecoverPoisonedOffice \/ Recovered \/ QuitComApps \/ QuitReturns \/ Grace \/ Restarted
            \/ CycleEnds \/ Hang \/ QuitHangs
  <2>1. pc' \notin Registering \cup {"create"}
    <3>1. ASSUME NEW k, Proceed(k), k \in Ensuring PROVE pc' \in {"guard", "look", "consume", "baseline"}
      BY <3>1 DEF Proceed, After, Ensuring
    <3>2. Ensure => pc' \in {"idle", "disarm", "retry", "guard", "look", "consume", "baseline"}
      BY <3>1 DEF Ensure, Refused, Raise
    <3>3. Retried => pc' \in {"idle", "disarm", "guard", "look", "consume", "baseline"}
      BY <3>1 DEF Retried, Raise, Typed
    <3> QED
      BY <1>11, <3>2, <3>3 DEF Take, Look, Looked, Judge, Decide, Consume, Publish, Return, Break, Disarm,
         RecoverPoisonedOffice, Recovered, QuitComApps, QuitReturns, Grace, Restarted, CycleEnds, Quitted, Hang,
         QuitHangs, Raise, Registering
  <2> QED
    BY <2>1, <1>g
<1> QED
  BY <1>1, <1>2, <1>3, <1>4, <1>5, <1>6, <1>7, <1>8, <1>9, <1>10, <1>11 DEF Next, Worker

-----------------------------------------------------------------------------
(* No Word of ours is forgotten, no process of the user is ended.            *)

\* As long as a Word of ours runs, its record stays: what is removed has ended.
LEMMA RecordStays ==
    ASSUME Typed, Numbered, Registered, Accounted, [Next]_vars,
           NEW p \in Pids, OursAt(p), proc'[p] = proc[p], owned[p].id = proc[p]
    PROVE  owned'[p].id = proc[p]
<1>t. /\ proc \in [Pids -> Instances] /\ owned \in Recs /\ job \in [Threads -> Job] /\ w \in Work
      /\ proc[p] # 0 /\ owned[p] # NoRec
  BY DEF Typed, OursAt, NoRec
<1>1. CASE owned'[p].id = owned[p].id
  BY <1>1
<1>2. CASE pc = "commit" /\ p = w.app.pid /\ owned'[p].id = w.id
  BY <1>2 DEF Registered, Registering
<1>3. ASSUME NEW t \in Threads, Kill(t, p), owned'[p] = NoRec PROVE FALSE
  <2> DEFINE r == job[t].recs[p]
  <2>1. job[t].at = "kill" /\ r # NoRec /\ (owned[p] # r => UNCHANGED guard)
    BY <1>3 DEF Kill
  <2>2. owned[p] = r
    BY <1>3, <1>t, <2>1 DEF guard
  <2>3. job[t].list.of[p] # 0
    BY <1>t, <2>1, <2>2 DEF Accounted
  <2>4. TerminateAndConfirm(p, r)
    BY <1>3, <2>2, <2>3 DEF Kill
  <2>5. ~Gone(p, r)
    BY <2>2 DEF Gone
  <2>6. UNCHANGED guard \/ proc' = [proc EXCEPT ![p] = 0]
    BY <2>4, <2>5 DEF TerminateAndConfirm
  <2> QED
    BY <1>3, <1>t, <2>6 DEF guard
<1>4. ASSUME Grace, owned'[p] = NoRec PROVE FALSE
  <2> DEFINE waited == IF w.fired THEN NoRecs ELSE w.recs
             left(unasked) == {q \in Pids : waited[q] # NoRec /\ (Alive(q, waited[q]) \/ q \in unasked)}
  <2>1. PICK unasked :
           owned' = [q \in Pids |-> IF owned[q] = waited[q] /\ q \notin left(unasked) THEN NoRec ELSE owned[q]]
    BY <1>4 DEF Grace
  <2>2. owned[p] = waited[p] /\ p \notin left(unasked)
    <3> HIDE DEF waited, left
    <3> QED
      BY <1>4, <1>t, <2>1
  <2>3. Alive(p, waited[p])
    BY <2>2 DEF Alive
  <2> QED
    BY <1>t, <2>2, <2>3
<1> QED
  BY <1>t, <1>1, <1>2, <1>3, <1>4, OwnedSources DEF OwnedStep

\* The gate of an unverified reference opens only when no Word runs.
LEMMA GateStays ==
    ASSUME Typed, [Next]_vars, unverified, ~unverified'
    PROVE  UNCHANGED proc /\ \A p \in Pids : ~Word(p)
<1>t. proc \in [Pids -> Instances]
  BY DEF Typed
<1> USE DEF os, guard, tls, timers
<1>1. Listed(Listing) = {} => \A p \in Pids : ~Word(p)
  <2> SUFFICES ASSUME Listed(Listing) = {}, NEW p \in Pids, Word(p) PROVE FALSE
    OBVIOUS
  <2>1. Listing.of[p] # 0
    BY <1>t, ListingType DEF Word
  <2> QED
    BY <2>1 DEF Listed
<1>2. CASE Ensure
  BY <1>1, <1>2 DEF Ensure
<1>3. CASE QuitComApps
  BY <1>1, <1>3 DEF QuitComApps
<1>n. NotOwned \/ ProbeFails => unverified' = unverified \/ unverified' = TRUE
  BY DEF NotOwned, GiveUp, Again, ProbeFails, Retain
<1>4. ASSUME NEW t \in Threads, Cleanup(t) PROVE FALSE
  BY <1>4 DEF Cleanup, CloseGate, List, Kill, TerminateAndConfirm, Remove, OpenGate
<1>5. CASE Window \/ GetIdentity \/ Confirm \/ Confirmed \/ Commit
  <2>1. NotOwned \/ ProbeFails \/ UNCHANGED unverified
    BY <1>5 DEF Window, GetIdentity, Confirm, Confirmed, Commit
  <2> QED
    BY <2>1, <1>n
<1>6. CASE Take \/ Retried \/ Look \/ Looked \/ Judge \/ Decide \/ Consume \/ Baseline \/ Create \/ Publish
           \/ Return \/ Break \/ Disarm \/ RecoverPoisonedOffice \/ Recovered \/ QuitReturns \/ Grace
           \/ Restarted \/ CycleEnds
  BY <1>6 DEF Take, Retried, Look, Looked, Judge, Decide, Consume, Baseline, Create, Publish, Return, Break, Disarm,
     RecoverPoisonedOffice, Recovered, QuitReturns, Grace, Restarted, CycleEnds, Quitted
<1>7. CASE Hang \/ QuitHangs \/ Fire \/ QuitFires \/ CoolsDown \/ Expires \/ BeginApplicationShutdown
           \/ UserOpens \/ UserCloses \/ Released \/ OursDies \/ UNCHANGED vars
  BY <1>7 DEF vars, Hang, QuitHangs, Fire, QuitFires, CoolsDown, Expires, BeginApplicationShutdown, UserOpens,
     UserCloses, Released, OursDies, Ends
<1> QED
  BY <1>2, <1>3, <1>4, <1>5, <1>6, <1>7 DEF Next, Worker

\* A registration under way goes on, is recorded, closes the gate, or was of a
\* Word that is gone.
LEMMA RegistrationEnds ==
    ASSUME Typed, Registered, [Next]_vars, pc \in Registering
    PROVE  \/ pc' \in Registering /\ w'.app = w.app
           \/ unverified'
           \/ ~Running(w.app)
           \/ owned'[w.app.pid].id = w.app.id
<1> DEFINE Goal == \/ pc' \in Registering /\ w'.app = w.app
                   \/ unverified'
                   \/ ~Running(w.app)
                   \/ owned'[w.app.pid].id = w.app.id
<1>t. w \in Work /\ w.app.pid \in Pids /\ owned \in Recs /\ unverified \in BOOLEAN /\ kept \in BOOLEAN
  BY DEF Typed, Work, App
<1> USE DEF os, guard, tls, timers
<1>n. NotOwned => Goal
  <2>1. CASE GiveUp
    BY <2>1, <1>t DEF GiveUp, Retain, Registered
  <2>2. CASE Again
    <3>1. w'.app = w.app
      BY <2>2, <1>t DEF Again, Work
    <3> QED
      BY <2>2, <3>1 DEF Again, Registering
  <2> QED
    BY <2>1, <2>2 DEF NotOwned
<1>p. ProbeFails => Goal
  BY DEF ProbeFails
<1>1. CASE Window
  <2>1. ASSUME NEW l, w' = [w EXCEPT !.list = l, !.recs = owned], pc' = "identity" PROVE Goal
    BY <2>1, <1>t DEF Work, Registering
  <2> QED
    BY <1>1, <2>1, <1>n, <1>p DEF Window
<1>2. CASE GetIdentity
  <2>1. ASSUME NEW i, w' = [w EXCEPT !.id = i], pc' = "confirm" PROVE Goal
    BY <2>1, <1>t DEF Work, Registering
  <2> QED
    BY <1>2, <2>1, <1>n DEF GetIdentity
<1>3. CASE Confirm \/ Confirmed
  BY <1>3, <1>n, <1>p DEF Confirm, Confirmed, Registering
<1>4. CASE Commit
  <2>1. w.id = w.app.id
    BY <1>4 DEF Commit, Registered
  <2>2. ASSUME NEW b, owned' = [owned EXCEPT ![w.app.pid] = [id |-> w.id, pending |-> b]] PROVE Goal
    BY <2>1, <2>2, <1>t DEF Recs
  <2> QED
    BY <1>4, <2>2, <1>n DEF Commit
<1>5. CASE QuitFires
  BY <1>5, <1>t DEF QuitFires, Work
<1>6. ASSUME NEW t \in Threads, Cleanup(t) PROVE Goal
  BY <1>6 DEF Cleanup, CloseGate, List, Kill, OpenGate
<1>7. CASE Fire \/ CoolsDown \/ Expires \/ BeginApplicationShutdown \/ UserOpens \/ UserCloses \/ Released
           \/ OursDies \/ UNCHANGED vars
  BY <1>7 DEF vars, Fire, CoolsDown, Expires, BeginApplicationShutdown, UserOpens, UserCloses, Released, OursDies,
     Ends
<1>8. CASE Take \/ Ensure \/ Retried \/ Look \/ Looked \/ Judge \/ Decide \/ Consume \/ Publish \/ Return \/ Break
           \/ Disarm \/ RecoverPoisonedOffice \/ Recovered \/ QuitComApps \/ QuitReturns \/ Grace \/ Restarted
           \/ CycleEnds \/ Hang \/ QuitHangs \/ Baseline \/ Create
  BY <1>8 DEF Take, Ensure, Ensuring, Retried, Look, Looked, Judge, Decide, Consume, Publish, Return, Break, Disarm,
     RecoverPoisonedOffice, Recovered, QuitComApps, QuitReturns, Grace, Restarted, CycleEnds, Quitted, Hang,
     QuitHangs, Baseline, Create, Registering, Calls
<1> QED
  BY <1>1, <1>2, <1>3, <1>4, <1>5, <1>6, <1>7, <1>8 DEF Next, Worker

LEMMA AccountedInit == Init => Accounted
<1> SUFFICES ASSUME Init PROVE Accounted
  OBVIOUS
<1>1. \A p \in Pids : proc[p] = 0
  BY DEF Init
<1>2. \A t \in Threads : job[t].at = "idle"
  BY DEF Init, Idle
<1> QED
  BY <1>1, <1>2 DEF Accounted, OursAccounted

LEMMA AccountedStep == Typed /\ Numbered /\ Registered /\ Accounted /\ [Next]_vars => Accounted'
<1> SUFFICES ASSUME Typed, Numbered, Registered, Accounted, [Next]_vars PROVE Accounted'
  OBVIOUS
<1>t. /\ proc \in [Pids -> Instances] /\ job \in [Threads -> Job] /\ w \in Work
  BY DEF Typed
<1>1. ASSUME NEW p \in Pids, OursAt(p)'
      PROVE  \/ owned'[p].id = proc'[p]
             \/ unverified'
             \/ pc' \in Registering /\ w'.app = [pid |-> p, id |-> proc'[p]]
  <2>1. CASE w'.app = [pid |-> p, id |-> proc'[p]] /\ pc' = "window"
    BY <2>1 DEF Registering
  <2>2. CASE OursAt(p) /\ proc'[p] = proc[p]
    <3>1. CASE owned[p].id = proc[p]
      BY <2>2, <3>1, RecordStays
    <3>2. CASE unverified
      BY <2>2, <3>2, GateStays DEF OursAt, Word
    <3>3. CASE pc \in Registering /\ w.app = [pid |-> p, id |-> proc[p]]
      <4>1. Running(w.app) /\ w.app.pid = p /\ w.app.id = proc[p]
        BY <2>2, <3>3 DEF Running, OursAt
      <4> QED
        BY <2>2, <3>3, <4>1, RegistrationEnds
    <3> QED
      BY <2>2, <3>1, <3>2, <3>3 DEF Accounted, OursAccounted, OursAt
  <2> QED
    BY <1>1, <2>1, <2>2, OursKept
<1>2. OursAccounted'
  BY <1>1 DEF OursAccounted, OursAt
<1>3. ASSUME NEW t \in Threads, job'[t].at = "kill", NEW p \in Pids, job'[t].recs[p] # NoRec, job'[t].list.of[p] = 0
      PROVE  proc'[p] # job'[t].recs[p].id
  <2>1. \A r : r = job[t].recs[p] /\ r # NoRec => r.id \in 1..Len(kind) /\ kind[r.id] = "ours"
    BY DEF Numbered, OfOurs
  <2>k. ASSUME job[t].at = "kill", job'[t].recs[p] = job[t].recs[p], job'[t].list = job[t].list
        PROVE  proc'[p] # job'[t].recs[p].id
    <3>1. PICK i \in 1..Len(kind) : i = job[t].recs[p].id /\ proc[p] # i
      BY <1>3, <2>1, <2>k DEF Accounted
    <3> QED
      BY <2>k, <3>1, StaysGone
  <2>2. CASE UNCHANGED job
    BY <1>3, <2>2, <2>k
  <2>3. ASSUME NEW u \in Threads, Cleanup(u) PROVE proc'[p] # job'[t].recs[p].id
    <3>1. CASE u # t
      <4>1. job'[t] = job[t]
        BY <2>3, <3>1, <1>t, GateCloses, JobLists, GateOpened, JobKills DEF Cleanup
      <4> QED
        BY <1>3, <4>1, <2>k
    <3>2. CASE u = t /\ List(t)
      <4>1. job'[t].recs = job[t].recs /\ job'[t].list = Listing
        BY <1>3, <3>2, <1>t, JobLists, Values
      <4>2. UNCHANGED os
        BY <3>2 DEF List
      <4>3. ~Word(p) \/ proc[p] = 0
        BY <1>3, <1>t, <4>1, ListingType DEF Word
      <4> QED
        BY <1>3, <2>1, <4>1, <4>2, <4>3, KindKept DEF Word, os
    <3>3. ASSUME u = t, NEW q \in Pids, Kill(t, q) PROVE proc'[p] # job'[t].recs[p].id
      <4>1. /\ job[t].at = "kill" /\ job'[t].list = job[t].list
            /\ job'[t].recs[p] = IF p = q THEN NoRec ELSE job[t].recs[p]
        BY <3>3, <1>t, JobKills
      <4> QED
        BY <1>3, <4>1, <2>k
    <3>4. CASE u = t /\ (CloseGate(t) \/ OpenGate(t))
      BY <1>3, <3>4, <1>t, GateCloses, GateOpened
    <3> QED
      BY <2>3, <3>1, <3>2, <3>3, <3>4 DEF Cleanup
  <2>4. ASSUME \A u \in Threads : ~Cleanup(u) PROVE proc'[p] # job'[t].recs[p].id
    <3>1. job'[t] = job[t] \/ job'[t].at \in {"idle", "gate"}
      BY <2>4, <1>t, JobBegins
    <3> QED
      BY <1>3, <3>1, <2>k
  <2> QED
    BY <2>3, <2>4
<1> QED
  BY <1>2, <1>3 DEF Accounted

\* As long as a Word that we started runs, it is in the registry, or the gate is
\* closed for it, or the worker is about to register it, for any number of pids,
\* programs, attempts and failures.
THEOREM WordsAccounted == Spec => []OursAccounted
<1>1. Accounted => OursAccounted
  BY DEF Accounted
<1> QED
  BY <1>1, TypedInit, TypedStep, NumberedInit, NumberedStep, RegisteredStep, AccountedInit, AccountedStep, PTL
  DEF Spec

\* A cleanup ends only the instance its record names, and that is a Word of ours;
\* no other step of a cleanup touches a process.
LEMMA CleanupEndsOurs ==
    ASSUME Typed, Numbered, [Next]_vars, job' # job,
           NEW p \in Pids, proc[p] # 0, kind[proc[p]] # "ours"
    PROVE  proc'[p] = proc[p]
<1>t. proc \in [Pids -> Instances] /\ owned \in Recs
  BY DEF Typed
<1> USE DEF os, guard, tls, timers
<1>1. ASSUME NEW t \in Threads, NEW q \in Pids, Kill(t, q) PROVE proc'[p] = proc[p]
  <2> DEFINE r == job[t].recs[q]
  <2>1. r # NoRec /\ (UNCHANGED proc \/ (owned[q] = r /\ TerminateAndConfirm(q, r)))
    BY <1>1 DEF Kill
  <2>2. CASE UNCHANGED proc
    BY <2>2
  <2>3. ASSUME TerminateAndConfirm(q, r), owned[q] = r, ~UNCHANGED proc PROVE proc'[p] = proc[p]
    <3>1. ~Gone(q, r) /\ proc[q] # 0 /\ proc' = [proc EXCEPT ![q] = 0]
      BY <2>3 DEF TerminateAndConfirm
    <3>2. proc[q] = r.id
      BY <3>1 DEF Gone
    <3>3. kind[r.id] = "ours"
      BY <2>1, <2>3 DEF Numbered, OfOurs
    <3>4. p # q
      BY <3>2, <3>3
    <3> QED
      BY <1>t, <3>1, <3>4
  <2> QED
    BY <2>1, <2>2, <2>3
<1>2. CASE UserOpens \/ UserCloses \/ Released \/ OursDies \/ Create \/ QuitReturns
  BY <1>2 DEF UserOpens, UserCloses, Released, OursDies, Ends, Create, QuitReturns
<1>3. ASSUME \A t \in Threads, q \in Pids : ~Kill(t, q),
             ~(UserOpens \/ UserCloses \/ Released \/ OursDies \/ Create \/ QuitReturns)
      PROVE  UNCHANGED proc
  BY <1>3 DEF Next, Worker, Cleanup, vars, Take, Ensure, Retried, Look, Looked, Judge, Decide, Consume, Baseline,
     Window, GetIdentity, Confirm, Confirmed, Commit, Publish, Return, Break, Disarm, RecoverPoisonedOffice,
     Recovered, QuitComApps, Grace, Restarted, CycleEnds, Quitted, Hang, QuitHangs, Fire, QuitFires, CloseGate,
     List, OpenGate, CoolsDown, Expires, BeginApplicationShutdown
<1> QED
  BY <1>1, <1>2, <1>3

\* No cleanup, on whichever thread, ends a process that is not our Word, however
\* pids are used again between its steps.
THEOREM UserIsSafe == Spec => UserOfficeSafe
<1>1. Typed /\ Numbered /\ [Next]_vars
      => (job' # job => \A p \in Pids : proc[p] # 0 /\ kind[proc[p]] # "ours" => proc'[p] = proc[p])
  BY CleanupEndsOurs
<1> QED
  BY <1>1, TypedInit, TypedStep, NumberedInit, NumberedStep, RegisteredStep, PTL DEF Spec, UserOfficeSafe

-----------------------------------------------------------------------------
(* The watchdog fires for its own call.                                      *)

LEMMA ArmedInit == Init => Armed
BY DEF Init, Armed, OnlyOwnTimeout, Idle, Threads

LEMMA ArmedStep == Typed /\ Armed /\ [Next]_vars => Armed'
<1> SUFFICES ASSUME Typed, Armed, [Next]_vars PROVE Armed'
  OBVIOUS
<1>t. /\ job \in [Threads -> Job] /\ active \in BOOLEAN /\ pc \in Points /\ w \in Work
      /\ owned \in Recs /\ cache \in Lists /\ moved \in BOOLEAN /\ "watchdog" \in Threads
      /\ callbacks \in SUBSET {"present", "earlier"} /\ (pc = "retry" => w.then \in Ensuring)
  BY DEF Typed, Threads
<1>a. /\ job["watchdog"].at # "idle" => "present" \notin callbacks /\ active
      /\ active => pc \in InCall \/ (pc = "retry" /\ w.then # "file")
  BY DEF Armed, OnlyOwnTimeout
<1> USE DEF os, guard, tls, timers
\* The watchdog is left alone, and the worker stays in its call, or was in none.
<1>f. ASSUME job'["watchdog"].at = job["watchdog"].at, callbacks' \subseteq callbacks, UNCHANGED active,
             active => pc' \in InCall \/ (pc' = "retry" /\ w'.then # "file")
      PROVE  Armed'
  BY <1>f, <1>a DEF Armed, OnlyOwnTimeout
<1>k. UNCHANGED <<job, callbacks, active>> /\ pc' \in InCall => Armed'
  BY <1>f
<1>u. UNCHANGED <<job, callbacks, active, pc, w>> => Armed'
  BY <1>f, <1>a
<1>i. UNCHANGED <<callbacks, active>> /\ ~active /\ job'["watchdog"].at = job["watchdog"].at => Armed'
  BY <1>f
<1>1. ASSUME NEW t \in Threads, Cleanup(t) PROVE Armed'
  <2>1. UNCHANGED <<pc, w, callbacks>>
    BY <1>1 DEF Cleanup, CloseGate, List, Kill, OpenGate
  <2>2. CASE t # "watchdog"
    <3>1. job'["watchdog"] = job["watchdog"]
      BY <1>1, <1>t, <2>2, GateCloses, JobLists, GateOpened, JobKills DEF Cleanup, Typed
    <3>2. UNCHANGED active
      BY <1>1, <1>t, <2>2 DEF Cleanup, CloseGate, List, Kill, OpenGate
    <3> QED
      BY <2>1, <3>1, <3>2, <1>a, <1>f
  <2>3. CASE t = "watchdog" /\ OpenGate(t)
    <3>1. job'["watchdog"].at = "idle" /\ active' = FALSE
      <4>1. job'["watchdog"].at = "idle"
        BY <2>3, <1>t, GateOpened
      <4> QED
        BY <4>1, <2>3 DEF OpenGate
    <3> QED
      BY <3>1 DEF Armed, OnlyOwnTimeout
  <2>4. CASE t = "watchdog" /\ (CloseGate(t) \/ List(t) \/ \E p \in Pids : Kill(t, p))
    <3>1. job["watchdog"].at # "idle" /\ UNCHANGED active
      BY <2>4 DEF CloseGate, List, Kill
    <3> QED
      BY <2>1, <3>1, <1>a DEF Armed, OnlyOwnTimeout
  <2> QED
    BY <1>1, <2>2, <2>3, <2>4 DEF Cleanup
<1>2. CASE Fire
  <2>1. PICK c \in callbacks :
           /\ callbacks' = callbacks \ {c}
           /\ IF ~Valid(c) THEN UNCHANGED <<active, job>>
              ELSE \/ active' = FALSE /\ UNCHANGED job
                   \/ UNCHANGED active
    BY <1>2 DEF Fire
  <2>2. UNCHANGED <<pc, w>> /\ job["watchdog"].at = "idle"
    BY <1>2 DEF Fire
  <2>3. CASE Valid(c)
    <3>1. active /\ "present" \notin callbacks'
      BY <2>1, <2>3 DEF Valid
    <3> QED
      BY <2>1, <2>2, <2>3, <3>1, <1>a DEF Armed, OnlyOwnTimeout
  <2>4. CASE ~Valid(c)
    BY <2>1, <2>2, <2>4, <1>a, <1>f
  <2> QED
    BY <2>3, <2>4
<1>3. CASE Disarm
  <2>1. job'["watchdog"].at = "idle" /\ active' = FALSE
    BY <1>3 DEF Disarm
  <2> QED
    BY <2>1 DEF Armed, OnlyOwnTimeout
<1>r. ASSUME NEW out, Raise(out) PROVE pc' \in InCall
  BY <1>r DEF Raise, InCall, Points, Calls, Ensuring, Registering
\* The call begins: the timer is set, and no firing is under way.
<1>p. ASSUME NEW k \in Ensuring, Proceed(k), UNCHANGED job, active => k # "file" PROVE Armed'
  <2>1. pc' \in InCall
    BY <1>p DEF Proceed, After, Ensuring, InCall, Points, Calls, Registering
  <2>2. CASE k = "file"
    BY <1>p, <1>a, <2>1, <2>2 DEF Proceed, Armed, OnlyOwnTimeout
  <2>3. CASE k # "file"
    BY <1>p, <2>1, <2>3, <1>k DEF Proceed
  <2> QED
    BY <2>2, <2>3
<1>4. CASE Ensure
  <2>0. pc \in Ensuring /\ (active => pc # "file")
    BY <1>4, <1>a DEF Ensure, InCall, Ensuring
  <2>1. CASE Refused /\ UNCHANGED <<active, callbacks, job>>
    BY <2>0, <2>1, <1>r, <1>k, <1>i DEF Refused
  <2>2. CASE Proceed(pc) /\ UNCHANGED job
    BY <2>0, <2>2, <1>p
  <2>3. CASE /\ StartJob("worker", [p \in Pids |-> IF owned[p].pending THEN owned[p] ELSE NoRec])
             /\ w' = [w EXCEPT !.then = pc] /\ pc' = "retry" /\ UNCHANGED <<active, callbacks>>
    <3>1. w'.then = pc
      BY <2>3, <1>t DEF Work
    <3>2. job'["watchdog"] = job["watchdog"]
      BY <2>3, <1>t DEF StartJob, Threads
    <3> QED
      BY <2>0, <2>3, <3>1, <3>2, <1>f
  <2> QED
    BY <1>4, <2>1, <2>2, <2>3 DEF Ensure
<1>5. CASE Retried
  <2>0. pc = "retry" /\ w.then \in Ensuring /\ (active => w.then # "file") /\ UNCHANGED job
    BY <1>5, <1>a, <1>t DEF Retried, InCall
  <2>1. CASE w.then = "file" /\ UNCHANGED <<active, callbacks>>
    BY <2>0, <2>1, <1>i
  <2>2. CASE Raise("ok") /\ UNCHANGED <<active, callbacks>>
    BY <2>0, <2>2, <1>r, <1>k
  <2>3. CASE Proceed(w.then)
    BY <2>0, <2>3, <1>p
  <2> QED
    BY <1>5, <2>1, <2>2, <2>3 DEF Retried
\* Within the call.
<1>6. CASE Look \/ Looked \/ Judge \/ Decide \/ Consume \/ Baseline \/ Create \/ Window \/ GetIdentity \/ Confirm
           \/ Confirmed \/ Commit \/ Publish \/ Return \/ Break \/ Hang
  <2>1. UNCHANGED <<job, callbacks, active>>
    BY <1>6 DEF Look, Looked, Judge, Decide, Consume, Baseline, Create, Window, GetIdentity, Confirm, Confirmed,
       Commit, Publish, Return, Break, Hang
  <2>2. NotOwned \/ ProbeFails => pc' \in InCall
    BY <1>r DEF NotOwned, GiveUp, Again, ProbeFails, InCall, Points, Registering, Calls, Ensuring
  <2>3. pc' \in InCall
    <3>1. CASE Look \/ Looked \/ Judge \/ Decide \/ Consume \/ Baseline \/ Create
      <4>1. {"look", "looked", "judge", "decide", "getter", "dispatch", "call", "baseline", "create", "window"}
               \subseteq InCall
        BY DEF InCall, Points, Registering, Ensuring, Calls
      <4>2. Raise("ok") \/ Raise("busy") \/ Raise("poison") => pc' \in InCall
        BY <1>r
      <4> QED
        BY <3>1, <4>1, <4>2 DEF Look, Looked, Judge, Decide, Consume, Baseline, Create
    <3>2. CASE Window \/ GetIdentity \/ Confirm \/ Confirmed \/ Commit
      BY <3>2, <2>2, <1>r DEF Window, GetIdentity, Confirm, Confirmed, Commit, InCall, Points, Registering
    <3>3. CASE Publish \/ Return \/ Break \/ Hang
      BY <3>3, <1>r DEF Publish, Return, Break, Hang, InCall, Points, Calls
    <3> QED
      BY <1>6, <3>1, <3>2, <3>3
  <2> QED
    BY <2>1, <2>3, <1>k
\* Outside of it.
<1>7. CASE Take \/ RecoverPoisonedOffice \/ Recovered \/ QuitComApps \/ QuitHangs \/ QuitReturns \/ Grace
           \/ Restarted \/ CycleEnds
  <2>1. pc \in {"idle", "recover", "recovering", "quitcall", "quithung", "grace", "quitting"}
    BY <1>7 DEF Take, RecoverPoisonedOffice, Recovered, QuitComApps, QuitHangs, QuitReturns, Grace, Restarted,
       CycleEnds, Quitted
  <2>2. ~active
    BY <2>1, <1>a DEF InCall
  <2>3. UNCHANGED <<callbacks, active>>
    BY <1>7 DEF Take, RecoverPoisonedOffice, Recovered, QuitComApps, QuitHangs, QuitReturns, Grace, Restarted,
       CycleEnds, Quitted
  <2>s. ASSUME NEW recs, StartJob("worker", recs) PROVE job'["watchdog"] = job["watchdog"]
    BY <2>s, <1>t DEF StartJob, Threads
  <2>4. job'["watchdog"].at = job["watchdog"].at
    BY <1>7, <1>t, <2>s DEF Take, RecoverPoisonedOffice, Recovered, QuitComApps, QuitHangs, QuitReturns, Grace,
       Restarted, CycleEnds, Quitted, Threads
  <2> QED
    BY <2>2, <2>3, <2>4, <1>i
<1>8. CASE QuitFires
  <2>1. w'.then = w.then /\ UNCHANGED <<pc, active, callbacks>>
    BY <1>8, <1>t DEF QuitFires, Work
  <2>2. job'["watchdog"] = job["watchdog"]
    BY <1>8, <1>t DEF QuitFires, StartJob, Threads
  <2> QED
    BY <2>1, <2>2, <1>a, <1>f
<1>9. CASE CoolsDown \/ Expires \/ BeginApplicationShutdown \/ UserOpens \/ UserCloses \/ Released \/ OursDies
           \/ UNCHANGED vars
  BY <1>9, <1>u DEF vars, CoolsDown, Expires, BeginApplicationShutdown, UserOpens, UserCloses, Released, OursDies,
     Ends
<1> QED
  BY <1>1, <1>2, <1>3, <1>4, <1>5, <1>6, <1>7, <1>8, <1>9 DEF Next, Worker

\* The watchdog cleans up only for the call it is armed for, whenever the timers
\* of earlier calls come: a late one finds another arm and does nothing.
THEOREM OwnTimeoutOnly == Spec => []OnlyOwnTimeout
<1>1. Armed => OnlyOwnTimeout
  BY DEF Armed
<1> QED
  BY <1>1, TypedInit, TypedStep, ArmedInit, ArmedStep, PTL DEF Spec

-----------------------------------------------------------------------------
(* The guard tells the user's Word from ours.                                *)

LEMMA JudgedInit == Init => Judged
<1> SUFFICES ASSUME Init PROVE Judged
  OBVIOUS
<1>1. cache = NoList /\ pc = "idle"
  BY DEF Init
<1> QED
  BY <1>1, Values DEF Judged, Known

\* A list is judged by the records of the moment it was made, as long as the epoch
\* has not moved since.
LEMMA JudgedStep ==
    Typed /\ Numbered /\ Accounted /\ Judged /\ [Next]_vars => Judged'
<1> SUFFICES ASSUME Typed, Numbered, Accounted, Judged, [Next]_vars PROVE Judged'
  OBVIOUS
<1>t. /\ w \in Work /\ w.list \in Lists /\ w.recs \in Recs /\ cache \in Lists /\ owned \in Recs
      /\ proc \in [Pids -> Instances] /\ moved \in BOOLEAN /\ unverified \in BOOLEAN
  BY DEF Typed, Work
<1>k. /\ Len(kind) \in Nat /\ Len(kind') \in Nat /\ Len(kind) <= Len(kind')
      /\ \A i \in 1..Len(kind) : i \in 1..Len(kind') /\ kind'[i] = kind[i]
      /\ proc \in [Pids -> Nat]
  BY KindKept
<1> USE DEF os, guard, tls, timers
\* What is known of a list stays known while the records stay.
<1>l. ASSUME NEW l \in Lists, Started(l), Known(l), UNCHANGED <<owned, unverified>>, NEW p \in Pids,
             l.of[p] # 0, kind'[l.of[p]] = "ours"
      PROVE  owned'[p].id = l.of[p] \/ unverified'
  <2>1. l.of[p] \in 1..Len(kind)
    <3>1. l.of[p] \in Nat /\ l.of[p] <= Len(kind)
      BY <1>l, ConstantsAssumption DEF Lists, Instances, ConstantsAssumption, Started
    <3> QED
      BY <1>k, <1>l, <3>1
  <2>2. kind[l.of[p]] = "ours"
    BY <1>k, <1>l, <2>1
  <2> QED
    BY <1>l, <2>2 DEF Known
<1>e. StateChanged \/ UNCHANGED <<owned, unverified>>
  BY OwnedSources DEF OwnedStep
<1>n. Started(cache) /\ Started(w.list) /\ Known(cache) /\ Known(NoList)
  BY Values DEF Numbered, Judged, Known
\* The cache is dropped with every change, or takes a list that is still good.
<1>c. Known(cache)'
  <2>1. CASE StateChanged
    BY <2>1, Values DEF StateChanged, Known
  <2>2. ASSUME UNCHANGED <<owned, unverified>>, cache' \in {cache, NoList} PROVE Known(cache)'
    <3>1. cache' \in Lists /\ Started(cache') /\ Known(cache')
      BY <2>2, <1>t, <1>n, Values DEF Started, Numbered, Known
    <3> QED
      BY <2>2, <1>l, <3>1 DEF Known
  <2>3. CASE Looked /\ ~moved
    <3>1. Known(w.list) /\ UNCHANGED <<owned, unverified>> /\ cache' \in {cache, w.list}
      BY <2>3 DEF Looked, Judged
    <3>2. cache' \in Lists /\ Started(cache') /\ Known(cache')
      BY <3>1, <1>t, <1>n
    <3> QED
      BY <3>1, <3>2, <1>l DEF Known
  <2>4. ASSUME ~(Looked /\ ~moved) PROVE cache' \in {cache, NoList}
    BY <2>4, CacheSources
  <2> QED
    BY <1>e, <2>1, <2>2, <2>3, <2>4
\* The other parts, when the list is not asked for or judged.
<1>o. pc' \notin {"looked", "judge", "decide"} => Judged'
  BY <1>c DEF Judged
<1>s. ASSUME w'.list = w.list, w'.recs = w.recs, w'.external = w.external, pc' = pc,
             moved' = moved \/ StateChanged, StateChanged \/ UNCHANGED <<owned, unverified>>
      PROVE  Judged'
  <2>1. pc \in {"looked", "judge", "decide"} /\ ~moved' => Known(w.list)'
    BY <1>s, <1>t, <1>n, <1>l DEF Judged, Known, StateChanged
  <2>2. pc \in {"judge", "decide"} /\ ~moved' => w.recs = owned'
    BY <1>s DEF Judged, StateChanged
  <2>3. ASSUME pc = "decide", NEW p \in Listed(w.list) \ w.external
        PROVE  w.recs[p] # NoRec /\ (proc'[p] = w.list.of[p] => proc'[p] = w.recs[p].id)
    <3>1. w.recs[p] # NoRec /\ (proc[p] = w.list.of[p] => proc[p] = w.recs[p].id)
      BY <2>3 DEF Judged
    <3>2. p \in Pids /\ w.list.of[p] \in 1..Len(kind)
      <4>1. p \in Pids /\ w.list.of[p] # 0 /\ w.list.of[p] <= Len(kind) /\ w.list.of[p] \in Nat
        BY <2>3, <1>n, <1>t, ConstantsAssumption
        DEF Listed, Started, Lists, Instances, ConstantsAssumption
      <4> QED
        BY <4>1, <1>k
    <3>3. \A i \in 1..Len(kind) : proc'[p] = i => proc[p] = i
      BY <3>2, StaysGone
    <3> QED
      BY <3>1, <3>2, <3>3
  <2>4. pc = "decide" => w.external \subseteq Listed(w.list)
    BY DEF Judged
  <2> QED
    BY <1>s, <1>c, <2>1, <2>2, <2>3, <2>4 DEF Judged, Listed
<1>1. CASE Look
  <2>1. CASE pc' = "disarm"
    BY <2>1, <1>o
  <2>2. ASSUME NEW l \in {cache, Listing, NoList}, w' = [w EXCEPT !.list = l, !.tries = @ + 1], pc' = "looked"
        PROVE  Judged'
    <3>1. w'.list = l
      BY <2>2, <1>t DEF Work
    <3>2. UNCHANGED <<os, owned, unverified>> /\ pc = "look"
      BY <1>1 DEF Look
    <3>3. Known(Listing)
      <4> SUFFICES ASSUME NEW p \in Pids, Listing.of[p] # 0, kind[Listing.of[p]] = "ours"
                   PROVE  owned[p].id = Listing.of[p] \/ unverified
        BY DEF Known
      <4>1. Listing.of[p] = proc[p]
        BY <1>t, ListingType
      <4> QED
        BY <3>2, <4>1 DEF Accounted, OursAccounted, Registering
    <3>4. Known(l)
      BY <2>2, <1>n, <3>3
    <3>5. Known(w.list)'
      BY <3>1, <3>2, <3>4 DEF Known
    <3> QED
      BY <2>2, <3>5, <1>c DEF Judged
  <2> QED
    BY <1>1, <2>1, <2>2 DEF Look, Raise
<1>2. CASE Looked
  <2>1. CASE pc' = "look"
    BY <2>1, <1>o
  <2>2. CASE ~moved /\ w' = [w EXCEPT !.recs = owned] /\ pc' = "judge"
    <3>1. w'.list = w.list /\ w'.recs = owned /\ UNCHANGED <<owned, unverified, kind>> /\ pc = "looked"
      BY <1>2, <2>2, <1>t DEF Looked, Work
    <3>2. Known(w.list)'
      BY <3>1, <2>2 DEF Judged, Known
    <3> QED
      BY <2>2, <3>1, <3>2, <1>c DEF Judged
  <2> QED
    BY <1>2, <2>1, <2>2 DEF Looked, Stale
<1>3. CASE Judge
  <2>1. PICK unknown : w' = [w EXCEPT !.external =
            {p \in Listed(w.list) : ~Proven(p, IF p \in unknown THEN 0 ELSE proc[p])}]
    BY <1>3 DEF Judge
  <2> DEFINE external == {p \in Listed(w.list) : ~Proven(p, IF p \in unknown THEN 0 ELSE proc[p])}
  <2>2. w'.list = w.list /\ w'.recs = w.recs /\ w'.external = external
    BY <2>1, <1>t DEF Work
  <2>3. UNCHANGED <<os, owned, unverified, moved>> /\ pc = "judge" /\ pc' = "decide"
    BY <1>3 DEF Judge
  <2>4. ASSUME NEW p \in Listed(w.list) \ external
        PROVE  w.recs[p] # NoRec /\ (proc[p] = w.list.of[p] => proc[p] = w.recs[p].id)
    <3>1. Proven(p, IF p \in unknown THEN 0 ELSE proc[p])
      BY <2>4
    <3>2. p \in Pids /\ w.recs[p].id # 0
      BY <3>1 DEF Listed, Proven, Numbered, OfOurs
    <3> QED
      BY <3>1, <3>2 DEF Proven
  <2>5. external \subseteq Listed(w.list)
    OBVIOUS
  <2> HIDE DEF external
  <2>6. Known(w.list)' <=> Known(w.list)
    BY <2>2, <2>3 DEF Known
  <2> QED
    BY <1>c, <2>2, <2>3, <2>4, <2>5, <2>6 DEF Judged, Listed
<1>4. CASE Decide
  <2>1. pc' \in {"disarm", "look", "getter"}
    BY <1>4 DEF Decide, Raise
  <2> QED
    BY <2>1, <1>o
<1>5. ASSUME NEW t \in Threads, Cleanup(t) PROVE Judged'
  <2>1. UNCHANGED <<pc, w>> /\ (moved' = moved \/ StateChanged)
    BY <1>5 DEF Cleanup, CloseGate, List, Kill, TerminateAndConfirm, Remove, OpenGate, StateChanged
  <2> QED
    BY <2>1, <1>e, <1>s
<1>6. CASE Fire \/ CoolsDown \/ Expires \/ BeginApplicationShutdown \/ UserOpens \/ UserCloses \/ Released
           \/ OursDies \/ UNCHANGED vars
  <2>1. UNCHANGED <<pc, w>> /\ (moved' = moved \/ StateChanged)
    BY <1>6 DEF vars, Fire, BeginOwnedCleanup, NoChange, CoolsDown, Expires, BeginApplicationShutdown, UserOpens,
       UserCloses, Released, OursDies, Ends
  <2> QED
    BY <2>1, <1>e, <1>s
<1>7. CASE QuitFires
  <2>1. w'.list = w.list /\ w'.recs = w.recs /\ w'.external = w.external /\ UNCHANGED pc /\ StateChanged
    BY <1>7, <1>t DEF QuitFires, Work
  <2> QED
    BY <2>1, <1>s
<1>8. CASE Take \/ Ensure \/ Retried \/ Consume \/ Baseline \/ Create \/ Publish \/ Return \/ Break \/ Disarm
           \/ RecoverPoisonedOffice \/ Recovered \/ QuitComApps \/ QuitReturns \/ Grace \/ Restarted \/ CycleEnds
           \/ Hang \/ QuitHangs
  <2>p. ASSUME NEW k \in Ensuring, Proceed(k) PROVE pc' \in {"guard", "look", "consume", "baseline"}
    BY <2>p DEF Proceed, After, Ensuring
  <2>1. Ensure => pc' \notin {"looked", "judge", "decide"}
    BY <2>p DEF Ensure, Refused, Raise
  <2>2. Retried => pc' \notin {"looked", "judge", "decide"}
    BY <2>p DEF Retried, Raise, Typed
  <2>3. pc' \notin {"looked", "judge", "decide"}
    BY <1>8, <2>1, <2>2 DEF Take, Consume, Baseline, Create, Publish, Return, Break, Disarm, RecoverPoisonedOffice,
       Recovered, QuitComApps, QuitReturns, Grace, Restarted, CycleEnds, Quitted, Hang, QuitHangs, Raise
  <2> QED
    BY <2>3, <1>o
<1>9. CASE Window \/ GetIdentity \/ Confirm \/ Confirmed \/ Commit
  <2>1. NotOwned \/ ProbeFails => pc' \in {"disarm", "window"}
    BY DEF NotOwned, GiveUp, Again, ProbeFails, Raise
  <2>2. pc' \notin {"looked", "judge", "decide"}
    BY <1>9, <2>1 DEF Window, GetIdentity, Confirm, Confirmed, Commit, Raise
  <2> QED
    BY <2>2, <1>o
<1> QED
  BY <1>1, <1>2, <1>3, <1>4, <1>5, <1>6, <1>7, <1>8, <1>9 DEF Next, Worker

\* The worker has an outcome only between the end of a call and the next.
LEMMA SpokenInit == Init => Spoken
BY DEF Init, NoWork, Spoken

LEMMA SpokenStep == Typed /\ Spoken /\ [Next]_vars => Spoken'
<1> SUFFICES ASSUME Typed, Spoken, [Next]_vars PROVE Spoken'
  OBVIOUS
<1>t. w \in Work /\ w.app \in App /\ NoWork \in Work /\ NoWork.out = "ok"
  BY Values DEF Typed, Work, NoWork
<1> USE DEF os, guard, tls, timers
<1>1. pc' = "disarm" \/ w'.out = "ok" => Spoken'
  BY DEF Spoken
<1>2. w'.out = w.out /\ (pc # "disarm" \/ pc' = "disarm") => Spoken'
  BY DEF Spoken
<1>3. w' = NoWork => w'.out = "ok"
  BY <1>t
<1>p. ASSUME NEW k, Proceed(k) PROVE w'.out = "ok"
  BY <1>p, <1>3 DEF Proceed
<1>n. NotOwned \/ ProbeFails => pc' = "disarm" \/ w'.out = w.out
  BY <1>t DEF NotOwned, GiveUp, Again, ProbeFails, Raise, Work
<1>4. CASE Ensure \/ Retried \/ Grace \/ Disarm \/ Decide
  <2>1. CASE Ensure
    <3>1. w' = [w EXCEPT !.then = pc] => w'.out = w.out
      BY <1>t DEF Work
    <3> QED
      BY <2>1, <3>1, <1>1, <1>2, <1>p DEF Ensure, Refused, Raise, Ensuring
  <2>2. CASE Retried \/ Decide
    BY <2>2, <1>1, <1>2, <1>3, <1>p DEF Retried, Decide, Raise
  <2>3. CASE Grace \/ Disarm
    BY <2>3, <1>1, <1>3 DEF Grace, Disarm
  <2> QED
    BY <1>4, <2>1, <2>2, <2>3
<1>5. CASE Look
  <2>1. \A l : w' = [w EXCEPT !.list = l, !.tries = @ + 1] => w'.out = w.out
    BY <1>t DEF Work
  <2> QED
    BY <1>5, <2>1, <1>1, <1>2 DEF Look, Raise
<1>6. CASE Looked \/ Judge \/ Baseline
  <2>1. w' = [w EXCEPT !.recs = owned] => w'.out = w.out
    BY <1>t DEF Work
  <2>2. \A S : w' = [w EXCEPT !.external = S] \/ w' = [w EXCEPT !.base = S] => w'.out = w.out
    BY <1>t DEF Work
  <2> QED
    BY <1>6, <2>1, <2>2, <1>1, <1>2 DEF Looked, Judge, Baseline, Raise
<1>7. CASE Consume \/ Create
  <2>1. \A a : w' = [w EXCEPT !.app = a] \/ w' = [w EXCEPT !.app = a, !.tries = 0] => w'.out = w.out
    BY <1>t DEF Work
  <2> QED
    BY <1>7, <2>1, <1>1, <1>2 DEF Consume, Create, Raise
<1>8. CASE Window \/ GetIdentity \/ Confirm \/ Confirmed \/ Commit
  <2>1. \A l : w' = [w EXCEPT !.list = l, !.recs = owned] => w'.out = w.out
    BY <1>t DEF Work
  <2>2. \A i : w' = [w EXCEPT !.id = i] \/ w' = [w EXCEPT !.app = i] => w'.out = w.out
    BY <1>t DEF Work
  <2>3. pc # "disarm"
    BY <1>8 DEF Window, GetIdentity, Confirm, Confirmed, Commit
  <2>4. pc' = "disarm" \/ w'.out = w.out
    BY <1>8, <2>1, <2>2, <1>n DEF Window, GetIdentity, Confirm, Confirmed, Commit, Raise
  <2> QED
    BY <2>3, <2>4, <1>1, <1>2
<1>9. CASE Publish \/ QuitComApps
  <2>1. \A a : w' = [NoWork EXCEPT !.app = a] => w'.out = "ok"
    BY <1>t DEF Work
  <2>2. w' = [NoWork EXCEPT !.recs = owned', !.app = app] => w'.out = "ok"
    BY <1>t DEF Work
  <2> QED
    BY <1>9, <2>1, <2>2, <1>1 DEF Publish, QuitComApps, Raise
<1>10. CASE QuitFires
  <2>1. w' = [w EXCEPT !.fired = TRUE] => w'.out = w.out
    BY <1>t DEF Work
  <2> QED
    BY <1>10, <2>1, <1>2 DEF QuitFires
<1>11. CASE Return \/ Break
  BY <1>11, <1>1 DEF Return, Break, Raise
<1>12. ASSUME ~(\/ Ensure \/ Retried \/ Look \/ Looked \/ Judge \/ Decide \/ Consume \/ Baseline \/ Create \/ Window
                \/ GetIdentity \/ Confirm \/ Confirmed \/ Commit \/ Publish \/ Return \/ Break \/ Disarm \/ Grace
                \/ QuitComApps \/ QuitFires)
       PROVE  UNCHANGED w /\ (pc # "disarm" \/ pc' = pc)
  BY <1>12 DEF Next, Worker, Cleanup, vars, Take, RecoverPoisonedOffice, Recovered, QuitReturns, Restarted,
     CycleEnds, Quitted, Hang, QuitHangs, Fire, CloseGate, List, Kill, OpenGate, CoolsDown, Expires,
     BeginApplicationShutdown, UserOpens, UserCloses, Released, OursDies, Ends
<1> QED
  BY <1>2, <1>4, <1>5, <1>6, <1>7, <1>8, <1>9, <1>10, <1>11, <1>12

\* A decision for busy names a process of the user, or one whose record no longer
\* fits; a decision to go in finds no listed process of the user still running.
LEMMA DecidesRightly ==
    ASSUME Typed, Numbered, Judged, Spoken, [Next]_vars
    PROVE  /\ pc = "decide" /\ w'.out = "busy" =>
                 \E p \in w.external : kind[w.list.of[p]] # "ours" \/ w.recs[p] # NoRec
           /\ pc = "decide" /\ pc' = "getter" =>
                 \A p \in Listed(w.list) : proc[p] = w.list.of[p] => kind[proc[p]] = "ours"
<1>t. w \in Work /\ w.list \in Lists /\ w.recs \in Recs /\ owned \in Recs
  BY DEF Typed, Work
<1> USE DEF os, guard, tls, timers
<1>1. pc = "decide" /\ ~Decide => w'.out = "ok" /\ pc' = "decide"
  <2> SUFFICES ASSUME pc = "decide", ~Decide PROVE w'.out = "ok" /\ pc' = "decide"
    OBVIOUS
  <2>1. w.out = "ok" /\ (w' = [w EXCEPT !.fired = TRUE] => w'.out = w.out)
    BY <1>t DEF Spoken, Work
  <2>2. UNCHANGED pc /\ (UNCHANGED w \/ w' = [w EXCEPT !.fired = TRUE])
    BY DEF Next, Worker, Cleanup, vars, Take, Ensure, Ensuring, Retried, Look, Looked, Judge, Consume, Baseline,
       Create, Window, GetIdentity, Confirm, Confirmed, Commit, Publish, Return, Break, Calls, Disarm,
       RecoverPoisonedOffice, Recovered, QuitComApps, QuitReturns, Grace, Restarted, CycleEnds, Quitted, Hang,
       QuitHangs, Fire, QuitFires, CloseGate, List, Kill, OpenGate, CoolsDown, Expires, BeginApplicationShutdown,
       UserOpens, UserCloses, Released, OursDies, Ends
  <2> QED
    BY <2>1, <2>2
<1>2. ASSUME Decide, w'.out = "busy"
      PROVE  \E p \in w.external : kind[w.list.of[p]] # "ours" \/ w.recs[p] # NoRec
  <2>0. NoWork.out = "ok" /\ \A out \in {"ok", "busy"} : Raise(out) => w'.out = out
    BY Raised, Values DEF NoWork, Work, Raise
  <2>1. ~Gated /\ ~Stale /\ w.external # {} /\ pc = "decide"
    BY <1>2, <2>0 DEF Decide, Spoken
  <2>2. PICK p \in w.external : TRUE
    BY <2>1
  <2>3. p \in Pids /\ w.list.of[p] # 0
    BY <2>1, <2>2 DEF Judged, Listed
  <2>4. Known(w.list) /\ w.recs = owned /\ ~unverified
    BY <2>1 DEF Judged, Stale, Gated
  <2>5. CASE kind[w.list.of[p]] = "ours"
    <3>1. w.recs[p].id # 0
      BY <2>3, <2>4, <2>5 DEF Known
    <3>2. w.recs[p] # NoRec
      BY <3>1 DEF NoRec
    <3> QED
      BY <3>2
  <2> QED
    BY <2>5
<1>3. ASSUME Decide, pc' = "getter", NEW p \in Listed(w.list), proc[p] = w.list.of[p]
      PROVE  kind[proc[p]] = "ours"
  <2>1. w.external = {} /\ pc = "decide"
    BY <1>3 DEF Decide, Raise
  <2>2. w.recs[p] # NoRec /\ proc[p] = w.recs[p].id
    BY <1>3, <2>1 DEF Judged
  <2>3. OfOurs(w.recs) /\ p \in Pids
    BY DEF Numbered, Listed
  <2> QED
    BY <2>2, <2>3 DEF OfOurs
<1> QED
  BY <1>1, <1>2, <1>3

\* The guard, asked while the user opens and closes Word and watchdogs clean up,
\* reports busy for the user's Word and for a record that does not fit, and lets
\* the worker in only when no listed Word still running is the user's.
THEOREM GuardIsRight == Spec => GuardTellsApart
<1>1. ASSUME Typed, Numbered, Judged, Spoken, [Next]_vars
      PROVE  [ /\ (pc = "decide" /\ w'.out = "busy" =>
                      \E p \in w.external : kind[w.list.of[p]] # "ours" \/ w.recs[p] # NoRec)
               /\ (pc = "decide" /\ pc' = "getter" =>
                      \A p \in Listed(w.list) : proc[p] = w.list.of[p] => kind[proc[p]] = "ours") ]_vars
  BY <1>1, DecidesRightly
<1> QED
  BY <1>1, TypedInit, TypedStep, NumberedInit, NumberedStep, RegisteredStep, AccountedInit, AccountedStep, JudgedInit,
     JudgedStep, SpokenInit, SpokenStep, PTL DEF Spec, GuardTellsApart

\* The model's variables keep their types, and the count of cleanups that close
\* the gate stays within what the two watchdogs and the worker can have under way.
THEOREM TypeCorrect == Spec => []TypeOK
BY TypedInit, TypedStep, GatesInit, GatesStep, GatesRange, PTL DEF Spec
=============================================================================
