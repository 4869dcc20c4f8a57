-------------------------- MODULE PurgeAndPptProofs --------------------------
(***************************************************************************)
(* Proofs about two components that share no state: FolderPurge (a purge     *)
(* that is recorded as done left nothing behind) in the first part, and      *)
(* PptSession (a PowerPoint is asked to quit at most once and only if this   *)
(* program started it, and at most one that this program brought up is       *)
(* running) in the second.  The names of the two are kept apart, so that one *)
(* module extends both.                                                      *)
(***************************************************************************)
EXTENDS FolderPurge, PptSession, SequenceTheorems, FiniteSetTheorems, TLAPS

-----------------------------------------------------------------------------
(* FolderPurge.                                                              *)

(* A verdict is there when it is about to be saved.                          *)
Typed == PurgeTypeOK /\ (stage = "record" => cache # None)

(* While the rows are being deleted, those left to delete are rows of        *)
(* unwatched folders, and unless a deletion failed they are all there are.   *)
Purging ==
    /\ stage = "delete" => /\ snap.folders # {} /\ ~snap.dry
                           /\ doomed \subseteq Stale
                           /\ ~broken => doomed = Stale
    /\ SuccessMeansPurged
-----------------------------------------------------------------------------
(* The purge meta.                                                           *)

\* A verdict holds one outcome: only a success is taken for one.
LEMMA Verdicts ==
    ASSUME snap \in Sig, build \in 1..Builds
    PROVE  /\ NoMeta \in Meta
           /\ OnSuccess \in Meta /\ OnSuccess.ok = snap
           /\ OnFailure \in Meta /\ OnFailure.ok = None
           /\ \A why \in {"mass_delete", "unsupported"} : OnBlocked(why) \in Meta /\ OnBlocked(why).ok = None
<1>s. snap # None /\ build \in 0..Builds /\ 0 \in 0..Builds
  BY PurgeAssumption DEF PurgeAssumption
<1>1. /\ NoMeta \in Meta /\ NoMeta.ok = None /\ NoMeta.failed = None /\ NoMeta.blocked = None
      /\ NoMeta.reason = "none" /\ NoMeta.recent = FALSE /\ NoMeta.waiting = FALSE
  BY <1>s DEF NoMeta, Meta
<1>2. OnSuccess \in Meta /\ OnSuccess.ok = snap
  BY <1>s, <1>1 DEF OnSuccess, Meta
<1>3. OnFailure \in Meta /\ OnFailure.ok = None
  BY <1>s, <1>1 DEF OnFailure, Meta
<1>4. ASSUME NEW why \in {"mass_delete", "unsupported"}
      PROVE  OnBlocked(why) \in Meta /\ OnBlocked(why).ok = None
  <2> DEFINE b == IF why = "unsupported" THEN build ELSE 0
  <2>1. OnBlocked(why) = [NoMeta EXCEPT !.blocked = snap, !.reason = why, !.build = b]
    BY DEF OnBlocked
  <2>2. b \in 0..Builds
    BY <1>s
  <2> HIDE DEF b
  <2> QED
    BY <1>s, <1>1, <2>1, <2>2 DEF Meta
<1> QED
  BY <1>1, <1>2, <1>3, <1>4

\* Time changes neither what a meta says nor that it says one thing.
LEMMA AgedStays ==
    ASSUME NEW m \in Meta, NEW n \in Aged(m)
    PROVE  n \in Meta /\ n.ok = m.ok
BY DEF Aged, Meta

\* Whatever the two comparisons of times are set to, as long as there is a time.
LEMMA Reset ==
    ASSUME NEW m \in Meta, NEW a \in BOOLEAN, NEW b \in BOOLEAN, a => m.failed # None, b => m.ok # None
    PROVE  [m EXCEPT !.waiting = a, !.recent = b] \in Meta /\ [m EXCEPT !.waiting = a, !.recent = b].ok = m.ok
<1>1. CASE a = TRUE /\ b = TRUE
  BY <1>1 DEF Meta
<1>2. CASE a = TRUE /\ b = FALSE
  BY <1>2 DEF Meta
<1>3. CASE a = FALSE /\ b = TRUE
  BY <1>3 DEF Meta
<1>4. CASE a = FALSE /\ b = FALSE
  BY <1>4 DEF Meta
<1> QED
  BY <1>1, <1>2, <1>3, <1>4

\* The clock set back changes nothing else either, and invents no meta.
LEMMA SetBackStays ==
    ASSUME NEW m \in Meta \cup {None}
    PROVE  /\ m = None => SetBack(m) = None
           /\ m # None => (SetBack(m) \in Meta /\ SetBack(m) # None /\ SetBack(m).ok = m.ok)
<1>1. None \notin Meta
  BY PurgeAssumption DEF PurgeAssumption
<1>2. CASE m = None
  BY <1>2 DEF SetBack
<1>3. CASE m # None
  <2> DEFINE wait == m.failed # None
             rec  == m.ok # None
  <2>1. SetBack(m) = [m EXCEPT !.waiting = wait, !.recent = rec]
    BY <1>3 DEF SetBack
  <2>2. /\ wait \in BOOLEAN /\ rec \in BOOLEAN
        /\ (wait => m.failed # None) /\ (rec => m.ok # None)
    OBVIOUS
  <2> HIDE DEF wait, rec
  <2>0. m \in Meta
    BY <1>3
  <2>3. /\ [m EXCEPT !.waiting = wait, !.recent = rec] \in Meta
        /\ [m EXCEPT !.waiting = wait, !.recent = rec].ok = m.ok
    BY <2>0, <2>2, Reset, Zenon
  <2>4. SetBack(m) \in Meta /\ SetBack(m).ok = m.ok
    BY <2>1, <2>3, Zenon
  <2> QED
    BY <1>1, <1>3, <2>4
<1> QED
  BY <1>2, <1>3

-----------------------------------------------------------------------------
(* Types.                                                                    *)

LEMMA TypeInit == PurgeInit => Typed
<1> SUFFICES ASSUME PurgeInit PROVE Typed
  OBVIOUS
<1>1. build \in 1..Builds /\ snap \in Sig
  BY PurgeAssumption DEF PurgeInit, NoSnap, Sig, PurgeAssumption
<1>2. sidecar \in Meta /\ cache = None
  BY <1>1, Verdicts DEF PurgeInit
<1>3. purgeFaults \in 0..MaxPurgeFaults
  BY PurgeAssumption DEF PurgeInit, PurgeAssumption
<1> QED
  BY <1>1, <1>2, <1>3 DEF PurgeInit, PurgeTypeOK, Typed

\* A fault is counted within its bound.
LEMMA FaultCounted ==
    ASSUME NEW kind, purgeFaults \in 0..MaxPurgeFaults, Fault(kind)
    PROVE  purgeFaults' \in 0..MaxPurgeFaults
BY PurgeAssumption DEF Fault, PurgeAssumption

LEMMA TypeStep == Typed /\ [PurgeNext]_purgeVars => Typed'
<1> SUFFICES ASSUME Typed, [PurgeNext]_purgeVars PROVE Typed'
  OBVIOUS
<1> USE DEF config, durable, memory, meta, scan, purge
<1>v. /\ snap \in Sig /\ build \in 1..Builds /\ purgeFaults \in 0..MaxPurgeFaults
      /\ sidecar \in Meta /\ cache \in Meta \cup {None}
  BY DEF PurgeTypeOK, Typed
<1>f. \A kind : Fault(kind) => purgeFaults' \in 0..MaxPurgeFaults
  BY <1>v, FaultCounted
<1>n. NoSnap \in Sig
  BY DEF NoSnap, Sig
<1>u. \A fs : Under(fs) \subseteq Paths
  BY DEF Under
<1>1. CASE User
  BY <1>1 DEF User, SwitchDryRun, AddFolder, RemoveFolder, PurgeTypeOK, Typed
<1>2. CASE TimePasses
  <2>1. sidecar' \in Meta /\ cache' \in Meta \cup {None} /\ (cache # None => cache' # None)
    BY <1>2, <1>v, AgedStays, PurgeAssumption DEF TimePasses, PurgeAssumption
  <2> QED
    BY <1>2, <2>1 DEF TimePasses, PurgeTypeOK, Typed
<1>3. CASE ClockSetBack
  <2>1. sidecar' \in Meta /\ cache' \in Meta \cup {None} /\ (cache # None => cache' # None)
    BY <1>3, <1>v, SetBackStays, PurgeAssumption DEF ClockSetBack, PurgeAssumption
  <2> QED
    BY <1>3, <2>1, <1>f DEF ClockSetBack, PurgeTypeOK, Typed
<1>4. CASE Restart
  <2>1. build' \in 1..Builds /\ purgeFaults' \in 0..MaxPurgeFaults
    BY <1>4, <1>f, <1>v DEF Restart
  <2> QED
    BY <1>4, <2>1, <1>n DEF Restart, PurgeTypeOK, Typed
<1>5. CASE BatchFlush
  BY <1>5 DEF BatchFlush, Saved, PurgeTypeOK, Typed
<1>6. CASE Cancel
  BY <1>6, <1>f DEF Cancel, PurgeTypeOK, Typed
<1>7. CASE BeginCycle
  <2>1. snap' \in Sig
    BY <1>7 DEF BeginCycle, PurgeTypeOK, Typed, Sig
  <2>2. mem' \subseteq Paths /\ dirty' \in BOOLEAN
    BY <1>7 DEF BeginCycle, PurgeTypeOK, Typed, Believed
  <2> QED
    BY <1>7, <2>1, <2>2 DEF BeginCycle, PurgeTypeOK, Typed
<1>8. ASSUME NEW f \in Folders, Walk(f) PROVE Typed'
  BY <1>8, <1>u DEF Walk, PurgeTypeOK, Typed
<1>9. ASSUME NEW p \in Paths, Index(p) PROVE Typed'
  <2>1. purgeFaults' \in 0..MaxPurgeFaults
    BY <1>9, <1>f, <1>v DEF Index
  <2> QED
    BY <1>9, <2>1 DEF Index, PurgeTypeOK, Typed
<1>10. CASE Decide
  <2>1. purgeFaults' \in 0..MaxPurgeFaults
    BY <1>10, <1>f, <1>v DEF Decide, Known
  <2>2. stage' \in {"purge", "final"}
    BY <1>10 DEF Decide
  <2> QED
    BY <1>10, <2>1, <2>2 DEF Decide, PurgeTypeOK, Typed
<1>11. CASE PurgeNothing
  <2>1. cache' \in Meta /\ cache' # None
    BY <1>11, <1>v, Verdicts, PurgeAssumption DEF PurgeNothing, PurgeAssumption
  <2>2. purgeFaults' \in 0..MaxPurgeFaults
    BY <1>11, <1>f, <1>v DEF PurgeNothing
  <2> QED
    BY <1>11, <2>1, <2>2 DEF PurgeNothing, PurgeTypeOK, Typed
<1>12. CASE PurgeState
  <2>1. dirty' \in BOOLEAN /\ doomed' \subseteq Paths
    BY <1>12 DEF PurgeState, PurgeTypeOK, Typed, Stale
  <2> QED
    BY <1>12, <2>1 DEF PurgeState, PurgeTypeOK, Typed
<1>13. ASSUME NEW p \in Paths, PurgeRows(p) PROVE Typed'
  BY <1>13, <1>f DEF PurgeRows, PurgeTypeOK, Typed
<1>14. CASE Purged
  <2>1. cache' \in Meta /\ cache' # None
    BY <1>14, <1>v, Verdicts, PurgeAssumption DEF Purged, PurgeAssumption
  <2> QED
    BY <1>14, <2>1 DEF Purged, PurgeTypeOK, Typed
<1>15. CASE RecordMeta
  <2>1. purgeFaults' \in 0..MaxPurgeFaults
    BY <1>15, <1>f, <1>v DEF RecordMeta
  <2>2. sidecar' \in Meta
    BY <1>15 DEF RecordMeta, PurgeTypeOK, Typed
  <2> QED
    BY <1>15, <2>1, <2>2 DEF RecordMeta, PurgeTypeOK, Typed
<1>16. CASE FinalFlush
  <2>1. purgeFaults' \in 0..MaxPurgeFaults
    BY <1>16, <1>f, <1>v DEF FinalFlush
  <2> QED
    BY <1>16, <2>1, <1>n DEF FinalFlush, PurgeTypeOK, Typed
<1>17. CASE UNCHANGED purgeVars
  BY <1>17 DEF purgeVars, PurgeTypeOK, Typed
<1> QED
  BY <1>1, <1>2, <1>3, <1>4, <1>5, <1>6, <1>7, <1>8, <1>9, <1>10, <1>11, <1>12, <1>13, <1>14, <1>15, <1>16, <1>17
  DEF PurgeNext, Worker

\* The purge meta never holds two verdicts at once, and every variable of the
\* purge keeps its type, whatever the user, the clock and the failures do.
THEOREM TypeCorrect == PurgeSpec => []PurgeTypeOK
<1>1. Typed => PurgeTypeOK
  BY DEF Typed
<1> QED
  BY <1>1, TypeInit, TypeStep, PTL DEF PurgeSpec

-----------------------------------------------------------------------------
(* A success on record means the work was done.                              *)

LEMMA PurgingInit == PurgeInit => Purging
BY DEF PurgeInit, Purging, SuccessMeansPurged

LEMMA PurgingStep == Typed /\ Purging /\ [PurgeNext]_purgeVars => Purging'
<1> SUFFICES ASSUME Typed, Purging, [PurgeNext]_purgeVars PROVE Purging'
  OBVIOUS
<1> USE DEF config, durable, memory, meta, scan, purge
<1>v. /\ snap \in Sig /\ snap # None /\ build \in 1..Builds
      /\ sidecar \in Meta /\ cache \in Meta \cup {None}
      /\ stage = "record" => cache \in Meta
  BY PurgeAssumption DEF Typed, PurgeTypeOK, PurgeAssumption
<1>o. stage' \notin {"delete", "record"} => Purging'
  BY DEF Purging, SuccessMeansPurged
\* What neither counts rows nor names a verdict keeps all of it.
<1>s. UNCHANGED <<rows, snap, stage, doomed, broken>> /\ (stage = "record" => cache'.ok = cache.ok) => Purging'
  BY DEF Purging, SuccessMeansPurged, Stale
<1>1. CASE User \/ BatchFlush
  BY <1>1, <1>s DEF User, SwitchDryRun, AddFolder, RemoveFolder, BatchFlush
<1>2. CASE TimePasses
  <2>1. stage = "record" => cache'.ok = cache.ok
    BY <1>2, <1>v, AgedStays, PurgeAssumption DEF TimePasses, PurgeAssumption
  <2> QED
    BY <1>2, <2>1, <1>s DEF TimePasses
<1>3. CASE ClockSetBack
  <2>1. stage = "record" => cache'.ok = cache.ok
    BY <1>3, <1>v, SetBackStays, PurgeAssumption DEF ClockSetBack, PurgeAssumption
  <2> QED
    BY <1>3, <2>1, <1>s DEF ClockSetBack
<1>4. CASE Restart \/ Cancel \/ BeginCycle \/ Decide \/ RecordMeta \/ FinalFlush
  BY <1>4, <1>o DEF Restart, Cancel, BeginCycle, Decide, RecordMeta, FinalFlush
<1>5. ASSUME NEW f \in Folders, Walk(f) PROVE Purging'
  BY <1>5, <1>o DEF Walk
<1>6. ASSUME NEW p \in Paths, Index(p) PROVE Purging'
  BY <1>6, <1>o DEF Index
\* A success without a deletion is that of a rehearsal, of an empty list of folders,
\* or of a table with nothing to delete.
<1>7. CASE PurgeNothing
  <2>1. cache'.ok = None \/ snap.folders = {} \/ Stale = {} \/ snap.dry
    BY <1>7, <1>v, Verdicts DEF PurgeNothing
  <2> QED
    BY <1>7, <1>v, <2>1 DEF PurgeNothing, Purging, SuccessMeansPurged, Stale
<1>8. CASE PurgeState
  BY <1>8 DEF PurgeState, Purging, SuccessMeansPurged, Stale
<1>9. ASSUME NEW p \in Paths, PurgeRows(p) PROVE Purging'
  BY <1>9 DEF PurgeRows, Purging, SuccessMeansPurged, Stale
<1>10. CASE Purged
  <2>1. CASE broken
    <3>1. cache'.ok = None
      BY <1>10, <2>1, <1>v, Verdicts DEF Purged
    <3> QED
      BY <1>10, <3>1, <1>v DEF Purged, Purging, SuccessMeansPurged
  <2>2. CASE ~broken
    BY <1>10, <2>2 DEF Purged, Purging, SuccessMeansPurged, Stale
  <2> QED
    BY <2>1, <2>2
<1>11. CASE UNCHANGED purgeVars
  BY <1>11, <1>s DEF purgeVars
<1> QED
  BY <1>1, <1>2, <1>3, <1>4, <1>5, <1>6, <1>7, <1>8, <1>9, <1>10, <1>11 DEF PurgeNext, Worker

\* When a cycle is about to save a success of a real run, no row of an unwatched
\* folder is left: what the purge skips next time on the strength of it is nothing,
\* whatever deletions failed, crashes and clocks that were set back lie between.
THEOREM SuccessIsReal == PurgeSpec => []SuccessMeansPurged
<1>1. Purging => SuccessMeansPurged
  BY DEF Purging
<1> QED
  BY <1>1, TypeInit, TypeStep, PurgingInit, PurgingStep, PTL DEF PurgeSpec

\* The purge deletes rows of unwatched folders only: what lies under a folder of the
\* list the cycle has read keeps its rows to the end of the cycle.
THEOREM WatchedIsKept ==
    PurgeSpec => [][ \A p \in Paths : p \in rows /\ p \notin rows' => p \notin Under(snap.folders) ]_purgeVars
<1>1. ASSUME Typed, Purging, [PurgeNext]_purgeVars
      PROVE  [ \A p \in Paths : p \in rows /\ p \notin rows' => p \notin Under(snap.folders) ]_purgeVars
  <2> USE DEF config, durable, memory, meta, scan, purge
  <2>1. ASSUME NEW p \in Paths, PurgeRows(p)
        PROVE  p \notin Under(snap.folders) /\ \A q \in Paths : q \in rows /\ q \notin rows' => q = p
    <3>1. stage = "delete" /\ p \in doomed /\ (rows' = rows \ {p} \/ rows' = rows)
      BY <2>1 DEF PurgeRows
    <3>2. doomed \subseteq Stale
      BY <1>1, <3>1 DEF Purging
    <3> QED
      BY <3>1, <3>2 DEF Stale
  <2>2. ASSUME \A p \in Paths : ~PurgeRows(p) PROVE rows \subseteq rows'
    BY <2>2, <1>1 DEF PurgeNext, purgeVars, User, Worker, SwitchDryRun, AddFolder, RemoveFolder, TimePasses, ClockSetBack,
       Restart, BatchFlush, Saved, Cancel, BeginCycle, Walk, Index, Decide, PurgeNothing, PurgeState, Purged,
       RecordMeta, FinalFlush
  <2> QED
    BY <2>1, <2>2
<1> QED
  BY <1>1, TypeInit, TypeStep, PurgingInit, PurgingStep, PTL DEF PurgeSpec
-----------------------------------------------------------------------------
(* PptSession.  The right to quit travels: CreateProcess puts the new host on *)
(* the launching ticket, the commit makes the ticket ready, the end of a      *)
(* cycle takes it to ask.  The invariant says at every stop what is known of  *)
(* the host the ticket names (TicketFresh, AskedOnce), and that nothing gives *)
(* a ticket back: an observation only leaves it or drops it (Quiet).          *)

-----------------------------------------------------------------------------
(* The inductive invariant.                                                   *)

HostRecord == [by : {"launch", "com", "user"}, docs : BOOLEAN, asked : Nat,
               state : {"up", "leaving", "kept", "gone"}]
Tickets    == [state : {"none", "launching", "ready", "pending"}, host : 0..MaxHosts]
Registries == [ticket : Tickets, watch : [Hosts -> {"none", "open", "failed"}],
               yielded : SUBSET Hosts, owned : [Hosts -> {"none", "held", "pending"}],
               unverified : BOOLEAN]

SessionTypes == hosts \in Seq(HostRecord) /\ Len(hosts) <= MaxHosts /\ reg \in Registries

\* started by this program and never asked to quit
Fresh(h) == h \in DOMAIN hosts /\ hosts[h].by = "launch" /\ hosts[h].asked = 0

\* a ticket that may still become the right to quit names such a host
TicketFresh == reg.ticket.state # "pending" /\ reg.ticket.host # 0 => Fresh(reg.ticket.host)

\* from the reservation to the commit the ticket cannot be an older quit's
Reserved == {"create", "bind", "bound", "prove", "commit"}
StartUnsettled == pc \in Reserved => reg.ticket.state # "pending"

\* the request about to be made is the first, and its ticket is spent
AskedOnce == pc \in {"ask", "asking"} =>
                Fresh(tls.app) /\ (reg.ticket.state = "pending" \/ reg.ticket.host = 0)

Ours(h) == h \in Live /\ hosts[h].by # "user"

\* between the look for a PowerPoint and CreateProcess only the user starts one
CreateAlone == pc = "create" => \A h \in DOMAIN hosts : ~Ours(h)
OursAlone   == \A g, h \in DOMAIN hosts : Ours(g) /\ Ours(h) => g = h

SessionInv == /\ SessionTypes /\ TicketFresh /\ StartUnsettled /\ AskedOnce
              /\ CreateAlone /\ OursAlone /\ OneQuitEach

-----------------------------------------------------------------------------
(* What an observation may do to the ticket.                                  *)

\* mutates nothing but to drop the ticket
Quiet(r, s) == s \in Registries /\ s.ticket \in {r.ticket, NoTicket}

LEMMA NoTicketIsOne == NoTicket \in Tickets
  BY SessionAssumption DEF NoTicket, Tickets

LEMMA QuietTrans ==
  ASSUME NEW r, NEW s, NEW t, Quiet(r, s), Quiet(s, t)
  PROVE  Quiet(r, t)
  BY DEF Quiet

LEMMA SameIsQuiet ==
  ASSUME NEW r \in Registries
  PROVE  Quiet(r, r)
  BY DEF Quiet

\* Each registry operation as a change of one component.
LEMMA WatchQuiet ==
  ASSUME NEW r \in Registries, NEW f \in [Hosts -> {"none", "open", "failed"}]
  PROVE  Quiet(r, [r EXCEPT !.watch = f])
  BY DEF Quiet, Registries

LEMMA OwnedQuiet ==
  ASSUME NEW r \in Registries, NEW f \in [Hosts -> {"none", "held", "pending"}]
  PROVE  Quiet(r, [r EXCEPT !.owned = f])
  BY DEF Quiet, Registries

LEMMA UnverifiedQuiet ==
  ASSUME NEW r \in Registries, NEW b \in BOOLEAN
  PROVE  Quiet(r, [r EXCEPT !.unverified = b])
  BY DEF Quiet, Registries

LEMMA TicketChange ==
  ASSUME NEW r \in Registries, NEW t \in Tickets
  PROVE  /\ [r EXCEPT !.ticket = t] \in Registries
         /\ [r EXCEPT !.ticket = t].ticket = t
  BY DEF Registries

LEMMA PrunedQuiet ==
  ASSUME NEW r \in Registries
  PROVE  Quiet(r, Pruned(r))
  <1>1. [h \in Hosts |-> IF h \in Live THEN r.owned[h] ELSE "none"] \in [Hosts -> {"none", "held", "pending"}]
    BY DEF Registries
  <1> QED BY <1>1, OwnedQuiet DEF Pruned

LEMMA FinishedQuiet ==
  ASSUME NEW r \in Registries, NEW E
  PROVE  Quiet(r, Finished(r, E))
  <1>1. [h \in Hosts |-> IF h \in E THEN "none" ELSE r.watch[h]] \in [Hosts -> {"none", "open", "failed"}]
    BY DEF Registries
  <1>2. [h \in Hosts |-> IF h \in E \ r.yielded THEN "none" ELSE r.owned[h]] \in [Hosts -> {"none", "held", "pending"}]
    BY DEF Registries
  <1>3. r.yielded \ E \in SUBSET Hosts
    BY DEF Registries
  <1> QED BY <1>1, <1>2, <1>3, NoTicketIsOne DEF Finished, Quiet, Registries

LEMMA DroppedQuiet ==
  ASSUME NEW r \in Registries
  PROVE  Quiet(r, [r EXCEPT !.ticket = NoTicket,
                            !.watch = [h \in Hosts |-> IF h = r.ticket.host THEN "none" ELSE @[h]]])
  <1>1. [h \in Hosts |-> IF h = r.ticket.host THEN "none" ELSE r.watch[h]] \in [Hosts -> {"none", "open", "failed"}]
    BY DEF Registries
  <1> QED BY <1>1, NoTicketIsOne DEF Quiet, Registries

LEMMA RelistedQuiet ==
  ASSUME NEW r \in Registries, NEW n, NEW o \in Relisted(r, n)
  PROVE  Quiet(r, o.reg)
  <1> DEFINE dropped == [r EXCEPT !.ticket = NoTicket,
                                  !.watch = [h \in Hosts |-> IF h = r.ticket.host THEN "none" ELSE @[h]]]
  <1>1. Quiet(r, dropped)
    BY DroppedQuiet
  <1>2. Quiet(r, Pruned(dropped))
    <2>1. dropped \in Registries
      BY <1>1 DEF Quiet
    <2> HIDE DEF dropped
    <2> QED BY <1>1, <2>1, PrunedQuiet, QuietTrans
  <1>3. o.reg \in {r, dropped, Pruned(dropped)}
    BY DEF Relisted, Outcome
  <1> HIDE DEF dropped
  <1> QED BY <1>1, <1>2, <1>3, SameIsQuiet

LEMMA ObservedQuiet ==
  ASSUME NEW r \in Registries, NEW o \in Observed(r)
  PROVE  Quiet(r, o.reg)
  <1> DEFINE h == r.ticket.host
             lost == [r EXCEPT !.watch[h] = "failed"]
  <1>1. Quiet(r, lost)
    <2>1. [r.watch EXCEPT ![h] = "failed"] \in [Hosts -> {"none", "open", "failed"}]
      BY DEF Registries
    <2>2. lost = [r EXCEPT !.watch = [r.watch EXCEPT ![h] = "failed"]]
      OBVIOUS
    <2> QED BY <2>1, <2>2, WatchQuiet
  <1>2. CASE o \in Relisted(r, 0)
    BY <1>2, RelistedQuiet
  <1>3. CASE o \in Relisted(lost, 1)
    <2>1. lost \in Registries
      BY <1>1 DEF Quiet
    <2> HIDE DEF lost
    <2>2. Quiet(lost, o.reg)
      BY <1>3, <2>1, RelistedQuiet
    <2> QED BY <1>1, <2>2, QuietTrans
  <1>4. CASE o.reg = r \/ o.reg = Finished(r, {h})
    BY <1>4, SameIsQuiet, FinishedQuiet
  <1>5. o \in Relisted(r, 0) \/ o \in Relisted(lost, 1) \/ o.reg = r \/ o.reg = Finished(r, {h})
    BY DEF Observed, Outcome
  <1> QED BY <1>2, <1>3, <1>4, <1>5

LEMMA ExitObservedQuiet ==
  ASSUME NEW r \in Registries, NEW o \in ExitObserved(r)
  PROVE  Quiet(r, o.reg)
  <1> DEFINE open == {h \in Hosts : r.watch[h] = "open"}
             seen == Finished(r, open \ Live)
             kept(h) == Finished(r, (open \ Live) \ {h})
             lost(h) == [kept(h) EXCEPT !.watch[h] = "failed"]
  <1>1. CASE o \in Observed(seen)
    <2>1. Quiet(r, seen)
      BY FinishedQuiet
    <2>2. seen \in Registries
      BY <2>1 DEF Quiet
    <2> HIDE DEF seen
    <2>3. Quiet(seen, o.reg)
      BY <1>1, <2>2, ObservedQuiet
    <2> QED BY <2>1, <2>3, QuietTrans
  <1>2. ASSUME NEW h \in open, NEW p \in Observed(lost(h)), o = Outcome(p.reg, p.cost + 1)
        PROVE  Quiet(r, o.reg)
    <2> DEFINE k == kept(h)
               l == [k EXCEPT !.watch[h] = "failed"]
    <2>1. Quiet(r, k)
      BY FinishedQuiet
    <2>2. k \in Registries
      BY <2>1 DEF Quiet
    <2>3. p \in Observed(l)
      BY <1>2
    <2> HIDE DEF k
    <2>4. [k.watch EXCEPT ![h] = "failed"] \in [Hosts -> {"none", "open", "failed"}]
      BY <2>2 DEF Registries
    <2>5. Quiet(k, l)
      BY <2>2, <2>4, WatchQuiet
    <2>6. l \in Registries
      BY <2>5 DEF Quiet
    <2> HIDE DEF l
    <2>7. Quiet(l, p.reg)
      BY <2>3, <2>6, ObservedQuiet
    <2>8. o.reg = p.reg
      BY <1>2 DEF Outcome
    <2> QED BY <2>1, <2>5, <2>7, <2>8, QuietTrans
  <1>3. o \in Observed(seen) \/ \E h \in open : \E p \in Observed(lost(h)) : o = Outcome(p.reg, p.cost + 1)
    BY DEF ExitObserved
  <1> QED BY <1>1, <1>2, <1>3

LEMMA RetriedQuiet ==
  ASSUME NEW r \in Registries, NEW b
  PROVE  Quiet(r, Retried(r, b))
  <1> DEFINE u == r.unverified /\ Live # {}
             f == IF (r.unverified /\ Live # {}) \/ ~b THEN r.owned
                  ELSE [h \in Hosts |-> IF r.owned[h] = "pending" /\ h \notin Live THEN "none" ELSE r.owned[h]]
  <1>1. u \in BOOLEAN
    OBVIOUS
  <1>2. f \in [Hosts -> {"none", "held", "pending"}]
    BY DEF Registries
  <1>3. Retried(r, b) = [r EXCEPT !.unverified = u, !.owned = f]
    BY DEF Retried
  <1> HIDE DEF u, f
  <1> QED BY <1>1, <1>2, <1>3 DEF Quiet, Registries

LEMMA EnsuredQuiet ==
  ASSUME reg \in Registries, NEW o \in Ensured
  PROVE  Quiet(reg, o.reg)
  <1>1. CASE o = Outcome(reg, 0)
    BY <1>1, SameIsQuiet DEF Outcome
  <1>2. ASSUME NEW p \in Observed(reg), o \in Settled(p)
        PROVE  Quiet(reg, o.reg)
    <2>1. Quiet(reg, p.reg)
      BY <1>2, ObservedQuiet
    <2>2. p.reg \in Registries
      BY <2>1 DEF Quiet
    <2>3. o.reg = p.reg \/ \E b \in BOOLEAN : o.reg = Retried(p.reg, b)
      BY <1>2 DEF Settled, Outcome
    <2> QED BY <2>1, <2>2, <2>3, RetriedQuiet, QuietTrans
  <1>3. o = Outcome(reg, 0) \/ \E p \in Observed(reg) : o \in Settled(p)
    BY DEF Ensured
  <1> QED BY <1>1, <1>2, <1>3

\* abandon: the ticket stays or waits for its host to end
LEMMA PendingTicket ==
  ASSUME NEW r \in Registries
  PROVE  /\ [r EXCEPT !.ticket.state = "pending"] \in Registries
         /\ [r EXCEPT !.ticket.state = "pending"].ticket.state = "pending"
  <1> DEFINE t == [r.ticket EXCEPT !.state = "pending"]
  <1>1. t \in Tickets /\ t.state = "pending"
    BY DEF Registries, Tickets
  <1>2. [r EXCEPT !.ticket.state = "pending"] = [r EXCEPT !.ticket = t]
    OBVIOUS
  <1> HIDE DEF t
  <1> QED BY <1>1, <1>2, TicketChange

\* A registry change that never makes a ticket a right to quit.
Settles(r, s) == s \in Registries /\ (s.ticket \in {r.ticket, NoTicket} \/ s.ticket.state = "pending")

LEMMA QuietSettles ==
  ASSUME NEW r, NEW s, Quiet(r, s)
  PROVE  Settles(r, s)
  BY DEF Quiet, Settles

LEMMA AbandonedSettles ==
  ASSUME NEW r \in Registries, NEW s \in Registries, Quiet(r, s)
  PROVE  Settles(r, Abandoned(s))
  <1>1. CASE Abandoned(s) = s
    BY <1>1, QuietSettles
  <1>2. CASE Abandoned(s) = [s EXCEPT !.ticket.state = "pending"]
    BY <1>2, PendingTicket DEF Settles
  <1> QED BY <1>1, <1>2 DEF Abandoned

LEMMA YieldedSettles ==
  ASSUME NEW r \in Registries, NEW h \in Hosts
  PROVE  Settles(r, Yielded(r, h))
  <1>1. [r.owned EXCEPT ![h] = "none"] \in [Hosts -> {"none", "held", "pending"}]
    BY DEF Registries
  <1>2. (IF r.watch[h] = "none" THEN r.yielded ELSE r.yielded \cup {h}) \in SUBSET Hosts
    BY DEF Registries
  <1> QED BY <1>1, <1>2, NoTicketIsOne DEF Yielded, Settles, Registries

-----------------------------------------------------------------------------
(* Steps in which no PowerPoint starts, is asked or changes.                  *)

LEMMA LiveAreHosts ==
  ASSUME SessionTypes
  PROVE  Live \subseteq DOMAIN hosts /\ DOMAIN hosts \subseteq Hosts
  BY SessionAssumption DEF SessionTypes, Live, Hosts

\* The worker ends up outside a start and a request.
LEMMA SettledStep ==
  ASSUME SessionInv, UNCHANGED hosts, Settles(reg, reg'),
         pc' \notin Reserved \cup {"ask", "asking"}
  PROVE  SessionInv'
  <1>1. SessionTypes'
    BY DEF SessionInv, SessionTypes, Settles
  <1>2. TicketFresh'
    BY DEF SessionInv, TicketFresh, Settles, NoTicket, Fresh
  <1>3. StartUnsettled' /\ AskedOnce' /\ CreateAlone'
    BY DEF StartUnsettled, AskedOnce, CreateAlone, Reserved
  <1>4. OursAlone' /\ OneQuitEach'
    BY DEF SessionInv, OursAlone, OneQuitEach, Ours, Live
  <1> QED BY <1>1, <1>2, <1>3, <1>4 DEF SessionInv

\* The worker stays where it is.
LEMMA QuietStep ==
  ASSUME SessionInv, UNCHANGED <<hosts, pc, tls>>, Quiet(reg, reg')
  PROVE  SessionInv'
  <1>1. SessionTypes'
    BY DEF SessionInv, SessionTypes, Quiet
  <1>2. TicketFresh' /\ StartUnsettled' /\ AskedOnce'
    BY DEF SessionInv, TicketFresh, StartUnsettled, AskedOnce, Quiet, NoTicket, Fresh
  <1>3. CreateAlone' /\ OursAlone' /\ OneQuitEach'
    BY DEF SessionInv, CreateAlone, OursAlone, OneQuitEach, Ours, Live
  <1> QED BY <1>1, <1>2, <1>3 DEF SessionInv

\* The worker goes on from one step of the start to the next.
LEMMA ReservedStep ==
  ASSUME SessionInv, UNCHANGED hosts, Quiet(reg, reg'),
         pc \in Reserved, pc' \in Reserved \ {"create"}
  PROVE  SessionInv'
  <1>1. SessionTypes'
    BY DEF SessionInv, SessionTypes, Quiet
  <1>2. TicketFresh' /\ StartUnsettled' /\ AskedOnce' /\ CreateAlone'
    BY DEF SessionInv, TicketFresh, StartUnsettled, AskedOnce, CreateAlone, Quiet, NoTicket, Fresh, Reserved
  <1>3. OursAlone' /\ OneQuitEach'
    BY DEF SessionInv, OursAlone, OneQuitEach, Ours, Live
  <1> QED BY <1>1, <1>2, <1>3 DEF SessionInv

LEMMA RegTyped ==
  ASSUME SessionInv
  PROVE  reg \in Registries
  BY DEF SessionInv, SessionTypes

LEMMA SameSettles ==
  ASSUME SessionInv
  PROVE  Settles(reg, reg) /\ Quiet(reg, reg)
  BY RegTyped, SameIsQuiet, QuietSettles

LEMMA UnverifiedSettles ==
  ASSUME SessionInv, NEW b \in BOOLEAN
  PROVE  Settles(reg, [reg EXCEPT !.unverified = b])
  BY RegTyped, UnverifiedQuiet, QuietSettles

-----------------------------------------------------------------------------
(* One lemma per action.                                                      *)

LEMMA TakeKeeps ==
  ASSUME SessionInv, Take
  PROVE  SessionInv'
  BY SameSettles, SettledStep DEF Take, Go, Keep, Stays, Reserved

LEMMA EnterKeeps ==
  ASSUME SessionInv, Enter
  PROVE  SessionInv'
  <1>1. PICK o \in Ensured : reg' = o.reg
    BY DEF Enter
  <1>2. Settles(reg, reg')
    BY <1>1, RegTyped, EnsuredQuiet, QuietSettles
  <1> QED BY <1>2, SettledStep DEF Enter, Go, Back, Stays, Reserved

LEMMA AdmitKeeps ==
  ASSUME SessionInv, Admit
  PROVE  SessionInv'
  <1>1. pc' \notin Reserved \cup {"ask", "asking"} /\ UNCHANGED hosts
    BY DEF Admit, Go, Back, Stays, Reserved
  <1>2. CASE UNCHANGED reg
    BY <1>1, <1>2, SameSettles, SettledStep
  <1>3. ASSUME NEW o \in Observed(reg), reg' = o.reg \/ reg' = Abandoned(o.reg)
        PROVE  SessionInv'
    <2>1. Quiet(reg, o.reg)
      BY RegTyped, ObservedQuiet
    <2>2. Settles(reg, reg')
      BY <1>3, <2>1, RegTyped, AbandonedSettles, QuietSettles DEF Quiet
    <2> QED BY <1>1, <2>2, SettledStep
  <1>4. UNCHANGED reg \/ \E o \in Observed(reg) : reg' = o.reg \/ reg' = Abandoned(o.reg)
    BY DEF Admit, Keep
  <1> QED BY <1>2, <1>3, <1>4

\* The reservation: no PowerPoint is running, and the ticket was not pending.
LEMMA ReserveKeeps ==
  ASSUME SessionInv, Prepared, Vacant, UNCHANGED hosts, pc' = "create",
         reg' = [reg EXCEPT !.ticket.state = "launching"]
  PROVE  SessionInv'
  <1> DEFINE t == [reg.ticket EXCEPT !.state = "launching"]
  <1>1. reg.ticket.state # "pending"
    BY DEF Prepared, GateClosed
  <1>2. t \in Tickets /\ t.state = "launching" /\ t.host = reg.ticket.host
    BY RegTyped DEF Registries, Tickets
  <1>3. reg' \in Registries /\ reg'.ticket = t
    <2>1. reg' = [reg EXCEPT !.ticket = t]
      OBVIOUS
    <2> HIDE DEF t
    <2> QED BY <1>2, <2>1, RegTyped, TicketChange
  <1> HIDE DEF t
  <1>4. SessionTypes'
    BY <1>3 DEF SessionInv, SessionTypes
  <1>5. TicketFresh' /\ StartUnsettled' /\ AskedOnce'
    BY <1>1, <1>2, <1>3 DEF SessionInv, TicketFresh, StartUnsettled, AskedOnce, Fresh
  <1>6. CreateAlone' /\ OursAlone' /\ OneQuitEach'
    BY DEF SessionInv, CreateAlone, OursAlone, OneQuitEach, Ours, Live, Vacant
  <1> QED BY <1>4, <1>5, <1>6 DEF SessionInv

LEMMA LaunchKeeps ==
  ASSUME SessionInv, Launch
  PROVE  SessionInv'
  <1>1. CASE UNCHANGED reg /\ pc' \in {"idle", "dispatch"}
    BY <1>1, SameSettles, SettledStep DEF Launch, Stays, Reserved
  <1>2. CASE Prepared /\ Vacant /\ Go("create") /\ reg' = [reg EXCEPT !.ticket.state = "launching"]
    BY <1>2, ReserveKeeps DEF Launch, Stays, Go
  <1> QED BY <1>1, <1>2 DEF Launch, Back, Go, Keep

-----------------------------------------------------------------------------
(* A PowerPoint more.                                                         *)

LEMMA OpenedHosts ==
  ASSUME SessionTypes, Room, NEW b \in {"launch", "com", "user"}, hosts' = Opened(b)
  PROVE  /\ hosts' \in Seq(HostRecord) /\ Len(hosts') <= MaxHosts
         /\ DOMAIN hosts' = DOMAIN hosts \cup {Len(hosts) + 1}
         /\ Len(hosts) + 1 \in Hosts /\ Len(hosts) + 1 \notin DOMAIN hosts
         /\ \A h \in DOMAIN hosts : hosts'[h] = hosts[h]
         /\ hosts'[Len(hosts) + 1].by = b /\ hosts'[Len(hosts) + 1].asked = 0
  <1> DEFINE new == [by |-> b, docs |-> b = "user", asked |-> 0, state |-> "up"]
  <1>1. new \in HostRecord /\ new.by = b /\ new.asked = 0
    BY DEF HostRecord
  <1>2. hosts' = Append(hosts, new)
    BY DEF Opened
  <1> HIDE DEF new
  <1>3. /\ hosts' \in Seq(HostRecord) /\ Len(hosts') = Len(hosts) + 1
        /\ hosts'[Len(hosts) + 1] = new
        /\ \A h \in 1..Len(hosts) : hosts'[h] = hosts[h]
    BY <1>1, <1>2, AppendProperties DEF SessionTypes
  <1>4. Len(hosts) \in Nat /\ DOMAIN hosts = 1..Len(hosts) /\ DOMAIN hosts' = 1..Len(hosts')
    BY <1>3 DEF SessionTypes
  <1> QED BY <1>1, <1>3, <1>4, SessionAssumption DEF Room, Hosts

\* Of ours it is the only one, if there was none.
LEMMA OpenedAlone ==
  ASSUME SessionInv, Room, NEW n, n = Len(hosts) + 1, NEW b \in {"launch", "com", "user"}, hosts' = Opened(b),
         b = "user" \/ \A h \in DOMAIN hosts : ~Ours(h)
  PROVE  /\ OursAlone' /\ OneQuitEach'
         /\ \A h : Fresh(h) => Fresh(h)'
         /\ b = "user" /\ (\A h \in DOMAIN hosts : ~Ours(h)) => \A h \in DOMAIN hosts' : ~Ours(h)'
         /\ b = "launch" => Fresh(n)'
  <1>1. SessionTypes
    BY DEF SessionInv
  <1>2. /\ DOMAIN hosts' = DOMAIN hosts \cup {n} /\ n \notin DOMAIN hosts
        /\ \A h \in DOMAIN hosts : hosts'[h] = hosts[h]
        /\ hosts'[n].by = b /\ hosts'[n].asked = 0
    BY <1>1, OpenedHosts
  <1>3. \A h \in DOMAIN hosts : Ours(h)' <=> Ours(h)
    BY <1>2 DEF Ours, Live
  <1>4. b = "user" => ~Ours(n)'
    BY <1>2 DEF Ours
  <1>5. OursAlone'
    BY <1>2, <1>3, <1>4 DEF SessionInv, OursAlone
  <1>6. OneQuitEach'
    BY <1>2 DEF SessionInv, OneQuitEach
  <1>7. \A h : Fresh(h) => Fresh(h)'
    BY <1>2 DEF Fresh
  <1>8. b = "launch" => Fresh(n)'
    BY <1>2 DEF Fresh
  <1> QED BY <1>2, <1>3, <1>4, <1>5, <1>6, <1>7, <1>8

LEMMA UserOpensKeeps ==
  ASSUME SessionInv, UserOpens, UNCHANGED <<reg, pc, tls>>
  PROVE  SessionInv'
  <1>1. PICK n : n = Len(hosts) + 1
    OBVIOUS
  <1>2. Room /\ hosts' = Opened("user")
    BY DEF UserOpens
  <1>3. OursAlone' /\ OneQuitEach'
    BY <1>1, <1>2, OpenedAlone
  <1>4. \A h : Fresh(h) => Fresh(h)'
    BY <1>1, <1>2, OpenedAlone
  <1>5. CreateAlone'
    <2>1. CASE pc # "create"
      BY <2>1 DEF CreateAlone
    <2>2. CASE pc = "create"
      <3>1. \A h \in DOMAIN hosts : ~Ours(h)
        BY <2>2 DEF SessionInv, CreateAlone
      <3>2. \A h \in DOMAIN hosts' : ~Ours(h)'
        BY <1>1, <1>2, <3>1, OpenedAlone
      <3> QED BY <3>2 DEF CreateAlone
    <2> QED BY <2>1, <2>2
  <1>6. TicketFresh' /\ StartUnsettled' /\ AskedOnce'
    BY <1>4 DEF SessionInv, TicketFresh, StartUnsettled, AskedOnce
  <1>7. SessionTypes'
    BY <1>2, OpenedHosts DEF SessionInv, SessionTypes
  <1> QED BY <1>3, <1>5, <1>6, <1>7 DEF SessionInv

\* A host changes, but not who started it nor how often it was asked, and the
\* dead stay dead.
LEMMA HostChanges ==
  ASSUME SessionInv, UNCHANGED <<reg, pc, tls>>,
         hosts' \in Seq(HostRecord), Len(hosts') = Len(hosts), DOMAIN hosts' = DOMAIN hosts,
         \A h \in DOMAIN hosts : /\ hosts'[h].by = hosts[h].by /\ hosts'[h].asked = hosts[h].asked
                                 /\ hosts[h].state = "gone" => hosts'[h].state = "gone"
  PROVE  SessionInv'
  <1>1. \A h : Ours(h)' => Ours(h)
    BY DEF Ours, Live
  <1>2. \A h : Fresh(h) => Fresh(h)'
    BY DEF Fresh
  <1>3. SessionTypes'
    BY DEF SessionInv, SessionTypes
  <1>4. TicketFresh' /\ StartUnsettled' /\ AskedOnce'
    BY <1>2 DEF SessionInv, TicketFresh, StartUnsettled, AskedOnce
  <1>5. CreateAlone' /\ OursAlone'
    BY <1>1 DEF SessionInv, CreateAlone, OursAlone
  <1>6. OneQuitEach'
    BY DEF SessionInv, OneQuitEach
  <1> QED BY <1>3, <1>4, <1>5, <1>6 DEF SessionInv

LEMMA HostUpdate ==
  ASSUME SessionTypes, NEW h \in DOMAIN hosts, NEW r \in HostRecord
  PROVE  /\ [hosts EXCEPT ![h] = r] \in Seq(HostRecord)
         /\ Len([hosts EXCEPT ![h] = r]) = Len(hosts)
         /\ DOMAIN [hosts EXCEPT ![h] = r] = DOMAIN hosts
         /\ [hosts EXCEPT ![h] = r][h] = r
         /\ \A g \in DOMAIN hosts : g # h => [hosts EXCEPT ![h] = r][g] = hosts[g]
  BY ExceptSeq DEF SessionTypes

LEMMA HostTyped ==
  ASSUME SessionTypes, NEW h \in DOMAIN hosts
  PROVE  hosts[h] \in HostRecord
  BY ElementOfSeq DEF SessionTypes

\* The user's actions in one PowerPoint, and its end.
LEMMA SystemKeeps ==
  ASSUME SessionInv, System
  PROVE  SessionInv'
  <1>1. CASE UserOpens
    BY <1>1, UserOpensKeeps DEF System
  <1>2. ASSUME NEW h \in Live, UserOpensIn(h) \/ UserCloses(h) \/ CloseCancelled(h) \/ HostEnds(h)
        PROVE  SessionInv'
    <2>1. h \in DOMAIN hosts /\ hosts[h].state # "gone"
      BY DEF Live
    <2>2. SessionTypes /\ hosts[h] \in HostRecord
      BY <2>1, HostTyped DEF SessionInv
    <2>3. PICK r \in HostRecord : /\ hosts' = [hosts EXCEPT ![h] = r]
                                  /\ r.by = hosts[h].by /\ r.asked = hosts[h].asked
      <3>1. CASE UserOpensIn(h)
        <4> DEFINE u == [hosts[h] EXCEPT !.docs = TRUE]
        <4>1. hosts' = [hosts EXCEPT ![h] = u]
          BY <3>1 DEF UserOpensIn
        <4>2. u \in HostRecord /\ u.by = hosts[h].by /\ u.asked = hosts[h].asked
          BY <2>2 DEF HostRecord
        <4> HIDE DEF u
        <4> QED BY <4>1, <4>2
      <3>2. CASE UserCloses(h)
        <4> DEFINE u == [hosts[h] EXCEPT !.docs = FALSE]
        <4>1. hosts' = [hosts EXCEPT ![h] = u]
          BY <3>2 DEF UserCloses
        <4>2. u \in HostRecord /\ u.by = hosts[h].by /\ u.asked = hosts[h].asked
          BY <2>2 DEF HostRecord
        <4> HIDE DEF u
        <4> QED BY <4>1, <4>2
      <3>3. CASE CloseCancelled(h)
        <4> DEFINE u == [hosts[h] EXCEPT !.state = "kept"]
        <4>1. hosts' = [hosts EXCEPT ![h] = u]
          BY <3>3 DEF CloseCancelled
        <4>2. u \in HostRecord /\ u.by = hosts[h].by /\ u.asked = hosts[h].asked
          BY <2>2 DEF HostRecord
        <4> HIDE DEF u
        <4> QED BY <4>1, <4>2
      <3>4. CASE HostEnds(h)
        <4> DEFINE u == [hosts[h] EXCEPT !.state = "gone", !.docs = FALSE]
        <4>1. hosts' = [hosts EXCEPT ![h] = u]
          BY <3>4 DEF HostEnds
        <4>2. u \in HostRecord /\ u.by = hosts[h].by /\ u.asked = hosts[h].asked
          BY <2>2 DEF HostRecord
        <4> HIDE DEF u
        <4> QED BY <4>1, <4>2
      <3> QED BY <1>2, <3>1, <3>2, <3>3, <3>4
    <2>4. /\ hosts' \in Seq(HostRecord) /\ Len(hosts') = Len(hosts) /\ DOMAIN hosts' = DOMAIN hosts
          /\ hosts'[h] = r
          /\ \A g \in DOMAIN hosts : g # h => hosts'[g] = hosts[g]
      BY <2>1, <2>2, <2>3, HostUpdate
    <2>5. \A g \in DOMAIN hosts : /\ hosts'[g].by = hosts[g].by /\ hosts'[g].asked = hosts[g].asked
                                  /\ hosts[g].state = "gone" => hosts'[g].state = "gone"
      BY <2>1, <2>3, <2>4
    <2>6. UNCHANGED <<reg, pc, tls>>
      BY DEF System
    <2> QED BY <2>4, <2>5, <2>6, HostChanges
  <1> QED BY <1>1, <1>2 DEF System

\* CreateProcess: the host is new, and it is put on the ticket.
LEMMA CreateKeeps ==
  ASSUME SessionInv, Create
  PROVE  SessionInv'
  <1>1. CASE UNCHANGED hosts
    <2>1. pc' \in {"idle", "dispatch"}
      BY <1>1, OpenedHosts DEF Create, Back, Go, SessionInv
    <2>2. Settles(reg, reg')
      <3>1. CASE TicketPending
        BY <3>1, RegTyped, PendingTicket DEF TicketPending, Settles
      <3>2. CASE reg' = [reg EXCEPT !.ticket = NoTicket]
        BY <3>2, RegTyped, NoTicketIsOne, TicketChange DEF Settles
      <3> QED BY <1>1, <3>1, <3>2, OpenedHosts DEF Create, SessionInv
    <2> QED BY <1>1, <2>1, <2>2, SettledStep DEF Reserved
  <1>2. CASE pc = "create" /\ Room /\ hosts' = Opened("launch")
    <2>1. PICK n : n = Len(hosts) + 1
      OBVIOUS
    <2>2. \A h \in DOMAIN hosts : ~Ours(h)
      BY <1>2 DEF SessionInv, CreateAlone
    <2>3. OursAlone' /\ OneQuitEach' /\ Fresh(n)'
      BY <1>2, <2>1, <2>2, OpenedAlone
    <2>4. n \in Hosts /\ hosts' \in Seq(HostRecord) /\ Len(hosts') <= MaxHosts
      BY <1>2, <2>1, OpenedHosts DEF SessionInv
    <2>5. n \in 0..MaxHosts /\ 0 \in 0..MaxHosts
      BY <2>4, SessionAssumption DEF Hosts
    <2>6. reg' \in Registries /\ (reg'.ticket.state = "pending" \/ (pc' = "bind" /\ reg'.ticket.host = n /\ reg'.ticket.state # "pending"))
      <3>1. CASE Go("bind") /\ reg' = [reg EXCEPT !.ticket.host = Len(hosts) + 1]
        <4> DEFINE t == [reg.ticket EXCEPT !.host = n]
        <4>1. reg.ticket.state # "pending"
          BY <1>2 DEF SessionInv, StartUnsettled, Reserved
        <4>2. t \in Tickets /\ t.host = n /\ t.state = reg.ticket.state
          BY <2>5, RegTyped DEF Registries, Tickets
        <4>3. reg' = [reg EXCEPT !.ticket = t]
          BY <2>1, <3>1
        <4> HIDE DEF t
        <4>4. reg' \in Registries /\ reg'.ticket = t
          BY <4>2, <4>3, RegTyped, TicketChange
        <4> QED BY <3>1, <4>1, <4>2, <4>4 DEF Go
      <3>2. ASSUME NEW h \in {0, Len(hosts) + 1}, reg' = [reg EXCEPT !.ticket = [state |-> "pending", host |-> h]]
            PROVE  reg' \in Registries /\ reg'.ticket.state = "pending"
        <4> DEFINE t == [state |-> "pending", host |-> h]
        <4>1. t \in Tickets /\ t.state = "pending"
          BY <2>1, <2>5 DEF Tickets
        <4> HIDE DEF t
        <4> QED BY <3>2, <4>1, RegTyped, TicketChange DEF t
      <3>3. ~(UNCHANGED hosts)
        BY <1>2, OpenedHosts DEF SessionInv
      <3> QED BY <3>1, <3>2, <3>3 DEF Create
    <2>7. pc' \in {"bind", "idle"}
      <3>1. ~(UNCHANGED hosts)
        BY <1>2, OpenedHosts DEF SessionInv
      <3> QED BY <3>1 DEF Create, Go, Back
    <2>8. SessionTypes'
      BY <2>4, <2>6 DEF SessionTypes
    <2>9. TicketFresh' /\ StartUnsettled' /\ AskedOnce' /\ CreateAlone'
      <3>1. TicketFresh'
        <4>1. CASE reg'.ticket.state = "pending"
          BY <4>1 DEF TicketFresh
        <4>2. CASE reg'.ticket.host = n
          BY <2>3, <4>2 DEF TicketFresh, Fresh
        <4> QED BY <2>6, <4>1, <4>2
      <3>2. StartUnsettled'
        <4>1. CASE pc' = "idle"
          BY <4>1 DEF StartUnsettled, Reserved
        <4>2. CASE pc' = "bind"
          <5>1. CASE Go("bind") /\ reg' = [reg EXCEPT !.ticket.host = Len(hosts) + 1]
            <6>1. reg.ticket.state # "pending"
              BY <1>2 DEF SessionInv, StartUnsettled, Reserved
            <6>2. reg'.ticket.state = reg.ticket.state
              BY <5>1, RegTyped DEF Registries, Tickets
            <6> QED BY <6>1, <6>2 DEF StartUnsettled
          <5>2. ~(UNCHANGED hosts)
            BY <1>2, OpenedHosts DEF SessionInv
          <5> QED BY <4>2, <5>1, <5>2 DEF Create, Back, Go
        <4> QED BY <2>7, <4>1, <4>2
      <3>3. AskedOnce' /\ CreateAlone'
        BY <2>7 DEF AskedOnce, CreateAlone
      <3> QED BY <3>1, <3>2, <3>3
    <2> QED BY <2>3, <2>8, <2>9 DEF SessionInv
  <1> QED BY <1>1, <1>2 DEF Create

LEMMA StartStepsKeep ==
  ASSUME SessionInv, Bind \/ Confirm \/ Prove \/ Commit \/ LaunchFails
  PROVE  SessionInv'
  <1>1. CASE Bind
    BY <1>1, SameSettles, ReservedStep DEF Bind, Keep, Stays, Reserved
  <1>2. CASE Confirm
    BY <1>2, SameSettles, ReservedStep DEF Confirm, Go, Keep, Stays, Reserved
  <1>3. CASE Prove
    <2> DEFINE f == [reg.owned EXCEPT ![w.app] = "held"]
    <2>1. f \in [Hosts -> {"none", "held", "pending"}]
      BY RegTyped DEF Registries
    <2>2. reg' = [reg EXCEPT !.owned = f]
      BY <1>3 DEF Prove
    <2> HIDE DEF f
    <2>3. Quiet(reg, reg')
      BY <2>1, <2>2, RegTyped, OwnedQuiet
    <2> QED BY <1>3, <2>3, ReservedStep DEF Prove, Go, Stays, Reserved
  <1>4. CASE Commit
    <2>1. reg.ticket.state # "pending" /\ pc' = "configure" /\ UNCHANGED hosts
      BY <1>4 DEF Commit, Stays, SessionInv, StartUnsettled, Reserved
    <2> DEFINE t == [reg.ticket EXCEPT !.state = "ready"]
               f == [reg.watch EXCEPT ![w.app] = "open"]
    <2>2. t \in Tickets /\ t.state = "ready" /\ t.host = reg.ticket.host
      BY RegTyped DEF Registries, Tickets
    <2>3. f \in [Hosts -> {"none", "open", "failed"}]
      BY RegTyped DEF Registries
    <2>4. reg' = [reg EXCEPT !.ticket = t, !.watch = f]
      BY <1>4 DEF Commit
    <2> HIDE DEF t, f
    <2>5. reg' \in Registries /\ reg'.ticket = t
      BY <2>2, <2>3, <2>4, RegTyped DEF Registries
    <2>6. SessionTypes'
      BY <2>1, <2>5 DEF SessionInv, SessionTypes
    <2>7. TicketFresh'
      BY <2>1, <2>2, <2>5 DEF SessionInv, TicketFresh, Fresh
    <2>8. StartUnsettled' /\ AskedOnce' /\ CreateAlone'
      BY <2>1 DEF StartUnsettled, AskedOnce, CreateAlone, Reserved
    <2>9. OursAlone' /\ OneQuitEach'
      BY <2>1 DEF SessionInv, OursAlone, OneQuitEach, Ours, Live
    <2> QED BY <2>6, <2>7, <2>8, <2>9 DEF SessionInv
  <1>5. CASE LaunchFails
    <2>1. Settles(reg, reg')
      BY <1>5, RegTyped, PendingTicket DEF LaunchFails, TicketPending, Settles
    <2> QED BY <1>5, <2>1, SettledStep DEF LaunchFails, Back, Stays, Reserved
  <1> QED BY <1>1, <1>2, <1>3, <1>4, <1>5

LEMMA DispatchKeeps ==
  ASSUME SessionInv, Dispatch
  PROVE  SessionInv'
  <1>1. PICK o \in Ensured : reg' = o.reg
    BY DEF Dispatch
  <1>2. Settles(reg, reg')
    BY <1>1, RegTyped, EnsuredQuiet, QuietSettles
  <1> QED BY <1>2, SettledStep DEF Dispatch, Back, Stays, Reserved

\* COM hands out what is there, or starts one where none is.
LEMMA ActivateKeeps ==
  ASSUME SessionInv, Activate
  PROVE  SessionInv'
  <1>1. pc' \in {"idle", "own"}
    BY DEF Activate, BackPoisoned, Retain
  <1>2. reg' = reg \/ reg' = [reg EXCEPT !.unverified = TRUE]
    BY DEF Activate, Keep, Retain
  <1>3. Settles(reg, reg') /\ reg' \in Registries /\ reg'.ticket = reg.ticket
    BY <1>2, RegTyped, UnverifiedSettles, SameSettles DEF Settles, Registries
  <1>4. CASE UNCHANGED hosts
    BY <1>1, <1>3, <1>4, SettledStep DEF Reserved
  <1>5. CASE Live = {} /\ Room /\ hosts' = Opened("com")
    <2>1. PICK n : n = Len(hosts) + 1
      OBVIOUS
    <2>2. \A h \in DOMAIN hosts : ~Ours(h)
      BY <1>5 DEF Ours
    <2>3. OursAlone' /\ OneQuitEach'
      BY <1>5, <2>1, <2>2, OpenedAlone
    <2>4. \A h : Fresh(h) => Fresh(h)'
      BY <1>5, <2>1, <2>2, OpenedAlone
    <2>5. SessionTypes'
      BY <1>3, <1>5, OpenedHosts DEF SessionInv, SessionTypes
    <2>6. TicketFresh'
      BY <1>3, <2>4 DEF SessionInv, TicketFresh
    <2>7. StartUnsettled' /\ AskedOnce' /\ CreateAlone'
      BY <1>1 DEF StartUnsettled, AskedOnce, CreateAlone, Reserved
    <2> QED BY <2>3, <2>5, <2>6, <2>7 DEF SessionInv
  <1> QED BY <1>4, <1>5 DEF Activate

LEMMA OwnKeeps ==
  ASSUME SessionInv, Own
  PROVE  SessionInv'
  <1>1. pc' \in {"idle", "configure"} /\ UNCHANGED hosts
    BY DEF Own, BackPoisoned, Retain, Stays
  <1>2. CASE Retain
    BY <1>1, <1>2, UnverifiedSettles, SettledStep DEF Retain, Reserved
  <1>3. ASSUME NEW v \in {"held", "pending"}, reg' = [reg EXCEPT !.owned[w.app] = v]
        PROVE  SessionInv'
    <2> DEFINE f == [reg.owned EXCEPT ![w.app] = v]
    <2>1. f \in [Hosts -> {"none", "held", "pending"}]
      BY RegTyped DEF Registries
    <2>2. reg' = [reg EXCEPT !.owned = f]
      BY <1>3
    <2> HIDE DEF f
    <2>3. Settles(reg, reg')
      BY <2>1, <2>2, RegTyped, OwnedQuiet, QuietSettles
    <2> QED BY <1>1, <2>3, SettledStep DEF Reserved
  <1> QED BY <1>2, <1>3 DEF Own

LEMMA UseKeeps ==
  ASSUME SessionInv, Configure \/ Read
  PROVE  SessionInv'
  <1>1. CASE Keep
    BY <1>1, SameSettles, SettledStep
       DEF Configure, Read, Keep, Stays, Go, Back, ReleasePoisoned, BackPoisoned, Reserved
  <1>2. CASE ReleasePoisoned
    <2>1. Settles(reg, reg')
      BY <1>2, RegTyped, SameSettles, AbandonedSettles DEF ReleasePoisoned
    <2> QED BY <1>2, <2>1, SettledStep DEF Configure, Read, ReleasePoisoned, BackPoisoned, Stays, Reserved
  <1> QED BY <1>1, <1>2 DEF Configure, Read

LEMMA EndCycleKeeps ==
  ASSUME SessionInv, EndCycle
  PROVE  SessionInv'
  <1>1. Settles(reg, reg')
    <2>1. CASE UNCHANGED reg
      BY <2>1, SameSettles
    <2>2. CASE reg' = [reg EXCEPT !.unverified = @ /\ Live # {}]
      <3> DEFINE b == reg.unverified /\ Live # {}
      <3>1. b \in BOOLEAN /\ reg' = [reg EXCEPT !.unverified = b]
        BY <2>2
      <3> HIDE DEF b
      <3> QED BY <3>1, UnverifiedSettles
    <2> QED BY <2>1, <2>2 DEF EndCycle
  <1> QED BY <1>1, SettledStep DEF EndCycle, Go, Stays, Reserved

\* The request is spent on the ticket before anything is asked.
LEMMA QuitKeeps ==
  ASSUME SessionInv, Quit
  PROVE  SessionInv'
  <1>1. UNCHANGED hosts
    BY DEF Quit, Stays
  <1>2. CASE Released
    <2>1. tls.app \in Live => tls.app \in Hosts
      BY LiveAreHosts DEF SessionInv
    <2>2. CASE UNCHANGED reg
      BY <1>1, <1>2, <2>2, SameSettles, SettledStep DEF Released, Reserved
    <2>3. CASE reg' = Abandoned(reg)
      <3>1. Settles(reg, reg')
        BY <2>3, RegTyped, SameSettles, AbandonedSettles
      <3> QED BY <1>1, <1>2, <3>1, SettledStep DEF Released, Reserved
    <2>4. CASE tls.app \in Live /\ reg' = Yielded(reg, tls.app)
      <3>1. Settles(reg, reg')
        BY <2>1, <2>4, RegTyped, YieldedSettles
      <3> QED BY <1>1, <1>2, <3>1, SettledStep DEF Released, Reserved
    <2>5. ~Go("ask")
      BY <1>2 DEF Released, Go
    <2> QED BY <2>2, <2>3, <2>4, <2>5 DEF Quit
  <1>3. CASE /\ ExactOrigin /\ tls.app \in Live /\ Go("ask")
             /\ reg' = [reg EXCEPT !.ticket.state = "pending", !.owned[tls.app] = "pending"]
    <2>1. tls.app \in Hosts /\ tls.app # 0
      BY <1>3, LiveAreHosts DEF SessionInv, Hosts
    <2>2. Fresh(tls.app)
      BY <1>3, <2>1 DEF SessionInv, TicketFresh, ExactOrigin
    <2> DEFINE t == [reg.ticket EXCEPT !.state = "pending"]
               f == [reg.owned EXCEPT ![tls.app] = "pending"]
    <2>3. t \in Tickets /\ t.state = "pending"
      BY RegTyped DEF Registries, Tickets
    <2>4. f \in [Hosts -> {"none", "held", "pending"}]
      BY RegTyped DEF Registries
    <2>5. reg' = [reg EXCEPT !.ticket = t, !.owned = f]
      BY <1>3
    <2> HIDE DEF t, f
    <2>6. reg' \in Registries /\ reg'.ticket = t
      BY <2>3, <2>4, <2>5, RegTyped DEF Registries
    <2>7. SessionTypes'
      BY <1>1, <2>6 DEF SessionInv, SessionTypes
    <2>8. pc' = "ask" /\ UNCHANGED tls
      BY <1>3 DEF Go
    <2>9. TicketFresh' /\ StartUnsettled' /\ CreateAlone'
      BY <2>3, <2>6, <2>8 DEF TicketFresh, StartUnsettled, CreateAlone, Reserved
    <2>10. AskedOnce'
      BY <1>1, <2>2, <2>3, <2>6, <2>8 DEF AskedOnce, Fresh
    <2>11. OursAlone' /\ OneQuitEach'
      BY <1>1 DEF SessionInv, OursAlone, OneQuitEach, Ours, Live
    <2> QED BY <2>7, <2>9, <2>10, <2>11 DEF SessionInv
  <1> QED BY <1>2, <1>3 DEF Quit

LEMMA AskKeeps ==
  ASSUME SessionInv, Ask
  PROVE  SessionInv'
  <1>1. UNCHANGED <<hosts, reg>> /\ pc = "ask"
    BY DEF Ask, Keep, Stays
  <1>2. CASE Released
    BY <1>1, <1>2, SameSettles, SettledStep DEF Released, Reserved
  <1>3. CASE Go("asking")
    <2>1. pc' = "asking" /\ UNCHANGED tls
      BY <1>3 DEF Go
    <2>2. SessionTypes' /\ TicketFresh' /\ OursAlone' /\ OneQuitEach'
      BY <1>1 DEF SessionInv, SessionTypes, TicketFresh, OursAlone, OneQuitEach, Ours, Live, Fresh
    <2>3. StartUnsettled' /\ CreateAlone'
      BY <2>1 DEF StartUnsettled, CreateAlone, Reserved
    <2>4. AskedOnce'
      BY <1>1, <2>1 DEF SessionInv, AskedOnce, Fresh
    <2> QED BY <2>2, <2>3, <2>4 DEF SessionInv
  <1> QED BY <1>2, <1>3 DEF Ask

\* The request itself.  Its host was fresh, and no ticket that is left names it.
LEMMA AskingKeeps ==
  ASSUME SessionInv, Asking
  PROVE  SessionInv'
  <1>1. pc = "asking" /\ pc' \in {"poll", "observe"}
    BY DEF Asking, Go, Released
  <1>2. CASE UNCHANGED <<hosts, reg>>
    BY <1>1, <1>2, SameSettles, SettledStep DEF Reserved
  <1>3. ASSUME tls.app \in Live, Settles(reg, reg'),
               NEW s \in {"leaving", hosts[tls.app].state},
               hosts' = [hosts EXCEPT ![tls.app] = [hosts[tls.app] EXCEPT !.state = s, !.asked = hosts[tls.app].asked + 1]]
        PROVE  SessionInv'
    <2>1. PICK a : a = tls.app
      OBVIOUS
    <2>2. a \in DOMAIN hosts /\ hosts[a] \in HostRecord /\ hosts[a].state # "gone"
      BY <1>3, <2>1, HostTyped DEF SessionInv, Live
    <2>3. Fresh(a) /\ (reg.ticket.state = "pending" \/ reg.ticket.host = 0)
      BY <1>1, <2>1 DEF SessionInv, AskedOnce
    <2> DEFINE u == [hosts[a] EXCEPT !.state = s, !.asked = hosts[a].asked + 1]
    <2>4. u \in HostRecord /\ u.by = "launch" /\ u.asked = 1 /\ u.state = s
      <3>1. s \in {"up", "leaving", "kept", "gone"}
        BY <1>3, <2>1, <2>2 DEF HostRecord
      <3>2. hosts[a].by = "launch" /\ hosts[a].asked = 0
        BY <2>3 DEF Fresh
      <3>3. PICK r \in HostRecord : r = hosts[a]
        BY <2>2
      <3>4. PICK n \in Nat : n = 1
        OBVIOUS
      <3>5. u = [r EXCEPT !.state = s, !.asked = n]
        BY <3>4, <3>2, <3>3
      <3>6. r.asked = 0 /\ r.by = "launch"
        BY <3>2, <3>3
      <3> HIDE DEF u
      <3>7. /\ [r EXCEPT !.state = s, !.asked = n] \in HostRecord
            /\ [r EXCEPT !.state = s, !.asked = n].by = r.by
            /\ [r EXCEPT !.state = s, !.asked = n].asked = n
            /\ [r EXCEPT !.state = s, !.asked = n].state = s
        BY <3>1 DEF HostRecord
      <3> QED BY <3>4, <3>5, <3>6, <3>7
    <2>5. hosts' = [hosts EXCEPT ![a] = u]
      BY <1>3, <2>1
    <2> HIDE DEF u
    <2>6. /\ hosts' \in Seq(HostRecord) /\ Len(hosts') = Len(hosts) /\ DOMAIN hosts' = DOMAIN hosts
          /\ hosts'[a] = u /\ \A g \in DOMAIN hosts : g # a => hosts'[g] = hosts[g]
      BY <2>2, <2>4, <2>5, HostUpdate DEF SessionInv
    <2>7. SessionTypes'
      BY <1>3, <2>6 DEF SessionInv, SessionTypes, Settles
    <2>8. TicketFresh'
      BY <1>3, <2>3 DEF TicketFresh, Settles, NoTicket
    <2>9. StartUnsettled' /\ AskedOnce' /\ CreateAlone'
      BY <1>1 DEF StartUnsettled, AskedOnce, CreateAlone, Reserved
    <2>10. OursAlone'
      <3>1. Ours(a)
        BY <2>2, <2>3 DEF Ours, Live, Fresh
      <3>2. \A h \in DOMAIN hosts : Ours(h)' => Ours(h)
        BY <2>6, <3>1 DEF Ours, Live
      <3> QED BY <2>6, <3>2 DEF SessionInv, OursAlone
    <2>11. OneQuitEach'
      BY <2>4, <2>6 DEF SessionInv, OneQuitEach
    <2> QED BY <2>7, <2>8, <2>9, <2>10, <2>11 DEF SessionInv
  <1>4. CASE tls.app \in Live /\ UNCHANGED reg /\ hosts' = [hosts EXCEPT ![tls.app].state = "leaving", ![tls.app].asked = @ + 1]
    <2>1. hosts' = [hosts EXCEPT ![tls.app] = [hosts[tls.app] EXCEPT !.state = "leaving", !.asked = hosts[tls.app].asked + 1]]
      BY <1>4
    <2> QED BY <1>3, <1>4, <2>1, SameSettles
  <1>5. CASE tls.app \in Live /\ reg' = Yielded(reg, tls.app) /\ hosts' = [hosts EXCEPT ![tls.app].asked = @ + 1]
    <2>1. tls.app \in DOMAIN hosts /\ tls.app \in Hosts /\ hosts[tls.app] \in HostRecord
      BY <1>5, LiveAreHosts, HostTyped DEF SessionInv
    <2>2. Settles(reg, reg')
      BY <1>5, <2>1, RegTyped, YieldedSettles
    <2>3. hosts' = [hosts EXCEPT ![tls.app] = [hosts[tls.app] EXCEPT !.state = hosts[tls.app].state, !.asked = hosts[tls.app].asked + 1]]
      BY <1>5, <2>1 DEF HostRecord
    <2> QED BY <1>3, <1>5, <2>2, <2>3
  <1> QED BY <1>2, <1>4, <1>5 DEF Asking

LEMMA PollKeeps ==
  ASSUME SessionInv, Poll
  PROVE  SessionInv'
  <1>1. pc' = "observe" /\ UNCHANGED hosts
    BY DEF Poll, Released, Stays
  <1>2. CASE UNCHANGED reg
    BY <1>1, <1>2, SameSettles, SettledStep DEF Reserved
  <1>3. CASE QuitTarget /\ reg' = Yielded(reg, tls.app)
    <2>1. tls.app \in Hosts
      BY <1>3, LiveAreHosts DEF SessionInv, QuitTarget
    <2>2. Settles(reg, reg')
      BY <1>3, <2>1, RegTyped, YieldedSettles
    <2> QED BY <1>1, <2>2, SettledStep DEF Reserved
  <1> QED BY <1>2, <1>3 DEF Poll

LEMMA ObserveExitKeeps ==
  ASSUME SessionInv, ObserveExit
  PROVE  SessionInv'
  <1>1. PICK o \in ExitObserved(reg) : reg' = Pruned(o.reg) \/ reg' = o.reg
    BY DEF ObserveExit
  <1>2. Quiet(reg, o.reg)
    BY RegTyped, ExitObservedQuiet
  <1>3. o.reg \in Registries
    BY <1>2 DEF Quiet
  <1>4. Settles(reg, reg')
    BY <1>1, <1>2, <1>3, PrunedQuiet, QuietTrans, QuietSettles
  <1> QED BY <1>4, SettledStep DEF ObserveExit, Reserved

\* The thread that cleans up at exit runs beside every step of the worker.
LEMMA HelpKeeps ==
  ASSUME SessionInv, Help
  PROVE  SessionInv'
  <1>1. Quiet(reg, reg')
    <2>1. CASE UNCHANGED reg
      BY <2>1, SameSettles
    <2>2. CASE \E o \in ExitObserved(reg) : reg' = o.reg
      BY <2>2, RegTyped, ExitObservedQuiet
    <2>3. CASE reg' = [reg EXCEPT !.watch = [h \in Hosts |-> "none"], !.yielded = {}]
      <3>1. [h \in Hosts |-> "none"] \in [Hosts -> {"none", "open", "failed"}]
        OBVIOUS
      <3> QED BY <2>3, <3>1, RegTyped DEF Quiet, Registries
    <2> QED BY <2>1, <2>2, <2>3 DEF Help, Keep
  <1> QED BY <1>1, QuietStep DEF Help

-----------------------------------------------------------------------------
(* The theorems.                                                              *)

LEMMA SessionInit == Init => SessionInv
  <1> SUFFICES ASSUME Init PROVE SessionInv
    OBVIOUS
  <1>1. /\ hosts = <<>> /\ pc = "idle" /\ DOMAIN hosts = {} /\ reg.ticket = NoTicket
    BY DEF Init
  <1>2. reg \in Registries
    BY NoTicketIsOne DEF Init, Registries
  <1>3. SessionTypes
    BY <1>1, <1>2, EmptySeq, SessionAssumption DEF SessionTypes
  <1> QED BY <1>1, <1>3 DEF SessionInv, TicketFresh, StartUnsettled, AskedOnce, CreateAlone,
                            OursAlone, OneQuitEach, NoTicket, Reserved

LEMMA SessionStep == SessionInv /\ [Next]_vars => SessionInv'
  <1> SUFFICES ASSUME SessionInv, [Next]_vars PROVE SessionInv'
    OBVIOUS
  <1>1. CASE UNCHANGED vars
    BY <1>1, SameSettles, QuietStep DEF vars
  <1>2. CASE Take \/ EndCycle \/ Help \/ System
    BY <1>2, TakeKeeps, EndCycleKeeps, HelpKeeps, SystemKeeps
  <1>3. CASE Local
    BY <1>3, EnterKeeps, AdmitKeeps, LaunchKeeps, CreateKeeps, DispatchKeeps, ActivateKeeps,
       AskKeeps, ObserveExitKeeps DEF Local
  <1>4. CASE Remote
    BY <1>4, StartStepsKeep, OwnKeeps, UseKeeps, QuitKeeps, AskingKeeps, PollKeeps DEF Remote
  <1>5. CASE Prepare
    BY <1>5, SameSettles, QuietStep DEF Prepare
  <1> QED BY <1>1, <1>2, <1>3, <1>4, <1>5 DEF Next

\* A PowerPoint is asked to quit at most once, and only if this program started
\* it, whatever listings and observations fail and whatever the user does
\* meanwhile (request_quit, _exact_origin).
THEOREM QuitOnceOurs == Spec => []OneQuitEach
  <1>1. SessionInv => OneQuitEach
    BY DEF SessionInv
  <1> QED BY <1>1, SessionInit, SessionStep, PTL DEF Spec

\* At most one PowerPoint that this program brought up is running, directly or
\* through COM (prepare_powerpoint_dispatch, launch_and_bind).
THEOREM OneHostOfOurs == Spec => []OneHost
  <1>1. SessionInv => OneHost
    <2> SUFFICES ASSUME SessionInv PROVE OneHost
      OBVIOUS
    <2> DEFINE S == {h \in Live : hosts[h].by # "user"}
    <2>1. \A g, h \in S : g = h
      BY DEF SessionInv, OursAlone, Ours, Live
    <2>2. CASE S = {}
      BY <2>2, FS_EmptySet DEF OneHost
    <2>3. CASE S # {}
      <3>1. PICK h : h \in S
        BY <2>3
      <3>2. S = {h}
        BY <2>1, <3>1
      <3> HIDE DEF S
      <3>3. Cardinality(S) = 1
        BY <3>2, FS_Singleton
      <3> QED BY <3>3 DEF OneHost, S
    <2> QED BY <2>2, <2>3
  <1> QED BY <1>1, SessionInit, SessionStep, PTL DEF Spec
=============================================================================
