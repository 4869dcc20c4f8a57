--------------------------- MODULE MailIndexProofs ---------------------------
(***************************************************************************)
(* Proofs about MailIndex: what the saved cache lets a scan skip can be       *)
(* found, and a mail that can be found is not lost by replacing it.           *)
(*                                                                          *)
(* The argument is one word: a row is solid when its id is in no queue, the   *)
(* saved one, the cycle's or the deletion in hand.  A mail the table shows,    *)
(* the cache vouches for or the scan has settled has a solid row (Promises),  *)
(* and no step but the clean-up of an exclusion and the loss of the table     *)
(* takes the last solid row of a mail.  That needs to know whose rows the     *)
(* ids remembered in the window and with the copies are (IdsKnown), and that  *)
(* an id leaves a queue only when its row is gone (Waiting).                  *)
(***************************************************************************)
EXTENDS MailIndex, FiniteSetTheorems, SequenceTheorems, WellFoundedInduction, TLAPS

-----------------------------------------------------------------------------
(* The inductive invariant.                                                   *)

Fields == {"job", "todo", "n", "item", "key", "win", "ready", "ret", "work", "shadow",
           "fresh", "whole", "stop", "cancelled", "missed", "flushed", "ids"}

Entry == [item : Item, old : SUBSET Ids]

FileTypes == /\ file \in [Paths -> [t : Times, body : Bodies \cup {Corrupt}]] /\ excl \subseteq Paths
             /\ snap # None => snap \in [items : [Paths -> Times], excl : SUBSET Paths]

TableTypes == table \subseteq Row /\ \A g, h \in table : g.id = h.id => g = h

StateTypes == disk \in State /\ mem \in State

ScanTypes ==
    /\ DOMAIN scan = Fields /\ scan.todo \in Seq(Item) /\ scan.win \in Seq(Entry)
    /\ scan.work \in [Uids -> Generation \cup {None}] /\ scan.shadow \in [Uids -> Times]
    /\ scan.ids \subseteq Ids /\ scan.key \in Key \cup {None}

OpTypes == op.ids \subseteq Ids /\ op.good \subseteq Item /\ op.bad \subseteq Item

MailTypes == FileTypes /\ TableTypes /\ StateTypes /\ ScanTypes /\ OpTypes

Marking   == {"queue", "drop", "clear", "mark"}
Excluding == {"retry", "retried", "reconcile", "exclude", "excluded"}

\* Which job is where, and what is in hand there.
Phase ==
    /\ pc # "idle" => scan.job \in {"cycle", "policy", "single"}
    /\ scan.job = "policy" => pc \in Excluding
    /\ scan.job = "single" => pc \notin Excluding \cup {"scan", "scanned", "discover"}
    /\ pc \notin {"exclude", "excluded"} => scan.ids = {}
    /\ pc \notin Marking => op = NoOp

\* Nothing of the scan has begun while the exclusions are cleaned up.
Untouched == pc \in Excluding => \A u \in Uids : scan.work[u] = None /\ scan.shadow[u] = 0

\* The way back from a flush and from a deletion, and the item that waits for it.
Returns ==
    /\ scan.ret \in {None, "after", "again", "finish"} /\ op.back \in {None, "after", "commit"}
    /\ scan.ret = "again" => pc \in {"embed", "commit"} \/ (pc \in Marking /\ op.back = "commit")
    /\ pc \in {"parse", "again"} \/ scan.ret = "again" => scan.item \in Item
    /\ pc = "again" \/ scan.ret = "again" => scan.item.body \in Bodies
    /\ pc = "parse" => scan.item.t > 0
    /\ scan.job = "single" => \A i \in DOMAIN scan.todo : scan.todo[i].t > 0
    /\ pc = "again" => scan.stop = TRUE \/ scan.win = << >>

\* What waits in the window is an open generation, one of each mail.
WindowOpen ==
    /\ \A i \in DOMAIN scan.win : LET g == scan.work[Uid[scan.win[i].item.p]]
                                  IN g \in Generation /\ g.outcome = "open"
    /\ \A i, j \in DOMAIN scan.win : Uid[scan.win[i].item.p] = Uid[scan.win[j].item.p] => i = j

\* The remembered ids are ids of the mail itself or of rows under a path.
IdsKnown ==
    /\ \A i \in DOMAIN scan.win : \A g \in table :
          g.id \in scan.win[i].old => g.uid \in Paths \/ g.uid = Uid[scan.win[i].item.p]
    /\ \A u \in Uids : scan.work[u] \in Generation =>
          \A a \in scan.work[u].aliases :
             /\ Uid[a.item.p] = u
             /\ \A g \in table : g.id \in a.old => g.uid \in Paths

\* An id leaves the cycle's queue only when its row is gone.
Waiting ==
    /\ pc # "idle" => \A g \in table : g.id \in disk.pend => g.id \in mem.pend
    /\ pc \in {"retry", "retried", "reconcile"} => mem.pend \subseteq disk.pend
    /\ pc = "exclude" => scan.ids \subseteq mem.pend
    /\ pc = "clear" => \A g \in table : g.id \notin op.ids

Spent    == disk.pend \cup mem.pend \cup op.ids
Solid(u) == \E g \in table : g.uid = u /\ g.id \notin Spent

\* Before a cycle has noticed that the table was lost, the cache is not used.
Relied == blank = None \/ table # {} \/ scan.job \in {"cycle", "single"}

FoundSolid == \A u \in Uids : Found(u) # {} => Solid(u)
Claims  == Relied => \A p \in Paths : disk.files[p] > 0 \/ mem.files[p] > 0 => Solid(Uid[p])
Settles == /\ \A u \in Uids : scan.shadow[u] > 0 => Solid(u)
           /\ \A u \in Uids : scan.work[u] # None /\ scan.work[u].outcome = "success" => Solid(u)
           /\ \A i \in op.good : Solid(Uid[i.p])

Promises == FoundSolid /\ Claims /\ Settles

MailInv == MailTypes /\ Phase /\ Untouched /\ Returns /\ WindowOpen /\ IdsKnown /\ Waiting /\ Promises

-----------------------------------------------------------------------------
(* The operators of the model.                                                *)

\* A new id is an id, and nobody knows it.
LEMMA NewIdIsNew ==
  ASSUME Ids \ Known # {}
  PROVE  NewId \in Ids \ Known
  <1> DEFINE T == Ids \ Known
  <1>1. T \subseteq Nat /\ T # {}
    BY DEF Ids
  <1> HIDE DEF T
  <1>2. PICK x \in T : \A y \in T : ~(<<y, x>> \in OpToRel(<, Nat))
    BY <1>1, NatLessThanWellFounded, WFMin
  <1>3. \A y \in T : ~(y < x)
    BY <1>1, <1>2 DEF OpToRel
  <1>4. \A y \in T : x <= y
    BY <1>1, <1>3
  <1>5. \E i \in T : \A j \in T : i <= j
    BY <1>2, <1>4
  <1> QED BY <1>5 DEF NewId, T

LEMMA PathsFinite == IsFiniteSet(Paths)
  <1>1. Rank \in Injection(Paths, Ids)
    BY ConstantsAssumption DEF Injection, IsInjective
  <1>2. IsFiniteSet(Ids)
    BY FS_Interval, ConstantsAssumption DEF Ids
  <1> QED BY <1>1, <1>2, FS_Injection

LEMMA NoneApart ==
  /\ None \notin Paths /\ None \notin Uids /\ None \notin Bodies /\ None \notin Generation
  /\ None \notin Words
  BY ConstantsAssumption

\* The uids of the mails are apart from the names of old rows.
LEMMA UidOf ==
  ASSUME NEW p \in Paths
  PROVE  Uid[p] \in Uids /\ Uid[p] \notin Paths
  BY ConstantsAssumption

\* What a scan visits, in the order it does so.
LEMMA RotatedTyped ==
  ASSUME NEW S, NEW s \in Seq(S), NEW c
  PROVE  Rotated(s, c) \in Seq(S)
  <1> DEFINE passed == Cardinality({i \in DOMAIN s : ~Before(c, [t |-> s[i].t, p |-> s[i].p])})
  <1>1. Len(s) \in Nat /\ DOMAIN s = 1..Len(s)
    OBVIOUS
  <1>2. IsFiniteSet(1..Len(s)) /\ Cardinality(1..Len(s)) = Len(s)
    BY <1>1, FS_Interval
  <1>3. passed \in Nat /\ passed <= Len(s)
    <2> DEFINE P == {i \in DOMAIN s : ~Before(c, [t |-> s[i].t, p |-> s[i].p])}
    <2>1. P \in SUBSET (1..Len(s))
      BY <1>1
    <2> HIDE DEF P
    <2>2. IsFiniteSet(P) /\ Cardinality(P) <= Len(s)
      BY <1>2, <2>1, FS_Subset
    <2>3. Cardinality(P) \in Nat
      BY <2>2, FS_CardinalityType
    <2> QED BY <2>2, <2>3 DEF P
  <1> HIDE DEF passed
  <1>4. SubSeq(s, passed + 1, Len(s)) \in Seq(S)
    <2>1. \A i \in passed + 1 .. Len(s) : s[i] \in S
      BY <1>1, <1>3
    <2> QED BY <1>1, <1>3, <2>1, SubSeqProperties
  <1>5. SubSeq(s, 1, passed) \in Seq(S)
    <2>1. \A i \in 1..passed : s[i] \in S
      BY <1>1, <1>3
    <2> QED BY <1>1, <1>3, <2>1, SubSeqProperties
  <1>6. SubSeq(s, passed + 1, Len(s)) \o SubSeq(s, 1, passed) \in Seq(S)
    BY <1>4, <1>5, ConcatProperties
  <1> QED BY <1>6 DEF Rotated, passed

LEMMA CandidatesTyped ==
  ASSUME NEW items \in [Paths -> Times]
  PROVE  /\ Candidates(items) \subseteq Item
         /\ SetToSeqs(Candidates(items)) \subseteq Seq(Item)
  <1> DEFINE Q == {q \in Paths : /\ items[q] > 0 /\ q \notin excl /\ ~should_defer(q, items[q])
                                 /\ ~cache_matches(mem, q, items[q])}
             item(p) == [p |-> p, t |-> items[p], body |-> None]
  <1>1. Candidates(items) = {item(p) : p \in Q}
    BY DEF Candidates
  <1>2. IsFiniteSet(Q)
    <2>1. Q \in SUBSET Paths
      OBVIOUS
    <2> HIDE DEF Q
    <2> QED BY <2>1, PathsFinite, FS_Subset
  <1>3. Q \subseteq Paths
    OBVIOUS
  <1> HIDE DEF Q
  <1>4. {item(p) : p \in Q} \subseteq Item
    BY <1>3 DEF Item
  <1>5. IsFiniteSet({item(p) : p \in Q})
    <2> DEFINE f == [p \in Q |-> item(p)]
    <2>1. f \in Surjection(Q, {item(p) : p \in Q})
      BY DEF Surjection
    <2> HIDE DEF f
    <2> QED BY <1>2, <2>1, FS_Surjection
  <1> DEFINE C == Candidates(items)
  <1>6. IsFiniteSet(C) /\ C \subseteq Item
    BY <1>1, <1>4, <1>5
  <1> HIDE DEF C
  <1>7. Cardinality(C) \in Nat
    BY <1>6, FS_CardinalityType
  <1>8. [1..Cardinality(C) -> C] \subseteq Seq(Item)
    BY <1>6, <1>7
  <1>9. SetToSeqs(C) \subseteq [1..Cardinality(C) -> C]
    BY DEF SetToSeqs
  <1> QED BY <1>6, <1>8, <1>9 DEF C

\* A mail is settled by a cached copy only if there is one.
LEMMA ShadowTyped ==
  ASSUME NEW items \in [Paths -> Times]
  PROVE  /\ Shadow(items) \in [Uids -> Times]
         /\ \A u \in Uids : Shadow(items)[u] > 0 => \E p \in Paths : Uid[p] = u /\ mem.files[p] > 0
  <1> SUFFICES ASSUME NEW u \in Uids
               PROVE  /\ Shadow(items)[u] \in Times
                      /\ Shadow(items)[u] > 0 => \E p \in Paths : Uid[p] = u /\ mem.files[p] > 0
    BY DEF Shadow
  <1> DEFINE Q == {q \in Paths : /\ Uid[q] = u /\ items[q] > 0 /\ q \notin excl
                                 /\ cache_matches(mem, q, items[q])}
             times == {items[p] : p \in Q}
  <1>1. Shadow(items)[u] = IF times = {} THEN 0 ELSE CHOOSE t \in times : \A s \in times : s <= t
    BY DEF Shadow
  <1>2. times \subseteq Times /\ 0 \in Times
    BY ConstantsAssumption DEF Times
  <1>3. CASE times = {}
    BY <1>1, <1>2, <1>3
  <1>4. CASE times # {}
    <2> HIDE DEF times
    <2>1. \E t \in times : \A s \in times : s <= t
      <3> DEFINE up == {m \in Nat : \A s \in times : s <= m}
      <3>1. MaxTime \in up
        BY <1>2, ConstantsAssumption DEF Times
      <3>2. PICK x \in up : \A y \in up : ~(<<y, x>> \in OpToRel(<, Nat))
        <4>1. up \subseteq Nat /\ up # {}
          BY <3>1
        <4> HIDE DEF up
        <4> QED BY <4>1, NatLessThanWellFounded, WFMin
      <3>3. \A y \in up : ~(y < x)
        BY <3>2 DEF OpToRel
      <3>4. x \in Nat /\ \A s \in times : s <= x /\ s \in Nat
        <4>1. \A s \in times : s \in Nat
          BY <1>2, ConstantsAssumption DEF Times
        <4>2. x \in Nat /\ \A s \in times : s <= x
          BY <3>2
        <4> QED BY <4>1, <4>2
      <3>5. x \in times
        <4>1. SUFFICES ASSUME x \notin times PROVE FALSE
          OBVIOUS
        <4>2. \A s \in times : s < x
          BY <3>4, <4>1
        <4>3. x > 0
          BY <1>4, <3>4, <4>2
        <4>4. x - 1 \in up /\ x - 1 < x
          BY <3>4, <4>2, <4>3
        <4> QED BY <3>3, <4>4
      <3> QED BY <3>4, <3>5
    <2>2. Shadow(items)[u] \in times
      BY <1>1, <1>4, <2>1
    <2>3. PICK p \in Q : Shadow(items)[u] = items[p]
      BY <2>2 DEF times
    <2>4. Uid[p] = u /\ p \in Paths /\ mem.files[p] = items[p]
      BY <2>3 DEF cache_matches
    <2> QED BY <1>2, <2>2, <2>3, <2>4
  <1> QED BY <1>3, <1>4

-----------------------------------------------------------------------------
(* Types.                                                                     *)

LEMMA CollectFiles ==
  ASSUME FileTypes, NEW items \in [Paths -> Times], NEW whole, NEW reused, Collect(items, whole, reused),
         UNCHANGED <<file, excl>>
  PROVE  FileTypes'
  BY DEF FileTypes, Collect

LEMMA DiscoverLists ==
  ASSUME FileTypes, Discover
  PROVE  \E items \in [Paths -> Times], whole, reused \in BOOLEAN : Collect(items, whole, reused)
  <1>1. CASE Reusable /\ Collect(snap.items, TRUE, TRUE)
    <2>1. snap.items \in [Paths -> Times]
      BY <1>1 DEF FileTypes, Reusable
    <2> QED BY <1>1, <2>1
  <1>2. CASE Collect(Listed, TRUE, FALSE)
    <2>1. Listed \in [Paths -> Times]
      BY DEF FileTypes, Listed
    <2> QED BY <1>2, <2>1
  <1>3. ASSUME NEW lost \in SUBSET Paths,
               Collect([p \in Paths |-> IF p \in lost THEN 0 ELSE file[p].t], FALSE, FALSE)
        PROVE  \E items \in [Paths -> Times], whole, reused \in BOOLEAN : Collect(items, whole, reused)
    <2>1. [p \in Paths |-> IF p \in lost THEN 0 ELSE file[p].t] \in [Paths -> Times]
      BY ConstantsAssumption DEF FileTypes, Times
    <2> QED BY <1>3, <2>1
  <1> QED BY <1>1, <1>2, <1>3 DEF Discover

LEMMA AttemptHead ==
  ASSUME ScanTypes, Attempt
  PROVE  Head(scan.todo) \in Item /\ Tail(scan.todo) \in Seq(Item)
  BY HeadTailProperties DEF ScanTypes, Attempt, MayGoOn

LEMMA FileTypesStep ==
  ASSUME MailTypes, [Next]_vars
  PROVE  FileTypes'
  <1> USE DEF MailTypes
  <1>1. ASSUME NEW p \in Paths, Edit(p) PROVE FileTypes'
    <2>1. \A t \in (file[p].t + 1)..MaxTime : t \in Times
      BY ConstantsAssumption DEF FileTypes, Times
    <2> QED BY <1>1, <2>1 DEF FileTypes, Edit, memory
  <1>2. ASSUME NEW p \in Paths, Delete(p) PROVE FileTypes'
    <2> DEFINE r == [file[p] EXCEPT !.t = 0]
    <2>1. r \in [t : Times, body : Bodies \cup {Corrupt}]
      BY ConstantsAssumption DEF FileTypes, Times
    <2>2. file' = [file EXCEPT ![p] = r] /\ UNCHANGED <<excl, snap>>
      BY <1>2 DEF Delete, memory
    <2> HIDE DEF r
    <2> QED BY <2>1, <2>2 DEF FileTypes
  <1>3. ASSUME NEW p \in Paths, Exclude(p) \/ Unexclude(p) PROVE FileTypes'
    BY <1>3 DEF FileTypes, Exclude, Unexclude
  <1>4. CASE SnapshotExpires \/ Crash \/ Recreate \/ BeginCycle
    BY <1>4 DEF FileTypes, SnapshotExpires, Crash, Recreate, Restarted, BeginCycle, settings
  <1>5. CASE Discover
    BY <1>5, DiscoverLists, CollectFiles DEF Discover, settings
  <1>6. CASE Attempt
    <2> DEFINE item == Head(scan.todo)
               live == IF scan.job = "single" THEN item.t ELSE file[item.p].t
    <2>1. item \in Item
      BY <1>6, AttemptHead
    <2> HIDE DEF item
    <2>2. live \in Times
      BY <2>1 DEF FileTypes, Item
    <2> HIDE DEF live
    <2>3. snap' = snap \/ (snap # None /\ snap' = [snap EXCEPT !.items[item.p] = live])
      BY <1>6 DEF Attempt, item, live
    <2> QED BY <1>6, <2>1, <2>2, <2>3 DEF FileTypes, Attempt, settings
  <1>7. CASE UNCHANGED <<file, excl, snap>>
    BY <1>7 DEF FileTypes
  <1>8. ASSUME ~(SnapshotExpires \/ Crash \/ Recreate \/ BeginCycle \/ Discover \/ Attempt),
               \A p \in Paths : ~(Edit(p) \/ Delete(p) \/ Exclude(p) \/ Unexclude(p))
        PROVE  UNCHANGED <<file, excl, snap>>
    BY <1>8 DEF Next, Worker, User, RetryOne, Cancel, BackoffExpires, vars, settings, memory,
       RetryPending, SaveRetried, Reconcile, DeleteExcluded, SaveExcluded, LoopEnds, ParseFails,
       CorruptMail, Copy, Choose, Collide, After, QueueIds, DropRows, ClearIds, MarkItems, Embed,
       Commit, Flushed, LastFlush, Finish
  <1> QED BY <1>1, <1>2, <1>3, <1>4, <1>5, <1>6, <1>7, <1>8

\* A row that is added has a new id.
LEMMA AddedRow ==
  ASSUME TableTypes, Ids \ Known # {}, NEW w \in Entry, NEW new,
         new = [id |-> NewId, uid |-> Uid[w.item.p], t |-> w.item.t, src |-> w.item.p]
  PROVE  /\ new \in Row /\ new.id = NewId /\ new.uid = Uid[w.item.p]
         /\ NewId \in Ids \ Known
         /\ table \cup {new} \subseteq Row
         /\ \A g, h \in table \cup {new} : g.id = h.id => g = h
  <1>1. NewId \in Ids \ Known
    BY NewIdIsNew
  <1>2. w.item \in Item /\ w.item.p \in Paths /\ Uid[w.item.p] \in Uids
    BY ConstantsAssumption DEF Entry, Item
  <1>3. new \in Row /\ new.id = NewId /\ new.uid = Uid[w.item.p]
    BY <1>1, <1>2 DEF Row, Item
  <1>4. \A g \in table : g.id # new.id
    BY <1>1, <1>3 DEF Known
  <1> QED BY <1>1, <1>3, <1>4 DEF TableTypes

\* What a commit does to the table.
LEMMA CommitTable ==
  ASSUME ScanTypes, Commit
  PROVE  \E w \in Entry : \E new :
            /\ w = Head(scan.win)
            /\ new = [id |-> NewId, uid |-> Uid[w.item.p], t |-> w.item.t, src |-> w.item.p]
            /\ table' = table \/ (Ids \ Known # {} /\ table' = table \cup {new})
  <1>1. Head(scan.win) \in Entry
    BY HeadTailProperties DEF ScanTypes, Commit
  <1> QED BY <1>1 DEF Commit

LEMMA TableTypesStep ==
  ASSUME MailTypes, [Next]_vars
  PROVE  TableTypes'
  <1> USE DEF MailTypes
  <1>1. CASE table' \subseteq table
    BY <1>1 DEF TableTypes
  <1>2. CASE Commit
    <2>1. PICK w \in Entry : \E new :
            /\ new = [id |-> NewId, uid |-> Uid[w.item.p], t |-> w.item.t, src |-> w.item.p]
            /\ table' = table \/ (Ids \ Known # {} /\ table' = table \cup {new})
      BY <1>2, CommitTable
    <2>2. PICK new :
            /\ new = [id |-> NewId, uid |-> Uid[w.item.p], t |-> w.item.t, src |-> w.item.p]
            /\ table' = table \/ (Ids \ Known # {} /\ table' = table \cup {new})
      BY <2>1
    <2>3. CASE table' = table
      BY <2>3 DEF TableTypes
    <2>4. CASE Ids \ Known # {} /\ table' = table \cup {new}
      BY <2>2, <2>4, AddedRow DEF TableTypes
    <2> QED BY <2>2, <2>3, <2>4
  <1>3. ASSUME ~Commit PROVE table' \subseteq table
    BY <1>3 DEF Next, Worker, User, Edit, Delete, Exclude, Unexclude, RetryOne, Cancel, Crash, Recreate,
       BackoffExpires, SnapshotExpires, BeginCycle, vars, settings, memory, store,
       RetryPending, SaveRetried, Reconcile, DeleteExcluded, SaveExcluded, Discover, Attempt, LoopEnds,
       ParseFails, CorruptMail, Copy, Choose, Collide, After, QueueIds, DropRows, ClearIds, MarkItems,
       Embed, Flushed, LastFlush, Finish
  <1> QED BY <1>1, <1>2, <1>3

LEMMA StateUpdates ==
  ASSUME NEW s \in State, NEW f \in [Paths -> Times], NEW i \in SUBSET Ids, NEW c \in Key \cup {None}
  PROVE  /\ [s EXCEPT !.files = f] \in State /\ [s EXCEPT !.pend = i] \in State
         /\ [s EXCEPT !.cursor = c] \in State /\ [s EXCEPT !.files = f, !.pend = i] \in State
         /\ [s EXCEPT !.files = f].files = f /\ [s EXCEPT !.files = f].pend = s.pend
         /\ [s EXCEPT !.pend = i].files = s.files /\ [s EXCEPT !.pend = i].pend = i
         /\ [s EXCEPT !.cursor = c].files = s.files /\ [s EXCEPT !.cursor = c].pend = s.pend
         /\ [s EXCEPT !.files = f, !.pend = i].files = f /\ [s EXCEPT !.files = f, !.pend = i].pend = i
  BY DEF State

LEMMA StateParts ==
  ASSUME NEW s \in State
  PROVE  s.files \in [Paths -> Times] /\ s.pend \in SUBSET Ids
  BY DEF State

LEMMA NoStateTyped ==
  /\ NoState \in State /\ NoState.pend = {} /\ \A p \in Paths : NoState.files[p] = 0
  /\ NoState.files \in [Paths -> Times]
  BY ConstantsAssumption DEF NoState, State, Times

LEMMA ForgottenTyped ==
  ASSUME NEW s \in State, NEW ids
  PROVE  /\ Forgotten(s, ids) \in State /\ Forgotten(s, ids).files = s.files
         /\ Forgotten(s, ids).pend = s.pend \ ids
  <1>1. PICK i \in SUBSET Ids : i = s.pend \ ids
    BY StateParts
  <1> QED BY <1>1, StateUpdates, ConstantsAssumption DEF Forgotten, State

LEMMA QueuedTyped ==
  ASSUME NEW s \in State, NEW ids \in SUBSET Ids
  PROVE  /\ Queued(s, ids) \in State /\ Queued(s, ids).files = s.files
         /\ Queued(s, ids).pend = s.pend \cup ids
  <1>1. PICK i \in SUBSET Ids : i = s.pend \cup ids
    BY StateParts
  <1> QED BY <1>1 DEF Queued, State

LEMMA PrunedTyped ==
  ASSUME NEW s \in State, NEW items
  PROVE  /\ Pruned(s, items) \in State /\ Pruned(s, items).pend = s.pend
         /\ \A p \in Paths : Pruned(s, items).files[p] > 0 => s.files[p] > 0
  <1> DEFINE g(p) == IF items[p] > 0 THEN s.files[p] ELSE 0
  <1>0. \A p \in Paths : g(p) \in Times
    <2>1. 0 \in Times
      BY ConstantsAssumption DEF Times
    <2> QED BY <2>1, StateParts
  <1>1. PICK f \in [Paths -> Times] : f = [p \in Paths |-> g(p)]
    BY <1>0
  <1>2. Pruned(s, items) = [s EXCEPT !.files = f]
    BY <1>1 DEF Pruned
  <1>3. Pruned(s, items) \in State /\ Pruned(s, items).pend = s.pend /\ Pruned(s, items).files = f
    BY <1>2 DEF State
  <1> QED BY <1>1, <1>3

\* cache_success: who is cached afterwards was cached or is one of the items.
LEMMA SuccessTyped ==
  ASSUME NEW s \in State, NEW items \in SUBSET Item
  PROVE  /\ cache_success(s, items) \in State /\ cache_success(s, items).pend = s.pend
         /\ \A p \in Paths : cache_success(s, items).files[p] > 0 =>
               s.files[p] > 0 \/ \E i \in items : i.p = p
  <1> DEFINE g(p) == IF \E i \in items : i.p = p THEN (CHOOSE i \in items : i.p = p).t ELSE s.files[p]
  <1>1. \A p \in Paths : g(p) \in Times
    BY StateParts DEF Item
  <1>2. PICK f \in [Paths -> Times] : f = [p \in Paths |-> g(p)]
    BY <1>1
  <1>3. cache_success(s, items) = [s EXCEPT !.files = f]
    BY <1>2 DEF cache_success
  <1>4. cache_success(s, items) \in State /\ cache_success(s, items).pend = s.pend
        /\ cache_success(s, items).files = f
    BY <1>3 DEF State
  <1> QED BY <1>2, <1>4

\* What a reconciliation makes of the state.
Excluded(s, refs) == [s EXCEPT !.files = Dropped(@, Targets, {g.uid : g \in refs}),
                               !.pend = @ \cup {g.id : g \in refs}]

LEMMA ExcludedTyped ==
  ASSUME NEW s \in State, NEW refs \in SUBSET Row
  PROVE  /\ Excluded(s, refs) \in State /\ Excluded(s, refs).pend = s.pend \cup {g.id : g \in refs}
         /\ \A p \in Paths : Excluded(s, refs).files[p] > 0 =>
               s.files[p] > 0 /\ p \notin Targets /\ \A g \in refs : g.uid # Uid[p]
  <1> DEFINE d(p) == IF p \in Targets \/ Uid[p] \in {h.uid : h \in refs} THEN 0 ELSE s.files[p]
  <1>0. \A p \in Paths : d(p) \in Times
    <2>1. 0 \in Times
      BY ConstantsAssumption DEF Times
    <2> QED BY <2>1, StateParts
  <1>1. PICK f \in [Paths -> Times] : f = Dropped(s.files, Targets, {g.uid : g \in refs})
    BY <1>0 DEF Dropped
  <1>2. PICK i \in SUBSET Ids : i = s.pend \cup {g.id : g \in refs}
    BY StateParts DEF Row
  <1>3. Excluded(s, refs) = [s EXCEPT !.files = f, !.pend = i]
    BY <1>1, <1>2 DEF Excluded
  <1>4. Excluded(s, refs) \in State /\ Excluded(s, refs).pend = i /\ Excluded(s, refs).files = f
    BY <1>3 DEF State
  <1>5. \A p \in Paths : f[p] = IF p \in Targets \/ Uid[p] \in {g.uid : g \in refs} THEN 0 ELSE s.files[p]
    BY <1>1 DEF Dropped
  <1> QED BY <1>2, <1>4, <1>5

\* The reconciliation in these terms.
LEMMA ReconcileIs ==
  ASSUME Reconcile
  PROVE  LET refs == Refs(Targets)
             ids  == {g.id : g \in refs}
             kept == Excluded(mem, refs)
         IN  \/ AfterExclusion /\ UNCHANGED disk
             \/ /\ disk' = IF kept = mem THEN disk ELSE kept
                /\ \/ Ended
                   \/ /\ mem' = kept /\ scan' = [scan EXCEPT !.ids = ids]
                      /\ pc' = IF ids = {} THEN "scan" ELSE "exclude"
                      /\ ids = {} => scan.job # "policy"
             \/ Ended /\ UNCHANGED disk
  BY DEF Reconcile, Excluded

LEMMA CollectState ==
  ASSUME mem \in State, NEW items, NEW whole, NEW reused, Collect(items, whole, reused)
  PROVE  /\ mem' \in State /\ mem'.pend = mem.pend
         /\ \A p \in Paths : mem'.files[p] > 0 => mem.files[p] > 0
  <1>1. mem' = mem \/ mem' = Pruned(mem, items)
    BY DEF Collect
  <1> QED BY <1>1, PrunedTyped

\* The cursor moves, nothing else.
LEMMA CursorState ==
  ASSUME mem \in State, NEW c \in Key \cup {None}, mem' = [mem EXCEPT !.cursor = c]
  PROVE  mem' \in State /\ mem'.pend = mem.pend /\ mem'.files = mem.files
  BY DEF State

LEMMA AfterState ==
  ASSUME ScanTypes, StateTypes, After
  PROVE  /\ mem' \in State /\ mem'.pend = mem.pend /\ mem'.files = mem.files
         /\ disk' = disk \/ disk' = mem'
  <1>1. mem' = mem \/ mem' = [mem EXCEPT !.cursor = scan.key]
    BY DEF After
  <1>2. scan.key \in Key \cup {None} /\ mem \in State
    BY DEF ScanTypes, StateTypes
  <1>3. mem' \in State /\ mem'.pend = mem.pend /\ mem'.files = mem.files
    <2>1. CASE mem' = mem
      BY <1>2, <2>1
    <2>2. CASE mem' = [mem EXCEPT !.cursor = scan.key]
      BY <1>2, <2>2, CursorState
    <2> QED BY <1>1, <2>1, <2>2
  <1>4. \/ disk' = disk
        \/ disk' = IF dirty \/ scan.job # "single"
                   THEN IF scan.job = "single" THEN mem ELSE [mem EXCEPT !.cursor = scan.key] ELSE disk
    BY DEF After
  <1>5. mem' = IF scan.job = "single" THEN mem ELSE [mem EXCEPT !.cursor = scan.key]
    BY DEF After
  <1> QED BY <1>3, <1>4, <1>5

LEMMA AttemptState ==
  ASSUME ScanTypes, StateTypes, Attempt
  PROVE  /\ mem' \in State /\ mem'.pend = mem.pend /\ mem'.files = mem.files
         /\ UNCHANGED disk
  <1> DEFINE item == Head(scan.todo)
             key  == [t |-> item.t, p |-> item.p]
  <1>1. key \in Key /\ mem \in State
    BY AttemptHead DEF Item, Key, StateTypes
  <1>2. mem' = mem \/ mem' = [mem EXCEPT !.cursor = key]
    BY DEF Attempt
  <1>3. UNCHANGED disk
    BY DEF Attempt, store
  <1> HIDE DEF key
  <1> QED BY <1>1, <1>2, <1>3, CursorState

LEMMA StateTypesStep ==
  ASSUME MailTypes, [Next]_vars
  PROVE  StateTypes'
  <1> USE DEF MailTypes
  <1>0. disk \in State /\ mem \in State /\ NoState \in State
    BY NoStateTyped DEF StateTypes
  <1>1. CASE mem' \in {mem, disk, NoState} /\ disk' \in {disk, mem, mem'}
    BY <1>0, <1>1 DEF StateTypes
  <1>2. CASE BeginCycle
    <2>1. [disk EXCEPT !.files = NoState.files] \in State
      BY <1>0, NoStateTyped DEF State
    <2> QED BY <1>0, <1>2, <2>1 DEF StateTypes, BeginCycle
  <1>3. CASE RetryPending("retry", "retried", "reconcile") \/ RetryPending("scan", "scanned", "discover")
    BY <1>0, <1>3, ForgottenTyped DEF StateTypes, RetryPending
  <1>4. CASE Reconcile
    <2>1. Excluded(mem, Refs(Targets)) \in State
      BY <1>0, ExcludedTyped DEF Refs, TableTypes
    <2> QED BY <1>0, <1>4, <2>1, ReconcileIs DEF StateTypes, AfterExclusion, Ended
  <1>5. CASE DeleteExcluded
    BY <1>0, <1>5, ForgottenTyped DEF StateTypes, DeleteExcluded, AfterExclusion, Ended
  <1>6. CASE Discover
    BY <1>0, <1>6, DiscoverLists, CollectState DEF StateTypes, Discover, store
  <1>7. CASE Attempt
    BY <1>0, <1>7, AttemptState DEF StateTypes
  <1>8. CASE After
    BY <1>0, <1>8, AfterState DEF StateTypes
  <1>9. CASE QueueIds
    BY <1>0, <1>9, QueuedTyped DEF StateTypes, OpTypes, QueueIds
  <1>10. CASE ClearIds
    BY <1>0, <1>10, ForgottenTyped DEF StateTypes, ClearIds
  <1>11. CASE MarkItems
    BY <1>0, <1>11, SuccessTyped DEF StateTypes, OpTypes, MarkItems, store
  <1>12. ASSUME ~(\/ BeginCycle \/ RetryPending("retry", "retried", "reconcile")
                  \/ RetryPending("scan", "scanned", "discover") \/ Reconcile \/ DeleteExcluded
                  \/ Discover \/ Attempt \/ After \/ QueueIds \/ ClearIds \/ MarkItems)
         PROVE  mem' \in {mem, disk, NoState} /\ disk' \in {disk, mem, mem'}
    BY <1>12 DEF Next, Worker, User, Edit, Delete, Exclude, Unexclude, RetryOne, Cancel, Crash, Recreate,
       Restarted, BackoffExpires, SnapshotExpires, vars, settings, memory, store, Ended, AfterExclusion,
       SaveRetried, SaveExcluded, LoopEnds, ParseFails, CorruptMail, Copy, Choose, Collide, DropRows,
       Embed, Commit, Flushed, LastFlush, Finish
  <1> QED BY <1>1, <1>2, <1>3, <1>4, <1>5, <1>6, <1>7, <1>8, <1>9, <1>10, <1>11, <1>12

-----------------------------------------------------------------------------
(* What the steps do to the locals of the scan.                               *)

\* A scan that has not begun anything.
Blank(s) == /\ DOMAIN s = Fields /\ s.win = << >> /\ s.work = [u \in Uids |-> None]
            /\ s.shadow = [u \in Uids |-> 0] /\ s.ids = {} /\ s.key = None /\ s.ret = None

Resets == \/ Crash \/ Recreate \/ BeginCycle \/ Finish
          \/ (Reconcile /\ Ended) \/ (DeleteExcluded /\ Ended) \/ (SaveExcluded /\ Ended)
          \/ \E p \in Paths : Exclude(p) \/ RetryOne(p)

LEMMA ResetScan ==
  ASSUME FileTypes, Resets
  PROVE  /\ Blank(scan') /\ scan'.todo \in Seq(Item) /\ \A i \in DOMAIN scan'.todo : scan'.todo[i].t > 0
         /\ scan'.item = NoItem
         /\ \/ scan'.job = None /\ pc' = "idle"
            \/ scan'.job \in {"cycle", "policy"} /\ pc' = "retry"
            \/ scan'.job = "single" /\ pc' = "item"
  <1>1. CASE scan' = NoScan /\ pc' = "idle"
    BY <1>1 DEF NoScan, Blank, Fields
  <1>2. CASE BeginCycle
    BY <1>2 DEF BeginCycle, Start, NoScan, Blank, Fields
  <1>3. ASSUME NEW p \in Paths, Exclude(p) PROVE Blank(scan') /\ scan'.todo = << >> /\ scan'.item = NoItem
                                                  /\ scan'.job = "policy" /\ pc' = "retry"
    BY <1>3 DEF Exclude, Start, NoScan, Blank, Fields
  <1>4. ASSUME NEW p \in Paths, RetryOne(p)
        PROVE  /\ Blank(scan') /\ scan'.job = "single" /\ pc' = "item" /\ scan'.item = NoItem
               /\ scan'.todo \in Seq(Item) /\ \A i \in DOMAIN scan'.todo : scan'.todo[i].t > 0
    <2> DEFINE item == [p |-> p, t |-> file[p].t, body |-> None]
    <2>1. item \in Item /\ item.t > 0
      BY <1>4 DEF RetryOne, Present, Item, FileTypes
    <2>2. scan' = [NoScan EXCEPT !.job = "single", !.todo = <<item>>] /\ pc' = "item"
      BY <1>4 DEF RetryOne
    <2> HIDE DEF item
    <2>3. scan'.todo = <<item>> /\ Blank(scan') /\ scan'.job = "single" /\ scan'.item = NoItem
      BY <2>2 DEF NoScan, Blank, Fields
    <2>4. <<item>> \in Seq(Item) /\ \A i \in DOMAIN <<item>> : <<item>>[i].t > 0
      BY <2>1
    <2> QED BY <2>2, <2>3, <2>4
  <1>5. ASSUME Crash \/ Recreate \/ Finish \/ (Reconcile /\ Ended) \/ (DeleteExcluded /\ Ended)
               \/ (SaveExcluded /\ Ended)
        PROVE  scan' = NoScan /\ pc' = "idle"
    BY <1>5 DEF Crash, Recreate, Restarted, Finish, Ended
  <1>6. << >> \in Seq(Item) /\ DOMAIN << >> = {}
    OBVIOUS
  <1>7. CASE \E p \in Paths : Exclude(p)
    BY <1>3, <1>6, <1>7
  <1>8. CASE \E p \in Paths : RetryOne(p)
    BY <1>4, <1>8
  <1>9. CASE Crash \/ Recreate \/ Finish \/ (Reconcile /\ Ended) \/ (DeleteExcluded /\ Ended)
             \/ (SaveExcluded /\ Ended)
    BY <1>1, <1>5, <1>9
  <1> QED BY <1>2, <1>7, <1>8, <1>9 DEF Resets

\* Steps that leave the window, the contents chosen and the shadow alone.
Light == \/ Cancel \/ Attempt \/ ParseFails \/ CorruptMail \/ Collide \/ Embed \/ Flushed \/ LastFlush
         \/ (Reconcile /\ ~Ended) \/ (DeleteExcluded /\ ~Ended) \/ (SaveExcluded /\ ~Ended)

LEMMA LightScan ==
  ASSUME ScanTypes, Light
  PROVE  /\ DOMAIN scan' = Fields /\ scan'.win = scan.win /\ scan'.work = scan.work
         /\ scan'.shadow = scan.shadow /\ scan'.job = scan.job
  <1>1. CASE Cancel
    BY <1>1 DEF Cancel, ScanTypes, Fields
  <1>2. CASE Attempt
    BY <1>2 DEF Attempt, ScanTypes, Fields
  <1>3. CASE ParseFails \/ CorruptMail
    BY <1>3 DEF ParseFails, CorruptMail, Fails, ScanTypes, Fields
  <1>4. CASE Collide \/ Flushed \/ LastFlush
    BY <1>4 DEF Collide, Flushed, LastFlush, ScanTypes, Fields
  <1>5. CASE Embed
    BY <1>5 DEF Embed, ScanTypes, Fields
  <1>6. CASE (Reconcile /\ ~Ended) \/ (DeleteExcluded /\ ~Ended) \/ (SaveExcluded /\ ~Ended)
    BY <1>6, ReconcileIs DEF DeleteExcluded, SaveExcluded, AfterExclusion, ScanTypes, Fields
  <1> QED BY <1>1, <1>2, <1>3, <1>4, <1>5, <1>6 DEF Light

LEMMA DiscoverScan ==
  ASSUME FileTypes, ScanTypes, Discover
  PROVE  /\ DOMAIN scan' = Fields /\ scan'.win = scan.win /\ scan'.work = scan.work
         /\ scan'.ids = scan.ids /\ scan'.key = scan.key /\ scan'.job = scan.job
         /\ scan'.item = scan.item /\ scan'.ret = scan.ret
         /\ scan'.todo \in Seq(Item) /\ scan'.shadow \in [Uids -> Times]
         /\ \A u \in Uids : scan'.shadow[u] > 0 => \E p \in Paths : Uid[p] = u /\ mem.files[p] > 0
  <1>1. PICK items \in [Paths -> Times], whole \in BOOLEAN, reused \in BOOLEAN :
           Collect(items, whole, reused)
    BY DiscoverLists
  <1>2. PICK listed \in SetToSeqs(Candidates(items)) :
           scan' = [scan EXCEPT !.todo = Rotated(listed, mem.cursor), !.shadow = Shadow(items),
                                !.fresh = ~reused, !.whole = whole /\ ~scan.cancelled]
    BY <1>1 DEF Collect
  <1>3. listed \in Seq(Item)
    BY CandidatesTyped
  <1>4. Rotated(listed, mem.cursor) \in Seq(Item)
    BY <1>3, RotatedTyped
  <1> DEFINE todo == Rotated(listed, mem.cursor)
             shadow == Shadow(items)
  <1>5. shadow \in [Uids -> Times]
        /\ \A u \in Uids : shadow[u] > 0 => \E p \in Paths : Uid[p] = u /\ mem.files[p] > 0
    BY ShadowTyped
  <1>6. todo \in Seq(Item)
    BY <1>4
  <1> HIDE DEF todo, shadow
  <1>7. scan' = [scan EXCEPT !.todo = todo, !.shadow = shadow,
                             !.fresh = ~reused, !.whole = whole /\ ~scan.cancelled]
    BY <1>2 DEF todo, shadow
  <1>8. /\ DOMAIN scan' = Fields /\ scan'.win = scan.win /\ scan'.work = scan.work
        /\ scan'.ids = scan.ids /\ scan'.key = scan.key /\ scan'.job = scan.job
        /\ scan'.item = scan.item /\ scan'.ret = scan.ret
        /\ scan'.todo = todo /\ scan'.shadow = shadow
    BY <1>7 DEF ScanTypes, Fields
  <1> QED BY <1>5, <1>6, <1>8

LEMMA ParsedItem ==
  ASSUME FileTypes, Returns, Parsed(Item0)
  PROVE  /\ Item0 \in Item /\ Item0.body \in Bodies /\ Item0.p = scan.item.p /\ Item0.t = scan.item.t
         /\ Item0.t > 0 /\ Item0.p \in Paths /\ scan.item.p \in Paths
  BY DEF FileTypes, Returns, Parsed, Item0, Item

\* A copy joins the content it is a copy of, or is settled at once.
LEMMA CopyScan ==
  ASSUME FileTypes, TableTypes, ScanTypes, Returns, Copy
  PROVE  LET u == Uid[Item0.p]
         IN  /\ DOMAIN scan' = Fields /\ scan'.win = scan.win /\ scan'.shadow = scan.shadow
             /\ scan'.todo = scan.todo /\ scan'.key = scan.key /\ scan'.job = scan.job
             /\ scan'.ids = scan.ids /\ scan'.ret = scan.ret /\ scan'.item = NoItem
             /\ \/ scan'.work = scan.work
                \/ /\ scan.work[u] # None /\ pc' = "after" /\ UNCHANGED op
                   /\ \E g \in Generation :
                        /\ scan'.work = [scan.work EXCEPT ![u] = g] /\ g.outcome = scan.work[u].outcome
                        /\ g.aliases = scan.work[u].aliases
                                        \cup {[item |-> Item0, old |-> Legacy(Item0.p)]}
  <1> DEFINE u == Uid[Item0.p]
             v == scan.work[u]
             a == [item |-> Item0, old |-> Legacy(Item0.p)]
             g == [v EXCEPT !.aliases = @ \cup {a}]
  <1>1. Parsed(Item0)
    BY DEF Copy
  <1>2. Item0 \in Item /\ u \in Uids /\ Item0.p = scan.item.p
    BY <1>1, ParsedItem, UidOf
  <1>3. CASE scan' = [scan EXCEPT !.item = NoItem]
    BY <1>3 DEF ScanTypes, Fields
  <1>4. CASE /\ scan' = [scan EXCEPT !.item = NoItem, !.work[u].aliases = @ \cup {a}]
             /\ pc' = "after" /\ UNCHANGED op /\ v # None
    <2>1. v \in Generation
      BY <1>2, <1>4 DEF ScanTypes
    <2>2. a \in [item : Item, old : SUBSET Ids]
      BY <1>2 DEF Legacy, TableTypes, Row
    <2> HIDE DEF a
    <2>3. g \in Generation /\ g.aliases = v.aliases \cup {a} /\ g.outcome = v.outcome
      BY <2>1, <2>2 DEF Generation
    <2>4. scan' = [scan EXCEPT !.item = NoItem, !.work = [scan.work EXCEPT ![u] = g]]
      BY <1>2, <1>4 DEF ScanTypes, Fields
    <2> HIDE DEF g, v, u
    <2>5. /\ DOMAIN scan' = Fields /\ scan'.win = scan.win /\ scan'.shadow = scan.shadow
          /\ scan'.todo = scan.todo /\ scan'.key = scan.key /\ scan'.job = scan.job
          /\ scan'.ids = scan.ids /\ scan'.ret = scan.ret /\ scan'.item = NoItem
          /\ scan'.work = [scan.work EXCEPT ![u] = g]
      BY <2>4 DEF ScanTypes, Fields
    <2> QED BY <1>4, <2>3, <2>5 DEF u, v, a
  <1>5. \/ scan' = [scan EXCEPT !.item = NoItem]
        \/ /\ scan' = [scan EXCEPT !.item = NoItem, !.work[u].aliases = @ \cup {a}]
           /\ pc' = "after" /\ UNCHANGED op /\ v # None
    BY DEF Copy, Fails, Work, Item0
  <1> QED BY <1>3, <1>4, <1>5

\* A content that has been chosen and is settled in the same step.
LEMMA SettledScan ==
  ASSUME ScanTypes, NEW u \in Uids, NEW o, NEW g, NEW b, NEW s, DOMAIN b = Fields,
         b.work = [scan.work EXCEPT ![u] = o], s = [b EXCEPT !.work[u] = g]
  PROVE  /\ DOMAIN s = Fields /\ s.win = b.win /\ s.shadow = b.shadow /\ s.todo = b.todo
         /\ s.key = b.key /\ s.job = b.job /\ s.ids = b.ids /\ s.ret = b.ret
         /\ s.item = b.item /\ s.work = [scan.work EXCEPT ![u] = g]
  <1>1. s.work = [b.work EXCEPT ![u] = g]
    BY DEF Fields
  <1>2. [b.work EXCEPT ![u] = g] = [scan.work EXCEPT ![u] = g]
    BY DEF ScanTypes
  <1> QED BY <1>1, <1>2 DEF Fields

\* How begin_generation goes.
LEMMA BeginScan ==
  ASSUME TableTypes, ScanTypes, NEW item \in Item, item.body \in Bodies, Begin(item)
  PROVE  LET u == Uid[item.p]
             e == [item |-> item, old |-> {r.id : r \in Current(u)} \cup Legacy(item.p)]
         IN  /\ DOMAIN scan' = Fields /\ scan'.shadow = scan.shadow /\ scan'.todo = scan.todo
             /\ scan'.key = scan.key /\ scan'.job = scan.job /\ scan'.ids = scan.ids
             /\ scan'.item = NoItem /\ e \in Entry
             /\ \E g \in Generation \cup {None} :
                  /\ scan'.work = [scan.work EXCEPT ![u] = g]
                  /\ g # None => g.aliases = {}
                  /\ \/ /\ scan'.win = scan.win /\ scan'.ret = scan.ret /\ pc' = "after" /\ UNCHANGED op
                        /\ g # None => g.outcome = "failure"
                     \/ /\ scan'.win = scan.win /\ scan'.ret = scan.ret /\ Current(u) # {}
                        /\ Marks(Legacy(item.p), {item}, {}, "after")
                        /\ g # None /\ g.outcome = "success"
                     \/ /\ scan'.win = Append(scan.win, e) /\ scan'.ret = "after" /\ UNCHANGED op
                        /\ pc' \in {"after", "embed"}
                        /\ g # None /\ g.outcome = "open"
  <1> DEFINE u == Uid[item.p]
             e == [item |-> item, old |-> {r.id : r \in Current(u)} \cup Legacy(item.p)]
             g(o) == [body |-> item.body, t |-> item.t, outcome |-> o, aliases |-> {}]
             begun == [scan EXCEPT !.item = NoItem, !.work[u] = g("open")]
  <1>1. u \in Uids /\ item.p \in Paths
    BY UidOf DEF Item
  <1>2. e \in Entry
    BY DEF Entry, Legacy, Current, TableTypes, Row
  <1>3. \A o \in {"open", "success", "failure"} :
           g(o) \in Generation /\ g(o).outcome = o /\ g(o).aliases = {} /\ g(o) # None
    BY NoneApart DEF Generation, Item
  <1>4. \/ /\ scan' = [[begun EXCEPT !.work[u] = None] EXCEPT !.item = NoItem]
           /\ pc' = "after" /\ UNCHANGED op
        \/ /\ scan' = [[begun EXCEPT !.work[u].outcome = "failure"] EXCEPT !.item = NoItem]
           /\ pc' = "after" /\ UNCHANGED op
        \/ /\ scan' = [begun EXCEPT !.work[u].outcome = "success"]
           /\ Check(item) = "CURRENT" /\ Marks(Legacy(item.p), {item}, {}, "after")
        \/ /\ scan' = [begun EXCEPT !.win = Append(@, e), !.ret = "after"]
           /\ pc' \in {"after", "embed"} /\ UNCHANGED op
    BY DEF Begin, Fails
  <1>5. Check(item) = "CURRENT" => Current(u) # {}
    BY DEF Check, get_index_state, get_retry_index_state
  <1>6. begun.work[u] = g("open") /\ begun.item = NoItem /\ DOMAIN begun = Fields
        /\ begun.work = [scan.work EXCEPT ![u] = g("open")]
        /\ begun.win = scan.win /\ begun.shadow = scan.shadow /\ begun.todo = scan.todo
        /\ begun.key = scan.key /\ begun.job = scan.job /\ begun.ids = scan.ids /\ begun.ret = scan.ret
    BY <1>1 DEF ScanTypes, Fields
  <1>7. ASSUME NEW o \in {"success", "failure"}
        PROVE  [begun EXCEPT !.work[u].outcome = o] = [begun EXCEPT !.work[u] = g(o)]
    <2>1. [begun EXCEPT !.work[u].outcome = o]
            = [begun EXCEPT !.work[u] = [begun.work[u] EXCEPT !.outcome = o]]
      OBVIOUS
    <2>2. [g("open") EXCEPT !.outcome = o] = g(o)
      OBVIOUS
    <2> QED BY <1>6, <2>1, <2>2
  <1>8. ASSUME NEW x PROVE [[begun EXCEPT !.work[u] = x] EXCEPT !.item = NoItem] = [begun EXCEPT !.work[u] = x]
    <2> HIDE DEF begun
    <2> QED BY <1>6 DEF Fields
  <1> HIDE DEF e
  <1>9. CASE scan' = [[begun EXCEPT !.work[u] = None] EXCEPT !.item = NoItem]
             /\ pc' = "after" /\ UNCHANGED op
    <2>1. scan' = [begun EXCEPT !.work[u] = None]
      BY <1>8, <1>9
    <2>2. PICK f : f = None
      OBVIOUS
    <2>3. /\ DOMAIN scan' = Fields /\ scan'.win = scan.win /\ scan'.shadow = scan.shadow
          /\ scan'.todo = scan.todo /\ scan'.key = scan.key /\ scan'.job = scan.job
          /\ scan'.ids = scan.ids /\ scan'.ret = scan.ret /\ scan'.item = NoItem
          /\ scan'.work = [scan.work EXCEPT ![u] = f]
      <3> DEFINE o == g("open")
      <3>1. scan' = [begun EXCEPT !.work[u] = f]
        BY <2>1, <2>2
      <3> HIDE DEF g, begun, u
      <3> QED BY <1>1, <1>6, <3>1, SettledScan DEF o
    <2> HIDE DEF g, begun
    <2> QED BY <1>2, <1>9, <2>2, <2>3 DEF e
  <1>10. CASE scan' = [[begun EXCEPT !.work[u].outcome = "failure"] EXCEPT !.item = NoItem]
              /\ pc' = "after" /\ UNCHANGED op
    <2>1. scan' = [begun EXCEPT !.work[u] = g("failure")]
      BY <1>7, <1>8, <1>10
    <2>2. PICK f \in Generation : f = g("failure") /\ f.outcome = "failure" /\ f.aliases = {} /\ f # None
      BY <1>3
    <2>3. /\ DOMAIN scan' = Fields /\ scan'.win = scan.win /\ scan'.shadow = scan.shadow
          /\ scan'.todo = scan.todo /\ scan'.key = scan.key /\ scan'.job = scan.job
          /\ scan'.ids = scan.ids /\ scan'.ret = scan.ret /\ scan'.item = NoItem
          /\ scan'.work = [scan.work EXCEPT ![u] = f]
      <3> DEFINE o == g("open")
      <3>1. scan' = [begun EXCEPT !.work[u] = f]
        BY <2>1, <2>2
      <3> HIDE DEF g, begun, u
      <3> QED BY <1>1, <1>6, <3>1, SettledScan DEF o
    <2> HIDE DEF g, begun
    <2> QED BY <1>2, <1>10, <2>2, <2>3 DEF e
  <1>11. CASE /\ scan' = [begun EXCEPT !.work[u].outcome = "success"]
              /\ Check(item) = "CURRENT" /\ Marks(Legacy(item.p), {item}, {}, "after")
    <2>1. scan' = [begun EXCEPT !.work[u] = g("success")]
      BY <1>7, <1>11
    <2>2. PICK f \in Generation : f = g("success") /\ f.outcome = "success" /\ f.aliases = {} /\ f # None
      BY <1>3
    <2>3. /\ DOMAIN scan' = Fields /\ scan'.win = scan.win /\ scan'.shadow = scan.shadow
          /\ scan'.todo = scan.todo /\ scan'.key = scan.key /\ scan'.job = scan.job
          /\ scan'.ids = scan.ids /\ scan'.ret = scan.ret /\ scan'.item = NoItem
          /\ scan'.work = [scan.work EXCEPT ![u] = f]
      <3> DEFINE o == g("open")
      <3>1. scan' = [begun EXCEPT !.work[u] = f]
        BY <2>1, <2>2
      <3> HIDE DEF g, begun, u
      <3> QED BY <1>1, <1>6, <3>1, SettledScan DEF o
    <2> HIDE DEF g, begun
    <2> QED BY <1>2, <1>5, <1>11, <2>2, <2>3 DEF e
  <1>12. CASE /\ scan' = [begun EXCEPT !.win = Append(@, e), !.ret = "after"]
              /\ pc' \in {"after", "embed"} /\ UNCHANGED op
    <2> DEFINE b == begun
    <2>1. scan' = [b EXCEPT !.win = Append(b.win, e), !.ret = "after"]
      BY <1>12
    <2> HIDE DEF b
    <2>2. /\ DOMAIN scan' = Fields /\ scan'.win = Append(b.win, e) /\ scan'.ret = "after"
          /\ scan'.shadow = b.shadow /\ scan'.todo = b.todo /\ scan'.key = b.key /\ scan'.job = b.job
          /\ scan'.ids = b.ids /\ scan'.item = b.item /\ scan'.work = b.work
      BY <1>6, <2>1 DEF b, Fields
    <2>3. PICK f \in Generation : f = g("open") /\ f.outcome = "open" /\ f.aliases = {} /\ f # None
      BY <1>3
    <2>4. /\ DOMAIN scan' = Fields /\ scan'.win = Append(scan.win, e) /\ scan'.shadow = scan.shadow
          /\ scan'.todo = scan.todo /\ scan'.key = scan.key /\ scan'.job = scan.job
          /\ scan'.ids = scan.ids /\ scan'.ret = "after" /\ scan'.item = NoItem
          /\ scan'.work = [scan.work EXCEPT ![u] = f]
      BY <1>6, <2>2, <2>3 DEF b
    <2> HIDE DEF g, begun, b
    <2> QED BY <1>2, <1>12, <2>3, <2>4 DEF e
  <1> QED BY <1>4, <1>9, <1>10, <1>11, <1>12

\* The mail that a commit is about, and its row.
InHand    == Head(scan.win)
InHandUid == Uid[InHand.item.p]
Aliases   == scan.work[InHandUid].aliases
Copies    == {InHand.item} \cup {a.item : a \in Aliases}
NewRow    == [id |-> NewId, uid |-> InHandUid, t |-> InHand.item.t, src |-> InHand.item.p]

LEMMA HandIs ==
  ASSUME ScanTypes, WindowOpen, scan.win # << >>
  PROVE  /\ InHand \in Entry /\ InHand = scan.win[1] /\ 1 \in DOMAIN scan.win
         /\ InHandUid \in Uids /\ InHand.item \in Item
         /\ scan.work[InHandUid] \in Generation /\ scan.work[InHandUid].outcome = "open"
         /\ Aliases \subseteq [item : Item, old : SUBSET Ids]
  <1>1. InHand \in Entry /\ InHand = scan.win[1] /\ 1 \in DOMAIN scan.win
    BY HeadTailProperties DEF ScanTypes, InHand
  <1>2. InHand.item \in Item /\ InHandUid \in Uids
    BY <1>1, UidOf DEF Entry, Item, InHandUid
  <1>3. scan.work[InHandUid] \in Generation /\ scan.work[InHandUid].outcome = "open"
    BY <1>1 DEF WindowOpen, InHandUid
  <1> QED BY <1>1, <1>2, <1>3 DEF Aliases, Generation

LEMMA CommitScan ==
  ASSUME ScanTypes, WindowOpen, Commit
  PROVE  /\ scan.win # << >> /\ pc = "commit"
         /\ DOMAIN scan' = Fields /\ scan'.win = Tail(scan.win) /\ scan'.shadow = scan.shadow
         /\ scan'.todo = scan.todo /\ scan'.key = scan.key /\ scan'.job = scan.job
         /\ scan'.ids = scan.ids /\ scan'.ret = scan.ret /\ scan'.item = scan.item
         /\ UNCHANGED <<settings, disk, memory>>
         /\ \E g \in Generation :
              /\ scan'.work = [scan.work EXCEPT ![InHandUid] = g] /\ g.aliases = {}
              /\ \/ /\ g.outcome = "success" /\ Ids \ Known # {} /\ table' = table \cup {NewRow}
                    /\ Marks(OldIds(InHand, Aliases), Copies, {}, "commit")
                 \/ /\ g.outcome = "failure"
                    /\ table' = table \/ (Ids \ Known # {} /\ table' = table \cup {NewRow})
                    /\ Marks({}, {}, Copies, "commit")
  <1>1. /\ scan.win # << >> /\ pc = "commit" /\ UNCHANGED <<settings, disk, memory>>
        /\ \/ /\ Ids \ Known # {} /\ table' = table \cup {NewRow} /\ scan' = Finished(InHand, "success")
              /\ Marks(OldIds(InHand, Aliases), Copies, {}, "commit")
           \/ /\ table' = table \/ (Ids \ Known # {} /\ table' = table \cup {NewRow})
              /\ scan' = Finished(InHand, "failure") /\ Marks({}, {}, Copies, "commit")
    BY DEF Commit, NewRow, InHand, InHandUid, Aliases, Copies
  <1>2. InHandUid \in Uids /\ scan.work[InHandUid] \in Generation
    BY <1>1, HandIs
  <1>3. ASSUME NEW o \in {"success", "failure"}
        PROVE  LET s == Finished(InHand, o)
               IN  /\ DOMAIN s = Fields /\ s.win = Tail(scan.win) /\ s.shadow = scan.shadow
                   /\ s.todo = scan.todo /\ s.key = scan.key /\ s.job = scan.job
                   /\ s.ids = scan.ids /\ s.ret = scan.ret /\ s.item = scan.item
                   /\ \E g \in Generation : /\ s.work = [scan.work EXCEPT ![InHandUid] = g]
                                            /\ g.aliases = {} /\ g.outcome = o
    <2> DEFINE v == scan.work[InHandUid]
               g == [[v EXCEPT !.outcome = o] EXCEPT !.aliases = {}]
               ready == {i - 1 : i \in scan.ready \ {1}}
               b == [scan EXCEPT !.win = Tail(@), !.ready = {i - 1 : i \in @ \ {1}}]
    <2>1. g \in Generation /\ g.aliases = {} /\ g.outcome = o
      BY <1>2 DEF Generation
    <2>2. /\ DOMAIN b = Fields /\ b.win = Tail(scan.win) /\ b.shadow = scan.shadow
          /\ b.todo = scan.todo /\ b.key = scan.key /\ b.job = scan.job /\ b.work = scan.work
          /\ b.ids = scan.ids /\ b.ret = scan.ret /\ b.item = scan.item
      BY DEF ScanTypes, Fields
    <2>3. Finished(InHand, o)
            = [[b EXCEPT !.work[InHandUid].outcome = o] EXCEPT !.work[InHandUid].aliases = {}]
      BY DEF Finished, InHandUid
    <2> HIDE DEF b
    <2>4. [b EXCEPT !.work[InHandUid].outcome = o] = [b EXCEPT !.work[InHandUid] = [v EXCEPT !.outcome = o]]
      BY <2>2
    <2> DEFINE c == [b EXCEPT !.work[InHandUid] = [v EXCEPT !.outcome = o]]
               w == [scan.work EXCEPT ![InHandUid] = [v EXCEPT !.outcome = o]]
    <2>5. /\ DOMAIN c = Fields /\ c.win = b.win /\ c.shadow = b.shadow /\ c.todo = b.todo
          /\ c.key = b.key /\ c.job = b.job /\ c.ids = b.ids /\ c.ret = b.ret /\ c.item = b.item
          /\ c.work = w
      BY <2>2 DEF Fields
    <2>6. w[InHandUid] = [v EXCEPT !.outcome = o]
      BY <1>2 DEF ScanTypes
    <2>7. Finished(InHand, o) = [c EXCEPT !.work[InHandUid].aliases = {}]
      BY <2>3, <2>4
    <2> DEFINE d == [v EXCEPT !.outcome = o]
    <2> HIDE DEF c
    <2>8. [c EXCEPT !.work[InHandUid].aliases = {}] = [c EXCEPT !.work[InHandUid] = g]
      <3>1. [c EXCEPT !.work[InHandUid].aliases = {}]
              = [c EXCEPT !.work[InHandUid] = [c.work[InHandUid] EXCEPT !.aliases = {}]]
        OBVIOUS
      <3> QED BY <2>5, <2>6, <3>1
    <2>9. Finished(InHand, o) = [c EXCEPT !.work[InHandUid] = g]
      BY <2>7, <2>8
    <2> HIDE DEF g, v
    <2>10. c.work = [scan.work EXCEPT ![InHandUid] = d] /\ DOMAIN c = Fields
      BY <2>5 DEF v
    <2> DEFINE s == Finished(InHand, o)
    <2>11. s = [c EXCEPT !.work[InHandUid] = g]
      BY <2>9
    <2> HIDE DEF d, w, s
    <2>12. /\ DOMAIN s = Fields /\ s.win = c.win /\ s.shadow = c.shadow /\ s.todo = c.todo
           /\ s.key = c.key /\ s.job = c.job /\ s.ids = c.ids /\ s.ret = c.ret
           /\ s.item = c.item /\ s.work = [scan.work EXCEPT ![InHandUid] = g]
      BY <1>2, <2>10, <2>11, SettledScan
    <2> QED BY <2>1, <2>2, <2>5, <2>12 DEF s
  <1> QED BY <1>1, <1>3

LEMMA AgainItem ==
  ASSUME Returns, pc = "again"
  PROVE  scan.item \in Item /\ scan.item.body \in Bodies
  BY DEF Returns

\* A content is chosen for a mail, or the item in hand has failed.
LEMMA ChooseIs ==
  ASSUME FileTypes, Returns, Choose
  PROVE  \/ Fails(scan.item, scan) /\ pc = "again" /\ scan.stop
         \/ \E item \in Item :
              /\ item.body \in Bodies /\ Begin(item) /\ item.p = scan.item.p
              /\ \/ pc = "again" /\ ~scan.stop
                 \/ /\ pc = "parse"
                    /\ scan.work[Uid[item.p]] # None => scan.work[Uid[item.p]].outcome # "open"
  <1>1. CASE pc = "again"
    BY <1>1, AgainItem DEF Choose, Parsed
  <1>2. CASE Parsed(Item0) /\ Begin(Item0) /\ (Work # None => Work.outcome # "open")
    BY <1>2, ParsedItem DEF Work, Parsed
  <1> QED BY <1>1, <1>2 DEF Choose

LEMMA ScanCases ==
  ASSUME [Next]_vars
  PROVE  Resets \/ Light \/ Discover \/ Copy \/ Choose \/ Commit \/ UNCHANGED scan
  <1>1. ASSUME ~(Resets \/ Light \/ Discover \/ Copy \/ Choose \/ Commit)
        PROVE  UNCHANGED scan
    <2>1. ~(Crash \/ Recreate \/ BeginCycle \/ Finish \/ Reconcile \/ DeleteExcluded \/ SaveExcluded
            \/ Cancel \/ Attempt \/ ParseFails \/ CorruptMail \/ Collide \/ Embed \/ Flushed \/ LastFlush)
          /\ \A p \in Paths : ~Exclude(p) /\ ~RetryOne(p)
      BY <1>1 DEF Resets, Light
    <2> QED BY <1>1, <2>1 DEF Next, Worker, User, Edit, Delete, Unexclude, BackoffExpires, SnapshotExpires,
          vars, RetryPending, SaveRetried, LoopEnds, After, QueueIds, DropRows, ClearIds, MarkItems
  <1> QED BY <1>1

\* Begin or the failure of the item that waited.
LEMMA FailsScan ==
  ASSUME ScanTypes, Fails(scan.item, scan)
  PROVE  /\ DOMAIN scan' = Fields /\ scan'.win = scan.win /\ scan'.work = scan.work
         /\ scan'.shadow = scan.shadow /\ scan'.job = scan.job /\ scan'.todo = scan.todo
         /\ scan'.ids = scan.ids /\ scan'.key = scan.key /\ scan'.ret = scan.ret
         /\ scan'.item = NoItem /\ pc' = "after" /\ UNCHANGED op
  BY DEF Fails, ScanTypes, Fields

\* An exclusion that goes on has the ids of its rows in hand, or none.
LEMMA ExcludedScan ==
  ASSUME ScanTypes, TableTypes, Reconcile \/ DeleteExcluded \/ SaveExcluded, ~Ended
  PROVE  \/ scan' = scan
         \/ \E ids \in SUBSET Ids : scan' = [scan EXCEPT !.ids = ids]
  <1>1. ASSUME AfterExclusion PROVE \E ids \in SUBSET Ids : scan' = [scan EXCEPT !.ids = ids]
    BY <1>1 DEF AfterExclusion
  <1>2. CASE Reconcile
    <2> DEFINE ids == {g.id : g \in Refs(Targets)}
    <2>1. ids \in SUBSET Ids
      BY DEF Refs, TableTypes, Row
    <2>2. AfterExclusion \/ scan' = [scan EXCEPT !.ids = ids]
      BY <1>2, ReconcileIs
    <2> HIDE DEF ids
    <2> QED BY <1>1, <2>1, <2>2
  <1>3. CASE DeleteExcluded \/ SaveExcluded
    BY <1>1, <1>3 DEF DeleteExcluded, SaveExcluded
  <1> QED BY <1>2, <1>3

LEMMA ExcludedFields ==
  ASSUME ScanTypes, NEW ids, scan' = [scan EXCEPT !.ids = ids]
  PROVE  /\ scan'.todo = scan.todo /\ scan'.key = scan.key /\ scan'.ids = ids /\ scan'.ret = scan.ret
         /\ scan'.item = scan.item /\ scan'.job = scan.job /\ scan'.stop = scan.stop
  BY DEF ScanTypes, Fields

LEMMA ScanTypesStep ==
  ASSUME MailTypes, WindowOpen, Returns, [Next]_vars
  PROVE  ScanTypes'
  <1> USE DEF MailTypes
  <1>1. CASE Resets
    <2>1. << >> \in Seq(Entry)
      OBVIOUS
    <2>2. [u \in Uids |-> None] \in [Uids -> Generation \cup {None}]
      OBVIOUS
    <2>3. [u \in Uids |-> 0] \in [Uids -> Times]
      BY ConstantsAssumption DEF Times
    <2> QED BY <1>1, <2>1, <2>2, <2>3, ResetScan DEF Blank, ScanTypes
  <1>2. CASE Light
    <2>1. scan'.todo \in Seq(Item)
      <3>1. CASE Attempt
        <4>1. scan'.todo = Tail(scan.todo)
          BY <3>1 DEF Attempt, ScanTypes, Fields
        <4> QED BY <3>1, <4>1, AttemptHead
      <3>2. ASSUME ~Attempt PROVE scan'.todo = scan.todo
        <4>1. CASE (Reconcile \/ DeleteExcluded \/ SaveExcluded) /\ ~Ended
          BY <4>1, ExcludedScan, ExcludedFields
        <4> QED BY <1>2, <3>2, <4>1 DEF Light, Cancel, ParseFails, CorruptMail, Fails, Collide, Embed,
              Flushed, LastFlush, ScanTypes, Fields
      <3> QED BY <3>1, <3>2 DEF ScanTypes
    <2>2. scan'.ids \subseteq Ids
      <3>1. CASE Reconcile \/ DeleteExcluded \/ SaveExcluded
        <4>1. \/ scan' = scan
              \/ \E ids \in SUBSET Ids : scan' = [scan EXCEPT !.ids = ids]
              \/ Cancel \/ Attempt \/ ParseFails \/ CorruptMail \/ Collide \/ Embed \/ Flushed \/ LastFlush
          BY <1>2, <3>1, ExcludedScan DEF Light
        <4>2. ASSUME Cancel \/ Attempt \/ ParseFails \/ CorruptMail \/ Collide \/ Embed \/ Flushed \/ LastFlush
              PROVE  scan'.ids = scan.ids
          BY <4>2 DEF Cancel, Attempt, ParseFails, CorruptMail, Fails, Collide, Embed,
             Flushed, LastFlush, ScanTypes, Fields
        <4> QED BY <4>1, <4>2, ExcludedFields DEF ScanTypes
      <3>2. ASSUME ~(Reconcile \/ DeleteExcluded \/ SaveExcluded) PROVE scan'.ids = scan.ids
        BY <1>2, <3>2 DEF Light, Cancel, Attempt, ParseFails, CorruptMail, Fails, Collide, Embed,
           Flushed, LastFlush, ScanTypes, Fields
      <3> QED BY <3>1, <3>2 DEF ScanTypes
    <2>3. scan'.key \in Key \cup {None}
      <3>1. CASE Attempt
        <4> DEFINE item == Head(scan.todo)
                   key  == [t |-> item.t, p |-> item.p]
        <4>1. key \in Key
          BY <3>1, AttemptHead DEF Item, Key
        <4>2. scan'.key = key
          BY <3>1 DEF Attempt, ScanTypes, Fields
        <4> QED BY <4>1, <4>2
      <3>2. ASSUME ~Attempt PROVE scan'.key = scan.key
        <4>1. CASE (Reconcile \/ DeleteExcluded \/ SaveExcluded) /\ ~Ended
          BY <4>1, ExcludedScan, ExcludedFields
        <4> QED BY <1>2, <3>2, <4>1 DEF Light, Cancel, ParseFails, CorruptMail, Fails, Collide, Embed,
              Flushed, LastFlush, ScanTypes, Fields
      <3> QED BY <3>1, <3>2 DEF ScanTypes
    <2> QED BY <1>2, <2>1, <2>2, <2>3, LightScan DEF ScanTypes
  <1>3. CASE Discover
    BY <1>3, DiscoverScan DEF ScanTypes
  <1>4. CASE Copy
    <2>1. Uid[Item0.p] \in Uids
      BY <1>4, ParsedItem, UidOf DEF Copy
    <2> DEFINE u == Uid[Item0.p]
    <2>2. scan'.work = scan.work \/ \E g \in Generation : scan'.work = [scan.work EXCEPT ![u] = g]
      BY <1>4, CopyScan
    <2>3. scan'.work \in [Uids -> Generation \cup {None}]
      BY <2>1, <2>2 DEF ScanTypes
    <2> QED BY <1>4, <2>3, CopyScan DEF ScanTypes
  <1>5. CASE Choose
    <2>1. ASSUME NEW item \in Item, item.body \in Bodies, Begin(item) PROVE ScanTypes'
      <3> DEFINE u == Uid[item.p]
                 e == [item |-> item, old |-> {r.id : r \in Current(u)} \cup Legacy(item.p)]
      <3>1. u \in Uids
        BY UidOf DEF Item
      <3>2. \E g \in Generation \cup {None} : scan'.work = [scan.work EXCEPT ![u] = g]
        BY <2>1, BeginScan
      <3>3. scan'.work \in [Uids -> Generation \cup {None}]
        BY <3>1, <3>2 DEF ScanTypes
      <3>4. e \in Entry /\ (scan'.win = scan.win \/ scan'.win = Append(scan.win, e))
        BY <2>1, BeginScan
      <3> HIDE DEF e
      <3>5. scan'.win \in Seq(Entry)
        BY <3>4, AppendProperties DEF ScanTypes
      <3>6. /\ DOMAIN scan' = Fields /\ scan'.shadow = scan.shadow /\ scan'.todo = scan.todo
            /\ scan'.key = scan.key /\ scan'.ids = scan.ids
        BY <2>1, BeginScan
      <3> QED BY <3>3, <3>5, <3>6 DEF ScanTypes
    <2> QED BY <1>5, <2>1, ChooseIs, FailsScan DEF ScanTypes
  <1>6. CASE Commit
    <2>1. InHandUid \in Uids /\ Tail(scan.win) \in Seq(Entry)
      BY <1>6, HandIs, CommitScan, HeadTailProperties DEF ScanTypes
    <2>2. \E g \in Generation : scan'.work = [scan.work EXCEPT ![InHandUid] = g]
      BY <1>6, CommitScan
    <2>3. scan'.work \in [Uids -> Generation \cup {None}]
      BY <2>1, <2>2 DEF ScanTypes
    <2> QED BY <1>6, <2>1, <2>3, CommitScan DEF ScanTypes
  <1>7. CASE UNCHANGED scan
    BY <1>7 DEF ScanTypes
  <1> QED BY <1>1, <1>2, <1>3, <1>4, <1>5, <1>6, <1>7, ScanCases

-----------------------------------------------------------------------------
(* The deletion in hand.                                                      *)

LEMMA LegacyIds ==
  ASSUME TableTypes, NEW p
  PROVE  /\ Legacy(p) \subseteq Ids
         /\ \A g \in table : g.id \in Legacy(p) => g.uid = p /\ g.src = p
  BY DEF TableTypes, Legacy, Row

\* What is deleted for a commit: rows of the mail itself or under a path.
LEMMA OldIdsKnown ==
  ASSUME TableTypes, ScanTypes, WindowOpen, IdsKnown, scan.win # << >>
  PROVE  /\ OldIds(InHand, Aliases) \subseteq Ids /\ Copies \subseteq Item
         /\ \A g \in table : g.id \in OldIds(InHand, Aliases) => g.uid \in Paths \/ g.uid = InHandUid
         /\ \A i \in Copies : Uid[i.p] = InHandUid
         /\ OldIds(InHand, Aliases) \subseteq Known
  <1>1. /\ InHand \in Entry /\ InHand = scan.win[1] /\ 1 \in DOMAIN scan.win
        /\ InHandUid \in Uids /\ scan.work[InHandUid] \in Generation
        /\ Aliases \subseteq [item : Item, old : SUBSET Ids]
    BY HandIs
  <1>2. OldIds(InHand, Aliases) \subseteq Ids /\ Copies \subseteq Item
    BY <1>1 DEF OldIds, Copies, Entry
  <1>3. \A a \in Aliases : Uid[a.item.p] = InHandUid /\ \A g \in table : g.id \in a.old => g.uid \in Paths
    BY <1>1 DEF IdsKnown, Aliases
  <1>4. \A g \in table : g.id \in InHand.old => g.uid \in Paths \/ g.uid = InHandUid
    BY <1>1 DEF IdsKnown, InHandUid
  <1>5. \A i \in Copies : Uid[i.p] = InHandUid
    BY <1>3 DEF Copies, InHandUid
  <1>6. InHand.old \subseteq Known
    BY <1>1 DEF Known
  <1>7. \A a \in Aliases : a.old \subseteq Known
    <2>1. InHandUid \in {v \in Uids : scan.work[v] # None}
      BY <1>1, NoneApart
    <2>2. Aliases \subseteq Riders
      BY <2>1 DEF Aliases, Riders
    <2>3. UNION {b.old : b \in Riders} \subseteq Known
      BY DEF Known
    <2>4. ASSUME NEW a \in Aliases PROVE a.old \subseteq UNION {b.old : b \in Riders}
      <3>1. a.old \in {b.old : b \in Riders}
        BY <2>2
      <3> QED BY <3>1
    <2> QED BY <2>3, <2>4
  <1> QED BY <1>2, <1>3, <1>4, <1>5, <1>6, <1>7 DEF OldIds

LEMMA MarksIs ==
  ASSUME NEW ids, NEW good, NEW bad, NEW back, Marks(ids, good, bad, back)
  PROVE  /\ op'.ids = ids /\ op'.good = good /\ op'.bad = bad /\ op'.back = back
         /\ pc' \in {"mark", "queue"}
  BY DEF Marks

\* A step takes up a deletion, ends it, or leaves it alone.
LEMMA OpCases ==
  ASSUME MailTypes, Phase, Returns, WindowOpen, IdsKnown, [Next]_vars
  PROVE  \/ op' = NoOp
         \/ UNCHANGED op /\ (pc \in Marking => pc' \in Marking)
         \/ /\ pc \notin Marking /\ pc' \in {"mark", "queue"}
            /\ \E ids \in SUBSET Ids, good, bad \in SUBSET Item, back \in {"after", "commit"} :
                  Marks(ids, good, bad, back)
  <1> USE DEF MailTypes
  <1>1. CASE CorruptMail
    <2>1. scan.item \in Item /\ Legacy(scan.item.p) \subseteq Ids
      BY <1>1, LegacyIds DEF CorruptMail, Returns
    <2>2. CASE Marks(Legacy(scan.item.p), {}, {scan.item}, "after")
      BY <1>1, <2>1, <2>2, MarksIs DEF CorruptMail, Marking
    <2>3. CASE UNCHANGED op
      BY <1>1, <2>3 DEF CorruptMail, Marking
    <2> QED BY <1>1, <2>2, <2>3 DEF CorruptMail, Fails
  <1>2. CASE Copy
    <2>1. Item0 \in Item /\ Legacy(Item0.p) \subseteq Ids /\ pc = "parse"
      BY <1>2, ParsedItem, LegacyIds DEF Copy, Parsed
    <2>2. CASE Marks(Legacy(Item0.p), {Item0}, {}, "after")
      BY <2>1, <2>2, MarksIs DEF Marking
    <2>3. CASE UNCHANGED op
      BY <2>1, <2>3 DEF Marking
    <2> QED BY <1>2, <2>2, <2>3 DEF Copy, Fails
  <1>3. CASE Choose
    <2>1. ASSUME NEW item \in Item, item.body \in Bodies, Begin(item), pc \in {"parse", "again"}
          PROVE  \/ UNCHANGED op
                 \/ Marks(Legacy(item.p), {item}, {}, "after")
      BY <2>1, BeginScan
    <2>2. ASSUME NEW item \in Item, Marks(Legacy(item.p), {item}, {}, "after"), pc \in {"parse", "again"}
          PROVE  /\ pc \notin Marking /\ pc' \in {"mark", "queue"}
                 /\ \E ids \in SUBSET Ids, good, bad \in SUBSET Item, back \in {"after", "commit"} :
                       Marks(ids, good, bad, back)
      BY <2>2, LegacyIds, MarksIs DEF Marking
    <2>3. CASE Fails(scan.item, scan) /\ pc = "again"
      BY <2>3 DEF Fails, Marking
    <2>4. pc \in {"parse", "again"}
      BY <1>3, ChooseIs
    <2>5. UNCHANGED op \/ \E item \in Item : Marks(Legacy(item.p), {item}, {}, "after")
      BY <1>3, <2>1, <2>3, <2>4, ChooseIs, FailsScan
    <2> QED BY <2>2, <2>4, <2>5 DEF Marking
  <1>4. CASE Commit
    <2>1. pc = "commit" /\ scan.win # << >>
      BY <1>4 DEF Commit
    <2>2. OldIds(InHand, Aliases) \subseteq Ids /\ Copies \subseteq Item
      BY <2>1, OldIdsKnown
    <2>3. Marks(OldIds(InHand, Aliases), Copies, {}, "commit") \/ Marks({}, {}, Copies, "commit")
      BY <1>4, CommitScan
    <2> QED BY <2>1, <2>2, <2>3, MarksIs DEF Marking
  <1>5. CASE Crash \/ Recreate \/ MarkItems
    BY <1>5 DEF Crash, Recreate, Restarted, MarkItems
  <1>6. ASSUME ~(CorruptMail \/ Copy \/ Choose \/ Commit \/ Crash \/ Recreate \/ MarkItems)
        PROVE  UNCHANGED op /\ (pc \in Marking => pc' \in Marking)
    <2>1. UNCHANGED op
      BY <1>6 DEF Next, Worker, User, Edit, Delete, Exclude, Unexclude, RetryOne, Cancel,
         BackoffExpires, SnapshotExpires, BeginCycle, vars, Fails,
         RetryPending, SaveRetried, Reconcile, DeleteExcluded, SaveExcluded, Discover,
         Attempt, LoopEnds, ParseFails, Collide, After, QueueIds, DropRows, ClearIds, Embed, Flushed,
         LastFlush, Finish
    <2>2. ASSUME pc \in Marking, Worker PROVE QueueIds \/ DropRows \/ ClearIds
      BY <1>6, <2>2 DEF Worker, BeginCycle, Start, Marking,
         RetryPending, SaveRetried, Reconcile, DeleteExcluded, SaveExcluded, Discover,
         Attempt, LoopEnds, ParseFails, Collide, Parsed, After, Embed, Flushed, LastFlush, Finish
    <2>4. ASSUME pc \in Marking, ~Worker PROVE pc' = pc
      BY <1>6, <2>4 DEF Next, User, Edit, Delete, Exclude, Unexclude, RetryOne, Start, Cancel,
         BackoffExpires, SnapshotExpires, vars, Marking
    <2>3. QueueIds \/ DropRows \/ ClearIds => pc' \in Marking
      BY DEF QueueIds, DropRows, ClearIds, Marking
    <2> QED BY <2>1, <2>2, <2>3, <2>4
  <1> QED BY <1>1, <1>2, <1>3, <1>4, <1>5, <1>6

LEMMA OpTypesStep ==
  ASSUME MailTypes, Phase, Returns, WindowOpen, IdsKnown, [Next]_vars
  PROVE  OpTypes' /\ (pc' \notin Marking => op' = NoOp) /\ op'.back \in {None, "after", "commit"}
  <1>1. CASE op' = NoOp
    BY <1>1 DEF NoOp, OpTypes
  <1>2. CASE UNCHANGED op /\ (pc \in Marking => pc' \in Marking)
    BY <1>2 DEF OpTypes, MailTypes, Phase, Returns
  <1>3. CASE /\ pc' \in {"mark", "queue"}
             /\ \E ids \in SUBSET Ids, good, bad \in SUBSET Item, back \in {"after", "commit"} :
                   Marks(ids, good, bad, back)
    BY <1>3, MarksIs DEF OpTypes, Marking
  <1> QED BY <1>1, <1>2, <1>3, OpCases

-----------------------------------------------------------------------------
(* Where the jobs are, and where they return to.                              *)

Opening == {"scan", "scanned", "discover"}
Early   == Excluding \cup Opening \cup {"idle"}

LEMMA ScanIds ==
  ASSUME MailTypes, Returns, WindowOpen, [Next]_vars, ~Resets,
         ~(Reconcile \/ DeleteExcluded \/ SaveExcluded)
  PROVE  scan'.ids = scan.ids
  <1> USE DEF MailTypes
  <1>1. CASE Cancel \/ Attempt \/ ParseFails \/ CorruptMail \/ Collide \/ Embed \/ Flushed \/ LastFlush
    BY <1>1 DEF Cancel, Attempt, ParseFails, CorruptMail, Fails, Collide, Embed,
             Flushed, LastFlush, ScanTypes, Fields
  <1>2. CASE Discover \/ Copy \/ Commit
    BY <1>2, DiscoverScan, CopyScan, CommitScan
  <1>3. CASE Choose
    BY <1>3, ChooseIs, BeginScan, FailsScan
  <1> QED BY <1>1, <1>2, <1>3, ScanCases DEF Light

LEMMA ScanJob ==
  ASSUME MailTypes, Returns, WindowOpen, [Next]_vars, ~Resets
  PROVE  scan'.job = scan.job
  <1> USE DEF MailTypes
  <1>1. CASE Light \/ Discover \/ Copy \/ Commit
    BY <1>1, LightScan, DiscoverScan, CopyScan, CommitScan
  <1>2. CASE Choose
    BY <1>2, ChooseIs, BeginScan, FailsScan
  <1> QED BY <1>1, <1>2, ScanCases

\* A step past the opening stays past it.
LEMMA LateSteps ==
  ASSUME MailTypes, Returns, WindowOpen, [Next]_vars, ~Resets, pc \notin Early
  PROVE  pc' \notin Early
  <1> USE DEF Early, Excluding, Opening, MailTypes
  <1>1. scan.ret \in {None, "after", "again", "finish"} /\ op.back \in {None, "after", "commit"}
    BY DEF Returns
  <1>2. None \notin Early
    BY NoneApart DEF Words, Running
  <1>3. CASE Choose
    BY <1>3, ChooseIs, BeginScan, FailsScan, MarksIs
  <1>4. CASE Attempt \/ LoopEnds \/ ParseFails \/ CorruptMail \/ Copy \/ Collide \/ After
    BY <1>4, MarksIs DEF Attempt, LoopEnds, ParseFails, CorruptMail, Copy, Collide, After, Fails
  <1>5. CASE QueueIds \/ DropRows \/ ClearIds \/ MarkItems
    BY <1>1, <1>2, <1>5 DEF QueueIds, DropRows, ClearIds, MarkItems
  <1>6. CASE Embed \/ Flushed \/ LastFlush
    BY <1>1, <1>2, <1>6 DEF Embed, Flushed, LastFlush
  <1>7. CASE Commit
    BY <1>7, CommitScan, MarksIs
  <1>8. ASSUME ~(Choose \/ Attempt \/ LoopEnds \/ ParseFails \/ CorruptMail \/ Copy \/ Collide \/ After
                 \/ QueueIds \/ DropRows \/ ClearIds \/ MarkItems \/ Embed \/ Flushed \/ LastFlush \/ Commit)
        PROVE  pc' = pc
    <2>1. ~(Crash \/ Recreate \/ BeginCycle \/ Finish) /\ \A p \in Paths : ~(Exclude(p) \/ RetryOne(p))
      BY DEF Resets
    <2>2. ~Worker
      BY <1>8, <2>1 DEF Worker, RetryPending, SaveRetried, Reconcile, DeleteExcluded, SaveExcluded, Discover
    <2> QED BY <2>1, <2>2 DEF Next, User, Edit, Delete, Unexclude, Cancel, BackoffExpires,
          SnapshotExpires, vars
  <1> QED BY <1>3, <1>4, <1>5, <1>6, <1>7, <1>8

\* The steps of the opening.
LEMMA EarlySteps ==
  ASSUME [Next]_vars, ~Resets, pc \in Early
  PROVE  \/ pc' = pc /\ ~(Reconcile \/ DeleteExcluded \/ SaveExcluded \/ Discover)
         \/ RetryPending("retry", "retried", "reconcile") \/ SaveRetried("retried", "reconcile")
         \/ RetryPending("scan", "scanned", "discover") \/ SaveRetried("scanned", "discover")
         \/ (Reconcile /\ ~Ended) \/ (DeleteExcluded /\ ~Ended) \/ (SaveExcluded /\ ~Ended) \/ Discover
  <1>1. ~(Crash \/ Recreate \/ BeginCycle \/ Finish) /\ (\A p \in Paths : ~(Exclude(p) \/ RetryOne(p)))
        /\ (Reconcile => ~Ended) /\ (DeleteExcluded => ~Ended) /\ (SaveExcluded => ~Ended)
    BY DEF Resets
  <1>2. ASSUME Worker
        PROVE  \/ RetryPending("retry", "retried", "reconcile") \/ SaveRetried("retried", "reconcile")
               \/ RetryPending("scan", "scanned", "discover") \/ SaveRetried("scanned", "discover")
               \/ Reconcile \/ DeleteExcluded \/ SaveExcluded \/ Discover
    BY <1>1, <1>2 DEF Worker, Attempt, LoopEnds, ParseFails, CorruptMail, Copy, Choose, Parsed, Collide,
       After, QueueIds, DropRows, ClearIds, MarkItems, Embed, Flushed, LastFlush, Commit,
       Early, Excluding, Opening
  <1>3. ASSUME ~Worker
        PROVE  pc' = pc /\ ~(Reconcile \/ DeleteExcluded \/ SaveExcluded \/ Discover)
    BY <1>1, <1>3 DEF Next, Worker, User, Edit, Delete, Unexclude, Cancel, BackoffExpires,
          SnapshotExpires, vars
  <1> QED BY <1>1, <1>2, <1>3

LEMMA PhaseStep ==
  ASSUME MailTypes, Phase, Returns, WindowOpen, IdsKnown, [Next]_vars
  PROVE  Phase'
  <1> USE DEF MailTypes
  <1>1. pc' \notin Marking => op' = NoOp
    BY OpTypesStep
  <1>2. CASE Resets
    <2>1. \/ scan'.job = None /\ pc' = "idle"
          \/ scan'.job \in {"cycle", "policy"} /\ pc' = "retry"
          \/ scan'.job = "single" /\ pc' = "item"
      BY <1>2, ResetScan
    <2>2. scan'.ids = {}
      BY <1>2, ResetScan DEF Blank
    <2>3. None \notin {"policy", "single"}
      BY NoneApart DEF Words
    <2> QED BY <1>1, <2>1, <2>2, <2>3 DEF Phase, Excluding
  <1>3. CASE ~Resets
    <2>1. scan'.job = scan.job
      BY <1>3, ScanJob
    <2>2. CASE pc \notin Early
      <3>1. ~(Reconcile \/ DeleteExcluded \/ SaveExcluded)
        BY <2>2 DEF Reconcile, DeleteExcluded, SaveExcluded, Early, Excluding
      <3>2. pc' \notin Early /\ scan'.ids = scan.ids
        BY <1>3, <2>2, <3>1, LateSteps, ScanIds
      <3> QED BY <1>1, <2>1, <2>2, <3>2 DEF Phase, Early, Excluding, Opening
    <2>3. CASE pc \in Early
      <3>1. CASE \/ pc' = pc /\ ~(Reconcile \/ DeleteExcluded \/ SaveExcluded)
                 \/ RetryPending("retry", "retried", "reconcile") \/ SaveRetried("retried", "reconcile")
                 \/ RetryPending("scan", "scanned", "discover") \/ SaveRetried("scanned", "discover")
        <4>1. ~(Reconcile \/ DeleteExcluded \/ SaveExcluded)
          BY <3>1 DEF RetryPending, SaveRetried, Reconcile, DeleteExcluded, SaveExcluded
        <4>2. scan'.ids = scan.ids
          BY <1>3, <4>1, ScanIds
        <4> QED BY <1>1, <2>1, <3>1, <4>2 DEF Phase, RetryPending, SaveRetried, Excluding
      <3>2. CASE Discover
        BY <1>1, <2>1, <3>2, DiscoverScan DEF Phase, Discover, Excluding
      <3>3. CASE Reconcile /\ ~Ended
        <4>1. \/ AfterExclusion
              \/ \E ids : /\ scan' = [scan EXCEPT !.ids = ids]
                          /\ pc' = IF ids = {} THEN "scan" ELSE "exclude"
                          /\ ids = {} => scan.job # "policy"
          BY <3>3, ReconcileIs
        <4>2. pc = "reconcile"
          BY <3>3 DEF Reconcile
        <4>3. CASE AfterExclusion
          BY <1>1, <2>1, <3>3, <4>2, <4>3 DEF AfterExclusion, Phase, Excluding, ScanTypes, Fields
        <4>4. CASE \E ids : /\ scan' = [scan EXCEPT !.ids = ids]
                            /\ pc' = IF ids = {} THEN "scan" ELSE "exclude"
                            /\ ids = {} => scan.job # "policy"
          BY <1>1, <2>1, <4>2, <4>4, ExcludedFields DEF Phase, Excluding
        <4> QED BY <4>1, <4>3, <4>4
      <3>4. CASE (DeleteExcluded /\ ~Ended) \/ (SaveExcluded /\ ~Ended)
        <4>1. AfterExclusion \/ (DeleteExcluded /\ pc' = "excluded" /\ UNCHANGED scan)
          BY <3>4 DEF DeleteExcluded, SaveExcluded
        <4>2. pc \in {"exclude", "excluded"}
          BY <3>4 DEF DeleteExcluded, SaveExcluded
        <4>3. CASE AfterExclusion
          BY <1>1, <2>1, <3>4, <4>2, <4>3 DEF AfterExclusion, Phase, Excluding, ScanTypes, Fields
        <4>4. CASE pc' = "excluded" /\ UNCHANGED scan
          BY <1>1, <4>2, <4>4 DEF Phase, Excluding
        <4> QED BY <4>1, <4>3, <4>4
      <3> QED BY <1>3, <2>3, <3>1, <3>2, <3>3, <3>4, EarlySteps
    <2> QED BY <2>2, <2>3
  <1> QED BY <1>2, <1>3

LEMMA ReturnsStep ==
  ASSUME MailTypes, Phase, Returns, WindowOpen, IdsKnown, [Next]_vars
  PROVE  Returns'
  <1> USE DEF MailTypes
  <1>1. op'.back \in {None, "after", "commit"}
    BY OpTypesStep
  <1>2. scan.ret \in {None, "after", "again", "finish"} /\ op.back \in {None, "after", "commit"}
        /\ (scan.job = "single" => \A i \in DOMAIN scan.todo : scan.todo[i].t > 0)
    BY DEF Returns
  <1>3. None \notin Running
    BY NoneApart DEF Words
  \* Nothing waits for the flush, and no item is in hand.
  <1>4. ASSUME scan'.ret \in {None, "after", "finish"}, pc' \notin {"parse", "again"},
               scan'.job = "single" => \A i \in DOMAIN scan'.todo : scan'.todo[i].t > 0
        PROVE  Returns'
    BY <1>1, <1>3, <1>4 DEF Returns, Running
  <1>5. CASE Resets
    <2>1. scan'.ret = None /\ pc' \in {"idle", "retry", "item"}
      BY <1>5, ResetScan DEF Blank
    <2> QED BY <1>4, <1>5, <2>1, ResetScan
  <1>6. CASE Cancel
    <2>1. /\ scan'.ret = scan.ret /\ scan'.todo = scan.todo /\ scan'.item = scan.item /\ scan'.win = scan.win
          /\ scan'.job = scan.job /\ scan'.stop = scan.stop /\ UNCHANGED <<pc, op>>
      BY <1>6 DEF Cancel, ScanTypes, Fields
    <2> QED BY <2>1 DEF Returns
  <1>7. CASE Attempt
    <2> DEFINE item == Head(scan.todo)
               live == IF scan.job = "single" THEN item.t ELSE file[item.p].t
    <2>1. item \in Item /\ Tail(scan.todo) \in Seq(Item) /\ scan.todo # << >>
      BY <1>7, AttemptHead DEF Attempt, MayGoOn
    <2>2. /\ scan'.todo = Tail(scan.todo) /\ scan'.ret = scan.ret /\ scan'.job = scan.job
          /\ scan'.item = scan.item /\ pc' = "item"
          \/ /\ scan'.todo = Tail(scan.todo) /\ scan'.ret = scan.ret /\ scan'.job = scan.job
             /\ scan'.item = [item EXCEPT !.t = live] /\ pc' = "parse" /\ live # 0
      BY <1>7 DEF Attempt, ScanTypes, Fields
    <2>3. live \in Times
      BY <2>1 DEF FileTypes, Item
    <2>4. \A i \in DOMAIN Tail(scan.todo) : i + 1 \in DOMAIN scan.todo /\ Tail(scan.todo)[i] = scan.todo[i + 1]
      BY <2>1 DEF ScanTypes
    <2>5. scan'.job = "single" => \A i \in DOMAIN scan'.todo : scan'.todo[i].t > 0
      <3>1. scan'.todo = Tail(scan.todo) /\ scan'.job = scan.job
        BY <2>2
      <3> HIDE DEF item, live
      <3> QED BY <1>2, <2>4, <3>1
    <2>6. scan.ret # "again"
      BY <1>7 DEF Attempt, Returns, Marking
    <2> HIDE DEF item, live
    <2>7. CASE pc' = "item"
      BY <1>2, <1>4, <2>2, <2>5, <2>6, <2>7
    <2>8. CASE scan'.item = [item EXCEPT !.t = live] /\ pc' = "parse" /\ live # 0
      <3>1. [item EXCEPT !.t = live] \in Item /\ [item EXCEPT !.t = live].t = live
        BY <2>1, <2>3 DEF Item
      <3>2. live > 0
        BY <2>3, <2>8, ConstantsAssumption DEF Times
      <3> QED BY <1>1, <1>2, <1>3, <2>2, <2>5, <2>6, <2>8, <3>1, <3>2 DEF Returns, Running
    <2> QED BY <2>2, <2>7, <2>8
  <1>8. CASE ParseFails \/ CorruptMail
    <2>1. scan'.ret = scan.ret /\ scan'.job = scan.job /\ scan'.todo = scan.todo
      BY <1>8 DEF ParseFails, CorruptMail, Fails, ScanTypes, Fields
    <2>2. pc = "parse" /\ pc' \in {"after", "mark", "queue"}
      BY <1>8, MarksIs DEF ParseFails, CorruptMail, Fails
    <2> QED BY <1>2, <1>4, <2>1, <2>2 DEF Returns, Marking
  <1>9. CASE Collide
    <2>1. /\ scan'.ret = "again" /\ scan'.job = scan.job /\ scan'.todo = scan.todo
          /\ scan'.item = Item0 /\ pc' = "embed"
      BY <1>9 DEF Collide, ScanTypes, Fields
    <2>2. Item0 \in Item /\ Item0.body \in Bodies
      BY <1>9, ParsedItem DEF Collide
    <2> QED BY <1>1, <1>2, <2>1, <2>2 DEF Returns
  <1>10. CASE Embed
    <2>1. \/ /\ scan'.ret = scan.ret /\ scan'.job = scan.job /\ scan'.todo = scan.todo
             /\ scan'.item = scan.item /\ pc' = "commit"
          \/ /\ scan'.ret = None /\ scan'.job = scan.job /\ scan'.todo = scan.todo
             /\ scan'.item = scan.item /\ pc' = scan.ret /\ scan'.stop = TRUE
      BY <1>10 DEF Embed, ScanTypes, Fields
    <2> QED BY <1>1, <1>2, <1>3, <2>1 DEF Returns, Running
  <1>11. CASE Flushed
    <2>1. /\ scan'.ret = None /\ scan'.job = scan.job /\ scan'.todo = scan.todo /\ scan'.win = scan.win
          /\ scan'.item = scan.item /\ pc' = scan.ret
          /\ scan'.stop = (scan.stop \/ scan.win # << >>)
      BY <1>11 DEF Flushed, ScanTypes, Fields
    <2>2. scan'.stop = TRUE \/ scan'.win = << >>
      BY <2>1
    <2> QED BY <1>1, <1>2, <1>3, <2>1, <2>2 DEF Returns, Running
  <1>12. CASE LastFlush
    <2>1. scan'.ret \in {scan.ret, "finish"} /\ scan'.job = scan.job /\ scan'.todo = scan.todo
      BY <1>12 DEF LastFlush, ScanTypes, Fields
    <2>2. scan.ret # "again" /\ pc' \in {"embed", "finish"}
      BY <1>12 DEF LastFlush, Returns, Marking
    <2> QED BY <1>2, <1>4, <2>1, <2>2
  <1>13. CASE (Reconcile /\ ~Ended) \/ (DeleteExcluded /\ ~Ended) \/ (SaveExcluded /\ ~Ended)
    <2>1. scan'.ret = scan.ret /\ scan'.job = scan.job /\ scan'.todo = scan.todo
      BY <1>13, ExcludedScan, ExcludedFields
    <2>2. pc \in Excluding /\ pc' \notin {"parse", "again"}
      BY <1>13 DEF Reconcile, DeleteExcluded, SaveExcluded, AfterExclusion, Ended, Excluding
    <2> QED BY <1>2, <1>4, <2>1, <2>2 DEF Returns, Marking, Excluding
  <1>14. CASE Discover
    <2>1. scan'.ret = scan.ret /\ scan'.job = scan.job /\ pc = "discover" /\ pc' = "item"
      BY <1>14, DiscoverScan DEF Discover
    <2>2. scan.job # "single" /\ scan.ret # "again"
      BY <2>1 DEF Phase, Returns, Marking
    <2> QED BY <1>2, <1>4, <2>1, <2>2
  <1>15. CASE Copy
    <2>1. scan'.ret = scan.ret /\ scan'.job = scan.job /\ scan'.todo = scan.todo
      BY <1>15, CopyScan
    <2>2. pc = "parse" /\ pc' \in {"after", "mark", "queue"}
      BY <1>15, MarksIs DEF Copy, Parsed, Fails
    <2> QED BY <1>2, <1>4, <2>1, <2>2 DEF Returns, Marking
  <1>16. CASE Choose
    <2>1. scan'.job = scan.job /\ scan'.todo = scan.todo /\ scan'.ret \in {scan.ret, "after"}
          /\ pc' \in {"after", "embed", "mark", "queue"} /\ pc \in {"parse", "again"}
      BY <1>16, ChooseIs, BeginScan, FailsScan, MarksIs
    <2> QED BY <1>2, <1>4, <2>1 DEF Returns, Marking
  <1>17. CASE Commit
    <2>1. /\ scan'.ret = scan.ret /\ scan'.job = scan.job /\ scan'.todo = scan.todo /\ scan'.item = scan.item
      BY <1>17, CommitScan
    <2>2. \E ids, good, bad : Marks(ids, good, bad, "commit")
      BY <1>17, CommitScan
    <2>3. pc' \in {"mark", "queue"} /\ op'.back = "commit"
      BY <2>2, MarksIs
    <2> QED BY <1>2, <2>1, <2>3 DEF Returns, Marking
  <1>18. CASE UNCHANGED scan /\ ~Resets
    <2>1. CASE MarkItems
      <3>1. pc \in Marking /\ pc' = op.back
        BY <2>1 DEF MarkItems, Marking
      <3> QED BY <1>1, <1>2, <1>3, <1>18, <3>1 DEF Returns, Running, Marking
    <2>2. CASE QueueIds \/ DropRows \/ ClearIds
      <3>1. pc \in Marking /\ pc' \in Marking /\ UNCHANGED op
        BY <2>2 DEF QueueIds, DropRows, ClearIds, Marking
      <3> QED BY <1>18, <3>1 DEF Returns, Marking
    <2>3. CASE \/ RetryPending("retry", "retried", "reconcile") \/ SaveRetried("retried", "reconcile")
               \/ RetryPending("scan", "scanned", "discover") \/ SaveRetried("scanned", "discover")
               \/ LoopEnds \/ After
      <3>1. pc \notin Marking \cup {"embed", "commit"} /\ pc' \notin {"parse", "again"}
        BY <2>3 DEF RetryPending, SaveRetried, LoopEnds, After, Marking
      <3> QED BY <1>2, <1>4, <1>18, <3>1 DEF Returns, Marking
    <2>4. ASSUME ~MarkItems, ~(QueueIds \/ DropRows \/ ClearIds),
                 ~(\/ RetryPending("retry", "retried", "reconcile") \/ SaveRetried("retried", "reconcile")
                   \/ RetryPending("scan", "scanned", "discover") \/ SaveRetried("scanned", "discover")
                   \/ LoopEnds \/ After),
                 ~(Light \/ Discover \/ Copy \/ Choose \/ Commit)
          PROVE  UNCHANGED <<pc, op>>
      <3>1. ~Worker
        BY <1>18, <2>4 DEF Worker, Light, Resets
      <3> QED BY <1>18, <2>4, <3>1 DEF Next, User, Edit, Delete, Unexclude, BackoffExpires,
            SnapshotExpires, vars, Light, Resets
    <2>5. CASE UNCHANGED <<pc, op, scan>>
      BY <2>5 DEF Returns
    <2> QED BY <1>5, <1>6, <1>7, <1>8, <1>9, <1>10, <1>11, <1>12, <1>13, <1>14, <1>15, <1>16, <1>17, <1>18,
               <2>1, <2>2, <2>3, <2>4, <2>5 DEF Light
  <1> QED BY <1>5, <1>6, <1>7, <1>8, <1>9, <1>10, <1>11, <1>12, <1>13, <1>14, <1>15, <1>16, <1>17, <1>18,
             ScanCases DEF Light

-----------------------------------------------------------------------------
(* The window.                                                                *)

InWindow(u) == \E i \in DOMAIN scan.win : Uid[scan.win[i].item.p] = u

\* A content is chosen only for a mail that has none in the window.
LEMMA ChosenAlone ==
  ASSUME ScanTypes, Returns, WindowOpen, NEW item \in Item,
         \/ pc = "again" /\ ~scan.stop
         \/ scan.work[Uid[item.p]] # None => scan.work[Uid[item.p]].outcome # "open"
  PROVE  ~InWindow(Uid[item.p])
  <1>1. CASE pc = "again" /\ ~scan.stop
    <2>1. scan.win = << >>
      BY <1>1 DEF Returns
    <2>2. DOMAIN << >> = {}
      OBVIOUS
    <2> QED BY <2>1, <2>2 DEF InWindow
  <1>2. CASE scan.work[Uid[item.p]] # None => scan.work[Uid[item.p]].outcome # "open"
    BY <1>2, NoneApart DEF InWindow, WindowOpen
  <1> QED BY <1>1, <1>2

LEMMA TailOf ==
  ASSUME NEW S, NEW s \in Seq(S), s # << >>
  PROVE  /\ \A i \in DOMAIN Tail(s) : i \in Nat /\ i + 1 \in DOMAIN s /\ i + 1 # 1 /\ Tail(s)[i] = s[i + 1]
         /\ 1 \in DOMAIN s
  OBVIOUS

LEMMA AppendOf ==
  ASSUME NEW S, NEW s \in Seq(S), NEW e \in S
  PROVE  /\ DOMAIN Append(s, e) = DOMAIN s \cup {Len(s) + 1} /\ Len(s) + 1 \notin DOMAIN s
         /\ Append(s, e)[Len(s) + 1] = e
         /\ \A i \in DOMAIN s : Append(s, e)[i] = s[i]
  OBVIOUS

LEMMA WindowOpenStep ==
  ASSUME MailTypes, Returns, WindowOpen, [Next]_vars
  PROVE  WindowOpen'
  <1> USE DEF MailTypes
  <1>0. scan.win \in Seq(Entry) /\ \A i \in DOMAIN scan.win : Uid[scan.win[i].item.p] \in Uids
    <2>1. scan.win \in Seq(Entry) /\ \A i \in DOMAIN scan.win : scan.win[i] \in Entry
      BY DEF ScanTypes
    <2>2. \A e \in Entry : e.item.p \in Paths
      BY DEF Entry, Item
    <2> QED BY <2>1, <2>2, UidOf
  <1>1. CASE Resets
    <2>1. scan'.win = << >> /\ DOMAIN << >> = {}
      BY <1>1, ResetScan DEF Blank
    <2> QED BY <2>1 DEF WindowOpen
  <1>2. CASE scan'.win = scan.win /\ scan'.work = scan.work
    BY <1>2 DEF WindowOpen
  <1>3. CASE Copy
    <2> DEFINE u == Uid[Item0.p]
    <2>1. u \in Uids /\ scan'.win = scan.win
      BY <1>3, ParsedItem, UidOf, CopyScan DEF Copy
    <2>2. CASE scan'.work = scan.work
      BY <1>2, <2>1, <2>2
    <2>3. ASSUME NEW g \in Generation, scan'.work = [scan.work EXCEPT ![u] = g],
                 g.outcome = scan.work[u].outcome
          PROVE  WindowOpen'
      <3>1. ASSUME NEW v \in Uids, scan.work[v] \in Generation, scan.work[v].outcome = "open"
            PROVE  scan'.work[v] \in Generation /\ scan'.work[v].outcome = "open"
        BY <2>1, <2>3, <3>1 DEF ScanTypes
      <3> QED BY <1>0, <2>1, <3>1 DEF WindowOpen
    <2> QED BY <1>3, <2>2, <2>3, CopyScan
  <1>4. CASE Choose
    <2>1. ASSUME NEW item \in Item, item.body \in Bodies, Begin(item), ~InWindow(Uid[item.p])
          PROVE  WindowOpen'
      <3> DEFINE u == Uid[item.p]
                 e == [item |-> item, old |-> {r.id : r \in Current(u)} \cup Legacy(item.p)]
      <3>1. u \in Uids /\ e \in Entry /\ e.item = item
        BY <2>1, UidOf, BeginScan DEF Item
      <3>2. PICK g \in Generation \cup {None} :
               /\ scan'.work = [scan.work EXCEPT ![u] = g]
               /\ \/ scan'.win = scan.win
                  \/ scan'.win = Append(scan.win, e) /\ g # None /\ g.outcome = "open"
        BY <2>1, BeginScan
      <3> HIDE DEF e
      <3>3. \A i \in DOMAIN scan.win : scan'.work[Uid[scan.win[i].item.p]] = scan.work[Uid[scan.win[i].item.p]]
        BY <1>0, <2>1, <3>1, <3>2 DEF InWindow, ScanTypes
      <3>4. CASE scan'.win = scan.win
        BY <3>3, <3>4 DEF WindowOpen
      <3>5. CASE scan'.win = Append(scan.win, e) /\ g # None /\ g.outcome = "open"
        <4>1. /\ DOMAIN scan'.win = DOMAIN scan.win \cup {Len(scan.win) + 1}
              /\ Len(scan.win) + 1 \notin DOMAIN scan.win
              /\ scan'.win[Len(scan.win) + 1] = e
              /\ \A i \in DOMAIN scan.win : scan'.win[i] = scan.win[i]
          BY <1>0, <3>1, <3>5, AppendOf
        <4>2. scan'.work[u] = g /\ g \in Generation
          BY <3>1, <3>2, <3>5 DEF ScanTypes
        <4>3. \A i \in DOMAIN scan.win : Uid[scan.win[i].item.p] # u
          BY <2>1 DEF InWindow
        <4> HIDE DEF u
        <4>4. Uid[e.item.p] = u
          BY <3>1 DEF u
        <4>5. \A i \in DOMAIN scan'.win : LET h == scan'.work[Uid[scan'.win[i].item.p]]
                                          IN  h \in Generation /\ h.outcome = "open"
          <5>1. ASSUME NEW i \in DOMAIN scan.win
                PROVE  LET h == scan'.work[Uid[scan'.win[i].item.p]]
                       IN  h \in Generation /\ h.outcome = "open"
            BY <3>3, <4>1 DEF WindowOpen
          <5>2. LET h == scan'.work[Uid[scan'.win[Len(scan.win) + 1].item.p]]
                IN  h \in Generation /\ h.outcome = "open"
            BY <3>5, <4>1, <4>2, <4>4
          <5> QED BY <4>1, <5>1, <5>2
        <4>6. \A i, j \in DOMAIN scan'.win :
                 Uid[scan'.win[i].item.p] = Uid[scan'.win[j].item.p] => i = j
          BY <4>1, <4>3, <4>4 DEF WindowOpen
        <4> QED BY <4>5, <4>6 DEF WindowOpen
      <3> QED BY <3>2, <3>4, <3>5
    <2> QED BY <1>2, <1>4, <2>1, ChooseIs, ChosenAlone, FailsScan
  <1>5. CASE Commit
    <2>1. scan.win # << >> /\ scan'.win = Tail(scan.win)
      BY <1>5, CommitScan
    <2>2. PICK g : scan'.work = [scan.work EXCEPT ![InHandUid] = g]
      BY <1>5, CommitScan
    <2>3. InHandUid = Uid[scan.win[1].item.p] /\ InHandUid \in Uids
      BY <2>1, HandIs DEF InHandUid
    <2>4. \A i \in DOMAIN scan'.win : /\ i \in Nat /\ i + 1 \in DOMAIN scan.win /\ i + 1 # 1
                                      /\ scan'.win[i] = scan.win[i + 1]
      BY <1>0, <2>1, TailOf
    <2>5. 1 \in DOMAIN scan.win
      BY <1>0, <2>1, TailOf
    <2>6. \A i \in DOMAIN scan'.win : scan'.work[Uid[scan'.win[i].item.p]] = scan.work[Uid[scan'.win[i].item.p]]
      BY <1>0, <2>2, <2>3, <2>4, <2>5 DEF WindowOpen, ScanTypes
    <2> QED BY <2>4, <2>6 DEF WindowOpen
  <1> QED BY <1>1, <1>2, <1>3, <1>4, <1>5, ScanCases, LightScan, DiscoverScan

\* What is added to the table is one row, known nowhere.
LEMMA TableCases ==
  ASSUME MailTypes, WindowOpen, [Next]_vars
  PROVE  \/ table' \subseteq table
         \/ Commit /\ Ids \ Known # {} /\ table' = table \cup {NewRow} /\ NewRow.id \in Ids \ Known
  <1>1. CASE Commit
    <2>1. table' = table \/ (Ids \ Known # {} /\ table' = table \cup {NewRow})
      BY <1>1, CommitScan DEF MailTypes
    <2> QED BY <1>1, <2>1, NewIdIsNew DEF NewRow
  <1>2. ASSUME ~Commit PROVE table' \subseteq table
    BY <1>2 DEF Next, Worker, User, Edit, Delete, Exclude, Unexclude, RetryOne, Cancel, Crash, Recreate,
       BackoffExpires, SnapshotExpires, BeginCycle, vars, settings, memory, store,
       RetryPending, SaveRetried, Reconcile, DeleteExcluded, SaveExcluded, Discover, Attempt, LoopEnds,
       ParseFails, CorruptMail, Copy, Choose, Collide, After, QueueIds, DropRows, ClearIds, MarkItems,
       Embed, Flushed, LastFlush, Finish
  <1> QED BY <1>1, <1>2

LEMMA OldKnown ==
  ASSUME ScanTypes
  PROVE  /\ \A i \in DOMAIN scan.win : scan.win[i].old \subseteq Known
         /\ \A u \in Uids : scan.work[u] \in Generation =>
               \A a \in scan.work[u].aliases : a.old \subseteq Known
  <1>1. ASSUME NEW i \in DOMAIN scan.win PROVE scan.win[i].old \subseteq Known
    BY DEF Known
  <1>2. ASSUME NEW u \in Uids, scan.work[u] \in Generation, NEW a \in scan.work[u].aliases
        PROVE  a.old \subseteq Known
    <2>1. u \in {v \in Uids : scan.work[v] # None}
      BY <1>2, NoneApart
    <2>2. a \in Riders
      BY <1>2, <2>1 DEF Riders
    <2>3. a.old \in {b.old : b \in Riders}
      BY <2>2
    <2>4. UNION {b.old : b \in Riders} \subseteq Known
      BY DEF Known
    <2> QED BY <2>3, <2>4
  <1> QED BY <1>1, <1>2

\* What is remembered keeps its meaning, whatever a step does to the table.
LEMMA RememberedRows ==
  ASSUME MailTypes, WindowOpen, IdsKnown, [Next]_vars
  PROVE  /\ \A i \in DOMAIN scan.win : \A g \in table' :
               g.id \in scan.win[i].old => g.uid \in Paths \/ g.uid = Uid[scan.win[i].item.p]
         /\ \A u \in Uids : scan.work[u] \in Generation =>
               \A a \in scan.work[u].aliases :
                  Uid[a.item.p] = u /\ \A g \in table' : g.id \in a.old => g.uid \in Paths
  <1>1. table' \subseteq table \/ (table' = table \cup {NewRow} /\ NewRow.id \notin Known)
    BY TableCases
  <1>2. ASSUME NEW i \in DOMAIN scan.win, NEW g \in table', g.id \in scan.win[i].old
        PROVE  g.uid \in Paths \/ g.uid = Uid[scan.win[i].item.p]
    <2>1. g \in table
      BY <1>1, <1>2, OldKnown DEF MailTypes
    <2> QED BY <1>2, <2>1 DEF IdsKnown
  <1>3. ASSUME NEW u \in Uids, scan.work[u] \in Generation, NEW a \in scan.work[u].aliases
        PROVE  Uid[a.item.p] = u /\ \A g \in table' : g.id \in a.old => g.uid \in Paths
    <2>1. a.old \subseteq Known
      BY <1>3, OldKnown DEF MailTypes
    <2> QED BY <1>1, <1>3, <2>1 DEF IdsKnown
  <1> QED BY <1>2, <1>3

LEMMA IdsKnownStep ==
  ASSUME MailTypes, Returns, WindowOpen, IdsKnown, [Next]_vars
  PROVE  IdsKnown'
  <1> USE DEF MailTypes
  <1>1. CASE Resets
    <2>1. scan'.win = << >> /\ DOMAIN << >> = {} /\ \A u \in Uids : scan'.work[u] = None
      BY <1>1, ResetScan DEF Blank
    <2> QED BY <2>1, NoneApart DEF IdsKnown
  <1>2. CASE scan'.win = scan.win /\ scan'.work = scan.work
    BY <1>2, RememberedRows DEF IdsKnown
  <1>3. CASE Copy
    <2> DEFINE u == Uid[Item0.p]
               a == [item |-> Item0, old |-> Legacy(Item0.p)]
    <2>1. u \in Uids /\ scan'.win = scan.win /\ Item0.p \in Paths
      BY <1>3, ParsedItem, UidOf, CopyScan DEF Copy
    <2>2. table' = table
      BY <1>3 DEF Copy, store
    <2>3. CASE scan'.work = scan.work
      BY <1>2, <2>1, <2>3
    <2>4. ASSUME NEW g \in Generation, scan'.work = [scan.work EXCEPT ![u] = g], scan.work[u] # None,
                 g.aliases = scan.work[u].aliases \cup {a}
          PROVE  IdsKnown'
      <3>1. a.item = Item0 /\ a.old = Legacy(Item0.p)
        OBVIOUS
      <3>2. \A h \in table : h.id \in a.old => h.uid \in Paths
        BY <2>1, <3>1, LegacyIds
      <3>3. Uid[a.item.p] = u
        BY <3>1
      <3>4. scan.work[u] \in Generation
        BY <2>1, <2>4 DEF ScanTypes
      <3> HIDE DEF a, u
      <3>5. \A v \in Uids : scan'.work[v] = IF v = u THEN g ELSE scan.work[v]
        BY <2>4 DEF ScanTypes
      <3>6. \A v \in Uids : scan'.work[v] \in Generation =>
              \A b \in scan'.work[v].aliases :
                 Uid[b.item.p] = v /\ \A h \in table : h.id \in b.old => h.uid \in Paths
        BY <2>1, <2>4, <3>2, <3>3, <3>4, <3>5 DEF IdsKnown
      <3> QED BY <2>1, <2>2, <3>6, RememberedRows DEF IdsKnown
    <2> QED BY <1>3, <2>3, <2>4, CopyScan
  <1>4. CASE Choose
    <2>1. table' = table
      BY <1>4 DEF Choose, store
    <2>2. ASSUME NEW item \in Item, item.body \in Bodies, Begin(item)
          PROVE  IdsKnown'
      <3> DEFINE u == Uid[item.p]
                 e == [item |-> item, old |-> {r.id : r \in Current(u)} \cup Legacy(item.p)]
      <3>1. u \in Uids /\ e \in Entry /\ e.item = item /\ item.p \in Paths
            /\ e.old = {r.id : r \in Current(u)} \cup Legacy(item.p)
        BY <2>2, UidOf, BeginScan DEF Item
      <3>2. PICK g \in Generation \cup {None} :
               /\ scan'.work = [scan.work EXCEPT ![u] = g]
               /\ g # None => g.aliases = {}
               /\ scan'.win = scan.win \/ scan'.win = Append(scan.win, e)
        BY <2>2, BeginScan
      <3> HIDE DEF e
      <3>3. \A v \in Uids : scan'.work[v] \in Generation =>
               \A a \in scan'.work[v].aliases :
                  Uid[a.item.p] = v /\ \A h \in table : h.id \in a.old => h.uid \in Paths
        BY <3>1, <3>2, NoneApart DEF ScanTypes, IdsKnown
      <3>4. \A h \in table : h.id \in e.old => h.uid \in Paths \/ h.uid = u
        <4>1. ASSUME NEW h \in table, NEW r \in Current(u), h.id = r.id PROVE h.uid = u
          BY <4>1 DEF Current, TableTypes
        <4>2. ASSUME NEW h \in table, h.id \in Legacy(item.p) PROVE h.uid \in Paths
          BY <3>1, <4>2, LegacyIds
        <4> HIDE DEF u
        <4> QED BY <3>1, <4>1, <4>2
      <3>5. CASE scan'.win = scan.win
        BY <2>1, <3>3, <3>5 DEF IdsKnown
      <3>6. CASE scan'.win = Append(scan.win, e)
        <4>1. /\ DOMAIN scan'.win = DOMAIN scan.win \cup {Len(scan.win) + 1}
              /\ scan'.win[Len(scan.win) + 1] = e
              /\ \A i \in DOMAIN scan.win : scan'.win[i] = scan.win[i]
          BY <3>1, <3>6, AppendOf DEF ScanTypes
        <4>2. \A i \in DOMAIN scan'.win : \A h \in table :
                 h.id \in scan'.win[i].old => h.uid \in Paths \/ h.uid = Uid[scan'.win[i].item.p]
          BY <3>1, <3>4, <4>1 DEF IdsKnown
        <4> QED BY <2>1, <3>3, <4>2 DEF IdsKnown
      <3> QED BY <3>2, <3>5, <3>6
    <2> QED BY <1>2, <1>4, <2>2, ChooseIs, FailsScan
  <1>5. CASE Commit
    <2>1. scan.win # << >> /\ scan'.win = Tail(scan.win)
      BY <1>5, CommitScan
    <2>2. PICK g : scan'.work = [scan.work EXCEPT ![InHandUid] = g] /\ g.aliases = {}
      BY <1>5, CommitScan
    <2>3. \A i \in DOMAIN scan'.win : i + 1 \in DOMAIN scan.win /\ scan'.win[i] = scan.win[i + 1]
      BY <2>1, TailOf DEF ScanTypes
    <2>4. \A u \in Uids : scan'.work[u] = IF u = InHandUid THEN g ELSE scan.work[u]
      BY <2>2 DEF ScanTypes
    <2> QED BY <2>2, <2>3, <2>4, RememberedRows DEF IdsKnown
  <1> QED BY <1>1, <1>2, <1>3, <1>4, <1>5, ScanCases, LightScan, DiscoverScan

-----------------------------------------------------------------------------
(* The queues.                                                                *)

\* What waits in the state file waits in the cycle, while there is a row.
Covered == \A g \in table : g.id \in disk.pend => g.id \in mem.pend

LEMMA CoveredKept ==
  ASSUME MailTypes, WindowOpen, [Next]_vars, Covered, mem'.pend = mem.pend,
         disk'.pend = disk.pend \/ disk'.pend = mem'.pend
  PROVE  Covered'
  <1>1. table' \subseteq table \/ (table' = table \cup {NewRow} /\ NewRow.id \notin Known)
    BY TableCases
  <1>2. \A g \in table' : g.id \in disk.pend => g.id \in mem.pend
    BY <1>1 DEF Covered, Known
  <1> QED BY <1>2 DEF Covered

\* The steps that neither begin nor end a job nor change a queue.
Queues == \/ RetryPending("retry", "retried", "reconcile") \/ SaveRetried("retried", "reconcile")
          \/ RetryPending("scan", "scanned", "discover") \/ SaveRetried("scanned", "discover")
          \/ Reconcile \/ DeleteExcluded \/ SaveExcluded \/ QueueIds \/ DropRows \/ ClearIds

LEMMA QuietSteps ==
  ASSUME MailTypes, [Next]_vars, ~Resets, ~Queues
  PROVE  mem'.pend = mem.pend /\ (disk'.pend = disk.pend \/ disk'.pend = mem'.pend)
  <1> USE DEF MailTypes
  <1>1. CASE Discover
    BY <1>1, DiscoverLists, CollectState DEF Discover, store, StateTypes
  <1>2. CASE Attempt
    BY <1>2, AttemptState
  <1>3. CASE After
    BY <1>3, AfterState
  <1>4. CASE MarkItems
    BY <1>4, SuccessTyped DEF MarkItems, store, StateTypes, OpTypes
  <1>5. ASSUME ~(Discover \/ Attempt \/ After \/ MarkItems)
        PROVE  UNCHANGED <<mem, disk>>
    <2>1. ~(Crash \/ Recreate \/ BeginCycle \/ Finish) /\ \A p \in Paths : ~(Exclude(p) \/ RetryOne(p))
      BY DEF Resets
    <2> QED BY <1>5, <2>1 DEF Queues, Next, Worker, User, Edit, Delete, Unexclude, Cancel,
       BackoffExpires, SnapshotExpires, vars, settings, memory, store, LoopEnds,
       ParseFails, CorruptMail, Copy, Choose, Collide, Embed, Commit, Flushed, LastFlush
  <1> QED BY <1>1, <1>2, <1>3, <1>4, <1>5

LEMMA ClearSteps ==
  ASSUME MailTypes, Returns, WindowOpen, [Next]_vars, ~Resets, ~Queues, pc' = "clear"
  PROVE  pc = "clear" /\ UNCHANGED op /\ table' \subseteq table
  <1> USE DEF MailTypes
  <1>1. ~(Crash \/ Recreate \/ BeginCycle \/ Finish) /\ \A p \in Paths : ~(Exclude(p) \/ RetryOne(p))
    BY DEF Resets
  <1>2. scan.ret \in {None, "after", "again", "finish"} /\ op.back \in {None, "after", "commit"}
        /\ None # "clear"
    BY NoneApart DEF Returns, Words, Running
  <1>3. ~Choose
    BY ChooseIs, BeginScan, FailsScan, MarksIs
  <1>4. ~Commit
    BY CommitScan, MarksIs
  <1>5. ~(CorruptMail \/ Copy)
    BY MarksIs DEF CorruptMail, Copy, Fails
  <1>6. ~(Discover \/ Attempt \/ LoopEnds \/ ParseFails \/ Collide \/ After \/ MarkItems \/ Embed
          \/ Flushed \/ LastFlush)
    BY <1>2 DEF Discover, Attempt, LoopEnds, ParseFails, Fails, Collide, After, MarkItems, Embed, Flushed,
       LastFlush
  <1>7. ~Worker
    BY <1>1, <1>3, <1>4, <1>5, <1>6 DEF Worker, Queues
  <1> QED BY <1>1, <1>7 DEF Next, User, Edit, Delete, Unexclude, Cancel, BackoffExpires, SnapshotExpires,
        vars, store

LEMMA WaitingStep ==
  ASSUME MailTypes, Phase, Returns, WindowOpen, IdsKnown, Waiting, [Next]_vars
  PROVE  Waiting'
  <1> USE DEF MailTypes
  <1>0. disk \in State /\ mem \in State
    BY DEF StateTypes
  <1>1. CASE pc' = "idle"
    BY <1>1 DEF Waiting
  <1>2. CASE Resets /\ pc' # "idle"
    <2>1. disk'.pend = mem'.pend
      <3>1. BeginCycle \/ \E p \in Paths : Exclude(p) \/ RetryOne(p)
        BY <1>2, ResetScan DEF Resets, Crash, Recreate, Restarted, Finish, Ended
      <3> QED BY <3>1 DEF BeginCycle, Exclude, RetryOne, store
    <2>2. pc' \in {"retry", "item"}
      BY <1>2, ResetScan
    <2> QED BY <2>1, <2>2 DEF Waiting
  <1>3. CASE ~Resets /\ ~Queues /\ pc' # "idle"
    <2>1. mem'.pend = mem.pend /\ (disk'.pend = disk.pend \/ disk'.pend = mem'.pend)
      BY <1>3, QuietSteps
    <2>2. pc # "idle"
      BY <1>3, EarlySteps DEF Early, Discover, Queues
    <2>3. Covered'
      BY <2>1, <2>2, CoveredKept DEF Waiting, Covered
    <2>4. pc' = "clear" => \A g \in table' : g.id \notin op'.ids
      BY <1>3, ClearSteps DEF Waiting
    <2>5. CASE pc \notin Early \/ Discover
      <3>1. pc' \notin {"retry", "retried", "reconcile", "exclude"}
        BY <1>3, <2>5, LateSteps DEF Discover, Early, Excluding
      <3> QED BY <2>3, <2>4, <3>1 DEF Waiting, Covered
    <2>6. CASE pc \in Early /\ ~Discover
      <3>1. pc' = pc
        BY <1>3, <2>6, EarlySteps DEF Queues
      <3>2. scan'.ids = scan.ids
        BY <1>3, ScanIds DEF Queues
      <3>3. disk'.pend = disk.pend
        BY <1>3, <2>1, <2>6, <3>1 DEF Queues, Early, Excluding, Opening, Next, Worker, User, Edit,
           Delete, Unexclude, Cancel, BackoffExpires, SnapshotExpires, vars, settings, memory, store, After,
           LoopEnds, ParseFails, CorruptMail, Copy, Choose, Parsed, Collide, Embed, Commit, Flushed,
           LastFlush, MarkItems, Resets, Attempt
      <3> QED BY <2>1, <2>3, <2>4, <3>1, <3>2, <3>3 DEF Waiting, Covered
    <2> QED BY <2>5, <2>6
  <1>4. CASE RetryPending("retry", "retried", "reconcile") \/ RetryPending("scan", "scanned", "discover")
    <2>1. \/ UNCHANGED <<table, mem, disk>>
          \/ /\ table' = table \ Rows(mem.pend) /\ mem' = Forgotten(mem, mem.pend) /\ disk' = disk
      BY <1>4 DEF RetryPending
    <2>2. CASE UNCHANGED <<table, mem, disk>>
      BY <1>4, <2>2 DEF RetryPending, Waiting
    <2>3. CASE table' = table \ Rows(mem.pend) /\ mem' = Forgotten(mem, mem.pend) /\ disk' = disk
      <3>1. mem'.pend = {}
        BY <1>0, <2>3, ForgottenTyped
      <3>2. \A g \in table' : g.id \notin disk'.pend
        BY <1>4, <2>3 DEF Rows, Waiting, RetryPending
      <3> QED BY <1>4, <3>1, <3>2 DEF Waiting, RetryPending
    <2> QED BY <2>1, <2>2, <2>3
  <1>5. CASE SaveRetried("retried", "reconcile") \/ SaveRetried("scanned", "discover")
    BY <1>5 DEF SaveRetried, Waiting
  <1>6. CASE Reconcile /\ ~Ended
    <2> DEFINE refs == Refs(Targets)
               ids  == {g.id : g \in refs}
               kept == Excluded(mem, refs)
    <2>1. refs \in SUBSET Row
      BY DEF Refs, TableTypes
    <2>2. kept.pend = mem.pend \cup ids
      BY <1>0, <2>1, ExcludedTyped
    <2>3. table' = table /\ pc = "reconcile"
      BY <1>6 DEF Reconcile
    <2>4. \/ AfterExclusion /\ UNCHANGED disk
          \/ /\ disk' = (IF kept = mem THEN disk ELSE kept)
             /\ mem' = kept /\ scan' = [scan EXCEPT !.ids = ids] /\ pc' \in {"scan", "exclude"}
      BY <1>6, ReconcileIs
    <2> HIDE DEF refs, ids, kept
    <2>5. CASE AfterExclusion /\ UNCHANGED disk
      BY <1>6, <2>3, <2>5 DEF AfterExclusion, Waiting
    <2>6. CASE /\ disk' = (IF kept = mem THEN disk ELSE kept)
               /\ mem' = kept /\ scan' = [scan EXCEPT !.ids = ids] /\ pc' \in {"scan", "exclude"}
      <3>1. scan'.ids = ids
        BY <2>6, ExcludedFields
      <3>2. Covered'
        BY <2>3, <2>6 DEF Waiting, Covered
      <3> QED BY <2>2, <2>6, <3>1, <3>2 DEF Waiting, Covered
    <2> QED BY <2>4, <2>5, <2>6
  <1>7. CASE DeleteExcluded /\ ~Ended
    <2>1. \/ table' = table \ Rows(scan.ids) /\ mem' = Forgotten(mem, scan.ids) /\ pc' = "excluded" /\ disk' = disk
          \/ UNCHANGED <<mem, table, disk>> /\ pc' = "scan"
      BY <1>7 DEF DeleteExcluded, AfterExclusion
    <2>2. pc = "exclude"
      BY <1>7 DEF DeleteExcluded
    <2>3. CASE UNCHANGED <<mem, table, disk>> /\ pc' = "scan"
      BY <2>2, <2>3 DEF Waiting
    <2>4. CASE table' = table \ Rows(scan.ids) /\ mem' = Forgotten(mem, scan.ids) /\ pc' = "excluded" /\ disk' = disk
      <3>1. mem'.pend = mem.pend \ scan.ids
        BY <1>0, <2>4, ForgottenTyped
      <3> QED BY <2>2, <2>4, <3>1 DEF Waiting, Rows
    <2> QED BY <2>1, <2>3, <2>4
  <1>8. CASE SaveExcluded /\ ~Ended
    <2>1. table' = table /\ mem' = mem /\ disk' \in {disk, mem} /\ pc = "excluded" /\ pc' = "scan"
      BY <1>8 DEF SaveExcluded, AfterExclusion
    <2> QED BY <2>1 DEF Waiting
  <1>9. CASE QueueIds
    <2>1. mem'.pend = mem.pend \cup op.ids
      BY <1>0, <1>9, QueuedTyped DEF QueueIds, OpTypes
    <2> QED BY <1>9, <2>1 DEF QueueIds, Waiting
  <1>10. CASE DropRows
    <2>1. UNCHANGED <<disk, mem, op>> /\ table' \subseteq table /\ pc = "drop" /\ pc' \in {"clear", "mark"}
          /\ (pc' = "clear" => table' = table \ Rows(op.ids))
      BY <1>10 DEF DropRows, memory
    <2> QED BY <2>1 DEF Waiting, Rows
  <1>11. CASE ClearIds
    <2>1. mem'.pend = mem.pend \ op.ids
      BY <1>0, <1>11, ForgottenTyped DEF ClearIds
    <2> QED BY <1>11, <2>1 DEF ClearIds, Waiting
  <1>12. (Reconcile /\ Ended) \/ (DeleteExcluded /\ Ended) \/ (SaveExcluded /\ Ended) => pc' = "idle"
    BY DEF Ended
  <1> QED BY <1>1, <1>2, <1>3, <1>4, <1>5, <1>6, <1>7, <1>8, <1>9, <1>10, <1>11, <1>12 DEF Queues

LEMMA UntouchedStep ==
  ASSUME MailTypes, Phase, Untouched, Returns, WindowOpen, [Next]_vars
  PROVE  Untouched'
  <1> USE DEF MailTypes
  <1>1. CASE Resets
    <2>1. \A u \in Uids : scan'.work[u] = None /\ scan'.shadow[u] = 0
      BY <1>1, ResetScan DEF Blank
    <2> QED BY <2>1 DEF Untouched
  <1>2. CASE ~Resets /\ pc' \in Excluding
    <2>1. pc \in Early
      BY <1>2, LateSteps DEF Early
    <2>2. pc \in Excluding /\ ~Discover
      BY <1>2, <2>1, EarlySteps
         DEF RetryPending, SaveRetried, Reconcile, DeleteExcluded, SaveExcluded, Discover, Excluding
    <2>3. ~(Copy \/ Choose \/ Commit)
      BY <2>2 DEF Copy, Choose, Parsed, Commit, Excluding
    <2>4. scan'.work = scan.work /\ scan'.shadow = scan.shadow
      BY <1>2, <2>2, <2>3, ScanCases, LightScan
    <2> QED BY <2>2, <2>4 DEF Untouched
  <1> QED BY <1>1, <1>2 DEF Untouched

-----------------------------------------------------------------------------
(* Solid rows.                                                                *)

LEMMA SolidKept ==
  ASSUME NEW u,
         \A g \in table : g.uid = u /\ g.id \notin Spent => g \in table' /\ g.id \notin Spent'
  PROVE  Solid(u) => Solid(u)'
  BY DEF Solid

\* Steps after which no more ids are spent, and that take spent rows only.
LEMMA SpentSteps ==
  ASSUME MailTypes, Phase, Returns, WindowOpen, Waiting, [Next]_vars,
         ~(Recreate \/ Reconcile \/ CorruptMail \/ Copy \/ Choose \/ Commit)
  PROVE  /\ Spent' \subseteq Spent
         /\ \A g \in table : g.id \notin Spent => g \in table'
  <1> USE DEF MailTypes
  <1>0. disk \in State /\ mem \in State /\ NoState.pend = {} /\ NoOp.ids = {}
    BY NoStateTyped DEF StateTypes, NoOp
  <1>1. CASE Crash
    BY <1>0, <1>1 DEF Crash, Restarted, Spent
  <1>2. CASE BeginCycle
    <2>1. disk'.pend = disk.pend /\ mem'.pend = disk.pend
      BY <1>0, <1>2, NoStateTyped, StateUpdates DEF BeginCycle
    <2> QED BY <1>2, <2>1 DEF BeginCycle, Spent
  <1>3. CASE \E p \in Paths : Exclude(p) \/ RetryOne(p)
    BY <1>3 DEF Exclude, RetryOne, store, Spent
  <1>4. CASE Finish
    BY <1>0, <1>4 DEF Finish, Ended, Spent
  <1>5. CASE RetryPending("retry", "retried", "reconcile") \/ RetryPending("scan", "scanned", "discover")
    <2>1. /\ UNCHANGED <<disk, op>>
          /\ \/ UNCHANGED <<table, mem>>
             \/ table' = table \ Rows(mem.pend) /\ mem' = Forgotten(mem, mem.pend)
      BY <1>5 DEF RetryPending
    <2>2. Forgotten(mem, mem.pend).pend = {}
      BY <1>0, ForgottenTyped
    <2> QED BY <2>1, <2>2 DEF Spent, Rows
  <1>6. CASE SaveRetried("retried", "reconcile") \/ SaveRetried("scanned", "discover")
    BY <1>6 DEF SaveRetried, Spent
  <1>7. CASE DeleteExcluded
    <2>1. /\ UNCHANGED <<disk, op>> /\ scan.ids \subseteq mem.pend
          /\ \/ UNCHANGED table /\ mem' \in {mem, NoState}
             \/ table' = table \ Rows(scan.ids) /\ mem' = Forgotten(mem, scan.ids)
      BY <1>7 DEF DeleteExcluded, AfterExclusion, Ended, Waiting
    <2>2. Forgotten(mem, scan.ids).pend = mem.pend \ scan.ids
      BY <1>0, ForgottenTyped
    <2> QED BY <1>0, <2>1, <2>2 DEF Spent, Rows
  <1>8. CASE SaveExcluded
    <2>1. UNCHANGED <<table, op>> /\ mem' \in {mem, NoState} /\ disk' \in {disk, mem}
      BY <1>8 DEF SaveExcluded, AfterExclusion, Ended
    <2> QED BY <1>0, <2>1 DEF Spent
  <1>9. CASE QueueIds
    <2>1. mem'.pend = mem.pend \cup op.ids
      BY <1>0, <1>9, QueuedTyped DEF QueueIds, OpTypes
    <2> QED BY <1>9, <2>1 DEF QueueIds, Spent
  <1>10. CASE DropRows
    BY <1>10 DEF DropRows, memory, Spent, Rows
  <1>11. CASE ClearIds
    <2>1. mem'.pend = mem.pend \ op.ids
      BY <1>0, <1>11, ForgottenTyped DEF ClearIds
    <2> QED BY <1>11, <2>1 DEF ClearIds, Spent
  <1>12. CASE MarkItems
    <2>1. mem'.pend = mem.pend
      BY <1>0, <1>12, SuccessTyped DEF MarkItems, OpTypes
    <2> QED BY <1>0, <1>12, <2>1 DEF MarkItems, store, Spent
  <1>13. CASE ~Resets /\ ~Queues /\ ~MarkItems
    <2>1. mem'.pend = mem.pend /\ (disk'.pend = disk.pend \/ disk'.pend = mem'.pend)
      BY <1>13, QuietSteps
    <2>2. UNCHANGED op
      BY <1>13 DEF Next, Worker, User, Edit, Delete, Unexclude, Cancel, BackoffExpires, SnapshotExpires,
         vars, Resets, Queues, Discover, Attempt, LoopEnds, ParseFails, Fails, Collide, After, Embed,
         Flushed, LastFlush
    <2>3. UNCHANGED table
      BY <1>13 DEF Next, Worker, User, Edit, Delete, Unexclude, Cancel, BackoffExpires, SnapshotExpires,
         vars, Resets, Queues, Discover, Attempt, LoopEnds, ParseFails, Collide, After, Embed,
         Flushed, LastFlush, store
    <2> QED BY <2>1, <2>2, <2>3 DEF Spent
  <1> QED BY <1>1, <1>2, <1>3, <1>4, <1>5, <1>6, <1>7, <1>8, <1>9, <1>10, <1>11, <1>12, <1>13
          DEF Resets, Queues

\* Old rows of a path are no rows of a mail.
LEMMA LegacySpares ==
  ASSUME MailTypes, NEW u \in Uids, NEW p \in Paths, op = NoOp, UNCHANGED <<table, disk, mem>>,
         op' = op \/ op'.ids = Legacy(p)
  PROVE  \A g \in table : g.uid = u /\ g.id \notin Spent => g \in table' /\ g.id \notin Spent'
  <1>1. u \notin Paths
    BY ConstantsAssumption
  <1>2. \A g \in table : g.id \in Legacy(p) => g.uid \in Paths
    BY LegacyIds DEF MailTypes
  <1> QED BY <1>1, <1>2 DEF Spent

\* The row that is added is solid, and no other mail loses one.
LEMMA CommitSolid ==
  ASSUME MailTypes, Phase, WindowOpen, IdsKnown, Commit
  PROVE  /\ \A u \in Uids : Solid(u) => Solid(u)'
         /\ \A u \in Uids : u = InHandUid /\ table' # table => Solid(u)'
         /\ \A u \in Uids : u = InHandUid /\ (scan'.work[u].outcome = "success" \/ op'.good # {})
                => Solid(u)'
  <1> USE DEF MailTypes
  <1>1. pc = "commit" /\ scan.win # << >> /\ op = NoOp /\ UNCHANGED <<disk, mem>>
    BY CommitScan DEF Phase, Marking, memory
  <1>2. InHandUid \in Uids /\ InHandUid \notin Paths
    BY <1>1, HandIs, ConstantsAssumption
  <1> PICK v \in Uids : v = InHandUid
    BY <1>2
  <1>3. /\ OldIds(InHand, Aliases) \subseteq Known
        /\ \A g \in table : g.id \in OldIds(InHand, Aliases) => g.uid \in Paths \/ g.uid = v
    BY <1>1, OldIdsKnown
  <1>4. NewRow.uid = v /\ NewRow.id = NewId
    BY DEF NewRow
  <1>5. disk.pend \cup mem.pend \subseteq Known
    BY DEF Known
  <1>6. CASE /\ Ids \ Known # {} /\ table' = table \cup {NewRow}
             /\ Marks(OldIds(InHand, Aliases), Copies, {}, "commit")
    <2>1. op'.ids = OldIds(InHand, Aliases)
      BY <1>6, MarksIs
    <2>2. NewId \notin Known
      BY <1>6, NewIdIsNew
    <2>3. NewRow \in table' /\ NewRow.id \notin Spent'
      BY <1>1, <1>3, <1>4, <1>5, <1>6, <2>1, <2>2 DEF Spent
    <2>4. Solid(v)'
      BY <1>4, <2>3 DEF Solid
    <2>5. ASSUME NEW u \in Uids, u # v, Solid(u) PROVE Solid(u)'
      <3>1. u \notin Paths
        BY ConstantsAssumption
      <3>2. \A g \in table : g.uid = u /\ g.id \notin Spent => g \in table' /\ g.id \notin Spent'
        BY <1>1, <1>3, <1>6, <2>1, <2>5, <3>1 DEF Spent
      <3> QED BY <2>5, <3>2 DEF Solid
    <2> QED BY <2>4, <2>5
  <1>7. CASE /\ table' = table \/ (Ids \ Known # {} /\ table' = table \cup {NewRow})
             /\ Marks({}, {}, Copies, "commit")
             /\ scan'.work[InHandUid].outcome = "failure"
    <2>1. op'.ids = {} /\ op'.good = {}
      BY <1>7, MarksIs
    <2>2. Spent' \subseteq Spent /\ Spent' \subseteq Known
      BY <1>1, <1>5, <2>1 DEF Spent
    <2>3. table' # table => NewRow \in table' /\ NewRow.id \notin Spent'
      BY <1>4, <1>7, <2>2, NewIdIsNew
    <2>4. \A g \in table : g.id \notin Spent => g \in table' /\ g.id \notin Spent'
      BY <1>7, <2>2
    <2>5. table' # table => Solid(v)'
      BY <1>4, <2>3 DEF Solid
    <2>6. \A u \in Uids : Solid(u) => Solid(u)'
      BY <2>4 DEF Solid
    <2> QED BY <1>7, <2>1, <2>5, <2>6
  <1>8. \E g \in Generation : scan'.work = [scan.work EXCEPT ![InHandUid] = g] /\
            \/ /\ g.outcome = "success" /\ Ids \ Known # {} /\ table' = table \cup {NewRow}
               /\ Marks(OldIds(InHand, Aliases), Copies, {}, "commit")
            \/ /\ g.outcome = "failure"
               /\ table' = table \/ (Ids \ Known # {} /\ table' = table \cup {NewRow})
               /\ Marks({}, {}, Copies, "commit")
    BY CommitScan
  <1>9. \A g : scan'.work = [scan.work EXCEPT ![InHandUid] = g] => scan'.work[InHandUid] = g
    BY <1>2 DEF ScanTypes
  <1> QED BY <1>6, <1>7, <1>8, <1>9

\* Only the clean-up of an exclusion and the loss of the table take the last
\* solid row of a mail.
LEMMA SolidStays ==
  ASSUME MailInv, [Next]_vars, ~Recreate, ~Reconcile, NEW u \in Uids, Solid(u)
  PROVE  Solid(u)'
  <1> USE DEF MailInv, MailTypes
  <1>1. CASE Commit
    BY <1>1, CommitSolid
  <1>2. CASE CorruptMail
    <2>1. op = NoOp /\ UNCHANGED <<table, disk, mem>> /\ scan.item.p \in Paths
      BY <1>2 DEF CorruptMail, Phase, Marking, Returns, Item, store
    <2>2. op' = op \/ op'.ids = Legacy(scan.item.p)
      BY <1>2, MarksIs DEF CorruptMail, Fails
    <2> QED BY <2>1, <2>2, LegacySpares, SolidKept
  <1>3. CASE Copy
    <2>1. op = NoOp /\ UNCHANGED <<table, disk, mem>> /\ Item0.p \in Paths
      BY <1>3, ParsedItem DEF Copy, Parsed, Phase, Marking, store
    <2>2. op' = op \/ op'.ids = Legacy(Item0.p)
      BY <1>3, MarksIs DEF Copy, Fails
    <2> QED BY <2>1, <2>2, LegacySpares, SolidKept
  <1>4. CASE Choose
    <2>1. op = NoOp /\ UNCHANGED <<table, disk, mem>>
      BY <1>4 DEF Choose, Parsed, Phase, Marking, store
    <2>2. op' = op \/ \E item \in Item : op'.ids = Legacy(item.p)
      BY <1>4, ChooseIs, BeginScan, FailsScan, MarksIs
    <2>3. \A item \in Item : item.p \in Paths
      BY DEF Item
    <2>4. CASE op' = op
      BY <2>1, <2>4 DEF Solid, Spent
    <2> QED BY <2>1, <2>2, <2>3, <2>4, LegacySpares, SolidKept
  <1>5. CASE ~(Commit \/ CorruptMail \/ Copy \/ Choose)
    BY <1>5, SpentSteps, SolidKept
  <1> QED BY <1>1, <1>2, <1>3, <1>4, <1>5

-----------------------------------------------------------------------------
(* The promises.                                                              *)

\* A reconciliation, whether it goes on or ends the job.
LEMMA ReconcileState ==
  ASSUME MailTypes, Phase, Waiting, Reconcile
  PROVE  /\ op = NoOp /\ pc = "reconcile" /\ mem.pend \subseteq disk.pend
         /\ UNCHANGED <<table, excl, op, blank>>
         /\ \/ UNCHANGED disk /\ mem' \in {mem, NoState}
            \/ LET refs == Refs(Targets)
                   kept == Excluded(mem, refs)
               IN  disk' = kept /\ mem' \in {kept, NoState}
  <1>1. op = NoOp /\ pc = "reconcile" /\ mem.pend \subseteq disk.pend
    BY DEF Reconcile, Phase, Marking, Waiting
  <1>2. UNCHANGED <<table, excl, op, blank>>
    BY DEF Reconcile, settings
  <1>3. \/ UNCHANGED disk /\ mem' \in {mem, NoState}
        \/ LET refs == Refs(Targets)
               kept == Excluded(mem, refs)
           IN  disk' = kept /\ mem' \in {kept, NoState}
    BY ReconcileIs DEF AfterExclusion, Ended
  <1> QED BY <1>1, <1>2, <1>3

\* The saved queue loses only ids that have no row any more.
LEMMA QueueKeeps ==
  ASSUME MailInv, [Next]_vars, ~Recreate, NEW g \in table, g \in table', g.id \in disk.pend
  PROVE  g.id \in disk'.pend
  <1> USE DEF MailInv, MailTypes
  <1>0. disk \in State /\ mem \in State
    BY DEF StateTypes
  <1>1. CASE disk'.pend = disk.pend
    BY <1>1
  <1>2. CASE BeginCycle
    BY <1>0, <1>2, NoStateTyped, StateUpdates DEF BeginCycle
  <1>3. CASE pc # "idle" /\ disk'.pend = mem.pend
    BY <1>3 DEF Waiting
  <1>4. CASE Reconcile
    <2>1. CASE UNCHANGED disk
      BY <2>1
    <2>2. CASE disk' = Excluded(mem, Refs(Targets))
      <3>1. Refs(Targets) \in SUBSET Row
        BY DEF Refs, TableTypes
      <3>2. mem.pend \subseteq disk'.pend
        BY <1>0, <2>2, <3>1, ExcludedTyped
      <3> QED BY <1>4, <3>2 DEF Reconcile, Waiting
    <2> QED BY <1>4, <2>1, <2>2, ReconcileState
  <1>5. CASE QueueIds
    <2>1. mem'.pend = mem.pend \cup op.ids
      BY <1>0, <1>5, QueuedTyped DEF QueueIds, OpTypes
    <2> QED BY <1>1, <1>5, <2>1 DEF QueueIds, Waiting
  <1>6. CASE ClearIds
    <2>1. mem'.pend = mem.pend \ op.ids
      BY <1>0, <1>6, ForgottenTyped DEF ClearIds
    <2> QED BY <1>1, <1>6, <2>1 DEF ClearIds, Waiting
  <1>7. CASE ~Resets /\ ~Queues
    <2>1. mem'.pend = mem.pend /\ (disk'.pend = disk.pend \/ disk'.pend = mem'.pend)
      BY <1>7, QuietSteps
    <2>2. CASE pc # "idle"
      BY <1>1, <1>3, <2>1, <2>2
    <2>3. CASE pc = "idle"
      <3>1. ~Worker
        BY <1>7, <2>3 DEF Resets, Queues, Worker, Discover, Attempt, LoopEnds, ParseFails,
           CorruptMail, Copy, Choose, Parsed, Collide, After, MarkItems, Embed, Commit, Flushed, LastFlush,
           Finish
      <3>2. disk' = disk
        BY <1>7, <3>1 DEF Next, Resets, User, Edit, Delete, Unexclude, Cancel, BackoffExpires,
           SnapshotExpires, vars, store
      <3> QED BY <1>1, <3>2
    <2> QED BY <2>2, <2>3
  <1>8. CASE \/ RetryPending("retry", "retried", "reconcile") \/ RetryPending("scan", "scanned", "discover")
             \/ DropRows \/ DeleteExcluded \/ Crash \/ \E p \in Paths : Exclude(p) \/ RetryOne(p)
    <2>1. disk' = disk
      BY <1>8 DEF RetryPending, DropRows, DeleteExcluded, Crash, Restarted, Exclude, RetryOne, store
    <2> QED BY <1>1, <2>1
  <1>9. CASE SaveRetried("retried", "reconcile") \/ SaveRetried("scanned", "discover") \/ SaveExcluded \/ Finish
    <2>1. pc # "idle" /\ disk' \in {disk, mem}
      BY <1>9 DEF SaveRetried, SaveExcluded, Finish
    <2> QED BY <1>1, <1>3, <2>1
  <1> QED BY <1>1, <1>2, <1>3, <1>4, <1>5, <1>6, <1>7, <1>8, <1>9 DEF Resets, Queues

\* A mail that can be found could be found before, or has just been committed.
LEMMA FoundFrom ==
  ASSUME MailInv, [Next]_vars, ~Recreate, NEW u \in Uids, Found(u)' # {}
  PROVE  Found(u) # {} \/ (Commit /\ u = InHandUid /\ table' # table)
  <1>1. PICK g \in table' : g.uid = u /\ g.id \notin disk'.pend
    BY DEF Found, Doomed
  <1>2. CASE g \in table
    BY <1>1, <1>2, QueueKeeps DEF Found, Doomed
  <1>3. CASE g \notin table
    <2>1. Commit /\ g = NewRow /\ table' # table
      BY <1>1, <1>3, TableCases DEF MailInv
    <2> QED BY <1>1, <2>1 DEF NewRow
  <1> QED BY <1>2, <1>3

\* Whoever is cached was cached before, or is marked in this step.
LEMMA CachedFrom ==
  ASSUME MailInv, [Next]_vars, NEW p \in Paths, disk'.files[p] > 0 \/ mem'.files[p] > 0
  PROVE  \/ disk.files[p] > 0 \/ mem.files[p] > 0
         \/ MarkItems /\ \E i \in op.good : i.p = p
  <1> USE DEF MailInv, MailTypes
  <1>0. disk \in State /\ mem \in State /\ ~(NoState.files[p] > 0)
    BY NoStateTyped DEF StateTypes
  <1>1. CASE mem' \in {mem, disk, NoState} /\ disk' \in {disk, mem, mem'}
    BY <1>0, <1>1
  <1>2. CASE BeginCycle
    <2>1. [disk EXCEPT !.files = NoState.files].files = NoState.files
      BY <1>0 DEF State
    <2> QED BY <1>0, <1>2, <2>1 DEF BeginCycle
  <1>3. CASE RetryPending("retry", "retried", "reconcile") \/ RetryPending("scan", "scanned", "discover")
    BY <1>0, <1>3, ForgottenTyped DEF RetryPending
  <1>4. CASE Reconcile
    <2>1. Refs(Targets) \in SUBSET Row
      BY DEF Refs, TableTypes
    <2> QED BY <1>0, <1>4, <2>1, ExcludedTyped, ReconcileState
  <1>5. CASE DeleteExcluded
    BY <1>0, <1>5, ForgottenTyped DEF DeleteExcluded, AfterExclusion, Ended
  <1>6. CASE Discover
    BY <1>0, <1>6, DiscoverLists, CollectState DEF Discover, store
  <1>7. CASE Attempt
    BY <1>7, AttemptState
  <1>8. CASE After
    BY <1>8, AfterState
  <1>9. CASE QueueIds
    BY <1>0, <1>9, QueuedTyped DEF OpTypes, QueueIds
  <1>10. CASE ClearIds
    BY <1>0, <1>10, ForgottenTyped DEF ClearIds
  <1>11. CASE MarkItems
    BY <1>0, <1>11, SuccessTyped DEF OpTypes, MarkItems, store
  <1>12. ASSUME ~(\/ BeginCycle \/ RetryPending("retry", "retried", "reconcile")
                  \/ RetryPending("scan", "scanned", "discover") \/ Reconcile \/ DeleteExcluded
                  \/ Discover \/ Attempt \/ After \/ QueueIds \/ ClearIds \/ MarkItems)
         PROVE  mem' \in {mem, disk, NoState} /\ disk' \in {disk, mem, mem'}
    BY <1>12 DEF Next, Worker, User, Edit, Delete, Exclude, Unexclude, RetryOne, Cancel, Crash, Recreate,
       Restarted, BackoffExpires, SnapshotExpires, vars, settings, memory, store, Ended, AfterExclusion,
       SaveRetried, SaveExcluded, LoopEnds, ParseFails, CorruptMail, Copy, Choose, Collide, DropRows,
       Embed, Commit, Flushed, LastFlush, Finish
  <1> QED BY <1>1, <1>2, <1>3, <1>4, <1>5, <1>6, <1>7, <1>8, <1>9, <1>10, <1>11, <1>12

\* The cache is relied on only if it was before, or if it says nothing.
LEMMA ReliedFrom ==
  ASSUME MailInv, [Next]_vars, ~Recreate, Relied'
  PROVE  Relied \/ \A p \in Paths : ~(disk'.files[p] > 0) /\ ~(mem'.files[p] > 0)
  <1> USE DEF MailInv, MailTypes
  <1>0. disk \in State /\ mem \in State /\ \A p \in Paths : ~(NoState.files[p] > 0)
    BY NoStateTyped DEF StateTypes
  <1>1. CASE blank = None \/ table # {} \/ scan.job \in {"cycle", "single"}
    BY <1>1 DEF Relied
  <1>2. CASE /\ blank # None /\ table = {} /\ scan.job \notin {"cycle", "single"}
    <2>1. CASE BeginCycle
      <3>1. [disk EXCEPT !.files = NoState.files].files = NoState.files
        BY <1>0 DEF State
      <3> QED BY <1>0, <1>2, <2>1, <3>1 DEF BeginCycle
    <2>2. ASSUME NEW p \in Paths, RetryOne(p)
          PROVE  \A q \in Paths : ~(disk'.files[q] > 0) /\ ~(mem'.files[q] > 0)
      BY <1>0, <1>2, <2>2 DEF RetryOne, store
    <2>3. ASSUME ~BeginCycle, \A p \in Paths : ~RetryOne(p)
          PROVE  ~Relied'
      <3>1. pc \in Early
        BY <1>2 DEF Phase, Early, Excluding
      <3>2. table' = {}
        BY <1>2, <3>1, TableCases DEF Commit, Early, Excluding, Opening
      <3>3. scan'.job \notin {"cycle", "single"}
        <4>1. CASE ~Resets
          BY <1>2, <4>1, ScanJob
        <4>2. CASE \E p \in Paths : Exclude(p)
          BY <4>2 DEF Exclude, Start, NoScan
        <4>3. CASE Crash \/ Finish \/ (Reconcile /\ Ended) \/ (DeleteExcluded /\ Ended) \/ (SaveExcluded /\ Ended)
          <5>1. scan' = NoScan
            BY <4>3 DEF Crash, Restarted, Finish, Ended
          <5>2. NoScan.job = None
            BY DEF NoScan
          <5>3. None \notin {"cycle", "single"}
            BY NoneApart DEF Words
          <5> QED BY <5>1, <5>2, <5>3
        <4> QED BY <2>3, <4>1, <4>2, <4>3 DEF Resets
      <3>4. blank' # None
        <4>1. CASE Crash
          BY <1>2, <4>1, NoneApart DEF Crash, Words
        <4>2. blank' = blank \/ Crash
          BY <2>3, <3>1 DEF Next, Worker, User, Edit, Delete, Exclude, Unexclude, Cancel,
             BackoffExpires, SnapshotExpires, vars, settings, memory, store, Early, Excluding, Opening,
             RetryPending, SaveRetried, Reconcile, DeleteExcluded, SaveExcluded, Discover, Attempt,
             LoopEnds, ParseFails, CorruptMail, Copy, Choose, Collide, After, QueueIds, DropRows,
             ClearIds, MarkItems, Embed, Commit, Flushed, LastFlush, Finish
        <4> QED BY <1>2, <4>1, <4>2
      <3> QED BY <3>2, <3>3, <3>4 DEF Relied
    <2> QED BY <2>1, <2>2, <2>3
  <1> QED BY <1>1, <1>2

LEMMA FoundSolidStep ==
  ASSUME MailInv, [Next]_vars
  PROVE  FoundSolid'
  <1>1. SUFFICES ASSUME NEW u \in Uids, Found(u)' # {} PROVE Solid(u)'
    BY DEF FoundSolid
  <1>2. CASE Recreate
    BY <1>1, <1>2 DEF Recreate, Found
  <1>3. CASE Reconcile
    <2>1. op = NoOp /\ op' = op /\ table' = table /\ NoOp.ids = {} /\ NoState.pend = {}
      BY <1>3, ReconcileState DEF MailInv, MailTypes, NoOp, NoState
    <2>2. CASE UNCHANGED disk /\ mem' \in {mem, NoState}
      <3>1. Found(u) # {}
        BY <1>1, <2>1, <2>2 DEF Found, Doomed
      <3>2. Solid(u)
        BY <3>1 DEF MailInv, Promises, FoundSolid
      <3> QED BY <2>1, <2>2, <3>2 DEF Solid, Spent
    <2>3. CASE mem' \in {disk', NoState}
      BY <1>1, <2>1, <2>3 DEF Found, Doomed, Solid, Spent
    <2> QED BY <1>3, <2>2, <2>3, ReconcileState DEF MailInv
  <1>4. CASE ~Recreate /\ ~Reconcile
    <2>1. CASE Found(u) # {}
      BY <1>4, <2>1, SolidStays DEF MailInv, Promises, FoundSolid
    <2>2. CASE Commit /\ u = InHandUid /\ table' # table
      BY <2>2, CommitSolid DEF MailInv
    <2> QED BY <1>1, <1>4, <2>1, <2>2, FoundFrom
  <1> QED BY <1>2, <1>3, <1>4

LEMMA ClaimsStep ==
  ASSUME MailInv, [Next]_vars
  PROVE  Claims'
  <1> USE DEF MailInv, MailTypes
  <1>1. SUFFICES ASSUME Relied', NEW p \in Paths, disk'.files[p] > 0 \/ mem'.files[p] > 0
                 PROVE  Solid(Uid[p])'
    BY DEF Claims
  <1>2. Uid[p] \in Uids
    BY UidOf
  <1>3. ~Recreate
    <2>1. ASSUME Recreate PROVE ~Relied'
      <3>1. scan' = NoScan /\ blank' = "recreated" /\ table' = {}
        BY <2>1 DEF Recreate, Restarted
      <3>2. NoScan.job = None
        BY DEF NoScan
      <3>3. None \notin {"cycle", "single", "recreated"}
        BY NoneApart DEF Words
      <3> QED BY <3>1, <3>2, <3>3 DEF Relied
    <2> QED BY <1>1, <2>1
  <1>4. Relied
    BY <1>1, <1>3, ReliedFrom
  <1>5. CASE ~Reconcile
    <2>1. \/ disk.files[p] > 0 \/ mem.files[p] > 0
          \/ MarkItems /\ \E i \in op.good : i.p = p
      BY <1>1, CachedFrom
    <2>2. Solid(Uid[p])
      BY <1>4, <2>1 DEF Promises, Claims, Settles
    <2> QED BY <1>2, <1>3, <1>5, <2>2, SolidStays
  <1>6. CASE Reconcile
    <2>0. disk \in State /\ mem \in State /\ NoState.pend = {} /\ NoOp.ids = {}
          /\ ~(NoState.files[p] > 0)
      BY NoStateTyped DEF StateTypes, NoOp
    <2>1. op = NoOp /\ op' = op /\ table' = table
      BY <1>6, ReconcileState
    <2>2. CASE UNCHANGED disk /\ mem' \in {mem, NoState}
      <3>1. Solid(Uid[p])
        BY <1>1, <1>4, <2>0, <2>2 DEF Promises, Claims
      <3> QED BY <2>0, <2>1, <2>2, <3>1 DEF Solid, Spent
    <2> DEFINE refs == Refs(Targets)
               kept == Excluded(mem, refs)
    <2>3. CASE disk' = kept /\ mem' \in {kept, NoState}
      <3>1. refs \in SUBSET Row /\ refs \subseteq table
        BY DEF Refs, TableTypes
      <3>2. /\ kept.pend = mem.pend \cup {g.id : g \in refs}
            /\ kept.files[p] > 0 => mem.files[p] > 0 /\ \A g \in refs : g.uid # Uid[p]
        BY <2>0, <3>1, ExcludedTyped
      <3>3. kept.files[p] > 0
        BY <1>1, <2>0, <2>3
      <3>4. Solid(Uid[p])
        BY <1>4, <3>2, <3>3 DEF Promises, Claims
      <3> HIDE DEF kept, refs
      <3>5. PICK g \in table : g.uid = Uid[p] /\ g.id \notin Spent
        BY <3>4 DEF Solid
      <3>6. g.id \notin {h.id : h \in refs}
        BY <3>1, <3>2, <3>3, <3>5 DEF TableTypes
      <3>7. g.id \notin Spent'
        BY <2>0, <2>1, <2>3, <3>2, <3>5, <3>6 DEF Spent
      <3> QED BY <2>1, <3>5, <3>7 DEF Solid
    <2> QED BY <1>6, <2>2, <2>3, ReconcileState
  <1> QED BY <1>5, <1>6

\* The mail of a path in hand, when the table has a row of it that counts.
LEMMA CurrentSolid ==
  ASSUME MailInv, pc \notin Marking \cup {"idle"}, NEW u \in Uids, Current(u) # {}
  PROVE  Solid(u)
  <1>1. PICK g \in table : g.uid = u /\ g.id \notin mem.pend
    BY DEF Current
  <1>2. g.id \notin disk.pend /\ op.ids = {}
    BY <1>1 DEF MailInv, Waiting, Phase, NoOp
  <1> QED BY <1>1, <1>2 DEF Solid, Spent

LEMMA SettlesStep ==
  ASSUME MailInv, [Next]_vars
  PROVE  Settles'
  <1> USE DEF MailInv, MailTypes
  <1>1. CASE Resets
    <2>1. \A u \in Uids : scan'.work[u] = None /\ ~(scan'.shadow[u] > 0)
      BY <1>1, ResetScan DEF Blank
    <2>2. pc' \notin Marking
      BY <1>1, ResetScan DEF Marking
    <2>3. op' = NoOp
      BY <2>2, OpTypesStep
    <2> QED BY <2>1, <2>3 DEF Settles, NoOp
  <1>2. CASE Reconcile /\ ~Resets
    <2>1. \A u \in Uids : scan'.work[u] = None /\ ~(scan'.shadow[u] > 0)
      <3>1. Light
        BY <1>2 DEF Light, Resets
      <3>2. pc \in Excluding
        BY <1>2 DEF Reconcile, Excluding
      <3>3. scan'.work = scan.work /\ scan'.shadow = scan.shadow
        BY <3>1, LightScan
      <3>4. ~(0 > 0)
        OBVIOUS
      <3> QED BY <3>2, <3>3, <3>4 DEF Untouched
    <2>2. op' = NoOp
      BY <1>2, ReconcileState
    <2> QED BY <2>1, <2>2 DEF Settles, NoOp
  <1>3. CASE ~Resets /\ ~Reconcile
    <2>0. ~Recreate
      BY <1>3 DEF Resets
    <2>1. \A u \in Uids : Solid(u) => Solid(u)'
      BY <1>3, <2>0, SolidStays
    <2>2. \A i \in Item : Uid[i.p] \in Uids
      BY UidOf DEF Item
    \* What was settled stays so, and nothing else is marked.
    <2>3. ASSUME \A u \in Uids : scan'.work[u] # None /\ scan'.work[u].outcome = "success"
                    => scan.work[u] # None /\ scan.work[u].outcome = "success"
          PROVE  \A u \in Uids : scan'.work[u] # None /\ scan'.work[u].outcome = "success" => Solid(u)'
      BY <2>1, <2>3 DEF Promises, Settles
    <2>4. ASSUME op'.good \subseteq op.good
          PROVE  \A i \in op'.good : Solid(Uid[i.p])'
      BY <2>1, <2>2, <2>4 DEF Promises, Settles, OpTypes
    <2>5. ASSUME scan'.shadow = scan.shadow
          PROVE  \A u \in Uids : scan'.shadow[u] > 0 => Solid(u)'
      BY <2>1, <2>5 DEF Promises, Settles
    <2>6. CASE Discover
      <3>1. scan'.work = scan.work /\ op' = op
        BY <2>6, DiscoverScan DEF Discover
      <3>2. \A u \in Uids : scan'.shadow[u] > 0 => \E p \in Paths : Uid[p] = u /\ mem.files[p] > 0
        BY <2>6, DiscoverScan
      <3>3. Relied
        BY <2>6 DEF Relied, Discover, Phase, Excluding
      <3>4. \A u \in Uids : scan'.shadow[u] > 0 => Solid(u)'
        BY <2>1, <3>2, <3>3 DEF Promises, Claims
      <3> QED BY <2>3, <2>4, <3>1, <3>4 DEF Settles
    <2>7. CASE Copy
      <3> DEFINE u == Uid[Item0.p]
      <3>1. /\ Item0 \in Item /\ Item0.t > 0 /\ u \in Uids /\ pc = "parse" /\ Item0.p = scan.item.p
        BY <2>7, ParsedItem, UidOf DEF Copy, Parsed
      <3>2. scan'.shadow = scan.shadow
        BY <2>7, CopyScan
      <3>3. scan'.work = scan.work
            \/ (scan.work[u] # None /\ \E g \in Generation : /\ scan'.work = [scan.work EXCEPT ![u] = g]
                                                             /\ g.outcome = scan.work[u].outcome)
        BY <2>7, CopyScan
      <3>4. \A v \in Uids : scan'.work[v] # None /\ scan'.work[v].outcome = "success"
                    => scan.work[v] # None /\ scan.work[v].outcome = "success"
        BY <3>1, <3>3 DEF ScanTypes
      <3>5. \A i \in op'.good : Solid(Uid[i.p])'
        <4>1. CASE UNCHANGED op
          BY <2>4, <4>1
        <4>2. CASE /\ Marks(Legacy(Item0.p), {Item0}, {}, "after")
                   /\ (IF Work = None THEN "success" ELSE Work.outcome) = "success"
                   /\ IF Work = None THEN Item0.t <= scan.shadow[u] ELSE TRUE
          <5>1. op'.good = {Item0}
            BY <4>2, MarksIs
          <5>2. Work = scan.work[u]
            BY <3>1 DEF Work
          <5>3. Work = None => scan.shadow[u] > 0
            <6>1. scan.shadow[u] \in Nat /\ Item0.t \in Nat
              BY <3>1, ConstantsAssumption DEF ScanTypes, Item, Times
            <6> QED BY <3>1, <4>2, <6>1
          <5>4. Solid(u)
            BY <3>1, <4>2, <5>2, <5>3 DEF Promises, Settles
          <5>5. PICK v \in Uids : v = u
            BY <3>1
          <5>6. Solid(v)'
            BY <2>1, <5>4, <5>5
          <5>7. \A i \in op'.good : Uid[i.p] = v
            BY <5>1, <5>5
          <5> QED BY <5>6, <5>7
        <4>3. \/ UNCHANGED op
              \/ /\ Marks(Legacy(Item0.p), {Item0}, {}, "after")
                 /\ (IF Work = None THEN "success" ELSE Work.outcome) = "success"
                 /\ IF Work = None THEN Item0.t <= scan.shadow[u] ELSE TRUE
          BY <2>7 DEF Copy, Fails
        <4> QED BY <4>1, <4>2, <4>3
      <3> QED BY <2>3, <2>5, <3>2, <3>4, <3>5 DEF Settles
    <2>8. CASE Choose
      <3>1. ASSUME NEW item \in Item, item.body \in Bodies, Begin(item)
            PROVE  Settles'
        <4> DEFINE u == Uid[item.p]
        <4>1. u \in Uids /\ scan'.shadow = scan.shadow
          BY <2>2, <3>1, BeginScan
        <4>2. PICK g \in Generation \cup {None} :
                 /\ scan'.work = [scan.work EXCEPT ![u] = g]
                 /\ \/ UNCHANGED op /\ (g # None => g.outcome # "success")
                    \/ Current(u) # {} /\ op'.good = {item}
          BY <3>1, BeginScan, MarksIs
        <4>3. \A v \in Uids : scan'.work[v] = IF v = u THEN g ELSE scan.work[v]
          BY <4>2 DEF ScanTypes
        <4>4. CASE UNCHANGED op /\ (g # None => g.outcome # "success")
          BY <2>3, <2>4, <2>5, <4>1, <4>3, <4>4 DEF Settles
        <4>5. CASE Current(u) # {} /\ op'.good = {item}
          <5>1. pc \notin Marking \cup {"idle"}
            BY <2>8 DEF Choose, Parsed, Marking
          <5>2. Solid(u)
            BY <4>1, <4>5, <5>1, CurrentSolid
          <5>3. \A v \in Uids : scan'.work[v] # None /\ scan'.work[v].outcome = "success" => Solid(v)'
            BY <2>1, <4>1, <4>3, <5>2 DEF Promises, Settles
          <5>4. \A i \in op'.good : Solid(Uid[i.p])'
            BY <2>1, <4>1, <4>5, <5>2
          <5> QED BY <2>5, <4>1, <5>3, <5>4 DEF Settles
        <4> QED BY <4>2, <4>4, <4>5
      <3>2. CASE Fails(scan.item, scan)
        BY <2>3, <2>4, <2>5, <3>2, FailsScan DEF Settles
      <3> QED BY <2>8, <3>1, <3>2, ChooseIs
    <2>9. CASE Commit
      <3>1. pc = "commit" /\ scan.win # << >> /\ scan'.shadow = scan.shadow
        BY <2>9, CommitScan
      <3>2. PICK v \in Uids : v = InHandUid
        BY <3>1, HandIs
      <3>3. \A u \in Uids : u # v => scan'.work[u] = scan.work[u]
        BY <2>9, <3>2, CommitScan DEF ScanTypes
      <3>4. \A u \in Uids : scan'.work[u] # None /\ scan'.work[u].outcome = "success" => Solid(u)'
        BY <2>1, <2>9, <3>2, <3>3, CommitSolid DEF Promises, Settles
      <3>5. op'.good \subseteq Copies
        <4>1. Marks(OldIds(InHand, Aliases), Copies, {}, "commit") \/ Marks({}, {}, Copies, "commit")
          BY <2>9, CommitScan
        <4> QED BY <4>1, MarksIs
      <3>6. \A i \in op'.good : Uid[i.p] = v
        BY <3>1, <3>2, <3>5, OldIdsKnown
      <3>7. op'.good # {} => Solid(v)'
        BY <2>9, <3>2, CommitSolid
      <3> QED BY <2>5, <3>1, <3>4, <3>6, <3>7 DEF Settles
    <2>10. CASE ~(Discover \/ Copy \/ Choose \/ Commit)
      <3>1. scan'.work = scan.work /\ scan'.shadow = scan.shadow
        BY <1>3, <2>10, ScanCases, LightScan
      <3>2. op'.good \subseteq op.good
        <4>1. CASE CorruptMail
          BY <4>1, MarksIs DEF CorruptMail, Fails
        <4>2. CASE MarkItems
          BY <4>2 DEF MarkItems, NoOp
        <4>3. CASE ~(CorruptMail \/ MarkItems)
          BY <1>3, <2>10, <4>3 DEF Resets, Next, Worker, User, Edit, Delete, Unexclude, Cancel,
             BackoffExpires, SnapshotExpires, vars, Fails, RetryPending, SaveRetried, DeleteExcluded,
             SaveExcluded, Attempt, LoopEnds, ParseFails, Collide, After, QueueIds, DropRows, ClearIds,
             Embed, Flushed, LastFlush
        <4> QED BY <4>1, <4>2, <4>3
      <3> QED BY <2>3, <2>4, <2>5, <3>1, <3>2 DEF Settles
    <2> QED BY <2>6, <2>7, <2>8, <2>9, <2>10
  <1> QED BY <1>1, <1>2, <1>3

-----------------------------------------------------------------------------
(* The theorems.                                                              *)

LEMMA MailInit ==
  ASSUME Init
  PROVE  MailInv
  <1> USE DEF Init
  <1>1. NoState \in State /\ NoState.pend = {} /\ \A p \in Paths : ~(NoState.files[p] > 0)
    BY NoStateTyped
  <1>2. FileTypes
    BY ConstantsAssumption DEF FileTypes, Times
  <1>3. TableTypes
    <2>1. \A p \in Paths : Rank[p] \in Ids /\ First[p].t \in Times
      BY ConstantsAssumption DEF Times
    <2>2. table \subseteq Row
      BY <2>1, ConstantsAssumption DEF Row
    <2>3. \A g, h \in table : g.id = h.id => g = h
      BY ConstantsAssumption
    <2> QED BY <2>2, <2>3 DEF TableTypes
  <1>4. /\ Blank(scan) /\ scan.todo = << >> /\ scan.job = None
    BY DEF NoScan, Blank, Fields
  <1>5. ScanTypes
    <2>1. << >> \in Seq(Entry) /\ << >> \in Seq(Item)
      OBVIOUS
    <2>2. [u \in Uids |-> None] \in [Uids -> Generation \cup {None}]
      OBVIOUS
    <2>3. [u \in Uids |-> 0] \in [Uids -> Times]
      BY ConstantsAssumption DEF Times
    <2> QED BY <1>4, <2>1, <2>2, <2>3 DEF Blank, ScanTypes
  <1>6. OpTypes /\ op.good = {} /\ op.ids = {} /\ op.back = None
    BY DEF OpTypes, NoOp
  <1>7. StateTypes
    BY <1>1 DEF StateTypes
  <1>8. None \notin {"policy", "single", "again"}
    BY NoneApart DEF Words, Running
  <1>9. Phase /\ Untouched
    BY <1>4, <1>8 DEF Phase, Untouched, Blank, Excluding
  <1>10. Returns
    BY <1>4, <1>6, <1>8 DEF Returns, Blank
  <1>11. WindowOpen /\ IdsKnown
    <2>1. scan.win = << >> /\ DOMAIN << >> = {} /\ \A u \in Uids : scan.work[u] = None
      BY <1>4 DEF Blank
    <2> QED BY <2>1, NoneApart DEF WindowOpen, IdsKnown
  <1>12. Waiting
    BY DEF Waiting
  <1>13. Promises
    <2>1. FoundSolid
      BY <1>1, <1>6 DEF FoundSolid, Found, Doomed, Solid, Spent
    <2>2. Claims
      BY <1>1 DEF Claims
    <2>3. Settles
      <3>1. \A u \in Uids : scan.work[u] = None /\ scan.shadow[u] = 0
        BY <1>4 DEF Blank
      <3> QED BY <1>6, <3>1 DEF Settles
    <2> QED BY <2>1, <2>2, <2>3 DEF Promises
  <1> QED BY <1>2, <1>3, <1>5, <1>6, <1>7, <1>9, <1>10, <1>11, <1>12, <1>13 DEF MailInv, MailTypes

LEMMA MailStep ==
  ASSUME MailInv, [Next]_vars
  PROVE  MailInv'
  <1>1. FileTypes' /\ TableTypes' /\ StateTypes' /\ ScanTypes' /\ OpTypes'
    BY FileTypesStep, TableTypesStep, StateTypesStep, ScanTypesStep, OpTypesStep DEF MailInv
  <1>2. Phase' /\ Untouched' /\ Returns'
    BY PhaseStep, UntouchedStep, ReturnsStep DEF MailInv
  <1>3. WindowOpen' /\ IdsKnown' /\ Waiting'
    BY WindowOpenStep, IdsKnownStep, WaitingStep DEF MailInv
  <1>4. FoundSolid' /\ Claims' /\ Settles'
    BY FoundSolidStep, ClaimsStep, SettlesStep
  <1> QED BY <1>1, <1>2, <1>3, <1>4 DEF MailInv, MailTypes, Promises

LEMMA MailInductive == Spec => []MailInv
  <1> QED BY MailInit, MailStep, PTL DEF Spec

\* What the saved cache lets a scan skip can be found: whatever files are
\* copies of one mail, whichever writes fail and wherever the process is
\* killed, a cached mail has a row that the saved queue does not name
\* (cache_success, delete_captured_ids, reconcile_mail_exclusions).
THEOREM CacheIsHonest == Spec => []CachedIsSearchable
  <1>1. MailInv => CachedIsSearchable
    <2> SUFFICES ASSUME MailInv, blank = None, NEW p \in Paths, disk.files[p] > 0
                 PROVE  Found(Uid[p]) # {}
      BY DEF CachedIsSearchable
    <2>1. Solid(Uid[p])
      BY DEF MailInv, Promises, Claims, Relied
    <2> QED BY <2>1 DEF Solid, Spent, Found, Doomed
  <1> QED BY <1>1, MailInductive, PTL

\* A mail that can be found is not lost by replacing its content, by settling
\* copies of it, by a retry of deletions or by a crash in between: its last row
\* goes only with the table, or because every row of it came from excluded
\* files (flush_window, delete_captured_ids, reconcile_mail_exclusions).
THEOREM MailsAreKept == Spec => FoundStaysFound
  <1>1. ASSUME MailInv, [Next]_vars, NEW u \in Uids, Found(u) # {}, Found(u)' = {}
        PROVE  table' = {} \/ \A g \in Found(u) : g.src \in excl
    <2>1. CASE Recreate
      BY <2>1 DEF Recreate
    <2>2. CASE Reconcile
      <3>1. table' = table /\ mem.pend \subseteq disk.pend
        BY <1>1, <2>2, ReconcileState DEF MailInv
      <3>2. CASE UNCHANGED disk
        BY <1>1, <3>1, <3>2 DEF Found, Doomed
      <3> DEFINE refs == Refs(Targets)
      <3>3. CASE disk' = Excluded(mem, refs)
        <4>1. refs \in SUBSET Row /\ refs \subseteq table
          BY <1>1 DEF Refs, MailInv, MailTypes, TableTypes
        <4>2. disk'.pend = mem.pend \cup {g.id : g \in refs}
          BY <1>1, <3>3, <4>1, ExcludedTyped DEF MailInv, MailTypes, StateTypes
        <4>3. ASSUME NEW g \in Found(u) PROVE g.src \in excl
          <5>1. g \in table /\ g.id \notin disk.pend /\ g.id \in disk'.pend
            BY <1>1, <3>1, <4>3 DEF Found, Doomed
          <5>2. PICK h \in refs : h.id = g.id
            BY <3>1, <4>2, <5>1
          <5>3. g \in refs
            BY <1>1, <4>1, <5>1, <5>2 DEF MailInv, MailTypes, TableTypes
          <5> QED BY <5>3 DEF Refs, Targets
        <4> QED BY <4>3
      <3> QED BY <1>1, <2>2, <3>2, <3>3, ReconcileState DEF MailInv
    <2>3. CASE ~Recreate /\ ~Reconcile
      <3>1. Solid(u)'
        BY <1>1, <2>3, SolidStays DEF MailInv, Promises, FoundSolid
      <3> QED BY <1>1, <3>1 DEF Solid, Spent, Found, Doomed
    <2> QED BY <2>1, <2>2, <2>3
  <1>2. ASSUME MailInv, [Next]_vars
        PROVE  [\A u \in Uids : Found(u) # {} /\ Found(u)' = {}
                  => table' = {} \/ \A g \in Found(u) : g.src \in excl]_vars
    BY <1>1, <1>2
  <1> QED BY <1>2, MailInductive, PTL DEF Spec, FoundStaysFound
=============================================================================
