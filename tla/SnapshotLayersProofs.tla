------------------------- MODULE SnapshotLayersProofs -------------------------
(***************************************************************************)
(* Proofs about SnapshotLayers, for any workspace, any number of           *)
(* snapshots and any number of tasks, edits and faults that interleave.    *)
(* What a task carries across its awaits is worth something only while the *)
(* revision it started from is current; from that it follows that the      *)
(* snapshots form one chain, that the index is what the newest one         *)
(* recorded, and that every snapshot can be read back through its parents. *)
(***************************************************************************)
EXTENDS SnapshotLayers, FiniteSetTheorems, WellFoundedInduction, TLAPS

-----------------------------------------------------------------------------
(* Extremes and induction: a set of numbers that is not empty has a least  *)
(* element.                                                                *)

LEMMA LeastNumber ==
  ASSUME NEW S \in SUBSET Nat, S # {}
  PROVE  \E n \in S : \A k \in S : n <= k
  <1>1. PICK n \in S : \A k \in S : <<k, n>> \notin OpToRel(<, Nat)
    <2>1. IsWellFoundedOn(OpToRel(<, Nat), Nat)
      BY NatLessThanWellFounded
    <2> QED BY <2>1, WFMin
  <1>2. \A k \in S : ~(k < n)
    BY <1>1 DEF OpToRel
  <1> QED BY <1>2

(* The order of revisions of a set of snapshots.                           *)
Ordered(S) ==
  \A s, t \in S : layer[s].revision = layer[t].revision => s = t

LEMMA OldestExists ==
  ASSUME layer \in [Ids -> Layers], NEW S \in SUBSET Ids, S # {}, Ordered(S)
  PROVE  \E s \in S : \A t \in S \ {s} : OlderThan(s, t)
  <1>1. \A s \in S : layer[s].revision \in Nat
    BY DEF Layers
  <1> DEFINE R == {layer[s].revision : s \in S}
  <1>2. PICK n \in R : \A k \in R : n <= k
    <2>1. R \in SUBSET Nat /\ R # {}
      BY <1>1
    <2> HIDE DEF R
    <2> QED BY <2>1, LeastNumber
  <1>3. PICK s \in S : n = layer[s].revision
    BY <1>2
  <1>4. \A t \in S : layer[s].revision <= layer[t].revision
    BY <1>2, <1>3
  <1> QED BY <1>1, <1>4 DEF Ordered, OlderThan

LEMMA NewestExists ==
  ASSUME layer \in [Ids -> Layers], NEW S \in SUBSET Ids, S # {}, Ordered(S),
         NEW n \in Nat, \A s \in S : layer[s].revision <= n
  PROVE  /\ Newest(S) \in S
         /\ \A t \in S \ {Newest(S)} : OlderThan(t, Newest(S))
  <1>1. \A s \in S : layer[s].revision \in Nat /\ n - layer[s].revision \in Nat
    BY DEF Layers
  <1> DEFINE R == {n - layer[s].revision : s \in S}
  <1>2. PICK d \in R : \A k \in R : d <= k
    <2>1. R \in SUBSET Nat /\ R # {}
      BY <1>1
    <2> HIDE DEF R
    <2> QED BY <2>1, LeastNumber
  <1>3. PICK s \in S : d = n - layer[s].revision
    BY <1>2
  <1>4. \A t \in S : n - layer[s].revision <= n - layer[t].revision
    BY <1>2, <1>3
  <1>5. \A t \in S \ {s} : OlderThan(t, s)
    BY <1>1, <1>4 DEF Ordered, OlderThan
  <1>6. Newest(S) = CHOOSE r \in S : \A t \in S \ {r} : OlderThan(t, r)
    BY DEF Newest
  <1> QED BY <1>5, <1>6

-----------------------------------------------------------------------------
(* Supplier: the walk from a snapshot through its parents ends.            *)

ParentsOlder == \A s \in Ids : layer[s].parent < s

(* Layers that supply a file, as the walk finds them.                      *)
Walk(f, p, n) ==
  f = [t \in 0..n |-> IF t = 0 THEN 0
                      ELSE IF layer[t].files[p] # Same THEN t
                      ELSE f[layer[t].parent]]

FirstLayers(p) ==
  CHOOSE f : f = [t \in 0..MaxSnapshots |->
                    IF t = 0 THEN 0
                    ELSE IF layer[t].files[p] # Same THEN t
                    ELSE f[layer[t].parent]]

LEMMA WalkExists ==
  ASSUME layer \in [Ids -> Layers], ParentsOlder, NEW p \in Tracked,
         NEW n \in 0..MaxSnapshots
  PROVE  \E f \in [0..n -> 0..MaxSnapshots] : Walk(f, p, n)
  <1> DEFINE Fails == {k \in 0..MaxSnapshots :
                         ~\E f \in [0..k -> 0..MaxSnapshots] : Walk(f, p, k)}
  <1>0. MaxSnapshots \in Nat
    BY SnapshotLayersAssumption
  <1>1. ASSUME Fails # {} PROVE FALSE
    <2>1. PICK k \in Fails : \A j \in Fails : k <= j
      <3>1. Fails \in SUBSET Nat
        BY <1>0
      <3> HIDE DEF Fails
      <3> QED BY <1>1, <3>1, LeastNumber
    <2>2. CASE k = 0
      <3> DEFINE f == [t \in 0..0 |-> 0]
      <3>1. f \in [0..0 -> 0..MaxSnapshots]
        BY <1>0
      <3>2. Walk(f, p, 0)
        BY DEF Walk
      <3> QED BY <2>1, <2>2, <3>1, <3>2
    <2>3. CASE k # 0
      <3>1. k \in Ids /\ k - 1 \in 0..MaxSnapshots /\ k - 1 \notin Fails
        BY <1>0, <2>1, <2>3 DEF Ids
      <3>2. PICK f \in [0..(k-1) -> 0..MaxSnapshots] : Walk(f, p, k - 1)
        BY <3>1
      <3>3. layer[k].parent \in 0..(k-1)
        BY <1>0, <3>1 DEF ParentsOlder, Layers, Ids
      <3>4. \A t \in 1..k : layer[t].parent \in 0..(k-1)
        BY <1>0, <3>1 DEF ParentsOlder, Layers, Ids
      <3> DEFINE last == IF layer[k].files[p] # Same THEN k ELSE f[layer[k].parent]
                 g == [t \in 0..k |-> IF t = k THEN last ELSE f[t]]
      <3>5. last \in 0..MaxSnapshots
        BY <1>0, <3>1, <3>3 DEF Ids
      <3>6. g \in [0..k -> 0..MaxSnapshots]
        BY <3>1, <3>5 DEF Ids
      <3>7. \A t \in 0..(k-1) : t \in 0..k /\ t # k /\ g[t] = f[t]
        BY <3>1 DEF Ids
      <3>8. ASSUME NEW t \in 0..k
            PROVE  g[t] = IF t = 0 THEN 0
                          ELSE IF layer[t].files[p] # Same THEN t
                          ELSE g[layer[t].parent]
        <4>1. t # 0 => g[layer[t].parent] = f[layer[t].parent]
          BY <3>1, <3>4, <3>7 DEF Ids
        <4>2. CASE t = k
          BY <2>3, <4>1, <4>2
        <4>3. CASE t # k
          <5>1. t \in 0..(k-1)
            BY <3>1, <4>3 DEF Ids
          <5>2. f[t] = IF t = 0 THEN 0
                       ELSE IF layer[t].files[p] # Same THEN t
                       ELSE f[layer[t].parent]
            BY <3>2, <5>1 DEF Walk
          <5> QED BY <3>7, <4>1, <5>1, <5>2
        <4> QED BY <4>2, <4>3
      <3>9. Walk(g, p, k)
        <4> HIDE DEF last
        <4>1. g = [t \in 0..k |-> g[t]]
          OBVIOUS
        <4> HIDE DEF g
        <4> QED BY <3>8, <4>1 DEF Walk
      <3> HIDE DEF g
      <3> QED BY <2>1, <3>6, <3>9
    <2> QED BY <2>2, <2>3
  <1> QED BY <1>1

(* What Supplier finds is the first layer that says something of the file, *)
(* on the way through the parents; 0 when there is none.                   *)
LEMMA SupplierWalks ==
  ASSUME layer \in [Ids -> Layers], ParentsOlder, NEW p \in Tracked
  PROVE  /\ \A s \in Ids :
              Supplier(s, p) = IF layer[s].files[p] # Same THEN s
                               ELSE IF layer[s].parent = 0 THEN 0
                               ELSE Supplier(layer[s].parent, p)
         /\ \A s \in Ids : Supplier(s, p) \in 0..MaxSnapshots
  <1>0. MaxSnapshots \in Nat
    BY SnapshotLayersAssumption
  <1>1. PICK f : Walk(f, p, MaxSnapshots)
    BY <1>0, WalkExists
  <1> DEFINE first == FirstLayers(p)
  <1>2. Walk(first, p, MaxSnapshots)
    <2>1. \E h : h = [t \in 0..MaxSnapshots |->
                       IF t = 0 THEN 0
                       ELSE IF layer[t].files[p] # Same THEN t
                       ELSE h[layer[t].parent]]
      BY <1>1 DEF Walk
    <2> QED BY <2>1 DEF FirstLayers, Walk
  <1>3. \A s \in 0..MaxSnapshots :
          first[s] = IF s = 0 THEN 0
                     ELSE IF layer[s].files[p] # Same THEN s
                     ELSE first[layer[s].parent]
    <2> HIDE DEF first
    <2> QED BY <1>2 DEF Walk
  <1>4. \A s : Supplier(s, p) = first[s]
    BY DEF Supplier, FirstLayers
  <1> HIDE DEF first
  <1>5. \A s \in Ids : s # 0 /\ s \in Nat /\ layer[s].parent \in 0..MaxSnapshots
                     /\ s \in 0..MaxSnapshots /\ layer[s].parent < s
    BY <1>0 DEF Ids, Layers, ParentsOlder
  <1>6. \A s \in Ids :
          first[s] = IF layer[s].files[p] # Same THEN s
                     ELSE IF layer[s].parent = 0 THEN 0
                     ELSE first[layer[s].parent]
    BY <1>0, <1>3, <1>5
  <1> DEFINE Fails == {s \in Ids : first[s] \notin 0..MaxSnapshots}
  <1>7. ASSUME Fails # {} PROVE FALSE
    <2>1. PICK k \in Fails : \A j \in Fails : k <= j
      <3>1. Fails \in SUBSET Nat
        BY <1>5
      <3> HIDE DEF Fails
      <3> QED BY <1>7, <3>1, LeastNumber
    <2>2. CASE layer[k].parent = 0
      BY <1>0, <1>5, <1>6, <2>1, <2>2
    <2>3. CASE layer[k].parent # 0
      <3>1. layer[k].parent \in Ids /\ layer[k].parent \notin Fails
        BY <1>0, <1>5, <2>1, <2>3 DEF Ids
      <3> QED BY <1>5, <1>6, <2>1, <2>3, <3>1
    <2> QED BY <2>2, <2>3
  <1> QED BY <1>4, <1>6, <1>7

-----------------------------------------------------------------------------
(* The inductive invariant.                                                *)

(* The newest snapshot has the current revision and recorded what the      *)
(* index holds.                                                            *)
CommittedInv ==
  /\ Listed = {} => revision = 0 /\ index = NothingSeen
  /\ Listed # {} => \E s \in Listed : layer[s].revision = revision
  /\ \A s \in Listed : layer[s].revision = revision => index = recorded[s]

LayerInv ==
  /\ \A s \in Ids \ Listed : layer[s] = NoLayer
  /\ \A s \in Listed : /\ s <= made
                       /\ layer[s].revision \in 1..revision
                       /\ layer[s].parent < s
                       /\ layer[s].anchored # Gone => layer[s].source # 0

(* A capture that is still current saw the difference to the index, and    *)
(* has the newest snapshot for a parent.                                   *)
CaptureOk(t) ==
  LET x == capture[t]
  IN /\ x.base <= revision
     /\ x.pc # "copied" => x.id = 0
     /\ x.pc \in {"scanned", "hashed", "copied"} /\ x.base = revision =>
          x.files = Dirty(x.view)
     /\ x.pc \in {"hashed", "copied"} =>
          /\ x.parent <= made
          /\ x.base = revision =>
               IF Listed = {} THEN x.parent = 0
               ELSE x.parent \in Listed /\ layer[x.parent].revision = revision
     /\ x.pc = "copied" =>
          /\ x.id \in 1..made /\ x.id \notin Listed
          /\ x.parent < x.id
          /\ \A u \in Tasks : capture[u].id = x.id => u = t
          /\ manifest[x.id] = "none" => {x.id} \X Paths \subseteq harmed
          /\ \A p \in Tracked :
               x.files[p] # Same =>
                 blob[x.id][p] = x.files[p] \/ <<x.id, p>> \in harmed

CaptureInv == \A t \in Tasks : CaptureOk(t)

(* A compaction never removes the newest snapshot, nor a parent before its *)
(* child.                                                                  *)
RemovingInv ==
  /\ removing \subseteq Listed
  /\ \A s \in removing : layer[s].revision < revision
  /\ \A s \in Listed : layer[s].parent \in removing => s \in removing

(* A snapshot that lost the rows of its files amid its removal is nobody's *)
(* parent, and not the newest.                                             *)
EmptiedInv ==
  \A s \in Ids : Emptied(s) => /\ s \in Listed
                             /\ layer[s].revision < revision
                             /\ \A r \in Listed : layer[r].parent # s

(* What a snapshot does not say of a file its parent recorded, and what it *)
(* says it has a copy of.                                                  *)
FilesInv ==
  \A s \in {t \in Listed : ~Emptied(t)}, p \in Tracked :
    IF layer[s].files[p] = Same
    THEN IF layer[s].parent = 0
         THEN layer[s].revision = 1 => recorded[s][p] = Gone
         ELSE recorded[s][p] = recorded[layer[s].parent][p]
    ELSE /\ recorded[s][p] = layer[s].files[p]
         /\ blob[s][p] = recorded[s][p] \/ <<s, p>> \in harmed

(* What is copied from is a directory.                                     *)
SourceInv ==
  \A p \in Paths : plan.entries[p].kind = "copy" => plan.entries[p].from \in Ids

(* What is rebased is the anchor of a snapshot that was committed.         *)
RebaseInv ==
  LET s == rebasing[1]
  IN rebasing # <<0, 0>> =>
       /\ rebasing \in Ids \X Ids /\ s <= made
       /\ \A t \in Tasks : capture[t].id # s
       /\ s \in Listed => layer[s].anchor \in Paths

ChainInv == OneChain /\ CommittedInv /\ LayerInv /\ RemovingInv /\ EmptiedInv

IInv == /\ TypeOK /\ ChainInv /\ CaptureInv /\ FilesInv /\ ManifestsKept
        /\ SourceInv /\ RebaseInv

LEMMA InvInit == Init => IInv
  <1> SUFFICES ASSUME Init PROVE IInv
    OBVIOUS
  <1>0. MaxSnapshots \in Nat /\ MaxEvents \in Nat /\ MaxFaults \in Nat
        /\ Gone \in States /\ Tracked \subseteq Paths
    BY SnapshotLayersAssumption DEF States
  <1>1. NoLayer \in Layers
    BY <1>0 DEF NoLayer, Layers
  <1>2. NoCapture \in Captures
    BY <1>0 DEF NoCapture, Captures, NothingSeen
  <1>3. NoPlan \in [target : 0..MaxSnapshots, whole : BOOLEAN,
                    scope : SUBSET Paths, entries : [Paths -> Entries]]
    BY <1>0 DEF NoPlan, NoEntry, Entries
  <1>4. TypeOK
    <2>1. \A t \in Tasks : capture[t] = NoCapture
      BY DEF Init
    <2>2. "create" \in Tasks /\ NoCapture.pc = "idle"
      BY DEF Tasks, NoCapture
    <2>3. /\ index \in [Tracked -> States]
          /\ blob \in [Ids -> [Paths -> States]]
          /\ manifest \in [Ids -> {"none", "whole", "torn"}]
          /\ recorded \in [Ids -> [Tracked -> States]]
      BY <1>0 DEF Init, NoFiles, NothingSeen
    <2>4. rebasing \in (0..MaxSnapshots) \X (0..MaxSnapshots)
      BY <1>0 DEF Init
    <2>5. layer \in [Ids -> Layers] /\ capture \in [Tasks -> Captures]
      BY <1>1, <1>2 DEF Init
    <2>6. /\ revision \in Nat /\ made \in 0..MaxSnapshots
          /\ events \in (0..MaxEvents) \X (0..MaxFaults)
          /\ live \in [Paths -> States]
      BY <1>0, SnapshotLayersAssumption DEF Init, States
    <2> HIDE DEF NoPlan
    <2>7. plan = NoPlan /\ collecting = FALSE
      BY DEF Init
    <2>8. referenced = {} /\ removing = {} /\ harmed = {}
      BY DEF Init
    <2> QED BY <1>3, <2>1, <2>2, <2>3, <2>4, <2>5, <2>6, <2>7, <2>8 DEF TypeOK
  <1>5. Listed = {} /\ \A s \in Ids : layer[s] = NoLayer
    BY DEF Init, Listed, NoLayer
  <1>6. ChainInv
    BY <1>5 DEF Init, ChainInv, OneChain, CommittedInv, LayerInv, RemovingInv,
                NothingSeen, EmptiedInv, Emptied
  <1>7. CaptureInv
    BY DEF Init, CaptureInv, CaptureOk, NoCapture
  <1>8. FilesInv /\ ManifestsKept
    BY <1>5 DEF FilesInv, ManifestsKept
  <1>9. SourceInv /\ RebaseInv
    BY DEF Init, SourceInv, RebaseInv, NoPlan, NoEntry
  <1> QED BY <1>4, <1>6, <1>7, <1>8, <1>9 DEF IInv

-----------------------------------------------------------------------------
(* Facts about single states.                                              *)

LEMMA Basics ==
  /\ MaxSnapshots \in Nat /\ MaxEvents \in Nat
  /\ Gone \in States /\ Same \notin States
  /\ Tracked \subseteq Paths /\ NoPath \notin Paths
  /\ Anchors \subseteq Paths \cup {NoPath}
  /\ Ids \subseteq Nat \ {0} /\ Ids \subseteq 0..MaxSnapshots
  /\ NoLayer \in Layers /\ NoCapture \in Captures
  /\ NoPlan \in [target : 0..MaxSnapshots, whole : BOOLEAN,
                 scope : SUBSET Paths, entries : [Paths -> Entries]]
  /\ NoFiles \in [Paths -> States] /\ NothingSeen \in [Tracked -> States]
  <1>1. /\ MaxSnapshots \in Nat /\ MaxEvents \in Nat
        /\ Gone \in States /\ Same \notin States
        /\ Tracked \subseteq Paths /\ NoPath \notin Paths
        /\ Anchors \subseteq Paths \cup {NoPath}
        /\ Ids \subseteq Nat \ {0} /\ Ids \subseteq 0..MaxSnapshots
    BY SnapshotLayersAssumption DEF States, Ids
  <1>2. NoFiles \in [Paths -> States] /\ NothingSeen \in [Tracked -> States]
    BY <1>1 DEF NoFiles, NothingSeen
  <1>3. NoLayer \in Layers
    BY <1>1 DEF NoLayer, Layers
  <1>4. NoCapture \in Captures
    BY <1>1, <1>2 DEF NoCapture, Captures
  <1>5. NoPlan \in [target : 0..MaxSnapshots, whole : BOOLEAN,
                    scope : SUBSET Paths, entries : [Paths -> Entries]]
    BY <1>1 DEF NoPlan, NoEntry, Entries
  <1> QED BY <1>1, <1>2, <1>3, <1>4, <1>5

LEMMA DirtyType ==
  ASSUME NEW view \in [Tracked -> States]
  PROVE  /\ Dirty(view) \in [Tracked -> States \cup {Same}]
         /\ \A p \in Tracked : Dirty(view)[p] = IF view[p] = index[p] THEN Same
                                                                   ELSE view[p]
  BY DEF Dirty

LEMMA NewestListed ==
  ASSUME IInv
  PROVE  /\ Newest(Listed) \in 0..MaxSnapshots
         /\ Newest(Listed) <= made
         /\ Listed = {} => Newest(Listed) = 0
         /\ Listed # {} => /\ Newest(Listed) \in Listed
                           /\ layer[Newest(Listed)].revision = revision
  <1>1. CASE Listed = {}
    BY <1>1, Basics DEF Newest, IInv, TypeOK
  <1>2. CASE Listed # {}
    <2>1. Listed \in SUBSET Ids /\ layer \in [Ids -> Layers] /\ revision \in Nat
      BY DEF Listed, IInv, TypeOK
    <2>2. Ordered(Listed)
      BY DEF IInv, ChainInv, OneChain, Ordered
    <2>3. \A s \in Listed : layer[s].revision <= revision
      BY <2>1 DEF IInv, ChainInv, LayerInv
    <2>4. /\ Newest(Listed) \in Listed
          /\ \A t \in Listed \ {Newest(Listed)} : OlderThan(t, Newest(Listed))
      BY <1>2, <2>1, <2>2, <2>3, NewestExists
    <2>5. PICK s \in Listed : layer[s].revision = revision
      BY <1>2 DEF IInv, ChainInv, CommittedInv
    <2>6. layer[Newest(Listed)].revision \in Nat
      BY <2>1, <2>4 DEF Layers
    <2>7. Newest(Listed) = s
      BY <2>1, <2>3, <2>4, <2>5, <2>6 DEF OlderThan
    <2> QED BY <1>2, <2>1, <2>4, <2>5, <2>7, Basics DEF IInv, ChainInv, LayerInv
  <1> QED BY <1>1, <1>2

LEMMA AllParentsOlder ==
  ASSUME IInv
  PROVE  ParentsOlder
  <1>1. \A s \in Ids \ Listed : layer[s].parent = 0 /\ 0 < s
    <2>1. \A s \in Ids : 0 < s
      BY DEF Ids
    <2>2. \A s \in Ids \ Listed : layer[s] = NoLayer
      BY DEF IInv, ChainInv, LayerInv
    <2> QED BY <2>1, <2>2 DEF NoLayer
  <1> QED BY <1>1 DEF ParentsOlder, IInv, ChainInv, LayerInv

LEMMA RemovedIsNewest ==
  ASSUME IInv, removing # {}
  PROVE  /\ Newest(removing) \in removing /\ Newest(removing) \in Ids
         /\ Newest(removing) \in Listed
         /\ \A s \in Listed : layer[s].parent # Newest(removing)
         /\ \A t \in removing : t = Newest(removing) \/ OlderThan(t, Newest(removing))
  <1>1. /\ removing \in SUBSET Ids /\ removing \subseteq Listed
        /\ layer \in [Ids -> Layers] /\ revision \in Nat
        /\ \A s \in Listed : layer[s].revision \in Nat /\ layer[s].revision <= revision
    BY DEF IInv, TypeOK, ChainInv, LayerInv, RemovingInv, Listed
  <1>2. Ordered(removing)
    BY <1>1 DEF IInv, ChainInv, OneChain, Ordered
  <1> PICK n : n = Newest(removing)
    OBVIOUS
  <1>3. n \in removing /\ \A t \in removing \ {n} : OlderThan(t, n)
    BY <1>1, <1>2, NewestExists
  <1>4. ASSUME NEW s \in Listed, layer[s].parent = n PROVE FALSE
    <2>1. s \in removing
      BY <1>3, <1>4 DEF IInv, ChainInv, RemovingInv
    <2>2. n # 0
      BY <1>1, <1>3, Basics
    <2>3. layer[s].revision = layer[n].revision + 1
      BY <1>4, <2>2 DEF IInv, ChainInv, OneChain
    <2>4. layer[n].revision \in Nat /\ layer[s].revision \in Nat
      BY <1>1, <1>3
    <2>5. s = n \/ layer[s].revision < layer[n].revision
      BY <1>3, <2>1 DEF OlderThan
    <2> QED BY <2>3, <2>4, <2>5
  <1> QED BY <1>1, <1>3, <1>4

LEMMA EntryType ==
  ASSUME IInv, NEW s \in Listed, NEW p \in Paths
  PROVE  /\ RestorationEntry(s, p) \in Entries
         /\ RestorationEntry(s, p).kind = "copy" =>
              RestorationEntry(s, p).from \in Ids
  <1>1. s \in Ids /\ layer \in [Ids -> Layers]
    BY DEF Listed, IInv, TypeOK
  <1> DEFINE t == IF p \in Tracked THEN Supplier(s, p) ELSE 0
  <1>2. t \in 0..MaxSnapshots
    BY <1>1, AllParentsOlder, SupplierWalks, Basics
  <1>3. /\ layer[s].source \in 0..MaxSnapshots
        /\ layer[s].anchored # Gone => layer[s].source # 0
    BY <1>1 DEF Layers, IInv, ChainInv, LayerInv
  <1>4. RestorationEntry(s, p) =
          CASE t # 0 -> [kind |-> IF layer[t].files[p] = Gone THEN "gone" ELSE "copy",
                         from |-> t]
            [] t = 0 /\ p = layer[s].anchor ->
                 IF layer[s].anchored = Gone THEN [kind |-> "gone", from |-> 0]
                 ELSE [kind |-> "copy", from |-> layer[s].source]
            [] OTHER -> NoEntry
    BY DEF RestorationEntry
  <1> HIDE DEF t
  <1>5. CASE t # 0
    <2>1. RestorationEntry(s, p) =
            [kind |-> IF layer[t].files[p] = Gone THEN "gone" ELSE "copy", from |-> t]
      BY <1>4, <1>5
    <2> QED BY <1>2, <1>5, <2>1, Basics DEF Entries, Ids
  <1>6. CASE t = 0 /\ p = layer[s].anchor
    <2>1. RestorationEntry(s, p) =
            IF layer[s].anchored = Gone THEN [kind |-> "gone", from |-> 0]
            ELSE [kind |-> "copy", from |-> layer[s].source]
      BY <1>4, <1>6
    <2> QED BY <1>3, <2>1, Basics DEF Entries, Ids
  <1>7. CASE t = 0 /\ p # layer[s].anchor
    <2>1. RestorationEntry(s, p) = NoEntry
      BY <1>4, <1>7
    <2> QED BY <2>1, Basics DEF Entries, NoEntry
  <1> QED BY <1>5, <1>6, <1>7

-----------------------------------------------------------------------------
(* Types.                                                                  *)

LEMMA EventType ==
  ASSUME IInv, Event \/ Fault \/ (\E b \in BOOLEAN : FaultIf(b))
  PROVE  events' \in (0..MaxEvents) \X (0..MaxFaults)
  <1>1. /\ MaxEvents \in Nat /\ MaxFaults \in Nat
        /\ events \in (0..MaxEvents) \X (0..MaxFaults)
    BY SnapshotLayersAssumption DEF IInv, TypeOK
  <1>2. PICK i \in 0..MaxEvents, j \in 0..MaxFaults : events = <<i, j>>
    BY <1>1
  <1>3. CASE Event
    <2>1. events' = <<i + 1, j>> /\ i < MaxEvents
      BY <1>2, <1>3 DEF Event
    <2> QED BY <1>1, <2>1
  <1>4. CASE Fault
    <2>1. events' = <<i, j + 1>> /\ j < MaxFaults
      BY <1>2, <1>4 DEF Fault
    <2> QED BY <1>1, <2>1
  <1>5. CASE \E b \in BOOLEAN : FaultIf(b)
    BY <1>1, <1>4, <1>5 DEF FaultIf
  <1> QED BY <1>3, <1>4, <1>5

LEMMA WrittenType ==
  ASSUME manifest \in [Ids -> {"none", "whole", "torn"}], NEW ids, NEW torn
  PROVE  /\ Written(ids, torn) \in [Ids -> {"none", "whole", "torn"}]
         /\ \A s \in Ids : Written(ids, torn)[s] = "none" => manifest[s] = "none"
  BY DEF Written

LEMMA TypeStartScan ==
  ASSUME IInv, NEW t \in Tasks, NEW anchor \in Paths \cup {NoPath},
         StartScan(t, anchor), t = "create" => ~collecting
  PROVE  TypeOK'
  <1>1. [NoCapture EXCEPT !.pc = "scanning", !.base = revision, !.anchor = anchor]
          \in Captures
    BY Basics DEF Captures, NoCapture, IInv, TypeOK
  <1>2. /\ capture' \in [Tasks -> Captures]
        /\ collecting' => capture'["create"].pc = "idle"
    BY <1>1 DEF StartScan, IInv, TypeOK, Tasks
  <1> QED BY <1>2 DEF StartScan, database, directories, IInv, TypeOK

LEMMA TypeScan ==
  ASSUME IInv, NEW t \in Tasks, NEW view \in Views, Scan(t, view)
  PROVE  TypeOK'
  <1>0. view \in [Tracked -> States] /\ capture[t] \in Captures
    BY DEF Views, IInv, TypeOK
  <1>1. Dirty(view) \in [Tracked -> States \cup {Same}]
    BY <1>0, DirtyType
  <1> PICK files \in [Tracked -> States \cup {Same}] : files = Dirty(view)
    BY <1>1
  <1> PICK y \in Captures : y = [capture[t] EXCEPT !.pc = "scanned", !.view = view,
                                                   !.files = files]
    BY <1>0 DEF Captures
  <1>2. capture' = [capture EXCEPT ![t] = y]
    BY DEF Scan, IInv, TypeOK
  <1>3. /\ capture' \in [Tasks -> Captures]
        /\ collecting' => capture'["create"].pc = "idle"
    <2>1. \A u \in Tasks : u # t => capture'[u] = capture[u]
      BY <1>2 DEF IInv, TypeOK
    <2>2. collecting' = collecting /\ capture[t].pc = "scanning" /\ "create" \in Tasks
      BY DEF Scan, Tasks
    <2> QED BY <1>2, <2>1, <2>2 DEF IInv, TypeOK
  <1>4. events' \in (0..MaxEvents) \X (0..MaxFaults)
    BY EventType DEF Scan
  <1> QED BY <1>3, <1>4 DEF Scan, database, directories, IInv, TypeOK

LEMMA TypeStatAnchor ==
  ASSUME IInv, NEW t \in Tasks, NEW state \in States, StatAnchor(t, state)
  PROVE  TypeOK'
  <1> PICK x \in Captures : x = capture[t]
    BY DEF IInv, TypeOK
  <1> PICK y \in Captures : y = [x EXCEPT !.pc = "hashed", !.anchored = state,
                                          !.parent = Newest(Listed)]
    BY NewestListed DEF Captures
  <1>1. capture' = [capture EXCEPT ![t] = y]
    BY DEF StatAnchor, IInv, TypeOK
  <1>2. /\ capture' \in [Tasks -> Captures]
        /\ collecting' => capture'["create"].pc = "idle"
    <2>1. \A u \in Tasks : u # t => capture'[u] = capture[u]
      BY <1>1 DEF IInv, TypeOK
    <2>2. collecting' = collecting /\ capture[t].pc = "scanned" /\ "create" \in Tasks
      BY DEF StatAnchor, Tasks
    <2> QED BY <1>1, <2>1, <2>2 DEF IInv, TypeOK
  <1>3. events' \in (0..MaxEvents) \X (0..MaxFaults)
    BY EventType DEF StatAnchor
  <1> QED BY <1>2, <1>3 DEF StatAnchor, database, directories, IInv, TypeOK

LEMMA TypeCopy ==
  ASSUME IInv, NEW t \in Tasks, Copy(t)
  PROVE  TypeOK'
  <1> PICK x \in Captures : x = capture[t]
    BY DEF IInv, TypeOK
  <1> PICK s \in Ids : s = made + 1
    BY DEF Copy
  <1>1. made' = s /\ made' \in 0..MaxSnapshots
    BY Basics DEF Copy
  <1>2. /\ blob' \in [Ids -> [Paths -> States]]
        /\ manifest' \in [Ids -> {"none", "whole", "torn"}]
    <2>1. /\ blob' = [blob EXCEPT ![s] =
                        [p \in Paths |-> IF p \in CopiedPaths(x) THEN live[p]
                                                                 ELSE Gone]]
          /\ manifest' = [manifest EXCEPT ![s] = "whole"]
      BY DEF Copy
    <2> QED BY <2>1, Basics DEF IInv, TypeOK
  <1>3. capture' \in [Tasks -> Captures]
    <2>1. capture' = [capture EXCEPT ![t].pc = "copied", ![t].id = s]
      BY DEF Copy
    <2> QED BY <2>1, Basics DEF IInv, TypeOK, Captures
  <1>4. collecting' => capture'["create"].pc = "idle"
    <2>1. \A u \in Tasks : u # t => capture'[u] = capture[u]
      BY DEF Copy, IInv, TypeOK
    <2>2. collecting' = collecting /\ capture[t].pc = "hashed" /\ "create" \in Tasks
      BY DEF Copy, Tasks
    <2> QED BY <2>1, <2>2 DEF IInv, TypeOK
  <1>5. harmed' \subseteq Ids \X (Paths \cup {NoPath})
    <2>1. harmed' = harmed \cup
            {<<s, p>> : p \in {q \in CopiedPaths(x) : Noted(x, q) # {live[q]}}}
      BY DEF Copy
    <2>2. CopiedPaths(x) \subseteq Paths
      BY DEF CopiedPaths
    <2> QED BY <2>1, <2>2 DEF IInv, TypeOK
  <1> QED BY <1>1, <1>2, <1>3, <1>4, <1>5 DEF Copy, database, IInv, TypeOK

LEMMA RecordTypes ==
  ASSUME IInv, NEW t \in Tasks, capture[t].pc = "copied", Record(capture[t])
  PROVE  /\ layer' \in [Ids -> Layers]
         /\ index' \in [Tracked -> States]
         /\ revision' \in Nat
         /\ recorded' \in [Ids -> [Tracked -> States]]
         /\ NewLayer(capture[t]) \in Layers /\ capture[t].id \in Ids
  <1> PICK x \in Captures : x = capture[t]
    BY DEF IInv, TypeOK
  <1>1. x.id \in Ids
    <2>1. x.id \in 0..MaxSnapshots
      BY DEF Captures
    <2>2. x.id \in 1..made /\ made \in 0..MaxSnapshots
      BY DEF IInv, CaptureInv, CaptureOk, TypeOK
    <2> QED BY <2>1, <2>2, Basics DEF Ids
  <1>2. NewLayer(x) \in Layers
    BY <1>1, Basics DEF NewLayer, Layers, Captures
  <1>3. /\ layer' = [layer EXCEPT ![x.id] = NewLayer(x)]
        /\ index' = [p \in Tracked |-> IF x.files[p] = Same THEN index[p]
                                                            ELSE x.files[p]]
        /\ revision' = x.base + 1
        /\ recorded' = [recorded EXCEPT ![x.id] = x.view]
    BY DEF Record
  <1>4. index' \in [Tracked -> States]
    <2>1. \A p \in Tracked : x.files[p] \in States \cup {Same} /\ index[p] \in States
      BY DEF Captures, IInv, TypeOK
    <2> QED BY <1>3, <2>1
  <1> QED BY <1>1, <1>2, <1>3, <1>4 DEF IInv, TypeOK, Captures

LEMMA TypeCommit ==
  ASSUME IInv, NEW t \in Tasks, Commit(t) \/ CommitUnwritten(t) \/ CommitTorn(t)
  PROVE  TypeOK'
  <1>1. /\ capture[t].pc = "copied" /\ Record(capture[t])
        /\ capture' = [capture EXCEPT ![t] = NoCapture]
    BY DEF Commit, CommitUnwritten, CommitTorn
  <1>2. /\ layer' \in [Ids -> Layers] /\ index' \in [Tracked -> States]
        /\ revision' \in Nat /\ recorded' \in [Ids -> [Tracked -> States]]
        /\ capture[t].id \in Ids
    BY <1>1, RecordTypes
  <1>3. /\ capture' \in [Tasks -> Captures]
        /\ collecting => capture'["create"].pc = "idle"
    BY <1>1, Basics DEF IInv, TypeOK, Tasks, NoCapture
  <1>4. CASE Commit(t)
    BY <1>2, <1>3, <1>4 DEF Commit, directories, IInv, TypeOK
  <1>5. CASE CommitUnwritten(t)
    <2>1. /\ blob' \in [Ids -> [Paths -> States]]
          /\ manifest' \in [Ids -> {"none", "whole", "torn"}]
          /\ harmed' \subseteq Ids \X (Paths \cup {NoPath})
      BY <1>2, <1>5, Basics DEF CommitUnwritten, IInv, TypeOK
    <2>2. events' \in (0..MaxEvents) \X (0..MaxFaults)
      BY <1>5, EventType DEF CommitUnwritten
    <2> QED BY <1>2, <1>3, <1>5, <2>1, <2>2 DEF CommitUnwritten, IInv, TypeOK
  <1>6. CASE CommitTorn(t)
    <2>1. manifest' \in [Ids -> {"none", "whole", "torn"}]
      BY <1>6, WrittenType DEF CommitTorn, IInv, TypeOK
    <2>2. events' \in (0..MaxEvents) \X (0..MaxFaults)
      BY <1>6, EventType DEF CommitTorn
    <2> QED BY <1>2, <1>3, <1>6, <2>1, <2>2 DEF CommitTorn, IInv, TypeOK
  <1> QED BY <1>4, <1>5, <1>6

LEMMA TypeFail ==
  ASSUME IInv, NEW t \in Tasks, Fail(t)
  PROVE  TypeOK'
  <1> PICK x \in Captures : x = capture[t]
    BY DEF IInv, TypeOK
  <1>1. /\ capture' \in [Tasks -> Captures]
        /\ collecting' => capture'["create"].pc = "idle"
    BY Basics DEF Fail, IInv, TypeOK, Tasks, NoCapture
  <1>2. /\ blob' \in [Ids -> [Paths -> States]]
        /\ manifest' \in [Ids -> {"none", "whole", "torn"}]
    <2>1. /\ blob' = IF x.id = 0 THEN blob ELSE [blob EXCEPT ![x.id] = NoFiles]
          /\ manifest' = IF x.id = 0 THEN manifest
                         ELSE [manifest EXCEPT ![x.id] = "none"]
      BY DEF Fail
    <2> QED BY <2>1, Basics DEF IInv, TypeOK
  <1>3. /\ harmed' \subseteq Ids \X (Paths \cup {NoPath})
        /\ events' \in (0..MaxEvents) \X (0..MaxFaults)
    <2>1. harmed' \subseteq harmed
      BY DEF Fail
    <2>2. \E b \in BOOLEAN : FaultIf(b)
      BY DEF Fail, FaultIf
    <2> QED BY <2>1, <2>2, EventType DEF IInv, TypeOK
  <1> QED BY <1>1, <1>2, <1>3 DEF Fail, database, IInv, TypeOK

LEMMA TypePlanRestore ==
  ASSUME IInv, NEW s \in Ids, NEW whole \in BOOLEAN, NEW scope \in SUBSET Paths,
         PlanRestore(s, whole, scope)
  PROVE  TypeOK' /\ SourceInv'
  <1>1. /\ s \in Listed
        /\ plan' = [target |-> s, whole |-> whole, scope |-> scope,
                    entries |-> [p \in Paths |-> IF p \in scope
                                                 THEN RestorationEntry(s, p)
                                                 ELSE NoEntry]]
    BY DEF PlanRestore
  <1> PICK e \in [Paths -> Entries] :
        e = [p \in Paths |-> IF p \in scope THEN RestorationEntry(s, p) ELSE NoEntry]
    BY <1>1, EntryType, Basics DEF NoEntry, Entries
  <1>2. plan' \in [target : 0..MaxSnapshots, whole : BOOLEAN, scope : SUBSET Paths,
                   entries : [Paths -> Entries]]
    BY <1>1, Basics
  <1>3. [NoCapture EXCEPT !.pc = "planned", !.anchor = layer[s].anchor] \in Captures
    BY Basics DEF IInv, TypeOK, Captures, NoCapture, Layers
  <1>4. /\ capture' \in [Tasks -> Captures]
        /\ collecting' => capture'["create"].pc = "idle"
    BY <1>3 DEF PlanRestore, IInv, TypeOK, Tasks
  <1>5. events' \in (0..MaxEvents) \X (0..MaxFaults)
    BY EventType DEF PlanRestore
  <1>6. TypeOK'
    BY <1>2, <1>4, <1>5 DEF PlanRestore, database, directories, IInv, TypeOK
  <1>7. ASSUME NEW p \in Paths, plan'.entries[p].kind = "copy"
        PROVE  plan'.entries[p].from \in Ids
    <2>1. plan'.entries[p] = IF p \in scope THEN RestorationEntry(s, p) ELSE NoEntry
      BY <1>1
    <2>2. NoEntry.kind # "copy"
      BY DEF NoEntry
    <2> QED BY <1>1, <1>7, <2>1, <2>2, EntryType
  <1> QED BY <1>6, <1>7 DEF SourceInv

LEMMA TypeApplyRestore ==
  ASSUME IInv, ApplyRestore
  PROVE  TypeOK'
  <1>1. ASSUME NEW p \in Paths PROVE Restored(p) \in States
    <2> PICK e \in Entries : e = plan.entries[p]
      BY DEF IInv, TypeOK
    <2>1. live[p] \in States /\ (e.kind = "copy" => blob[e.from][p] \in States)
      BY DEF IInv, TypeOK, SourceInv
    <2>2. Restored(p) =
            CASE e.kind = "gone" -> Gone
              [] e.kind = "copy" ->
                   IF blob[e.from][p] = Gone THEN live[p] ELSE blob[e.from][p]
              [] e.kind = "none" -> IF Unplanned(p) THEN Gone ELSE live[p]
      BY DEF Restored
    <2>3. e.kind \in {"none", "gone", "copy"}
      BY DEF Entries
    <2> QED BY <2>1, <2>2, <2>3, Basics
  <1>2. live' \in [Paths -> States]
    BY <1>1 DEF ApplyRestore
  <1>3. /\ capture' \in [Tasks -> Captures]
        /\ collecting' => capture'["create"].pc = "idle"
    BY DEF ApplyRestore, IInv, TypeOK, Tasks, Captures
  <1> QED BY <1>2, <1>3, Basics DEF ApplyRestore, database, directories, IInv, TypeOK

LEMMA TypeCollecting ==
  ASSUME IInv, (\E ids \in {Listed, {}} : StartCollecting(ids)) \/ Collect
  PROVE  TypeOK'
  <1>1. CASE \E ids \in {Listed, {}} : StartCollecting(ids)
    <2>1. events' \in (0..MaxEvents) \X (0..MaxFaults)
      BY <1>1, EventType DEF StartCollecting
    <2> QED BY <1>1, <2>1 DEF StartCollecting, Listed, database, directories,
                              IInv, TypeOK
  <1>2. CASE Collect
    <2>1. /\ blob' \in [Ids -> [Paths -> States]]
          /\ manifest' \in [Ids -> {"none", "whole", "torn"}]
      BY <1>2, Basics DEF Collect, IInv, TypeOK
    <2>2. harmed' \subseteq Ids \X (Paths \cup {NoPath})
      <3>1. harmed' = harmed \cup
              (((Ids \ referenced) \cap (Listed \cup {capture[t].id : t \in Tasks})) \X Paths)
        BY <1>2 DEF Collect
      <3> QED BY <3>1 DEF IInv, TypeOK
    <2> QED BY <1>2, <2>1, <2>2 DEF Collect, database, IInv, TypeOK
  <1> QED BY <1>1, <1>2

(* Rows that a compaction cuts off, and those whose anchor it moves.       *)
CutRow(s) ==
  IF s \in Cut THEN [layer[s] EXCEPT !.parent = 0] ELSE layer[s]

CompactedRow(moved, s) ==
  IF s \in moved THEN [CutRow(s) EXCEPT !.source = s] ELSE CutRow(s)

(* Those among them for which there is nothing to copy any more.           *)
LostAnchor(s) ==
  /\ Refilled(s)
  /\ \/ <<layer[s].source, layer[s].anchor>> \in harmed
     \/ /\ layer[s].source = rebasing[1]
        /\ blob[layer[s].source][layer[s].anchor] = Gone

(* What a compaction has in common that gets to its end and one that does  *)
(* not.                                                                    *)
Compacts(moved) ==
  /\ moved \subseteq Moving
  /\ Compact(moved)
  /\ removing' = {} \/ (removing' = Leaving /\ moved = Moving)
  /\ manifest' \in [Ids -> {"none", "whole", "torn"}]
  /\ \A s \in Ids : manifest'[s] = "none" => manifest[s] = "none"
  /\ events' \in (0..MaxEvents) \X (0..MaxFaults)

LEMMA CompactionForms ==
  ASSUME IInv, StartCompaction \/ \E moved \in SUBSET Moving : BreakCompaction(moved)
  PROVE  \E moved : Compacts(moved)
  <1>0. manifest \in [Ids -> {"none", "whole", "torn"}]
    BY DEF IInv, TypeOK
  <1>1. CASE StartCompaction
    <2>1. /\ Compact(Moving) /\ removing' = Leaving
          /\ \E ids, torn : manifest' = Written(ids, torn)
      BY <1>1 DEF StartCompaction
    <2>2. events' \in (0..MaxEvents) \X (0..MaxFaults)
      BY <1>1, EventType DEF StartCompaction
    <2>3. Compacts(Moving)
      BY <1>0, <2>1, <2>2, WrittenType DEF Compacts
    <2> QED BY <2>3
  <1>2. CASE \E moved \in SUBSET Moving : BreakCompaction(moved)
    <2> PICK moved \in SUBSET Moving : BreakCompaction(moved)
      BY <1>2
    <2>1. /\ Compact(moved) /\ removing' = {}
          /\ \E ids, torn : manifest' = Written(ids, torn)
      BY DEF BreakCompaction
    <2>2. events' \in (0..MaxEvents) \X (0..MaxFaults)
      BY EventType DEF BreakCompaction
    <2>3. Compacts(moved)
      BY <1>0, <2>1, <2>2, WrittenType DEF Compacts
    <2> QED BY <2>3
  <1> QED BY <1>1, <1>2

LEMMA CompactionShape ==
  ASSUME NEW moved, Compacts(moved)
  PROVE  /\ removing = {} /\ removing' \subseteq Leaving
         /\ layer' = [s \in Ids |-> CompactedRow(moved, s)]
         /\ blob' = [s \in Ids |->
              IF s \in moved /\ Refilled(s)
              THEN [blob[s] EXCEPT ![layer[s].anchor] =
                      blob[layer[s].source][layer[s].anchor]]
              ELSE blob[s]]
         /\ harmed' = harmed \cup
              {<<s, layer[s].anchor>> : s \in {r \in moved : LostAnchor(r)}}
  BY DEF Compacts, Compact, CutRow, CompactedRow, LostAnchor

(* What a compaction moves is the anchor of a listed snapshot.             *)
LEMMA MovedFacts ==
  ASSUME IInv, NEW moved, Compacts(moved), NEW s \in moved
  PROVE  /\ s \in Ids /\ s \in Kept /\ s \in Listed
         /\ AnchorFrom(s, Leaving)
         /\ layer[s].anchor \in Paths /\ layer[s].source \in Ids
         /\ layer[s].source \in Leaving /\ layer[s].source # s
         /\ blob[layer[s].source][layer[s].anchor] \in States
  <1>1. s \in Kept /\ AnchorFrom(s, Leaving)
    BY DEF Compacts, Moving
  <1>2. /\ s \in Ids /\ s \in Listed /\ layer[s] \in Layers
        /\ Leaving \subseteq Ids /\ s \notin Leaving
    BY <1>1 DEF Kept, Leaving, Listed, IInv, TypeOK
  <1>3. /\ layer[s].anchor # NoPath /\ layer[s].source \in Leaving
        /\ layer[s].anchor \in Paths \cup {NoPath}
    BY <1>1, <1>2 DEF AnchorFrom, Layers
  <1>4. blob[layer[s].source][layer[s].anchor] \in States
    BY <1>2, <1>3 DEF IInv, TypeOK
  <1> QED BY <1>1, <1>2, <1>3, <1>4

LEMMA CompactedRowType ==
  ASSUME IInv, NEW moved, NEW s \in Ids
  PROVE  /\ CompactedRow(moved, s) \in Layers
         /\ CompactedRow(moved, s).listed = layer[s].listed
         /\ CompactedRow(moved, s).revision = layer[s].revision
         /\ CompactedRow(moved, s).files = layer[s].files
         /\ CompactedRow(moved, s).anchor = layer[s].anchor
         /\ CompactedRow(moved, s).anchored = layer[s].anchored
         /\ CompactedRow(moved, s).parent = IF s \in Cut THEN 0 ELSE layer[s].parent
         /\ CompactedRow(moved, s).source = IF s \in moved THEN s ELSE layer[s].source
  <1> PICK r \in Layers : r = layer[s]
    BY DEF IInv, TypeOK
  <1> DEFINE Cuts == s \in Cut
  <1>0. CutRow(s) = IF Cuts THEN [r EXCEPT !.parent = 0] ELSE r
    BY DEF CutRow
  <1> HIDE DEF Cuts
  <1> PICK c \in Layers : /\ c = CutRow(s)
                          /\ c.listed = r.listed /\ c.revision = r.revision
                          /\ c.files = r.files /\ c.anchor = r.anchor
                          /\ c.anchored = r.anchored /\ c.source = r.source
                          /\ c.parent = IF Cuts THEN 0 ELSE r.parent
    BY <1>0, Basics DEF Layers
  <1>1. CompactedRow(moved, s) = IF s \in moved THEN [c EXCEPT !.source = s] ELSE c
    BY DEF CompactedRow
  <1> QED BY <1>1, Basics DEF Layers, Cuts

LEMMA TypeCompaction ==
  ASSUME IInv, NEW moved, Compacts(moved)
  PROVE  TypeOK'
  <1>1. layer' \in [Ids -> Layers]
    BY CompactionShape, CompactedRowType
  <1>2. blob' \in [Ids -> [Paths -> States]]
    <2>1. \A s \in Ids : blob[s] \in [Paths -> States]
      BY DEF IInv, TypeOK
    <2> QED BY <2>1, MovedFacts, CompactionShape
  <1>3. removing' \subseteq Ids
    BY CompactionShape DEF Listed, Leaving
  <1>5. harmed' \subseteq Ids \X (Paths \cup {NoPath})
    <2>1. harmed \subseteq Ids \X (Paths \cup {NoPath})
      BY DEF IInv, TypeOK
    <2> QED BY <2>1, MovedFacts, CompactionShape
  <1> QED BY <1>1, <1>2, <1>3, <1>5 DEF Compacts, Compact, IInv, TypeOK

LEMMA TypeRemove ==
  ASSUME IInv, RemoveCompacted
  PROVE  TypeOK'
  BY Basics DEF RemoveCompacted, IInv, TypeOK

(* A removal that fails may leave a row without its files.                 *)
StoppedRow(s, between) ==
  IF between /\ s = Newest(removing)
  THEN [layer[s] EXCEPT !.files = [p \in Tracked |-> Same]] ELSE layer[s]

LEMMA StoppedRowType ==
  ASSUME IInv, NEW s \in Ids, NEW between \in BOOLEAN
  PROVE  /\ StoppedRow(s, between) \in Layers
         /\ StoppedRow(s, between).listed = layer[s].listed
         /\ StoppedRow(s, between).revision = layer[s].revision
         /\ StoppedRow(s, between).parent = layer[s].parent
         /\ StoppedRow(s, between).anchor = layer[s].anchor
         /\ StoppedRow(s, between).anchored = layer[s].anchored
         /\ StoppedRow(s, between).source = layer[s].source
         /\ ~(between /\ s = Newest(removing)) =>
              StoppedRow(s, between) = layer[s]
  <1> PICK r \in Layers : r = layer[s]
    BY DEF IInv, TypeOK
  <1> PICK none \in [Tracked -> States \cup {Same}] : none = [p \in Tracked |-> Same]
    OBVIOUS
  <1> DEFINE Loses == between /\ s = Newest(removing)
  <1>1. StoppedRow(s, between) = IF Loses THEN [r EXCEPT !.files = none] ELSE r
    BY DEF StoppedRow
  <1> HIDE DEF Loses
  <1> QED BY <1>1 DEF Layers, Loses

(* The removal that fails is that of the newest of those to be removed.    *)
LEMMA StopShape ==
  ASSUME IInv, NEW between \in BOOLEAN, StopCompaction(between)
  PROVE  /\ Newest(removing) \in removing /\ Newest(removing) \in Listed
         /\ removing' = {}
         /\ layer' = [s \in Ids |-> StoppedRow(s, between)]
         /\ Listed' = Listed
         /\ harmed' = harmed \cup {<<s, layer[s].anchor>> : s \in Borrowed}
                            \cup (IF between
                                  THEN {Newest(removing)} \X (Paths \cup {NoPath})
                                  ELSE {})
         /\ UNCHANGED <<live, index, revision, blob, manifest, made, capture,
                        plan, collecting, referenced, rebasing, recorded>>
  <1>1. layer \in [Ids -> Layers]
    BY DEF IInv, TypeOK
  <1>3. Newest(removing) \in removing /\ Newest(removing) \in Listed
    BY RemovedIsNewest DEF StopCompaction
  <1> PICK n \in Ids : n = Newest(removing)
    BY RemovedIsNewest DEF StopCompaction
  <1>4. layer' = [s \in Ids |-> StoppedRow(s, between)]
    <2>1. layer' = IF between
                   THEN [layer EXCEPT ![n].files = [p \in Tracked |-> Same]]
                   ELSE layer
      BY DEF StopCompaction
    <2>2. CASE between
      BY <1>1, <2>1, <2>2 DEF StoppedRow
    <2>3. CASE ~between
      BY <1>1, <2>1, <2>3 DEF StoppedRow
    <2> QED BY <2>2, <2>3
  <1>5. Listed' = Listed
    BY <1>4, StoppedRowType DEF Listed
  <1> QED BY <1>1, <1>3, <1>4, <1>5 DEF StopCompaction, directories

LEMMA TypeStop ==
  ASSUME IInv, NEW between \in BOOLEAN, StopCompaction(between)
  PROVE  TypeOK'
  <1>1. layer' \in [Ids -> Layers] /\ removing' \subseteq Ids
    BY StopShape, StoppedRowType
  <1>2. harmed' \subseteq Ids \X (Paths \cup {NoPath})
    <2>1. harmed \subseteq Ids \X (Paths \cup {NoPath})
      BY DEF IInv, TypeOK
    <2>2. \A s \in Borrowed : s \in Ids /\ layer[s].anchor \in Paths
      BY Basics DEF Borrowed, Listed
    <2>3. Newest(removing) \in Ids
      BY StopShape DEF IInv, TypeOK
    <2> QED BY <2>1, <2>2, <2>3, StopShape
  <1>3. events' \in (0..MaxEvents) \X (0..MaxFaults)
    BY EventType DEF StopCompaction
  <1> QED BY <1>1, <1>2, <1>3, StopShape DEF IInv, TypeOK

LEMMA TypeDropAnchor ==
  ASSUME IInv, NEW s \in Ids, DropAnchor(s)
  PROVE  TypeOK'
  <1>1. PICK t \in Ids :
          /\ Event /\ rebasing' = <<s, t>>
          /\ blob' = IF t = s THEN blob
                     ELSE [blob EXCEPT ![s][layer[s].anchor] = Gone]
    BY DEF DropAnchor
  <1>2. UNCHANGED <<live, database, manifest, made, capture, plan, collecting,
                    referenced, removing, recorded, harmed>>
    BY DEF DropAnchor
  <1>3. rebasing' \in (0..MaxSnapshots) \X (0..MaxSnapshots)
    BY <1>1, Basics
  <1>4. blob' \in [Ids -> [Paths -> States]]
    BY <1>1, Basics DEF IInv, TypeOK
  <1>5. events' \in (0..MaxEvents) \X (0..MaxFaults)
    BY <1>1, EventType
  <1> QED BY <1>2, <1>3, <1>4, <1>5 DEF database, IInv, TypeOK

LEMMA RebasedAnchor ==
  ASSUME IInv, rebasing # <<0, 0>>
  PROVE  /\ rebasing[1] \in Ids /\ rebasing[2] \in Ids
         /\ rebasing = <<rebasing[1], rebasing[2]>>
         /\ rebasing[1] \in Listed => layer[rebasing[1]].anchor \in Paths
  BY DEF IInv, RebaseInv

LEMMA TypePersist ==
  ASSUME IInv, NEW torn \in SUBSET Ids, PersistAnchorSource(torn)
  PROVE  /\ TypeOK'
         /\ \A s \in Ids : manifest'[s] = "none" => manifest[s] = "none"
  <1> PICK s \in Ids, t \in Ids : /\ rebasing = <<s, t>>
                                  /\ s \in Listed => layer[s].anchor \in Paths
    <2>1. rebasing # <<0, 0>>
      BY DEF PersistAnchorSource
    <2> QED BY <2>1, RebasedAnchor
  <1>1. layer' \in [Ids -> Layers]
    <2>1. layer' = IF s \in Listed THEN [layer EXCEPT ![s].source = t] ELSE layer
      BY DEF PersistAnchorSource
    <2> QED BY <2>1, Basics DEF IInv, TypeOK, Layers
  <1>2. harmed' \subseteq Ids \X (Paths \cup {NoPath})
    <2>1. harmed' = IF s \in Listed /\ t \notin (Listed \ removing) \cup {s}
                    THEN harmed \cup {<<s, layer[s].anchor>>} ELSE harmed
      BY DEF PersistAnchorSource
    <2> QED BY <2>1 DEF IInv, TypeOK
  <1>3. rebasing' \in (0..MaxSnapshots) \X (0..MaxSnapshots)
    BY Basics DEF PersistAnchorSource
  <1>4. /\ manifest' \in [Ids -> {"none", "whole", "torn"}]
        /\ \A r \in Ids : manifest'[r] = "none" => manifest[r] = "none"
    <2>1. \E ids : manifest' = Written(ids, torn)
      BY DEF PersistAnchorSource
    <2> QED BY <2>1, WrittenType DEF IInv, TypeOK
  <1>5. events' \in (0..MaxEvents) \X (0..MaxFaults)
    <2>1. \E b \in BOOLEAN : FaultIf(b)
      BY DEF PersistAnchorSource, FaultIf
    <2> QED BY <2>1, EventType
  <1> QED BY <1>1, <1>2, <1>3, <1>4, <1>5 DEF PersistAnchorSource, IInv, TypeOK

LEMMA CrashShape ==
  ASSUME Crash
  PROVE  /\ capture' = [t \in Tasks |-> NoCapture]
         /\ plan' = NoPlan /\ collecting' = FALSE
         /\ referenced' = {} /\ removing' = {} /\ rebasing' = <<0, 0>>
         /\ harmed' = harmed \cup {<<s, layer[s].anchor>> : s \in Borrowed \cup Split}
         /\ Fault
         /\ UNCHANGED <<live, index, revision, layer, blob, manifest, made, recorded>>
  BY DEF Crash, database, directories

(* What a crash breaks off was the rebase of an anchor.                    *)
LEMMA SplitAnchor ==
  ASSUME IInv, NEW s \in Borrowed \cup Split
  PROVE  s \in Ids /\ s \in Listed /\ layer[s].anchor \in Paths
  <1>1. s \in Ids /\ s \in Listed
    BY DEF Borrowed, Split, Listed
  <1>2. s \in Borrowed => layer[s].anchor \in Paths
    BY Basics DEF Borrowed
  <1>3. s \in Split => layer[s].anchor \in Paths
    <2>1. rebasing = <<0, 0>> => rebasing[1] = 0
      OBVIOUS
    <2>2. s \in Split => s \in Listed /\ s = rebasing[1] /\ rebasing # <<0, 0>>
      BY <1>1, <2>1, Basics DEF Split
    <2> QED BY <2>2, RebasedAnchor
  <1> QED BY <1>1, <1>2, <1>3

LEMMA TypeCrash ==
  ASSUME IInv, Crash
  PROVE  TypeOK'
  <1>1. harmed' \subseteq Ids \X (Paths \cup {NoPath})
    <2>1. harmed \subseteq Ids \X (Paths \cup {NoPath})
      BY DEF IInv, TypeOK
    <2> QED BY <2>1, SplitAnchor, CrashShape
  <1>2. capture' \in [Tasks -> Captures] /\ collecting' = FALSE
    BY Basics DEF Crash
  <1>3. events' \in (0..MaxEvents) \X (0..MaxFaults)
    BY EventType DEF Crash
  <1>4. rebasing' \in (0..MaxSnapshots) \X (0..MaxSnapshots)
    BY Basics DEF Crash
  <1> QED BY <1>1, <1>2, <1>3, <1>4, Basics, CrashShape DEF IInv, TypeOK

LEMMA TypeEdit ==
  ASSUME IInv, NEW p \in Paths, NEW c \in States, Edit(p, c)
  PROVE  TypeOK'
  <1>1. events' \in (0..MaxEvents) \X (0..MaxFaults)
    BY EventType DEF Edit
  <1>2. live' \in [Paths -> States]
    BY DEF Edit, IInv, TypeOK
  <1> QED BY <1>1, <1>2 DEF Edit, database, directories, tasks, IInv, TypeOK

-----------------------------------------------------------------------------
(* A commit: the chain grows by a newest snapshot.                         *)

EmptiedKept == \A s \in Ids : Emptied(s)' => Emptied(s)

LEMMA RecordShape ==
  ASSUME IInv, NEW t \in Tasks, NEW x \in Captures, x = capture[t],
         x.pc = "copied", x.base = revision, Record(x)
  PROVE  /\ x.id \in Ids /\ x.id \notin Listed /\ x.id <= made
         /\ layer'[x.id] = NewLayer(x)
         /\ Listed' = Listed \cup {x.id}
         /\ \A r \in Ids : r # x.id => layer'[r] = layer[r] /\ recorded'[r] = recorded[r]
         /\ recorded'[x.id] = x.view /\ index' = x.view
         /\ revision' = revision + 1 /\ revision \in Nat
         /\ \A p \in Tracked : x.files[p] = IF x.view[p] = index[p] THEN Same ELSE x.view[p]
         /\ x.parent < x.id
         /\ Listed = {} => x.parent = 0
         /\ Listed # {} => x.parent \in Listed /\ layer[x.parent].revision = revision
  <1>1. /\ layer' \in [Ids -> Layers] /\ revision' \in Nat
        /\ x.id \in Ids /\ NewLayer(x) \in Layers
    BY RecordTypes
  <1>2. /\ layer' = [layer EXCEPT ![x.id] = NewLayer(x)]
        /\ index' = [p \in Tracked |-> IF x.files[p] = Same THEN index[p]
                                                            ELSE x.files[p]]
        /\ revision' = x.base + 1
        /\ recorded' = [recorded EXCEPT ![x.id] = x.view]
    BY DEF Record
  <1>3. /\ x.id \in 1..made /\ x.id \notin Listed /\ x.parent < x.id
        /\ IF Listed = {} THEN x.parent = 0
           ELSE x.parent \in Listed /\ layer[x.parent].revision = revision
        /\ x.files = Dirty(x.view)
    BY DEF IInv, CaptureInv, CaptureOk
  <1>4. /\ layer \in [Ids -> Layers] /\ recorded \in [Ids -> [Tracked -> States]]
        /\ revision \in Nat /\ made \in Nat /\ index \in [Tracked -> States]
        /\ x.view \in [Tracked -> States]
    BY Basics DEF IInv, TypeOK, Captures
  <1>5. \A p \in Tracked : x.files[p] = IF x.view[p] = index[p] THEN Same
                                                               ELSE x.view[p]
    BY <1>3, <1>4, DirtyType
  <1>6. index' = x.view
    <2>1. \A p \in Tracked : index'[p] = x.view[p]
      BY <1>2, <1>4, <1>5, Basics
    <2>2. index' = [p \in Tracked |-> index'[p]]
      BY <1>2
    <2> QED BY <1>4, <2>1, <2>2
  <1>7. Listed' = Listed \cup {x.id}
    <2>1. NewLayer(x).listed = TRUE
      BY DEF NewLayer
    <2>2. \A r \in Ids : layer'[r] = IF r = x.id THEN NewLayer(x) ELSE layer[r]
      BY <1>2, <1>4
    <2> QED BY <1>1, <2>1, <2>2 DEF Listed
  <1>8. layer'[x.id] = NewLayer(x) /\ recorded'[x.id] = x.view
    BY <1>1, <1>2, <1>4
  <1>9. \A r \in Ids : r # x.id => layer'[r] = layer[r] /\ recorded'[r] = recorded[r]
    BY <1>2, <1>4
  <1> QED BY <1>1, <1>2, <1>3, <1>4, <1>5, <1>6, <1>7, <1>8, <1>9

LEMMA CommitChain ==
  ASSUME IInv, NEW t \in Tasks, NEW x \in Captures, x = capture[t],
         x.pc = "copied", x.base = revision, Record(x),
         made' = made, removing' = removing, EmptiedKept
  PROVE  ChainInv'
  <1> PICK s \in Ids : s = x.id
    BY RecordShape
  <1>1. /\ s \notin Listed /\ s <= made
        /\ Listed' = Listed \cup {s}
        /\ \A r \in Ids : r # s => layer'[r] = layer[r] /\ recorded'[r] = recorded[r]
        /\ recorded'[s] = x.view /\ index' = x.view
        /\ revision' = revision + 1 /\ revision \in Nat
        /\ x.parent < s
        /\ Listed = {} => x.parent = 0
        /\ Listed # {} => x.parent \in Listed /\ layer[x.parent].revision = revision
    BY RecordShape
  <1>2. /\ layer'[s].revision = revision + 1
        /\ layer'[s].parent = x.parent
        /\ layer'[s].anchored # Gone => layer'[s].source = s
    <2>1. layer'[s] = NewLayer(x)
      BY RecordShape
    <2> QED BY <2>1 DEF NewLayer
  <1>3. /\ Listed \subseteq Ids /\ s # 0
        /\ \A r \in Listed : r # s /\ r \in Ids /\ layer[r].revision \in Nat
                            /\ layer[r].revision <= revision
    BY <1>1, Basics DEF IInv, ChainInv, LayerInv, Listed
  <1>4. OneChain'
    <2> SUFFICES ASSUME NEW r \in Listed'
                 PROVE  /\ layer'[r].parent # 0 =>
                             /\ layer'[r].parent \in Listed'
                             /\ layer'[r].revision = layer'[layer'[r].parent].revision + 1
                        /\ \A q \in Listed' : layer'[r].revision = layer'[q].revision => r = q
      BY DEF OneChain
    <2>1. CASE r = s
      BY <1>1, <1>2, <1>3, <2>1
    <2>2. CASE r \in Listed
      <3>1. /\ layer[r].parent # 0 => /\ layer[r].parent \in Listed
                                      /\ layer[r].revision = layer[layer[r].parent].revision + 1
            /\ \A q \in Listed : layer[r].revision = layer[q].revision => r = q
        BY <2>2 DEF IInv, ChainInv, OneChain
      <3>2. layer'[r] = layer[r] /\ \A q \in Listed : layer'[q] = layer[q]
        BY <1>1, <1>3, <2>2
      <3>3. \A q \in Listed' : layer'[r].revision = layer'[q].revision => r = q
        BY <1>1, <1>2, <1>3, <2>2, <3>1, <3>2
      <3> QED BY <1>1, <2>2, <3>1, <3>2, <3>3
    <2> QED BY <1>1, <2>1, <2>2
  <1>5. CommittedInv'
    BY <1>1, <1>2, <1>3 DEF CommittedInv
  <1>6. LayerInv'
    <2>1. \A r \in Ids \ Listed' : layer'[r] = NoLayer
      BY <1>1 DEF IInv, ChainInv, LayerInv
    <2>2. ASSUME NEW r \in Listed'
          PROVE  /\ r <= made' /\ layer'[r].revision \in 1..revision'
                 /\ layer'[r].parent < r
                 /\ layer'[r].anchored # Gone => layer'[r].source # 0
      <3>1. CASE r = s
        BY <1>1, <1>2, <1>3, <3>1
      <3>2. CASE r \in Listed
        <4>1. /\ r <= made /\ layer[r].revision \in 1..revision
              /\ layer[r].parent < r
              /\ layer[r].anchored # Gone => layer[r].source # 0
          BY <3>2 DEF IInv, ChainInv, LayerInv
        <4> QED BY <1>1, <1>3, <3>2, <4>1
      <3> QED BY <1>1, <3>1, <3>2
    <2> QED BY <2>1, <2>2 DEF LayerInv
  <1>7. RemovingInv'
    <2>1. /\ removing \subseteq Listed
          /\ \A r \in removing : layer[r].revision < revision
          /\ \A r \in Listed : layer[r].parent \in removing => r \in removing
      BY DEF IInv, ChainInv, RemovingInv
    <2>2. layer'[s].parent \notin removing
      BY <1>1, <1>2, <1>3, <2>1, Basics
    <2>3. removing' \subseteq Listed'
      BY <1>1, <2>1
    <2>4. \A r \in removing : layer'[r].revision < revision'
      BY <1>1, <1>3, <2>1
    <2>5. \A r \in Listed' : layer'[r].parent \in removing => r \in removing
      BY <1>1, <1>3, <2>1, <2>2
    <2> QED BY <2>3, <2>4, <2>5 DEF RemovingInv
  <1>8. EmptiedInv'
    <2> SUFFICES ASSUME NEW q \in Ids, Emptied(q)'
                 PROVE  /\ q \in Listed' /\ layer'[q].revision < revision'
                        /\ \A r \in Listed' : layer'[r].parent # q
      BY DEF EmptiedInv
    <2>1. /\ q \in Listed /\ layer[q].revision < revision
          /\ \A r \in Listed : layer[r].parent # q
      BY DEF EmptiedKept, IInv, ChainInv, EmptiedInv
    <2>2. x.parent # q
      BY <1>1, <1>3, <2>1, Basics
    <2> QED BY <1>1, <1>2, <1>3, <2>1, <2>2
  <1> QED BY <1>4, <1>5, <1>6, <1>7, <1>8 DEF ChainInv

-----------------------------------------------------------------------------
(* Compaction: the chain is cut behind the oldest snapshot kept.           *)

LEMMA KeptFacts ==
  ASSUME IInv, Listed # {}
  PROVE  /\ Kept \subseteq Listed /\ Kept # {}
         /\ OldestKept \in Kept
         /\ \A t \in Kept \ {OldestKept} : OlderThan(OldestKept, t)
         /\ Leaving \subseteq Listed /\ \A s \in Leaving : layer[s].revision < revision
         /\ \A s \in Listed, t \in Kept : OlderThan(t, s) => s \in Kept
  <1>1. /\ Listed \in SUBSET Ids /\ layer \in [Ids -> Layers] /\ revision \in Nat
        /\ \A s \in Listed : layer[s].revision \in Nat /\ layer[s].revision <= revision
    BY DEF IInv, TypeOK, ChainInv, LayerInv, Listed
  <1>2. IsFiniteSet(Listed)
    <2>1. IsFiniteSet(Ids)
      BY Basics, FS_Interval DEF Ids
    <2> QED BY <1>1, <2>1, FS_Subset
  <1> DEFINE After(s) == {t \in Listed : OlderThan(s, t)}
  <1>3. ASSUME NEW s \in Listed, NEW t \in Kept, OlderThan(t, s)
        PROVE  s \in Kept
    <2>1. t \in Listed /\ Cardinality(After(t)) < KeepLast
      BY DEF Kept
    <2>2. After(s) \in SUBSET After(t)
      BY <1>1, <1>3, <2>1 DEF OlderThan
    <2>3. IsFiniteSet(After(t)) /\ After(t) \in SUBSET Listed
      BY <1>2, FS_Subset
    <2> HIDE DEF After
    <2>4. /\ Cardinality(After(s)) <= Cardinality(After(t))
          /\ IsFiniteSet(After(s))
      BY <2>2, <2>3, FS_Subset
    <2>5. Cardinality(After(s)) \in Nat /\ Cardinality(After(t)) \in Nat
      BY <2>3, <2>4, FS_CardinalityType
    <2>6. Cardinality(After(s)) < KeepLast
      BY <2>1, <2>4, <2>5, SnapshotLayersAssumption
    <2> QED BY <2>6 DEF Kept, After
  <1>4. ASSUME NEW s \in Listed, layer[s].revision = revision
        PROVE  s \in Kept
    <2>1. After(s) = {}
      BY <1>1, <1>4 DEF OlderThan
    <2>2. Cardinality({}) = 0 /\ 0 < KeepLast
      BY FS_EmptySet, SnapshotLayersAssumption
    <2>3. Cardinality(After(s)) < KeepLast
      BY <2>1, <2>2
    <2> QED BY <2>3 DEF Kept
  <1>5. Kept # {} /\ Kept \in SUBSET Listed
    <2>1. \E s \in Listed : layer[s].revision = revision
      BY DEF IInv, ChainInv, CommittedInv
    <2> QED BY <1>4, <2>1 DEF Kept
  <1>6. \E s \in Kept : \A t \in Kept \ {s} : OlderThan(s, t)
    <2>1. Ordered(Kept)
      BY <1>5 DEF IInv, ChainInv, OneChain, Ordered
    <2> QED BY <1>1, <1>5, <2>1, OldestExists
  <1>7. OldestKept \in Kept /\ \A t \in Kept \ {OldestKept} : OlderThan(OldestKept, t)
    BY <1>6 DEF OldestKept
  <1>8. \A s \in Listed \ Kept : layer[s].revision < revision
    BY <1>1, <1>4
  <1> QED BY <1>3, <1>5, <1>7, <1>8 DEF Leaving

(* A kept snapshot whose parent goes is the oldest one.                    *)
LEMMA OnlyOldestIsCut ==
  ASSUME IInv, NEW s \in Kept, layer[s].parent \in Leaving
  PROVE  s \in Cut
  <1> SUFFICES s = OldestKept
    BY DEF Cut
  <1> SUFFICES ASSUME s # OldestKept PROVE FALSE
    OBVIOUS
  <1>1. Listed # {} /\ s \in Listed
    BY DEF Kept
  <1>2. OldestKept \in Kept /\ OldestKept \in Listed /\ OlderThan(OldestKept, s)
    BY <1>1, KeptFacts
  <1> PICK q \in Listed \ Kept : q = layer[s].parent
    BY DEF Leaving
  <1>3. q # 0 /\ layer[s].revision = layer[q].revision + 1
    BY <1>1, Basics DEF IInv, ChainInv, OneChain, Listed
  <1>4. \A r \in Listed : layer[r].revision \in Nat
    BY DEF Listed, IInv, TypeOK, Layers
  <1>5. layer[OldestKept].revision # layer[q].revision
    BY <1>2 DEF IInv, ChainInv, OneChain
  <1>6. OlderThan(OldestKept, q)
    BY <1>1, <1>2, <1>3, <1>4, <1>5 DEF OlderThan
  <1> QED BY <1>1, <1>2, <1>6, KeptFacts

LEMMA CompactionChain ==
  ASSUME IInv, NEW moved, Compacts(moved)
  PROVE  ChainInv'
  <1>0. /\ UNCHANGED <<index, revision, made, recorded>>
        /\ Listed # {} /\ removing = {} /\ removing' \in {Leaving, {}}
        /\ Listed \subseteq Ids /\ Leaving \subseteq Listed
    BY DEF Compacts, Compact, Leaving, Listed
  <1>1. \A s \in Ids :
          /\ layer'[s].listed = layer[s].listed
          /\ layer'[s].revision = layer[s].revision
          /\ layer'[s].anchored = layer[s].anchored
          /\ layer'[s].parent = IF s \in Cut THEN 0 ELSE layer[s].parent
          /\ layer'[s].source = IF s \in moved THEN s ELSE layer[s].source
    BY CompactionShape, CompactedRowType
  <1>2. Listed' = Listed
    BY <1>1 DEF Listed
  <1>3. Cut \subseteq Listed /\ moved \subseteq Listed
    BY <1>0, KeptFacts, MovedFacts DEF Cut
  <1>4. OneChain'
    <2> SUFFICES ASSUME NEW r \in Listed
                 PROVE  /\ layer'[r].parent # 0 =>
                             /\ layer'[r].parent \in Listed
                             /\ layer'[r].revision = layer'[layer'[r].parent].revision + 1
                        /\ \A q \in Listed : layer'[r].revision = layer'[q].revision => r = q
      BY <1>2 DEF OneChain
    <2>1. /\ layer[r].parent # 0 => /\ layer[r].parent \in Listed
                                    /\ layer[r].revision = layer[layer[r].parent].revision + 1
          /\ \A q \in Listed : layer[r].revision = layer[q].revision => r = q
      BY DEF IInv, ChainInv, OneChain
    <2>2. layer'[r].parent # 0 => layer'[r].parent = layer[r].parent
      BY <1>0, <1>1
    <2> QED BY <1>0, <1>1, <2>1, <2>2
  <1>5. CommittedInv'
    BY <1>0, <1>1, <1>2 DEF CommittedInv, IInv, ChainInv
  <1>6. LayerInv'
    <2>1. ASSUME NEW s \in Ids \ Listed PROVE layer'[s] = NoLayer
      <3>1. layer'[s] = layer[s]
        <4>1. layer'[s] = CompactedRow(moved, s) /\ s \notin Cut /\ s \notin moved
          BY <1>3, <2>1, CompactionShape
        <4> QED BY <4>1 DEF CompactedRow, CutRow
      <3> QED BY <3>1 DEF IInv, ChainInv, LayerInv
    <2>2. ASSUME NEW s \in Listed
          PROVE  /\ s <= made /\ layer'[s].revision \in 1..revision
                 /\ layer'[s].parent < s
                 /\ layer'[s].anchored # Gone => layer'[s].source # 0
      <3>1. /\ s <= made /\ layer[s].revision \in 1..revision
            /\ layer[s].parent < s
            /\ layer[s].anchored # Gone => layer[s].source # 0
        BY DEF IInv, ChainInv, LayerInv
      <3>2. 0 < s /\ s # 0 /\ s \in Ids
        BY <1>0 DEF Ids
      <3> QED BY <1>1, <3>1, <3>2
    <2> QED BY <1>0, <1>2, <2>1, <2>2 DEF LayerInv
  <1>7. RemovingInv'
    <2>1. \A s \in Leaving : layer'[s].revision < revision
      BY <1>0, <1>1, KeptFacts
    <2>2. ASSUME NEW s \in Listed, layer'[s].parent \in Leaving
          PROVE  s \in Leaving
      <3>1. 0 \notin Listed /\ s \in Ids
        BY <1>0, Basics
      <3>2. layer'[s].parent = layer[s].parent /\ layer[s].parent \in Leaving
            /\ s \notin Cut
        BY <1>0, <1>1, <2>2, <3>1
      <3> QED BY <3>2, OnlyOldestIsCut DEF Leaving
    <2> QED BY <1>0, <1>2, <2>1, <2>2 DEF RemovingInv
  <1>8. EmptiedInv'
    <2> SUFFICES ASSUME NEW q \in Ids, Emptied(q)'
                 PROVE  /\ q \in Listed' /\ layer'[q].revision < revision'
                        /\ \A r \in Listed' : layer'[r].parent # q
      BY DEF EmptiedInv
    <2>1. Emptied(q)
      BY CompactionShape, MovedFacts, Basics DEF Emptied
    <2>2. /\ q \in Listed /\ layer[q].revision < revision
          /\ \A r \in Listed : layer[r].parent # q
      BY <2>1 DEF IInv, ChainInv, EmptiedInv
    <2>3. q # 0
      BY Basics
    <2> QED BY <1>0, <1>1, <1>2, <2>2, <2>3
  <1> QED BY <1>4, <1>5, <1>6, <1>7, <1>8 DEF ChainInv

LEMMA RemoveChain ==
  ASSUME IInv, RemoveCompacted
  PROVE  ChainInv'
  <1> PICK n \in Ids : n = Newest(removing)
    BY RemovedIsNewest DEF RemoveCompacted
  <1>1. /\ removing # {} /\ removing' = removing \ {n}
        /\ layer' = [layer EXCEPT ![n] = NoLayer]
        /\ recorded' = [recorded EXCEPT ![n] = NothingSeen]
        /\ UNCHANGED <<index, revision, made>>
    BY DEF RemoveCompacted
  <1>2. /\ n \in removing /\ n \in Listed
        /\ \A s \in Listed : layer[s].parent # n
    BY <1>1, RemovedIsNewest
  <1>3. /\ layer'[n] = NoLayer
        /\ \A s \in Ids \ {n} : layer'[s] = layer[s] /\ recorded'[s] = recorded[s]
    BY <1>1 DEF IInv, TypeOK
  <1>4. Listed' = Listed \ {n} /\ Listed \subseteq Ids
    BY <1>3 DEF Listed, NoLayer
  <1>5. layer[n].revision < revision
    BY <1>2 DEF IInv, ChainInv, RemovingInv
  <1>6. OneChain'
    <2>1. \A s \in Listed' : s \in Listed /\ layer'[s] = layer[s] /\ layer[s].parent # n
      BY <1>2, <1>3, <1>4
    <2>2. \A s \in Listed :
            /\ layer[s].parent # 0 => /\ layer[s].parent \in Listed
                                      /\ layer[s].revision = layer[layer[s].parent].revision + 1
            /\ \A t \in Listed : layer[s].revision = layer[t].revision => s = t
      BY DEF IInv, ChainInv, OneChain
    <2> SUFFICES ASSUME NEW r \in Listed'
                 PROVE  /\ layer'[r].parent # 0 =>
                             /\ layer'[r].parent \in Listed'
                             /\ layer'[r].revision = layer'[layer'[r].parent].revision + 1
                        /\ \A q \in Listed' : layer'[r].revision = layer'[q].revision => r = q
      BY DEF OneChain
    <2> QED BY <1>4, <2>1, <2>2
  <1>7. CommittedInv'
    <2>1. PICK s \in Listed : layer[s].revision = revision
      BY <1>2 DEF IInv, ChainInv, CommittedInv
    <2>2. revision \in Nat /\ s # n
      BY <1>5, <2>1 DEF IInv, TypeOK
    <2>3. s \in Listed' /\ layer'[s].revision = revision'
      BY <1>1, <1>3, <1>4, <2>1, <2>2
    <2>4. \A r \in Listed' : layer'[r].revision = revision' => index' = recorded'[r]
      BY <1>1, <1>3, <1>4 DEF IInv, ChainInv, CommittedInv
    <2> QED BY <2>3, <2>4 DEF CommittedInv
  <1>8. LayerInv'
    <2>1. \A s \in Ids \ Listed' : layer'[s] = NoLayer
      BY <1>3, <1>4 DEF IInv, ChainInv, LayerInv
    <2>2. \A s \in Listed' : s \in Listed /\ layer'[s] = layer[s]
      BY <1>3, <1>4
    <2> QED BY <1>1, <2>1, <2>2 DEF IInv, ChainInv, LayerInv
  <1>9. RemovingInv'
    <2>1. \A s \in Listed' : s \in Listed /\ layer'[s] = layer[s]
      BY <1>3, <1>4
    <2>2. removing' \subseteq Listed'
      BY <1>1, <1>4 DEF IInv, ChainInv, RemovingInv
    <2>3. \A r \in removing : r # n => layer'[r] = layer[r] /\ layer[r].revision < revision
      BY <1>3 DEF IInv, TypeOK, ChainInv, RemovingInv
    <2>4. \A s \in Listed' : layer'[s].parent \in removing' => s \in removing'
      BY <1>1, <1>4, <2>1 DEF IInv, ChainInv, RemovingInv
    <2> QED BY <1>1, <2>2, <2>3, <2>4 DEF RemovingInv
  <1>10. EmptiedInv'
    <2> SUFFICES ASSUME NEW q \in Ids, Emptied(q)'
                 PROVE  /\ q \in Listed' /\ layer'[q].revision < revision'
                        /\ \A r \in Listed' : layer'[r].parent # q
      BY DEF EmptiedInv
    <2>1. Emptied(q) /\ q # n
      BY DEF Emptied, RemoveCompacted
    <2>2. /\ q \in Listed /\ layer[q].revision < revision
          /\ \A r \in Listed : layer[r].parent # q
      BY <2>1 DEF IInv, ChainInv, EmptiedInv
    <2> QED BY <1>1, <1>3, <1>4, <2>1, <2>2
  <1> QED BY <1>6, <1>7, <1>8, <1>9, <1>10 DEF ChainInv

LEMMA StopChain ==
  ASSUME IInv, NEW between \in BOOLEAN, StopCompaction(between)
  PROVE  ChainInv'
  <1> PICK n \in Ids : n = Newest(removing)
    BY RemovedIsNewest DEF StopCompaction
  <1>1. /\ removing' = {} /\ Listed' = Listed /\ Listed \subseteq Ids
        /\ UNCHANGED <<index, revision, made, recorded>>
        /\ n \in removing /\ n \in Listed
        /\ \A r \in Listed : layer[r].parent # n
    BY StopShape, RemovedIsNewest DEF StopCompaction, Listed
  <1>2. \A s \in Ids : /\ layer'[s].revision = layer[s].revision
                       /\ layer'[s].parent = layer[s].parent
                       /\ layer'[s].anchored = layer[s].anchored
                       /\ layer'[s].source = layer[s].source
                       /\ s # n => layer'[s] = layer[s]
    BY StopShape, StoppedRowType
  <1>3. OneChain' /\ CommittedInv'
    <2>1. OneChain'
      <3> SUFFICES ASSUME NEW r \in Listed
                   PROVE  /\ layer'[r].parent # 0 =>
                               /\ layer'[r].parent \in Listed
                               /\ layer'[r].revision = layer'[layer'[r].parent].revision + 1
                          /\ \A q \in Listed : layer'[r].revision = layer'[q].revision => r = q
        BY <1>1 DEF OneChain
      <3> QED BY <1>1, <1>2 DEF IInv, ChainInv, OneChain
    <2> QED BY <1>1, <1>2, <2>1 DEF IInv, ChainInv, CommittedInv
  <1>4. LayerInv'
    BY <1>1, <1>2 DEF IInv, ChainInv, LayerInv
  <1>5. RemovingInv'
    BY <1>1 DEF RemovingInv
  <1>6. EmptiedInv'
    <2> SUFFICES ASSUME NEW q \in Ids, Emptied(q)'
                 PROVE  /\ q \in Listed' /\ layer'[q].revision < revision'
                        /\ \A r \in Listed' : layer'[r].parent # q
      BY DEF EmptiedInv
    <2>1. Emptied(q) \/ q = n
      <3>1. \A s \in Borrowed : layer[s].anchor # NoPath
        BY Basics DEF Borrowed
      <3> QED BY <3>1, StopShape DEF Emptied
    <2>2. /\ q \in Listed /\ layer[q].revision < revision
          /\ \A r \in Listed : layer[r].parent # q
      BY <1>1, <2>1 DEF IInv, ChainInv, EmptiedInv, RemovingInv
    <2> QED BY <1>1, <1>2, <2>2
  <1> QED BY <1>3, <1>4, <1>5, <1>6 DEF ChainInv

LEMMA QuietChain ==
  ASSUME IInv, UNCHANGED <<layer, index, revision, recorded>>, made' \in Nat,
         made <= made', removing' = removing \/ removing' = {}, EmptiedKept
  PROVE  ChainInv'
  <1>1. Listed' = Listed /\ Listed \subseteq Nat /\ made \in Nat
    <2>1. Listed' = Listed /\ Listed \subseteq Ids
      BY DEF Listed
    <2> QED BY <2>1, Basics DEF IInv, TypeOK
  <1>2. OneChain' /\ CommittedInv'
    BY <1>1 DEF IInv, ChainInv, OneChain, CommittedInv
  <1>3. LayerInv'
    <2>1. \A s \in Listed : s <= made
      BY DEF IInv, ChainInv, LayerInv
    <2>2. \A s \in Listed : s <= made'
      BY <1>1, <2>1
    <2> QED BY <1>1, <2>2 DEF IInv, ChainInv, LayerInv
  <1>4. RemovingInv'
    BY <1>1 DEF IInv, ChainInv, RemovingInv
  <1>5. EmptiedInv'
    BY <1>1 DEF IInv, ChainInv, EmptiedInv, EmptiedKept
  <1> QED BY <1>2, <1>3, <1>4, <1>5 DEF ChainInv

LEMMA PersistChain ==
  ASSUME IInv, NEW torn \in SUBSET Ids, PersistAnchorSource(torn)
  PROVE  ChainInv'
  <1> PICK s \in Ids, t \in Ids : /\ rebasing = <<s, t>>
                                  /\ s \in Listed => layer[s].anchor \in Paths
    <2>1. rebasing # <<0, 0>>
      BY DEF PersistAnchorSource
    <2> QED BY <2>1, RebasedAnchor
  <1>1. /\ layer' = IF s \in Listed THEN [layer EXCEPT ![s].source = t] ELSE layer
        /\ UNCHANGED <<index, revision, made, recorded, removing>>
    BY DEF PersistAnchorSource
  <1>2. \A r \in Ids :
          /\ layer'[r].listed = layer[r].listed
          /\ layer'[r].revision = layer[r].revision
          /\ layer'[r].parent = layer[r].parent
          /\ layer'[r].anchored = layer[r].anchored
          /\ layer'[r].source = layer[r].source \/ layer'[r].source = t
          /\ r \notin Listed => layer'[r] = layer[r]
    BY <1>1 DEF IInv, TypeOK, Layers
  <1>3. Listed' = Listed /\ Listed \subseteq Ids /\ t # 0
    BY <1>2, Basics DEF Listed
  <1>4. OneChain'
    <2> SUFFICES ASSUME NEW r \in Listed
                 PROVE  /\ layer'[r].parent # 0 =>
                             /\ layer'[r].parent \in Listed
                             /\ layer'[r].revision = layer'[layer'[r].parent].revision + 1
                        /\ \A q \in Listed : layer'[r].revision = layer'[q].revision => r = q
      BY <1>3 DEF OneChain
    <2> QED BY <1>2, <1>3 DEF IInv, ChainInv, OneChain
  <1>5. CommittedInv'
    BY <1>1, <1>2, <1>3 DEF IInv, ChainInv, CommittedInv
  <1>6. LayerInv'
    BY <1>1, <1>2, <1>3 DEF IInv, ChainInv, LayerInv
  <1>7. RemovingInv'
    BY <1>1, <1>2, <1>3 DEF IInv, ChainInv, RemovingInv
  <1>8. EmptiedInv'
    <2>1. EmptiedKept
      <3>1. harmed' = IF s \in Listed /\ t \notin (Listed \ removing) \cup {s}
                      THEN harmed \cup {<<s, layer[s].anchor>>} ELSE harmed
        BY DEF PersistAnchorSource
      <3> QED BY <3>1, Basics DEF EmptiedKept, Emptied
    <2> QED BY <1>1, <1>2, <1>3, <2>1 DEF IInv, ChainInv, EmptiedInv, EmptiedKept
  <1> QED BY <1>4, <1>5, <1>6, <1>7, <1>8 DEF ChainInv

-----------------------------------------------------------------------------
(* What a task carries across its awaits.                                  *)

(* Either the revision moves on, or the newest snapshot stays.             *)
NewestKept ==
  /\ revision' \in Nat /\ made' \in Nat /\ made <= made'
  /\ \/ revision < revision'
     \/ /\ revision' = revision /\ index' = index
        /\ Listed = {} => Listed' = {}
        /\ \A s \in Listed :
             layer[s].revision = revision =>
               s \in Listed' /\ layer'[s].revision = revision

(* The directory of a capture is still its own, and its copies are as they *)
(* were or known to be harmed.                                             *)
CopyKept(t) ==
  LET s == capture[t].id
  IN s # 0 =>
       /\ s \notin Listed'
       /\ \A u \in Tasks \ {t} : capture'[u].id # s
       /\ \A p \in Tracked :
            /\ blob'[s][p] = blob[s][p] \/ <<s, p>> \in harmed'
            /\ <<s, p>> \in harmed => <<s, p>> \in harmed'
       /\ manifest'[s] = "none" => manifest[s] = "none" \/ {s} \X Paths \subseteq harmed'
       /\ {s} \X Paths \subseteq harmed => {s} \X Paths \subseteq harmed'

LEMMA CaptureFrame ==
  ASSUME IInv, NEW t \in Tasks, capture'[t] = capture[t], NewestKept, CopyKept(t)
  PROVE  CaptureOk(t)'
  <1> PICK x \in Captures : x = capture[t]
    BY DEF IInv, TypeOK
  <1>1. CaptureOk(t) /\ revision \in Nat /\ made \in Nat
    BY Basics DEF IInv, CaptureInv, TypeOK
  <1>2. x.base <= revision' /\ x.base \in Nat
    BY <1>1 DEF CaptureOk, NewestKept, Captures
  <1>3. x.base = revision' => /\ x.base = revision /\ revision' = revision
                              /\ index' = index /\ Dirty(x.view)' = Dirty(x.view)
    BY <1>1, <1>2 DEF CaptureOk, NewestKept, Dirty
  <1>4. ASSUME x.pc = "copied"
        PROVE  /\ x.id \in 1..made' /\ x.id \notin Listed'
               /\ x.parent < x.id
               /\ \A u \in Tasks : capture'[u].id = x.id => u = t
               /\ manifest'[x.id] = "none" => {x.id} \X Paths \subseteq harmed'
               /\ \A p \in Tracked :
                    x.files[p] # Same =>
                      blob'[x.id][p] = x.files[p] \/ <<x.id, p>> \in harmed'
    <2>1. /\ x.id \in 1..made
          /\ x.parent < x.id
          /\ manifest[x.id] = "none" => {x.id} \X Paths \subseteq harmed
          /\ \A p \in Tracked :
               x.files[p] # Same =>
                 blob[x.id][p] = x.files[p] \/ <<x.id, p>> \in harmed
      BY <1>1, <1>4 DEF CaptureOk
    <2>2. x.id # 0 /\ x.id \in 1..made'
      BY <1>1, <2>1 DEF NewestKept
    <2>3. /\ x.id \notin Listed'
          /\ \A u \in Tasks \ {t} : capture'[u].id # x.id
          /\ \A p \in Tracked :
               /\ blob'[x.id][p] = blob[x.id][p] \/ <<x.id, p>> \in harmed'
               /\ <<x.id, p>> \in harmed => <<x.id, p>> \in harmed'
          /\ manifest'[x.id] = "none" =>
               manifest[x.id] = "none" \/ {x.id} \X Paths \subseteq harmed'
          /\ {x.id} \X Paths \subseteq harmed => {x.id} \X Paths \subseteq harmed'
      BY <2>2 DEF CopyKept
    <2> QED BY <2>1, <2>2, <2>3
  <1>5. /\ x.pc # "copied" => x.id = 0
        /\ x.pc \in {"scanned", "hashed", "copied"} /\ x.base = revision =>
             x.files = Dirty(x.view)
    BY <1>1 DEF CaptureOk
  <1>6. x.pc \in {"scanned", "hashed", "copied"} /\ x.base = revision' =>
          x.files = Dirty(x.view)'
    BY <1>3, <1>5
  <1>7. ASSUME x.pc \in {"hashed", "copied"}
        PROVE  /\ x.parent <= made'
               /\ x.base = revision' =>
                    IF Listed' = {} THEN x.parent = 0
                    ELSE x.parent \in Listed' /\ layer'[x.parent].revision = revision'
    <2>1. /\ x.parent <= made
          /\ x.base = revision =>
               IF Listed = {} THEN x.parent = 0
               ELSE x.parent \in Listed /\ layer[x.parent].revision = revision
      BY <1>1, <1>7 DEF CaptureOk
    <2>2. x.parent <= made'
      BY <1>1, <2>1, Basics DEF NewestKept, Captures
    <2>3. ASSUME x.base = revision'
          PROVE  IF Listed' = {} THEN x.parent = 0
                 ELSE x.parent \in Listed' /\ layer'[x.parent].revision = revision'
      <3>1. x.base = revision /\ revision' = revision
        BY <1>3, <2>3
      <3>2. /\ Listed = {} => Listed' = {}
            /\ \A s \in Listed :
                 layer[s].revision = revision =>
                   s \in Listed' /\ layer'[s].revision = revision
        BY <1>1, <3>1 DEF NewestKept
      <3> QED BY <2>1, <3>1, <3>2
    <2> QED BY <2>2, <2>3
  <1>8. capture'[t] = x
    OBVIOUS
  <1> QED BY <1>2, <1>4, <1>5, <1>6, <1>7, <1>8 DEF CaptureOk

(* A capture without a directory has little to keep.                       *)
LEMMA CaptureFresh ==
  ASSUME NEW t \in Tasks, NEW x, x = capture'[t], x.pc \notin {"scanned", "hashed", "copied"},
         x.id = 0, x.base <= revision'
  PROVE  CaptureOk(t)'
  BY DEF CaptureOk

-----------------------------------------------------------------------------
(* What the files of the snapshots and the anchor being rebased rest on.   *)

LayersKept ==
  /\ Listed' \subseteq Listed
  /\ \A s \in Listed' : /\ Emptied(s)' \/ layer'[s].files = layer[s].files
                        /\ Emptied(s) => Emptied(s)'
                        /\ layer'[s].revision = layer[s].revision
                        /\ layer'[s].parent = layer[s].parent
                        /\ recorded'[s] = recorded[s]

CopiesKept ==
  /\ \A s \in Listed', p \in Tracked :
       layer[s].files[p] # Same =>
         /\ blob'[s][p] = blob[s][p] \/ <<s, p>> \in harmed'
         /\ <<s, p>> \in harmed => <<s, p>> \in harmed'
  /\ \A s \in Listed' :
       /\ manifest'[s] = "none" => manifest[s] = "none" \/ {s} \X Paths \subseteq harmed'
       /\ {s} \X Paths \subseteq harmed => {s} \X Paths \subseteq harmed'

LEMMA FilesFrame ==
  ASSUME IInv, LayersKept, CopiesKept, OneChain'
  PROVE  FilesInv' /\ ManifestsKept'
  <1>0. ManifestsKept'
    BY DEF IInv, ManifestsKept, LayersKept, CopiesKept
  <1> SUFFICES ASSUME NEW s \in Listed', ~Emptied(s)', NEW p \in Tracked
               PROVE  IF layer'[s].files[p] = Same
                      THEN IF layer'[s].parent = 0
                           THEN layer'[s].revision = 1 => recorded'[s][p] = Gone
                           ELSE recorded'[s][p] = recorded'[layer'[s].parent][p]
                      ELSE /\ recorded'[s][p] = layer'[s].files[p]
                           /\ blob'[s][p] = recorded'[s][p] \/ <<s, p>> \in harmed'
    BY <1>0 DEF FilesInv
  <1>1. /\ s \in Listed /\ ~Emptied(s) /\ layer'[s].files = layer[s].files
        /\ layer'[s].revision = layer[s].revision
        /\ layer'[s].parent = layer[s].parent /\ recorded'[s] = recorded[s]
    BY DEF LayersKept
  <1>2. layer[s].parent # 0 => recorded'[layer[s].parent] = recorded[layer[s].parent]
    BY <1>1 DEF LayersKept, OneChain
  <1>3. IF layer[s].files[p] = Same
        THEN IF layer[s].parent = 0
             THEN layer[s].revision = 1 => recorded[s][p] = Gone
             ELSE recorded[s][p] = recorded[layer[s].parent][p]
        ELSE /\ recorded[s][p] = layer[s].files[p]
             /\ blob[s][p] = recorded[s][p] \/ <<s, p>> \in harmed
    BY <1>1 DEF IInv, FilesInv
  <1>4. layer[s].files[p] # Same =>
          /\ blob'[s][p] = blob[s][p] \/ <<s, p>> \in harmed'
          /\ <<s, p>> \in harmed => <<s, p>> \in harmed'
    BY DEF CopiesKept
  <1> QED BY <1>1, <1>2, <1>3, <1>4

RebaseKept ==
  /\ rebasing' = rebasing \/ rebasing' = <<0, 0>>
  /\ made' \in Nat /\ made <= made'
  /\ \A t \in Tasks : \/ capture'[t].id = capture[t].id
                      \/ capture'[t].id = 0
                      \/ capture'[t].id > made
  /\ \A s \in Listed' : \/ s \in Listed /\ layer'[s].anchor = layer[s].anchor
                        \/ \E t \in Tasks : s = capture[t].id

LEMMA RebaseFrame ==
  ASSUME IInv, RebaseKept
  PROVE  RebaseInv'
  <1> SUFFICES ASSUME rebasing' # <<0, 0>>
               PROVE  /\ rebasing' \in Ids \X Ids /\ rebasing'[1] <= made'
                      /\ \A t \in Tasks : capture'[t].id # rebasing'[1]
                      /\ rebasing'[1] \in Listed' => layer'[rebasing'[1]].anchor \in Paths
    BY DEF RebaseInv
  <1>1. rebasing' = rebasing
    BY DEF RebaseKept
  <1>2. /\ rebasing \in Ids \X Ids /\ rebasing[1] <= made
        /\ \A t \in Tasks : capture[t].id # rebasing[1]
        /\ rebasing[1] \in Listed => layer[rebasing[1]].anchor \in Paths
    BY <1>1 DEF IInv, RebaseInv
  <1> PICK s \in Ids : s = rebasing[1]
    BY <1>2
  <1>3. s \in Nat \ {0} /\ made \in Nat
    BY Basics DEF IInv, TypeOK
  <1>4. s <= made' /\ \A t \in Tasks : capture'[t].id # s
    BY <1>2, <1>3 DEF RebaseKept
  <1>5. s \in Listed' => layer'[s].anchor \in Paths
    BY <1>2 DEF RebaseKept
  <1> QED BY <1>1, <1>2, <1>4, <1>5

-----------------------------------------------------------------------------
(* Steps that commit and remove nothing.                                   *)

UsedKept ==
  /\ harmed \subseteq harmed' /\ EmptiedKept
  /\ \A s \in Ids : s \in Listed \/ (\E t \in Tasks : s = capture[t].id) =>
       /\ \A p \in Tracked : blob'[s][p] = blob[s][p] \/ <<s, p>> \in harmed'
       /\ manifest'[s] = "none" => manifest[s] = "none" \/ {s} \X Paths \subseteq harmed'

CapturesQuiet ==
  \A t \in Tasks : capture'[t] = capture[t] \/ (CaptureOk(t)' /\ capture'[t].id = 0)

LEMMA QuietStep ==
  ASSUME IInv, TypeOK', SourceInv', UNCHANGED <<layer, index, revision, recorded, made>>,
         UsedKept, CapturesQuiet, removing' = removing \/ removing' = {},
         rebasing' = rebasing \/ rebasing' = <<0, 0>>
  PROVE  IInv'
  <1>1. /\ made \in Nat /\ revision \in Nat /\ Listed' = Listed /\ Listed \subseteq Ids
        /\ made <= made' /\ made' \in Nat
    BY Basics DEF IInv, TypeOK, Listed
  <1>2. ChainInv'
    BY <1>1, QuietChain DEF UsedKept
  <1>3. FilesInv' /\ ManifestsKept'
    <2>1. LayersKept
      BY <1>1 DEF LayersKept, UsedKept, Emptied
    <2>2. CopiesKept
      BY <1>1 DEF CopiesKept, UsedKept
    <2> QED BY <1>2, <2>1, <2>2, FilesFrame DEF ChainInv
  <1>4. CaptureInv'
    <2>1. NewestKept
      BY <1>1 DEF NewestKept
    <2>2. ASSUME NEW t \in Tasks, capture'[t] = capture[t], capture[t].id # 0
          PROVE  CopyKept(t)
      <3>1. /\ capture[t].id \in Ids /\ capture[t].id \notin Listed
            /\ \A u \in Tasks : capture[u].id = capture[t].id => u = t
        <4>1. capture[t].pc = "copied"
          BY <2>2 DEF IInv, CaptureInv, CaptureOk
        <4>2. /\ capture[t].id \in 1..made /\ capture[t].id \notin Listed
              /\ \A u \in Tasks : capture[u].id = capture[t].id => u = t
          BY <4>1 DEF IInv, CaptureInv, CaptureOk
        <4>3. capture[t].id \in 0..MaxSnapshots
          BY DEF IInv, TypeOK, Captures
        <4> QED BY <1>1, <4>2, <4>3, Basics DEF Ids
      <3>2. \A u \in Tasks \ {t} : capture'[u].id # capture[t].id
        BY <2>2, <3>1 DEF CapturesQuiet
      <3> QED BY <1>1, <3>1, <3>2 DEF CopyKept, UsedKept
    <2>3. ASSUME NEW t \in Tasks, capture'[t] = capture[t]
          PROVE  CaptureOk(t)'
      <3>1. CopyKept(t)
        BY <2>2, <2>3 DEF CopyKept
      <3> QED BY <2>1, <2>3, <3>1, CaptureFrame
    <2> QED BY <2>3 DEF CapturesQuiet, CaptureInv
  <1>5. RebaseInv'
    <2>1. RebaseKept
      BY <1>1 DEF RebaseKept, CapturesQuiet
    <2> QED BY <2>1, RebaseFrame
  <1> QED BY <1>2, <1>3, <1>4, <1>5 DEF IInv

LEMMA EditStep ==
  ASSUME IInv, NEW p \in Paths, NEW c \in States, Edit(p, c)
  PROVE  IInv'
  <1>1. TypeOK'
    BY TypeEdit
  <1>2. /\ UNCHANGED <<layer, index, revision, recorded, made>>
        /\ UsedKept /\ CapturesQuiet /\ SourceInv'
    BY DEF Edit, database, directories, tasks, UsedKept, EmptiedKept, Emptied, CapturesQuiet, IInv, SourceInv
  <1>3. removing' = removing /\ rebasing' = rebasing
    BY DEF Edit, tasks
  <1> QED BY <1>1, <1>2, <1>3, QuietStep

LEMMA StartScanStep ==
  ASSUME IInv, NEW t \in Tasks, NEW anchor \in Paths \cup {NoPath},
         StartScan(t, anchor), t = "create" => ~collecting
  PROVE  IInv'
  <1>1. TypeOK'
    BY TypeStartScan
  <1>2. /\ UNCHANGED <<layer, index, revision, recorded, made>>
        /\ UsedKept /\ SourceInv'
    BY DEF StartScan, database, directories, UsedKept, EmptiedKept, Emptied, IInv, SourceInv
  <1>3. CapturesQuiet
    <2> PICK x : x = [NoCapture EXCEPT !.pc = "scanning", !.base = revision,
                                       !.anchor = anchor]
      OBVIOUS
    <2>1. x.pc = "scanning" /\ x.id = 0 /\ x.base = revision
      BY DEF NoCapture
    <2>2. capture'[t] = x /\ \A u \in Tasks : u # t => capture'[u] = capture[u]
      BY DEF StartScan, IInv, TypeOK
    <2>3. x.base <= revision'
      BY <1>2, <2>1 DEF IInv, TypeOK
    <2>4. CaptureOk(t)'
      BY <2>1, <2>2, <2>3, CaptureFresh
    <2> QED BY <2>1, <2>2, <2>4 DEF CapturesQuiet
  <1>4. removing' = removing /\ rebasing' = rebasing
    BY DEF StartScan
  <1> QED BY <1>1, <1>2, <1>3, <1>4, QuietStep

LEMMA ScanStep ==
  ASSUME IInv, NEW t \in Tasks, NEW view \in Views, Scan(t, view)
  PROVE  IInv'
  <1>1. TypeOK'
    BY TypeScan
  <1>2. /\ UNCHANGED <<layer, index, revision, recorded, made>>
        /\ UsedKept /\ SourceInv'
    BY DEF Scan, database, directories, UsedKept, EmptiedKept, Emptied, IInv, SourceInv
  <1>3. CapturesQuiet
    <2> PICK x \in Captures : x = capture[t]
      BY DEF IInv, TypeOK
    <2>1. /\ x.pc = "scanning"
          /\ capture' = [capture EXCEPT ![t].pc = "scanned", ![t].view = view,
                                        ![t].files = Dirty(view)]
      BY DEF Scan
    <2>2. x.id = 0 /\ x.base <= revision
      BY <2>1 DEF IInv, CaptureInv, CaptureOk
    <2>3. capture'[t] = [x EXCEPT !.pc = "scanned", !.view = view, !.files = Dirty(view)]
      BY <2>1 DEF IInv, TypeOK
    <2>4. /\ capture'[t].pc = "scanned" /\ capture'[t].id = 0
          /\ capture'[t].base = x.base /\ capture'[t].view = view
          /\ capture'[t].files = Dirty(view)
      BY <2>2, <2>3 DEF Captures
    <2>5. Dirty(view)' = Dirty(view)
      BY <1>2 DEF Dirty
    <2>6. CaptureOk(t)'
      BY <1>2, <2>2, <2>4, <2>5 DEF CaptureOk
    <2>7. \A u \in Tasks : u # t => capture'[u] = capture[u]
      BY <2>1 DEF IInv, TypeOK
    <2> QED BY <2>4, <2>6, <2>7 DEF CapturesQuiet
  <1>4. removing' = removing /\ rebasing' = rebasing
    BY DEF Scan
  <1> QED BY <1>1, <1>2, <1>3, <1>4, QuietStep

LEMMA StatAnchorStep ==
  ASSUME IInv, NEW t \in Tasks, NEW state \in States, StatAnchor(t, state)
  PROVE  IInv'
  <1>1. TypeOK'
    BY TypeStatAnchor
  <1>2. /\ UNCHANGED <<layer, index, revision, recorded, made>>
        /\ UsedKept /\ SourceInv'
    BY DEF StatAnchor, database, directories, UsedKept, EmptiedKept, Emptied, IInv,
           SourceInv
  <1>3. CapturesQuiet
    <2> PICK x \in Captures : x = capture[t]
      BY DEF IInv, TypeOK
    <2> PICK n \in 0..MaxSnapshots : n = Newest(Listed)
      BY NewestListed
    <2>1. /\ x.pc = "scanned"
          /\ capture' = [capture EXCEPT ![t].pc = "hashed", ![t].anchored = state,
                                        ![t].parent = n]
      BY DEF StatAnchor
    <2>2. /\ x.id = 0 /\ x.base <= revision
          /\ x.base = revision => x.files = Dirty(x.view)
      BY <2>1 DEF IInv, CaptureInv, CaptureOk
    <2>3. capture'[t] = [x EXCEPT !.pc = "hashed", !.anchored = state, !.parent = n]
      BY <2>1 DEF IInv, TypeOK
    <2>4. /\ capture'[t].pc = "hashed" /\ capture'[t].id = 0
          /\ capture'[t].base = x.base /\ capture'[t].view = x.view
          /\ capture'[t].files = x.files /\ capture'[t].parent = n
      BY <2>2, <2>3 DEF Captures
    <2>5. Dirty(x.view)' = Dirty(x.view) /\ Listed' = Listed
      BY <1>2 DEF Dirty, Listed
    <2>6. /\ n <= made
          /\ IF Listed = {} THEN n = 0
             ELSE n \in Listed /\ layer[n].revision = revision
      BY NewestListed
    <2>7. CaptureOk(t)'
      BY <1>2, <2>2, <2>4, <2>5, <2>6 DEF CaptureOk
    <2>8. \A u \in Tasks : u # t => capture'[u] = capture[u]
      BY <2>1 DEF IInv, TypeOK
    <2> QED BY <2>4, <2>7, <2>8 DEF CapturesQuiet
  <1>4. removing' = removing /\ rebasing' = rebasing
    BY DEF StatAnchor
  <1> QED BY <1>1, <1>2, <1>3, <1>4, QuietStep

LEMMA RestoreStep ==
  ASSUME IInv,
         \/ \E s \in Ids, whole \in BOOLEAN, scope \in SUBSET Paths :
              PlanRestore(s, whole, scope)
         \/ ApplyRestore
  PROVE  IInv'
  <1>1. TypeOK' /\ SourceInv'
    <2>1. CASE ApplyRestore
      BY <2>1, TypeApplyRestore DEF ApplyRestore, SourceInv, NoPlan, NoEntry
    <2> QED BY <2>1, TypePlanRestore
  <1>2. /\ UNCHANGED <<layer, index, revision, recorded, made>>
        /\ UsedKept
    BY DEF PlanRestore, ApplyRestore, database, directories, UsedKept, EmptiedKept,
           Emptied
  <1>3. CapturesQuiet
    <2>0. /\ "restore" \in Tasks /\ revision \in Nat
          /\ \A u \in Tasks : u # "restore" => capture'[u] = capture[u]
      BY DEF Tasks, PlanRestore, ApplyRestore, IInv, TypeOK
    <2>1. CASE ApplyRestore
      <3> PICK x \in Captures : x = capture["restore"]
        BY <2>0 DEF IInv, TypeOK
      <3>1. x.pc = "planned" /\ capture'["restore"] = [x EXCEPT !.pc = "applied"]
        BY <2>0, <2>1 DEF ApplyRestore, IInv, TypeOK
      <3>2. x.id = 0 /\ x.base <= revision
        BY <2>0, <3>1 DEF IInv, CaptureInv, CaptureOk
      <3>3. /\ capture'["restore"].pc = "applied" /\ capture'["restore"].id = 0
            /\ capture'["restore"].base <= revision'
        BY <1>2, <3>1, <3>2 DEF Captures
      <3>4. CaptureOk("restore")'
        BY <2>0, <3>3 DEF CaptureOk
      <3> QED BY <2>0, <3>3, <3>4 DEF CapturesQuiet
    <2>2. CASE \E s \in Ids, whole \in BOOLEAN, scope \in SUBSET Paths :
                 PlanRestore(s, whole, scope)
      <3> PICK s \in Ids :
            capture'["restore"] = [NoCapture EXCEPT !.pc = "planned",
                                                    !.anchor = layer[s].anchor]
        BY <2>0, <2>2 DEF PlanRestore, IInv, TypeOK
      <3>1. /\ capture'["restore"].pc = "planned" /\ capture'["restore"].id = 0
            /\ capture'["restore"].base <= revision'
        BY <1>2, <2>0 DEF NoCapture
      <3>2. CaptureOk("restore")'
        BY <2>0, <3>1 DEF CaptureOk
      <3> QED BY <2>0, <3>1, <3>2 DEF CapturesQuiet
    <2> QED BY <2>1, <2>2
  <1>4. removing' = removing /\ rebasing' = rebasing
    BY DEF PlanRestore, ApplyRestore
  <1> QED BY <1>1, <1>2, <1>3, <1>4, QuietStep

(* Collection may remove the directory of a snapshot or of a capture, but  *)
(* then the copies are known to be harmed.                                 *)
LEMMA CollectStep ==
  ASSUME IInv, (\E ids \in {Listed, {}} : StartCollecting(ids)) \/ Collect
  PROVE  IInv'
  <1>1. TypeOK'
    BY TypeCollecting
  <1>2. /\ UNCHANGED <<layer, index, revision, recorded, made>>
        /\ CapturesQuiet /\ SourceInv'
        /\ removing' = removing /\ rebasing' = rebasing
    BY DEF StartCollecting, Collect, database, directories, CapturesQuiet, IInv, SourceInv
  <1>3. UsedKept
    <2>1. CASE \E ids \in {Listed, {}} : StartCollecting(ids)
      BY <2>1 DEF StartCollecting, directories, UsedKept, EmptiedKept, Emptied
    <2>2. CASE Collect
      <3> DEFINE used == Listed \cup {capture[t].id : t \in Tasks}
                 doomed == Ids \ referenced
      <3>1. /\ harmed' = harmed \cup ((doomed \cap used) \X Paths)
            /\ blob' = [s \in Ids |-> IF s \in doomed THEN NoFiles ELSE blob[s]]
            /\ manifest' = [s \in Ids |-> IF s \in doomed THEN "none" ELSE manifest[s]]
        BY <2>2 DEF Collect
      <3>2. ASSUME NEW s \in Ids, s \in used
            PROVE  /\ \A p \in Tracked : blob'[s][p] = blob[s][p] \/ <<s, p>> \in harmed'
                   /\ manifest'[s] = "none" =>
                        manifest[s] = "none" \/ {s} \X Paths \subseteq harmed'
        BY <3>1, <3>2, Basics
      <3>3. EmptiedKept
        BY <3>1, Basics DEF EmptiedKept, Emptied
      <3> QED BY <3>1, <3>2, <3>3 DEF UsedKept
    <2> QED BY <2>1, <2>2
  <1> QED BY <1>1, <1>2, <1>3, QuietStep

LEMMA CrashStep ==
  ASSUME IInv, Crash
  PROVE  IInv'
  <1>1. TypeOK'
    BY TypeCrash
  <1>2. /\ UNCHANGED <<layer, index, revision, recorded, made>>
        /\ UsedKept /\ SourceInv'
        /\ removing' = {} /\ rebasing' = <<0, 0>>
    <2>1. EmptiedKept
      BY CrashShape, SplitAnchor, Basics DEF EmptiedKept, Emptied
    <2> QED BY <2>1, CrashShape DEF UsedKept, SourceInv, NoPlan, NoEntry
  <1>3. CapturesQuiet
    <2>1. \A t \in Tasks : /\ capture'[t].pc = "idle" /\ capture'[t].id = 0
                          /\ capture'[t].base = 0
      BY DEF Crash, NoCapture
    <2>2. \A t \in Tasks : CaptureOk(t)'
      BY <1>2, <2>1 DEF CaptureOk, IInv, TypeOK
    <2> QED BY <2>1, <2>2 DEF CapturesQuiet
  <1> QED BY <1>1, <1>2, <1>3, QuietStep

-----------------------------------------------------------------------------
(* Steps of a capture with a directory.                                    *)

(* The directory of a capture is no snapshot's and no other capture's.     *)
LEMMA OwnDirectory ==
  ASSUME IInv, NEW t \in Tasks, capture[t].id # 0
  PROVE  /\ capture[t].id \in Ids /\ capture[t].id <= made
         /\ capture[t].id \notin Listed
         /\ capture[t].pc = "copied"
         /\ \A u \in Tasks \ {t} : capture[u].id # capture[t].id
         /\ rebasing # <<0, 0>> => rebasing[1] # capture[t].id
  <1>1. capture[t].pc = "copied"
    BY DEF IInv, CaptureInv, CaptureOk
  <1>2. /\ capture[t].id \in 1..made /\ capture[t].id \notin Listed
        /\ \A u \in Tasks : capture[u].id = capture[t].id => u = t
    BY <1>1 DEF IInv, CaptureInv, CaptureOk
  <1>3. capture[t].id \in 0..MaxSnapshots
    BY DEF IInv, TypeOK, Captures
  <1>4. capture[t].id \in Ids
    BY <1>3, Basics DEF Ids
  <1> QED BY <1>1, <1>2, <1>4 DEF IInv, RebaseInv

LEMMA CopyStep ==
  ASSUME IInv, NEW t \in Tasks, Copy(t)
  PROVE  IInv'
  <1> PICK x \in Captures : x = capture[t]
    BY DEF IInv, TypeOK
  <1> PICK s \in Ids : s = made + 1
    BY DEF Copy
  <1>1. /\ x.pc = "hashed" /\ made' = s
        /\ blob' = [blob EXCEPT ![s] =
                      [p \in Paths |-> IF p \in CopiedPaths(x) THEN live[p]
                                                               ELSE Gone]]
        /\ manifest' = [manifest EXCEPT ![s] = "whole"]
        /\ harmed' = harmed \cup
             {<<s, p>> : p \in {q \in CopiedPaths(x) : Noted(x, q) # {live[q]}}}
        /\ UNCHANGED <<live, database, plan, collecting, referenced, removing,
                       rebasing, recorded, events>>
    BY DEF Copy
  <1>2. /\ made \in Nat /\ revision \in Nat /\ made < s /\ made <= made' /\ made' \in Nat
        /\ Listed' = Listed /\ Listed \subseteq Ids
        /\ \A r \in Listed : r <= made /\ r # s
        /\ \A u \in Tasks : capture[u].id # s
        /\ UNCHANGED <<layer, index, revision, recorded>>
    <2>1. UNCHANGED <<layer, index, revision, recorded>>
      BY <1>1 DEF database
    <2>2. made \in Nat /\ revision \in Nat
      BY Basics DEF IInv, TypeOK
    <2>3. \A r \in Listed : r <= made /\ r \in Nat
      BY Basics DEF IInv, ChainInv, LayerInv, Listed
    <2>4. \A u \in Tasks : capture[u].id = 0 \/ (capture[u].id <= made /\ capture[u].id \in Ids)
      BY OwnDirectory
    <2> QED BY <1>1, <2>1, <2>2, <2>3, <2>4, Basics DEF Listed
  <1>3. TypeOK'
    BY TypeCopy
  <1>4. ChainInv'
    <2>1. EmptiedKept
      BY <1>1, Basics DEF EmptiedKept, Emptied, CopiedPaths
    <2> QED BY <1>1, <1>2, <2>1, QuietChain
  <1>5. /\ \A r \in Ids : r # s => blob'[r] = blob[r] /\ manifest'[r] = manifest[r]
        /\ manifest'[s] = "whole"
        /\ blob'[s] = [p \in Paths |-> IF p \in CopiedPaths(x) THEN live[p] ELSE Gone]
        /\ harmed \subseteq harmed'
    BY <1>1 DEF IInv, TypeOK
  <1>6. FilesInv' /\ ManifestsKept'
    <2>1. LayersKept
      BY <1>2, <1>5 DEF LayersKept, Emptied
    <2>2. CopiesKept
      BY <1>2, <1>5 DEF CopiesKept
    <2> QED BY <1>4, <2>1, <2>2, FilesFrame DEF ChainInv
  <1>7. \A u \in Tasks : u # t => capture'[u] = capture[u]
    BY DEF Copy, IInv, TypeOK
  <1>8. /\ capture'[t].pc = "copied" /\ capture'[t].id = s
        /\ capture'[t].parent = x.parent
        /\ capture'[t].base = x.base /\ capture'[t].view = x.view
        /\ capture'[t].files = x.files
    <2>1. capture' = [capture EXCEPT ![t].pc = "copied", ![t].id = s]
      BY DEF Copy
    <2>2. capture'[t] = [x EXCEPT !.pc = "copied", !.id = s]
      BY <2>1 DEF IInv, TypeOK
    <2> QED BY <2>2 DEF Captures
  <1>9. CaptureInv'
    <2>1. NewestKept
      BY <1>2 DEF NewestKept
    <2>2. ASSUME NEW u \in Tasks, u # t PROVE CaptureOk(u)'
      <3>1. capture'[u] = capture[u]
        BY <1>7, <2>2
      <3>2. capture[u].id # 0 => /\ capture[u].id \in Ids /\ capture[u].id # s
                                /\ capture[u].id \notin Listed'
                                /\ \A v \in Tasks \ {u} : capture'[v].id # capture[u].id
        <4>1. capture[u].id # s
          BY <1>2
        <4>2. capture[u].id # 0 =>
                \A v \in Tasks \ {u} : capture[v].id # capture[u].id
          BY OwnDirectory
        <4>3. \A v \in Tasks : capture'[v].id = capture[v].id \/ capture'[v].id = s
          BY <1>7, <1>8
        <4> QED BY <1>2, <4>1, <4>2, <4>3, OwnDirectory
      <3>3. CopyKept(u)
        BY <1>5, <3>2 DEF CopyKept
      <3> QED BY <2>1, <3>1, <3>3, CaptureFrame
    <2>3. CaptureOk(t)'
      <3>1. x.base <= revision' /\ (x.base = revision' => x.files = Dirty(x.view)')
        BY <1>1, <1>2 DEF IInv, CaptureInv, CaptureOk, Dirty
      <3>2. s \in 1..made' /\ s \notin Listed' /\ x.parent < s /\ x.parent <= made'
        <4>1. x.parent <= made /\ x.parent \in Nat
          BY <1>1, Basics DEF IInv, CaptureInv, CaptureOk, Captures
        <4> QED BY <1>1, <1>2, <4>1, Basics
      <3>3. \A u \in Tasks : capture'[u].id = s => u = t
        BY <1>2, <1>7
      <3>4. x.base = revision' =>
              IF Listed' = {} THEN x.parent = 0
              ELSE /\ x.parent \in Listed'
                   /\ layer'[x.parent].revision = revision'
        BY <1>1, <1>2 DEF IInv, CaptureInv, CaptureOk
      <3>5. ASSUME NEW p \in Tracked, x.files[p] # Same
            PROVE  blob'[s][p] = x.files[p] \/ <<s, p>> \in harmed'
        <4>1. x.files[p] \in Contents \cup {Gone} /\ p \in Paths
          BY <3>5, Basics DEF Captures, States
        <4>2. p \in CopiedPaths(x) <=> x.files[p] # Gone
          BY <3>5, <4>1 DEF CopiedPaths
        <4>3. blob'[s][p] = IF p \in CopiedPaths(x) THEN live[p] ELSE Gone
          BY <1>5, <4>1
        <4>4. CASE x.files[p] = Gone
          BY <4>2, <4>3, <4>4
        <4>5. CASE x.files[p] # Gone
          <5>1. p \in CopiedPaths(x) /\ blob'[s][p] = live[p]
            BY <4>1, <4>2, <4>3, <4>5
          <5>2. x.files[p] \in Noted(x, p)
            BY <3>5 DEF Noted
          <5>3. live[p] # x.files[p] => <<s, p>> \in harmed'
            BY <1>1, <5>1, <5>2
          <5> QED BY <5>1, <5>3
        <4> QED BY <4>4, <4>5
      <3> QED BY <1>5, <1>8, <3>1, <3>2, <3>3, <3>4, <3>5 DEF CaptureOk
    <2> QED BY <2>2, <2>3 DEF CaptureInv
  <1>10. RebaseInv'
    <2>1. \A u \in Tasks : capture'[u].id = capture[u].id \/ capture'[u].id > made
      BY <1>2, <1>7, <1>8
    <2>2. RebaseKept
      BY <1>1, <1>2, <2>1 DEF RebaseKept
    <2> QED BY <2>2, RebaseFrame
  <1>11. SourceInv'
    BY <1>1 DEF SourceInv, IInv
  <1> QED BY <1>3, <1>4, <1>6, <1>9, <1>10, <1>11 DEF IInv

(* A capture that ends lets go of its directory.                           *)
LEMMA EndedCapture ==
  ASSUME NEW t \in Tasks, capture \in [Tasks -> Captures], revision' \in Nat,
         capture' = [capture EXCEPT ![t] = NoCapture]
  PROVE  /\ CaptureOk(t)' /\ capture'[t].id = 0
         /\ \A u \in Tasks \ {t} : capture'[u] = capture[u]
  <1>1. capture'[t] = NoCapture /\ \A u \in Tasks \ {t} : capture'[u] = capture[u]
    OBVIOUS
  <1>2. capture'[t].pc = "idle" /\ capture'[t].id = 0 /\ capture'[t].base = 0
    BY <1>1 DEF NoCapture
  <1>3. CaptureOk(t)'
    BY <1>2 DEF CaptureOk
  <1> QED BY <1>1, <1>2, <1>3

LEMMA FailStep ==
  ASSUME IInv, NEW t \in Tasks, Fail(t)
  PROVE  IInv'
  <1> PICK n : n = capture[t].id
    OBVIOUS
  <1>1. /\ blob' = IF n = 0 THEN blob ELSE [blob EXCEPT ![n] = NoFiles]
        /\ manifest' = IF n = 0 THEN manifest
                       ELSE [manifest EXCEPT ![n] = "none"]
        /\ harmed' = harmed \ ({n} \X Paths)
        /\ capture' = [capture EXCEPT ![t] = NoCapture]
        /\ UNCHANGED <<live, database, made, plan, collecting, referenced,
                       removing, rebasing, recorded>>
    BY DEF Fail
  <1>2. UNCHANGED <<layer, index, revision, recorded, made>>
    BY <1>1 DEF database
  <1>3. /\ made \in Nat /\ revision \in Nat /\ revision' \in Nat /\ made <= made'
        /\ made' \in Nat /\ Listed' = Listed /\ Listed \subseteq Ids
        /\ n \notin Listed /\ capture \in [Tasks -> Captures]
    <2>1. made \in Nat /\ revision \in Nat
      BY Basics DEF IInv, TypeOK
    <2>2. Listed \subseteq Ids /\ 0 \notin Ids
      BY Basics DEF Listed
    <2>3. n \notin Listed
      BY <2>2, OwnDirectory
    <2> QED BY <1>2, <2>1, <2>2, <2>3 DEF Listed, IInv, TypeOK
  <1>4. TypeOK'
    BY TypeFail
  <1>5. ChainInv'
    <2>1. EmptiedKept
      BY <1>1 DEF EmptiedKept, Emptied
    <2> QED BY <1>1, <1>2, <1>3, <2>1, QuietChain
  <1>6. \A r \in Ids : r # n =>
          /\ blob'[r] = blob[r] /\ manifest'[r] = manifest[r]
          /\ \A p : <<r, p>> \in harmed => <<r, p>> \in harmed'
          /\ {r} \X Paths \subseteq harmed => {r} \X Paths \subseteq harmed'
    BY <1>1 DEF IInv, TypeOK
  <1>7. FilesInv' /\ ManifestsKept'
    <2>1. LayersKept
      BY <1>2, <1>3, <1>6 DEF LayersKept, Emptied
    <2>2. CopiesKept
      BY <1>3, <1>6 DEF CopiesKept
    <2> QED BY <1>5, <2>1, <2>2, FilesFrame DEF ChainInv
  <1>8. /\ CaptureOk(t)' /\ capture'[t].id = 0
        /\ \A u \in Tasks \ {t} : capture'[u] = capture[u]
    BY <1>1, <1>3, EndedCapture
  <1>9. CaptureInv'
    <2>1. NewestKept
      BY <1>2, <1>3 DEF NewestKept
    <2>2. ASSUME NEW u \in Tasks \ {t} PROVE CaptureOk(u)'
      <3>1. capture[u].id # 0 => /\ capture[u].id \in Ids /\ capture[u].id # n
                                /\ capture[u].id \notin Listed'
                                /\ \A v \in Tasks \ {u} : capture'[v].id # capture[u].id
        BY <1>3, <1>8, OwnDirectory
      <3>2. CopyKept(u)
        BY <1>6, <3>1 DEF CopyKept
      <3> QED BY <1>8, <2>1, <3>2, CaptureFrame
    <2> QED BY <1>8, <2>2 DEF CaptureInv
  <1>10. RebaseInv'
    <2>1. RebaseKept
      BY <1>1, <1>2, <1>3, <1>8 DEF RebaseKept
    <2> QED BY <2>1, RebaseFrame
  <1>11. SourceInv'
    BY <1>1 DEF SourceInv, IInv
  <1> QED BY <1>4, <1>5, <1>7, <1>9, <1>10, <1>11 DEF IInv

LEMMA CommitStep ==
  ASSUME IInv, NEW t \in Tasks, Commit(t) \/ CommitUnwritten(t) \/ CommitTorn(t)
  PROVE  IInv'
  <1> PICK x \in Captures : x = capture[t]
    BY DEF IInv, TypeOK
  <1>1. /\ x.pc = "copied" /\ x.base = revision /\ Record(x)
        /\ capture' = [capture EXCEPT ![t] = NoCapture]
        /\ UNCHANGED <<live, made, plan, collecting, referenced, removing, rebasing>>
        /\ \/ blob' = blob /\ harmed' = harmed /\ manifest' = manifest
           \/ /\ blob' = [blob EXCEPT ![x.id] = NoFiles]
              /\ manifest' = [manifest EXCEPT ![x.id] = "none"]
              /\ harmed' = harmed \cup ({x.id} \X Paths)
           \/ /\ blob' = blob /\ harmed' = harmed
              /\ manifest' = Written({x.id}, {x.id})
    BY DEF Commit, CommitUnwritten, CommitTorn, directories
  <1> PICK s \in Ids : s = x.id
    BY <1>1, RecordShape
  <1>2. /\ s \notin Listed /\ s <= made
        /\ Listed' = Listed \cup {s}
        /\ \A r \in Ids : r # s => layer'[r] = layer[r] /\ recorded'[r] = recorded[r]
        /\ recorded'[s] = x.view
        /\ revision' = revision + 1 /\ revision \in Nat
        /\ \A p \in Tracked : x.files[p] = IF x.view[p] = index[p] THEN Same ELSE x.view[p]
        /\ Listed = {} => x.parent = 0
        /\ Listed # {} => x.parent \in Listed /\ layer[x.parent].revision = revision
    BY <1>1, RecordShape
  <1>3. /\ layer'[s].files = x.files /\ layer'[s].parent = x.parent
        /\ layer'[s].revision = revision + 1
    <2>1. layer'[s] = NewLayer(x)
      BY <1>1, RecordShape
    <2> QED BY <1>1, <2>1 DEF NewLayer
  <1>4. /\ Listed \subseteq Ids /\ s # 0 /\ 0 \notin Ids
        /\ made \in Nat /\ made' \in Nat /\ made <= made' /\ revision' \in Nat
        /\ capture \in [Tasks -> Captures]
        /\ blob \in [Ids -> [Paths -> States]]
        /\ manifest \in [Ids -> {"none", "whole", "torn"}]
    BY <1>1, <1>2, Basics DEF Listed, IInv, TypeOK
  <1>5. TypeOK'
    BY TypeCommit
  <1>6. ChainInv'
    <2>1. made' = made /\ removing' = removing
      BY <1>1
    <2>2. EmptiedKept
      BY <1>1, Basics DEF EmptiedKept, Emptied
    <2> QED BY <1>1, <2>1, <2>2, CommitChain
  <1>7. /\ CaptureOk(t)' /\ capture'[t].id = 0
        /\ \A u \in Tasks \ {t} : capture'[u] = capture[u]
    BY <1>1, <1>4, EndedCapture
  <1>8. /\ \A r \in Ids : r # s => blob'[r] = blob[r] /\ manifest'[r] = manifest[r]
        /\ harmed \subseteq harmed'
        /\ blob'[s] = blob[s] \/ \A p \in Tracked : <<s, p>> \in harmed'
        /\ manifest'[s] = "none" => manifest[s] = "none" \/ {s} \X Paths \subseteq harmed'
    BY <1>1, <1>4, Basics DEF Written
  <1>9. CaptureInv'
    <2>1. NewestKept
      BY <1>2, <1>4 DEF NewestKept
    <2>2. ASSUME NEW u \in Tasks \ {t} PROVE CaptureOk(u)'
      <3>1. capture[u].id # 0 => /\ capture[u].id \in Ids /\ capture[u].id # s
                                /\ capture[u].id \notin Listed'
                                /\ \A v \in Tasks \ {u} : capture'[v].id # capture[u].id
        BY <1>2, <1>7, OwnDirectory
      <3>2. CopyKept(u)
        BY <1>8, <3>1 DEF CopyKept
      <3> QED BY <1>7, <2>1, <3>2, CaptureFrame
    <2> QED BY <1>7, <2>2 DEF CaptureInv
  <1>10. FilesInv'
    <2> SUFFICES ASSUME NEW r \in Listed', ~Emptied(r)', NEW p \in Tracked
                 PROVE  IF layer'[r].files[p] = Same
                        THEN IF layer'[r].parent = 0
                             THEN layer'[r].revision = 1 => recorded'[r][p] = Gone
                             ELSE recorded'[r][p] = recorded'[layer'[r].parent][p]
                        ELSE /\ recorded'[r][p] = layer'[r].files[p]
                             /\ blob'[r][p] = recorded'[r][p] \/ <<r, p>> \in harmed'
      BY DEF FilesInv
    <2>1. CASE r = s
      <3>1. x.files[p] # Same =>
              /\ x.view[p] = x.files[p]
              /\ blob[s][p] = x.files[p] \/ <<s, p>> \in harmed
        BY <1>1, <1>2 DEF IInv, CaptureInv, CaptureOk
      <3>2. x.files[p] = Same => x.view[p] = index[p]
        <4>1. x.view[p] \in States
          BY DEF Captures
        <4> QED BY <1>2, <4>1, Basics
      <3>3. CASE x.files[p] # Same
        <4>1. recorded'[s][p] = x.files[p] /\ layer'[s].files[p] = x.files[p]
          BY <1>2, <1>3, <3>1, <3>3
        <4>2. blob'[s][p] = x.files[p] \/ <<s, p>> \in harmed'
          BY <1>8, <3>1, <3>3
        <4> QED BY <2>1, <3>3, <4>1, <4>2
      <3>4. CASE x.files[p] = Same /\ Listed = {}
        <4>1. index[p] = Gone
          BY <3>4 DEF IInv, ChainInv, CommittedInv, NothingSeen
        <4> QED BY <1>2, <1>3, <2>1, <3>2, <3>4, <4>1
      <3>5. CASE x.files[p] = Same /\ Listed # {}
        <4>1. x.parent \in Listed /\ index = recorded[x.parent]
          BY <1>2, <3>5 DEF IInv, ChainInv, CommittedInv
        <4>2. x.parent # 0 /\ recorded'[x.parent] = recorded[x.parent]
          BY <1>2, <1>4, <4>1
        <4> QED BY <1>2, <1>3, <2>1, <3>2, <3>5, <4>1, <4>2
      <3> QED BY <3>3, <3>4, <3>5
    <2>2. CASE r \in Listed
      <3>1. layer'[r] = layer[r] /\ recorded'[r] = recorded[r] /\ blob'[r] = blob[r]
        BY <1>2, <1>4, <1>8, <2>2
      <3>2. layer[r].parent # 0 => recorded'[layer[r].parent] = recorded[layer[r].parent]
        <4>1. layer[r].parent # 0 => layer[r].parent \in Listed
          BY <2>2 DEF IInv, ChainInv, OneChain
        <4> QED BY <1>2, <1>4, <4>1
      <3>3. IF layer[r].files[p] = Same
            THEN IF layer[r].parent = 0
                 THEN layer[r].revision = 1 => recorded[r][p] = Gone
                 ELSE recorded[r][p] = recorded[layer[r].parent][p]
            ELSE /\ recorded[r][p] = layer[r].files[p]
                 /\ blob[r][p] = recorded[r][p] \/ <<r, p>> \in harmed
        <4>1. ~Emptied(r)
          BY <1>8 DEF Emptied
        <4> QED BY <2>2, <4>1 DEF IInv, FilesInv
      <3> QED BY <1>8, <3>1, <3>2, <3>3
    <2> QED BY <1>2, <2>1, <2>2
  <1>11. RebaseInv'
    <2>1. \A r \in Listed' : \/ r \in Listed /\ layer'[r].anchor = layer[r].anchor
                            \/ \E u \in Tasks : r = capture[u].id
      BY <1>2, <1>4
    <2>2. \A u \in Tasks : capture'[u].id = capture[u].id \/ capture'[u].id = 0
      BY <1>7
    <2>3. RebaseKept
      BY <1>1, <1>4, <2>1, <2>2 DEF RebaseKept
    <2> QED BY <2>3, RebaseFrame
  <1>12. SourceInv'
    BY <1>1 DEF SourceInv, IInv
  <1>13. ManifestsKept'
    <2>1. manifest[s] = "none" => {s} \X Paths \subseteq harmed
      BY <1>1 DEF IInv, CaptureInv, CaptureOk
    <2>2. \A r \in Listed : manifest[r] = "none" => {r} \X Paths \subseteq harmed
      BY DEF IInv, ManifestsKept
    <2> QED BY <1>2, <1>4, <1>8, <2>1, <2>2 DEF ManifestsKept
  <1> QED BY <1>5, <1>6, <1>9, <1>10, <1>11, <1>12, <1>13 DEF IInv

-----------------------------------------------------------------------------
(* Maintenance.                                                            *)

(* Maintenance works on the directories of snapshots, not of captures.     *)
LEMMA CapturesUntouched ==
  ASSUME IInv, NewestKept, Listed' \subseteq Listed, UNCHANGED capture,
         \A r \in Ids \ Listed :
           /\ blob'[r] = blob[r]
           /\ manifest'[r] = "none" => manifest[r] = "none"
           /\ \A p \in Paths : <<r, p>> \in harmed => <<r, p>> \in harmed'
  PROVE  CaptureInv'
  <1> SUFFICES ASSUME NEW t \in Tasks PROVE CaptureOk(t)'
    BY DEF CaptureInv
  <1>1. capture[t].id # 0 => /\ capture[t].id \in Ids \ Listed
                            /\ capture[t].id \notin Listed'
                            /\ \A u \in Tasks \ {t} : capture'[u].id # capture[t].id
    BY OwnDirectory
  <1>2. \A r \in Ids \ Listed :
          {r} \X Paths \subseteq harmed => {r} \X Paths \subseteq harmed'
    OBVIOUS
  <1>3. CopyKept(t)
    BY <1>1, <1>2, Basics DEF CopyKept
  <1> QED BY <1>3, CaptureFrame

LEMMA CompactionStep ==
  ASSUME IInv, NEW moved, Compacts(moved)
  PROVE  IInv'
  <1>1. TypeOK' /\ ChainInv'
    BY TypeCompaction, CompactionChain
  <1>2. /\ UNCHANGED <<live, index, revision, made, capture, plan, collecting,
                       referenced, rebasing, recorded>>
        /\ Listed # {} /\ harmed \subseteq harmed'
        /\ \A s \in Ids : manifest'[s] = "none" => manifest[s] = "none"
    BY CompactionShape DEF Compacts, Compact, Leaving
  <1>3. \A s \in Ids :
          /\ layer'[s].listed = layer[s].listed
          /\ layer'[s].revision = layer[s].revision
          /\ layer'[s].files = layer[s].files
          /\ layer'[s].anchor = layer[s].anchor
          /\ layer'[s].parent = IF s \in Cut THEN 0 ELSE layer[s].parent
    BY CompactionShape, CompactedRowType
  <1>4. /\ Listed' = Listed /\ Listed \subseteq Ids /\ Kept \subseteq Listed
        /\ revision \in Nat /\ made \in Nat
    <2>1. Listed' = Listed /\ Listed \subseteq Ids /\ Kept \subseteq Listed
      BY <1>3 DEF Listed, Kept
    <2>2. revision \in Nat /\ made \in Nat
      BY Basics DEF IInv, TypeOK
    <2> QED BY <2>1, <2>2
  <1>5. ASSUME NEW s \in Ids
        PROVE  /\ s \notin Listed => blob'[s] = blob[s]
               /\ \A p \in Tracked : layer[s].files[p] # Same => blob'[s][p] = blob[s][p]
    <2>1. blob'[s] = IF s \in moved /\ Refilled(s)
                     THEN [blob[s] EXCEPT ![layer[s].anchor] =
                             blob[layer[s].source][layer[s].anchor]]
                     ELSE blob[s]
      BY CompactionShape
    <2>2. s \in moved => s \in Listed
      BY MovedFacts
    <2>3. \A p \in Tracked :
            Refilled(s) /\ layer[s].files[p] # Same => p # layer[s].anchor
      BY DEF Refilled, TracksAnchor
    <2>4. blob[s] \in [Paths -> States]
      BY DEF IInv, TypeOK
    <2> QED BY <2>1, <2>2, <2>3, <2>4, Basics
  <1>6. FilesInv'
    <2> SUFFICES ASSUME NEW r \in Listed, ~Emptied(r), NEW p \in Tracked
                 PROVE  IF layer'[r].files[p] = Same
                        THEN IF layer'[r].parent = 0
                             THEN layer'[r].revision = 1 => recorded[r][p] = Gone
                             ELSE recorded[r][p] = recorded[layer'[r].parent][p]
                        ELSE /\ recorded[r][p] = layer'[r].files[p]
                             /\ blob'[r][p] = recorded[r][p] \/ <<r, p>> \in harmed'
      BY <1>2, <1>4 DEF FilesInv, Emptied
    <2>1. IF layer[r].files[p] = Same
          THEN IF layer[r].parent = 0
               THEN layer[r].revision = 1 => recorded[r][p] = Gone
               ELSE recorded[r][p] = recorded[layer[r].parent][p]
          ELSE /\ recorded[r][p] = layer[r].files[p]
               /\ blob[r][p] = recorded[r][p] \/ <<r, p>> \in harmed
      BY DEF IInv, FilesInv
    <2>2. r \in Ids /\ layer'[r].files = layer[r].files /\ layer'[r].revision = layer[r].revision
      BY <1>3, <1>4
    <2>3. /\ layer[r].files[p] # Same => blob'[r][p] = blob[r][p]
          /\ <<r, p>> \in harmed => <<r, p>> \in harmed'
      BY <1>2, <1>5, <2>2
    <2>4. CASE layer'[r].parent = layer[r].parent
      BY <2>1, <2>2, <2>3, <2>4
    <2>5. CASE layer'[r].parent # layer[r].parent
      <3>1. layer'[r].parent = 0 /\ layer[r].parent \in Listed /\ layer[r].parent # 0
        BY <1>3, <2>2, <2>5, Basics DEF Cut, Leaving, Listed
      <3>2. layer[r].revision = layer[layer[r].parent].revision + 1
        BY <3>1 DEF IInv, ChainInv, OneChain
      <3>3. layer[layer[r].parent].revision \in 1..revision
        BY <3>1 DEF IInv, ChainInv, LayerInv
      <3>4. layer[r].revision # 1
        BY <1>4, <3>2, <3>3
      <3> QED BY <2>1, <2>2, <2>3, <3>1, <3>4
    <2> QED BY <2>4, <2>5
  <1>7. CaptureInv'
    <2>1. NewestKept
      BY <1>2, <1>3, <1>4 DEF NewestKept
    <2>2. \A r \in Ids \ Listed :
            /\ blob'[r] = blob[r]
            /\ manifest'[r] = "none" => manifest[r] = "none"
            /\ \A p \in Paths : <<r, p>> \in harmed => <<r, p>> \in harmed'
      BY <1>2, <1>5
    <2> QED BY <1>2, <1>4, <2>1, <2>2, CapturesUntouched
  <1>8. RebaseInv'
    <2>1. RebaseKept
      BY <1>2, <1>3, <1>4 DEF RebaseKept
    <2> QED BY <2>1, RebaseFrame
  <1>9. SourceInv'
    BY <1>2 DEF SourceInv, IInv
  <1>10. ManifestsKept'
    BY <1>2, <1>4 DEF ManifestsKept, IInv
  <1> QED BY <1>1, <1>6, <1>7, <1>8, <1>9, <1>10 DEF IInv

LEMMA RemoveStep ==
  ASSUME IInv, RemoveCompacted
  PROVE  IInv'
  <1> PICK n \in Ids : n = Newest(removing)
    BY RemovedIsNewest DEF RemoveCompacted
  <1>1. /\ removing # {}
        /\ layer' = [layer EXCEPT ![n] = NoLayer]
        /\ blob' = [blob EXCEPT ![n] = NoFiles]
        /\ recorded' = [recorded EXCEPT ![n] = NothingSeen]
        /\ manifest' = [manifest EXCEPT ![n] = "none"]
        /\ harmed' = harmed \ ({n} \X (Paths \cup {NoPath}))
        /\ UNCHANGED <<live, index, revision, made, capture, plan, collecting,
                       referenced, rebasing, events>>
    BY DEF RemoveCompacted
  <1>2. n \in removing /\ n \in Listed /\ layer[n].revision < revision
    BY <1>1, RemovedIsNewest DEF IInv, ChainInv, RemovingInv
  <1>3. /\ layer'[n] = NoLayer
        /\ \A s \in Ids \ {n} :
             /\ layer'[s] = layer[s] /\ recorded'[s] = recorded[s] /\ blob'[s] = blob[s]
             /\ manifest'[s] = manifest[s]
             /\ \A p : <<s, p>> \in harmed => <<s, p>> \in harmed'
             /\ {s} \X Paths \subseteq harmed => {s} \X Paths \subseteq harmed'
    BY <1>1 DEF IInv, TypeOK
  <1>4. /\ Listed' = Listed \ {n} /\ Listed \subseteq Ids
        /\ revision \in Nat /\ made \in Nat
    <2>1. /\ ~layer'[n].listed
          /\ \A s \in Ids \ {n} : layer'[s].listed = layer[s].listed
      BY <1>3 DEF NoLayer
    <2>2. Listed' = Listed \ {n} /\ Listed \subseteq Ids
      BY <2>1 DEF Listed
    <2>3. revision \in Nat /\ made \in Nat
      BY Basics DEF IInv, TypeOK
    <2> QED BY <2>2, <2>3
  <1>5. TypeOK' /\ ChainInv'
    BY TypeRemove, RemoveChain
  <1>6. FilesInv' /\ ManifestsKept'
    <2>1. LayersKept
      BY <1>3, <1>4 DEF LayersKept, Emptied
    <2>2. CopiesKept
      BY <1>3, <1>4 DEF CopiesKept
    <2> QED BY <1>5, <2>1, <2>2, FilesFrame DEF ChainInv
  <1>7. CaptureInv'
    <2>1. NewestKept
      <3>1. \A s \in Listed : layer[s].revision = revision => s # n
        BY <1>2, <1>4
      <3>2. \A s \in Listed : layer[s].revision = revision =>
                             s \in Listed' /\ layer'[s].revision = revision
        BY <1>3, <1>4, <3>1
      <3> QED BY <1>1, <1>2, <1>4, <3>2 DEF NewestKept
    <2> QED BY <1>1, <1>2, <1>3, <1>4, <2>1, CapturesUntouched
  <1>8. RebaseInv'
    <2>1. RebaseKept
      BY <1>1, <1>3, <1>4 DEF RebaseKept
    <2> QED BY <2>1, RebaseFrame
  <1>9. SourceInv'
    BY <1>1 DEF SourceInv, IInv
  <1> QED BY <1>5, <1>6, <1>7, <1>8, <1>9 DEF IInv

LEMMA StopStep ==
  ASSUME IInv, NEW between \in BOOLEAN, StopCompaction(between)
  PROVE  IInv'
  <1> PICK n \in Ids : n = Newest(removing)
    BY RemovedIsNewest DEF StopCompaction
  <1>1. /\ removing' = {} /\ Listed' = Listed /\ Listed \subseteq Ids
        /\ UNCHANGED <<live, index, revision, blob, manifest, made, capture,
                       plan, collecting, referenced, rebasing, recorded>>
        /\ harmed \subseteq harmed'
        /\ between => <<n, NoPath>> \in harmed'
    BY StopShape DEF Listed
  <1>2. \A s \in Ids : /\ layer'[s].revision = layer[s].revision
                       /\ layer'[s].parent = layer[s].parent
                       /\ layer'[s].anchor = layer[s].anchor
                       /\ ~(between /\ s = n) => layer'[s] = layer[s]
    BY StopShape, StoppedRowType
  <1>3. revision \in Nat /\ made \in Nat
    BY Basics DEF IInv, TypeOK
  <1>4. TypeOK' /\ ChainInv'
    BY TypeStop, StopChain
  <1>5. FilesInv' /\ ManifestsKept'
    <2>1. LayersKept
      BY <1>1, <1>2 DEF LayersKept, Emptied
    <2>2. CopiesKept
      BY <1>1 DEF CopiesKept
    <2> QED BY <1>4, <2>1, <2>2, FilesFrame DEF ChainInv
  <1>6. CaptureInv'
    <2>1. NewestKept
      BY <1>1, <1>2, <1>3 DEF NewestKept
    <2> QED BY <1>1, <2>1, CapturesUntouched
  <1>7. RebaseInv'
    <2>1. RebaseKept
      BY <1>1, <1>2, <1>3 DEF RebaseKept
    <2> QED BY <2>1, RebaseFrame
  <1>8. SourceInv'
    BY <1>1 DEF SourceInv, IInv
  <1> QED BY <1>4, <1>5, <1>6, <1>7, <1>8 DEF IInv

LEMMA DropAnchorStep ==
  ASSUME IInv, NEW s \in Ids, DropAnchor(s)
  PROVE  IInv'
  <1> PICK t \in Ids : rebasing' = <<s, t>>
    BY DEF DropAnchor
  <1>1. /\ s \in Listed /\ SameAnchor(s, s) /\ ~TracksAnchor(s)
        /\ \/ blob' = [blob EXCEPT ![s][layer[s].anchor] = Gone]
           \/ blob' = blob
        /\ UNCHANGED <<live, index, revision, layer, manifest, made, capture, plan,
                       collecting, referenced, removing, recorded, harmed>>
    BY DEF DropAnchor, database
  <1>2. /\ Listed' = Listed /\ revision \in Nat /\ made \in Nat
        /\ blob \in [Ids -> [Paths -> States]]
    BY <1>1, Basics DEF Listed, IInv, TypeOK
  <1>3. /\ \A r \in Ids : r # s => blob'[r] = blob[r]
        /\ \A p \in Paths : p # layer[s].anchor => blob'[s][p] = blob[s][p]
    BY <1>1, <1>2
  <1>4. TypeOK'
    BY TypeDropAnchor
  <1>5. ChainInv'
    <2>1. /\ UNCHANGED <<layer, index, revision, recorded>> /\ made' \in Nat
          /\ made <= made' /\ removing' = removing /\ EmptiedKept
      BY <1>1, <1>2 DEF EmptiedKept, Emptied
    <2> QED BY <2>1, QuietChain
  <1>6. FilesInv' /\ ManifestsKept'
    <2>1. LayersKept
      BY <1>1, <1>2 DEF LayersKept, Emptied
    <2>2. \A p \in Tracked : layer[s].files[p] # Same => p # layer[s].anchor /\ p \in Paths
      BY <1>1, Basics DEF TracksAnchor
    <2>3. CopiesKept
      BY <1>1, <1>2, <1>3, <2>2 DEF CopiesKept, Listed
    <2> QED BY <1>5, <2>1, <2>3, FilesFrame DEF ChainInv
  <1>7. CaptureInv'
    <2>1. NewestKept
      BY <1>1, <1>2 DEF NewestKept
    <2> QED BY <1>1, <1>2, <1>3, <2>1, CapturesUntouched
  <1>8. RebaseInv'
    <2>1. s <= made /\ s # 0
      BY <1>1, Basics DEF IInv, ChainInv, LayerInv
    <2>2. \A u \in Tasks : capture[u].id # s
      BY <1>1, <2>1, OwnDirectory
    <2>3. layer[s].anchor \in Paths
      <3>1. layer[s].anchor # NoPath /\ layer[s] \in Layers
        BY <1>1 DEF SameAnchor, IInv, TypeOK
      <3> QED BY <3>1 DEF Layers
    <2> QED BY <1>1, <2>1, <2>2, <2>3 DEF RebaseInv
  <1>9. SourceInv'
    BY <1>1 DEF SourceInv, IInv
  <1> QED BY <1>4, <1>5, <1>6, <1>7, <1>8, <1>9 DEF IInv

LEMMA PersistStep ==
  ASSUME IInv, NEW torn \in SUBSET Ids, PersistAnchorSource(torn)
  PROVE  IInv'
  <1> PICK s \in Ids, t \in Ids : rebasing = <<s, t>>
    <2>1. rebasing # <<0, 0>>
      BY DEF PersistAnchorSource
    <2> QED BY <2>1, RebasedAnchor
  <1>1. /\ layer' = IF s \in Listed THEN [layer EXCEPT ![s].source = t] ELSE layer
        /\ rebasing' = <<0, 0>>
        /\ harmed \subseteq harmed'
        /\ UNCHANGED <<live, index, revision, blob, made, capture, plan,
                       collecting, referenced, removing, recorded>>
        /\ \A r \in Ids : manifest'[r] = "none" => manifest[r] = "none"
    BY TypePersist DEF PersistAnchorSource
  <1>2. \A r \in Ids :
          /\ layer'[r].listed = layer[r].listed
          /\ layer'[r].revision = layer[r].revision
          /\ layer'[r].parent = layer[r].parent
          /\ layer'[r].files = layer[r].files
          /\ layer'[r].anchor = layer[r].anchor
    BY <1>1 DEF IInv, TypeOK, Layers
  <1>3. /\ Listed' = Listed /\ Listed \subseteq Ids /\ revision \in Nat /\ made \in Nat
    <2>1. Listed' = Listed /\ Listed \subseteq Ids
      BY <1>2 DEF Listed
    <2>2. revision \in Nat /\ made \in Nat
      BY Basics DEF IInv, TypeOK
    <2> QED BY <2>1, <2>2
  <1>4. TypeOK' /\ ChainInv'
    BY TypePersist, PersistChain
  <1>5. FilesInv' /\ ManifestsKept'
    <2>1. LayersKept
      BY <1>1, <1>2, <1>3 DEF LayersKept, Emptied
    <2>2. CopiesKept
      BY <1>1, <1>3 DEF CopiesKept
    <2> QED BY <1>4, <2>1, <2>2, FilesFrame DEF ChainInv
  <1>6. CaptureInv'
    <2>1. NewestKept
      BY <1>1, <1>2, <1>3 DEF NewestKept
    <2> QED BY <1>1, <1>3, <2>1, CapturesUntouched
  <1>7. RebaseInv'
    <2>1. RebaseKept
      BY <1>1, <1>2, <1>3 DEF RebaseKept
    <2> QED BY <2>1, RebaseFrame
  <1>8. SourceInv'
    BY <1>1 DEF SourceInv, IInv
  <1> QED BY <1>4, <1>5, <1>6, <1>7, <1>8 DEF IInv

LEMMA InvNext == IInv /\ [Next]_vars => IInv'
  <1> SUFFICES ASSUME IInv, [Next]_vars PROVE IInv'
    OBVIOUS
  <1>1. CASE UNCHANGED vars
    <2>1. /\ UNCHANGED <<layer, index, revision, recorded, made>>
          /\ UsedKept /\ CapturesQuiet /\ TypeOK' /\ SourceInv'
          /\ removing' = removing /\ rebasing' = rebasing
      BY <1>1 DEF vars, database, directories, tasks, UsedKept, EmptiedKept, Emptied,
                  CapturesQuiet, IInv, TypeOK, SourceInv
    <2> QED BY <2>1, QuietStep
  <1>2. CASE \E p \in Paths, c \in States : Edit(p, c)
    BY <1>2, EditStep
  <1>3. CASE \E anchor \in Anchors : CreateSnapshot(anchor)
    <2> PICK anchor \in Paths \cup {NoPath} : CreateSnapshot(anchor)
      BY <1>3, Basics
    <2>1. StartScan("create", anchor) /\ ~collecting /\ "create" \in Tasks
      BY DEF CreateSnapshot, Tasks
    <2> QED BY <2>1, StartScanStep
  <1>4. CASE \E t \in Tasks :
               \/ \E view \in Views : Scan(t, view)
               \/ \E state \in States : StatAnchor(t, state)
               \/ Copy(t) \/ Commit(t) \/ CommitUnwritten(t) \/ CommitTorn(t) \/ Fail(t)
    BY <1>4, ScanStep, StatAnchorStep, CopyStep, CommitStep, FailStep
  <1>5. CASE (\E s \in Ids, whole \in BOOLEAN, scope \in SUBSET Paths :
                PlanRestore(s, whole, scope)) \/ ApplyRestore
    BY <1>5, RestoreStep
  <1>6. CASE CaptureRestored
    <2> PICK anchor \in Paths \cup {NoPath} : StartScan("restore", anchor)
      BY <1>6 DEF CaptureRestored, IInv, TypeOK, Tasks, Captures
    <2>1. "restore" \in Tasks
      BY DEF Tasks
    <2> QED BY <2>1, StartScanStep
  <1>7. CASE (\E ids \in {Listed, {}} : StartCollecting(ids)) \/ Collect
    BY <1>7, CollectStep
  <1>8. CASE \/ StartCompaction \/ RemoveCompacted
             \/ \E moved \in SUBSET Moving : BreakCompaction(moved)
             \/ \E between \in BOOLEAN : StopCompaction(between)
    BY <1>8, CompactionForms, CompactionStep, RemoveStep, StopStep
  <1>9. CASE (\E s \in Ids : DropAnchor(s)) \/ \E torn \in SUBSET Ids : PersistAnchorSource(torn)
    BY <1>9, DropAnchorStep, PersistStep
  <1>10. CASE Crash
    BY <1>10, CrashStep
  <1> QED BY <1>1, <1>2, <1>3, <1>4, <1>5, <1>6, <1>7, <1>8, <1>9, <1>10 DEF Next

LEMMA Invariance == Spec => []IInv
  BY InvInit, InvNext, PTL DEF Spec

-----------------------------------------------------------------------------
(* The directories, rows and captures of the snapshot engine keep their    *)
(* shape, and a capture of an action never runs while garbage collection   *)
(* holds the engine's lock.                                                *)
THEOREM TypeCorrect == Spec => []TypeOK
  <1>1. IInv => TypeOK
    BY DEF IInv
  <1> QED BY <1>1, Invariance, PTL

(* file_index is always what the newest listed snapshot recorded, whatever *)
(* scans, restores, edits and crashes happen between two commits.          *)
THEOREM BaselineStaysCommitted == Spec => []BaselineIsCommitted
  <1>1. IInv => BaselineIsCommitted
    <2> SUFFICES ASSUME IInv PROVE BaselineIsCommitted
      OBVIOUS
    <2>1. /\ Listed = {} => index = NothingSeen /\ revision = 0
          /\ \A s \in Listed : layer[s].revision = revision => index = recorded[s]
      BY DEF IInv, ChainInv, CommittedInv
    <2> QED BY <2>1, NewestListed DEF BaselineIsCommitted, NothingSeen
  <1> QED BY <1>1, Invariance, PTL

(* commitSnapshot and compact leave one chain: parents are listed and one  *)
(* revision older, and no revision is taken twice, although captures of an *)
(* action and of a restore run without a common lock.                      *)
THEOREM ChainStaysOne == Spec => []OneChain
  <1>1. IInv => OneChain
    BY DEF IInv, ChainInv
  <1> QED BY <1>1, Invariance, PTL

(* What resolveFile finds for a tracked file of a listed snapshot is what  *)
(* the scan of that snapshot saw, and the copy is there or its loss is     *)
(* known, until compaction cuts the chain or the rows of its files are     *)
(* lost amid its removal.                                                  *)
THEOREM FilesStayRecoverable == Spec => []FilesRecoverable
  <1>1. ASSUME IInv PROVE FilesRecoverable
    <2> DEFINE Good(s, p) ==
                 LET t == Supplier(s, p)
                 IN IF t = 0 THEN recorded[s][p] = Gone
                    ELSE /\ layer[t].files[p] = recorded[s][p]
                         /\ blob[t][p] # recorded[s][p] => <<t, p>> \in harmed
               Fails == {s \in Listed :
                          /\ ~CutOff(s) /\ ~Emptied(s)
                          /\ \E p \in Tracked : ~Good(s, p)}
    <2> SUFFICES ASSUME Fails # {} PROVE FALSE
      BY <1>1 DEF FilesRecoverable
    <2>1. PICK s \in Fails : \A r \in Fails : s <= r
      <3>1. Fails \in SUBSET Nat
        BY Basics DEF Listed
      <3> HIDE DEF Fails
      <3> QED BY <3>1, LeastNumber
    <2>2. s \in Listed /\ s \in Ids /\ s \in Nat /\ s # 0
      BY <2>1, Basics DEF Listed
    <2>3. PICK p \in Tracked : ~CutOff(s) /\ ~Emptied(s) /\ ~Good(s, p)
      BY <2>1
    <2>4. Supplier(s, p) = IF layer[s].files[p] # Same THEN s
                           ELSE IF layer[s].parent = 0 THEN 0
                           ELSE Supplier(layer[s].parent, p)
      BY <1>1, <2>2, AllParentsOlder, SupplierWalks DEF IInv, TypeOK
    <2>5. IF layer[s].files[p] = Same
          THEN IF layer[s].parent = 0
               THEN layer[s].revision = 1 => recorded[s][p] = Gone
               ELSE recorded[s][p] = recorded[layer[s].parent][p]
          ELSE /\ recorded[s][p] = layer[s].files[p]
               /\ blob[s][p] = recorded[s][p] \/ <<s, p>> \in harmed
      BY <1>1, <2>2, <2>3 DEF IInv, FilesInv
    <2>6. layer[s].revision \in 1..revision /\ revision \in Nat /\ layer[s].parent < s
      BY <1>1, <2>2 DEF IInv, TypeOK, ChainInv, LayerInv
    <2>7. CASE layer[s].files[p] # Same
      BY <2>2, <2>3, <2>4, <2>5, <2>7
    <2>8. CASE layer[s].files[p] = Same /\ layer[s].parent = 0
      <3>1. layer[s].revision = 1
        <4>1. layer[s].revision <= layer[s].revision /\ ~(layer[s].revision > 1)
          BY <2>2, <2>3, <2>6, <2>8 DEF CutOff
        <4> QED BY <2>6, <4>1
      <3> QED BY <2>3, <2>4, <2>5, <2>8, <3>1
    <2>9. CASE layer[s].files[p] = Same /\ layer[s].parent # 0
      <3> PICK q \in Listed : q = layer[s].parent
        BY <1>1, <2>2, <2>9 DEF IInv, ChainInv, OneChain
      <3>1. /\ q < s /\ q \in Nat /\ layer[s].revision = layer[q].revision + 1
            /\ layer[q].revision \in Nat
        BY <1>1, <2>2, <2>6, <2>9, Basics
           DEF IInv, TypeOK, ChainInv, OneChain, LayerInv, Listed, Layers
      <3>2. ~CutOff(q)
        <4>1. \A r \in Listed : layer[r].revision \in Nat
          <5>1. \A r \in Ids : layer[r].revision \in Nat
            BY <1>1 DEF IInv, TypeOK, Layers
          <5> QED BY <5>1 DEF Listed
        <4>2. SUFFICES ASSUME CutOff(q) PROVE FALSE
          OBVIOUS
        <4>3. PICK r \in Listed :
                /\ layer[r].parent = 0 /\ layer[r].revision > 1
                /\ layer[r].revision <= layer[q].revision
          BY <4>2 DEF CutOff
        <4>4. layer[r].revision <= layer[s].revision
          BY <3>1, <4>1, <4>3
        <4> QED BY <2>3, <4>3, <4>4 DEF CutOff
      <3>3. q \notin Fails /\ ~Emptied(q)
        <4>1. q \in Ids /\ ~Emptied(q)
          BY <1>1, <2>2 DEF IInv, ChainInv, EmptiedInv, Listed
        <4> QED BY <2>1, <2>2, <3>1, <4>1
      <3>4. Good(q, p)
        BY <3>2, <3>3
      <3>5. Supplier(s, p) = Supplier(q, p) /\ recorded[s][p] = recorded[q][p]
        BY <2>4, <2>5, <2>9
      <3> QED BY <2>3, <3>4, <3>5
    <2> QED BY <2>7, <2>8, <2>9
  <1>2. IInv => FilesRecoverable
    BY <1>1
  <1> QED BY <1>2, Invariance, PTL

-----------------------------------------------------------------------------
(* What a compaction does to the snapshots it keeps.                       *)

Walks ==
  \A p \in Tracked, s \in Ids, t \in 0..MaxSnapshots :
    layer[s].parent = t =>
      Supplier(s, p) = IF layer[s].files[p] # Same THEN s
                       ELSE IF t = 0 THEN 0 ELSE Supplier(t, p)

LEMMA InvWalks == IInv => Walks
  <1> SUFFICES ASSUME IInv PROVE Walks
    OBVIOUS
  <1>1. layer \in [Ids -> Layers] /\ ParentsOlder
    BY AllParentsOlder DEF IInv, TypeOK
  <1> QED BY <1>1, SupplierWalks DEF Walks

LEMMA InvWalksNext == (IInv => Walks)'
  BY InvWalks, PTL

(* A layer that is removed is supplied by removed layers, or by none.      *)
LEMMA RemovedSuppliers ==
  ASSUME IInv, Listed # {}, NEW p \in Tracked
  PROVE  \A t \in Leaving : Supplier(t, p) \in (Leaving) \cup {0}
  <1> DEFINE Fails == {t \in Leaving :
                         Supplier(t, p) \notin (Leaving) \cup {0}}
  <1>1. /\ Listed \subseteq Ids /\ Kept \subseteq Listed /\ Leaving \subseteq Listed
        /\ \A t \in Listed : t \in Nat /\ (t \in Leaving <=> t \notin Kept)
    BY Basics, KeptFacts DEF Listed, Leaving
  <1>2. ASSUME Fails # {} PROVE FALSE
    <2>1. PICK k \in Fails : \A j \in Fails : k <= j
      <3>1. Fails \in SUBSET Nat
        BY <1>1
      <3> HIDE DEF Fails
      <3> QED BY <1>2, <3>1, LeastNumber
    <2>2. /\ k \in Leaving /\ k \in Ids
          /\ layer[k].parent \in 0..MaxSnapshots
          /\ Supplier(k, p) = IF layer[k].files[p] # Same THEN k
                              ELSE IF layer[k].parent = 0 THEN 0
                              ELSE Supplier(layer[k].parent, p)
      <3>1. k \in Ids /\ layer[k].parent \in 0..MaxSnapshots
        BY <1>1, <2>1 DEF IInv, TypeOK, Layers
      <3> QED BY <2>1, <3>1, InvWalks DEF Walks
    <2>3. layer[k].files[p] = Same /\ layer[k].parent # 0
      BY <2>1, <2>2
    <2> PICK q \in Listed : q = layer[k].parent
      BY <1>1, <2>2, <2>3 DEF IInv, ChainInv, OneChain
    <2>4. q < k /\ layer[k].revision = layer[q].revision + 1
      BY <1>1, <2>2, <2>3 DEF IInv, ChainInv, OneChain, LayerInv
    <2>5. layer[q].revision \in Nat
      BY DEF Listed, IInv, TypeOK, Layers
    <2>6. q \notin Kept
      BY <1>1, <2>2, <2>4, <2>5, KeptFacts DEF OlderThan
    <2>7. q \notin Fails
      BY <1>1, <2>1, <2>2, <2>4
    <2> QED BY <1>1, <2>1, <2>2, <2>3, <2>6, <2>7
  <1> QED BY <1>2

(* The walk from a snapshot that is kept ends as it did, unless it ended   *)
(* in a layer that is removed; then it ends nowhere.                       *)
LEMMA CompactedSuppliers ==
  ASSUME IInv, NEW moved, Compacts(moved), NEW p \in Tracked
  PROVE  \A s \in Kept :
           Supplier(s, p)' = IF Supplier(s, p) \in Leaving THEN 0
                             ELSE Supplier(s, p)
  <1> DEFINE Left(s) == IF Supplier(s, p) \in Leaving THEN 0
                        ELSE Supplier(s, p)
             Fails == {s \in Kept : Supplier(s, p)' # Left(s)}
  <1>1. /\ Listed # {} /\ Listed \subseteq Ids /\ 0 \notin Listed
        /\ Kept \subseteq Listed
        /\ \A t \in Listed : t \in Nat /\ (t \in Leaving <=> t \notin Kept)
    <2>1. Listed # {} /\ Listed \subseteq Ids
      BY DEF Compacts, Compact, Leaving, Listed
    <2> QED BY <2>1, Basics, KeptFacts DEF Leaving
  <1>2. \A s \in Ids :
          /\ layer'[s].files = layer[s].files
          /\ layer'[s].parent = IF s \in Cut THEN 0 ELSE layer[s].parent
    BY CompactionShape, CompactedRowType
  <1>3. ASSUME Fails # {} PROVE FALSE
    <2>1. PICK k \in Fails : \A j \in Fails : k <= j
      <3>1. Fails \in SUBSET Nat
        BY <1>1
      <3> HIDE DEF Fails
      <3> QED BY <1>3, <3>1, LeastNumber
    <2>2. k \in Kept /\ k \in Ids /\ Supplier(k, p)' # Left(k)
      BY <1>1, <2>1
    <2>3. \A t \in 0..MaxSnapshots :
            layer[k].parent = t =>
              Supplier(k, p) = IF layer[k].files[p] # Same THEN k
                               ELSE IF t = 0 THEN 0 ELSE Supplier(t, p)
      BY <2>2, InvWalks DEF Walks
    <2>4. Walks'
      <3>1. IInv'
        BY CompactionStep
      <3> QED BY <3>1, InvWalksNext
    <2>5. \A t \in 0..MaxSnapshots :
            layer'[k].parent = t =>
              Supplier(k, p)' = IF layer'[k].files[p] # Same THEN k
                                ELSE IF t = 0 THEN 0 ELSE Supplier(t, p)'
      BY <2>2, <2>4 DEF Walks
    <2> PICK u \in 0..MaxSnapshots : u = layer[k].parent
      BY <2>2 DEF IInv, TypeOK, Layers
    <2>6. layer[k].files[p] = Same /\ u # 0
      <3>1. k \notin Leaving /\ 0 \in 0..MaxSnapshots
        BY <1>1, <2>2, Basics
      <3>2. layer'[k].files = layer[k].files /\ layer'[k].parent \in {0, u}
        BY <1>2, <2>2
      <3>3. u = 0 => layer'[k].parent = 0
        BY <3>2
      <3>4. ASSUME layer[k].files[p] # Same PROVE FALSE
        <4>1. Supplier(k, p) = k
          BY <2>3, <3>4
        <4>2. Supplier(k, p)' = k
          BY <2>5, <3>1, <3>2, <3>4
        <4> QED BY <2>2, <3>1, <4>1, <4>2
      <3>5. ASSUME layer[k].files[p] = Same, u = 0 PROVE FALSE
        <4>1. Supplier(k, p) = 0
          BY <2>3, <3>5
        <4>2. Supplier(k, p)' = 0
          BY <2>5, <3>1, <3>2, <3>3, <3>5
        <4> QED BY <2>2, <4>1, <4>2
      <3> QED BY <3>4, <3>5
    <2> PICK q \in Listed : q = u
      BY <1>1, <2>2, <2>6 DEF IInv, ChainInv, OneChain
    <2>7. Supplier(k, p) = Supplier(q, p)
      BY <2>3, <2>6
    <2>8. CASE q \in Kept
      <3>1. q < k
        BY <1>1, <2>2, <2>6 DEF IInv, ChainInv, LayerInv
      <3>2. Supplier(q, p)' = Left(q)
        BY <1>1, <2>1, <2>2, <2>8, <3>1
      <3>3. k \notin Cut
        BY <1>1, <2>8 DEF Cut
      <3>4. Supplier(k, p)' = Supplier(q, p)'
        BY <1>1, <1>2, <2>2, <2>5, <2>6, <2>8, <3>3
      <3> QED BY <3>4, <2>2, <2>7, <3>2, <3>3
    <2>9. CASE q \notin Kept
      <3>1. k \in Cut
        BY <1>1, <2>2, <2>9, OnlyOldestIsCut
      <3>2. Supplier(k, p)' = 0
        BY <1>2, <2>2, <2>5, <2>6, <2>9, <3>1, Basics
      <3>3. Supplier(q, p) \in (Leaving) \cup {0}
        BY <1>1, <2>9, RemovedSuppliers
      <3> QED BY <1>1, <2>2, <2>7, <3>2, <3>3
    <2> QED BY <2>8, <2>9
  <1> QED BY <1>3

(* A compaction that clears a parent, whether or not it gets to its end,   *)
(* takes from the snapshots it keeps just what the layers that leave       *)
(* supplied, and leaves every other layer where it was: how far the code   *)
(* is from the flattening the documents plan, for any chain and any number *)
(* of snapshots kept.                                                      *)
THEOREM CompactionCutsSuppliers ==
  Spec => [][StartCompaction \/ (\E moved \in SUBSET Moving : BreakCompaction(moved)) =>
               \A s \in Kept, p \in Tracked :
                 Supplier(s, p)' = IF Supplier(s, p) \in Leaving THEN 0
                                   ELSE Supplier(s, p)]_vars
  <1> DEFINE Cuts ==
               StartCompaction \/ (\E moved \in SUBSET Moving : BreakCompaction(moved)) =>
                 \A s \in Kept, p \in Tracked :
                   Supplier(s, p)' = IF Supplier(s, p) \in Leaving THEN 0
                                     ELSE Supplier(s, p)
  <1>1. IInv => Cuts
    BY CompactionForms, CompactedSuppliers
  <1>2. IInv => [Cuts]_vars
    BY <1>1
  <1> QED BY <1>2, Invariance, PTL

(* No snapshot that is kept reads a file from a layer that goes: what      *)
(* flattening the removed layers would establish.                          *)
Flattened ==
  StartCompaction =>
    \A s \in Listed \ removing', p \in Tracked : Supplier(s, p) \notin removing'

(* That is all it takes: where it holds, every copy a snapshot could be    *)
(* restored from before a compaction can be restored from after it.        *)
THEOREM FlatteningKeepsRestores ==
  Spec /\ [][Flattened]_vars => CompactionKeepsRestores
  <1> DEFINE Keeps == StartCompaction =>
               \A s \in Listed \ removing', p \in Paths :
                 RestorationEntry(s, p).kind = "copy" =>
                   RestorationEntry(s, p)'.kind = "copy"
  <1>1. ASSUME IInv, Flattened PROVE Keeps
    <2> SUFFICES ASSUME StartCompaction, NEW s \in Listed \ removing', NEW p \in Paths,
                        RestorationEntry(s, p).kind = "copy"
                 PROVE  RestorationEntry(s, p)'.kind = "copy"
      OBVIOUS
    <2> PICK moved : Compacts(moved)
      BY <1>1, CompactionForms
    <2>1. /\ removing' = Leaving /\ s \in Kept /\ s \in Ids
          /\ \A t \in Ids : /\ layer'[t].files = layer[t].files
                            /\ layer'[t].anchor = layer[t].anchor
                            /\ layer'[t].anchored = layer[t].anchored
      BY <1>1, CompactionShape, CompactedRowType DEF StartCompaction, Leaving, Listed
    <2>2. p \in Tracked => Supplier(s, p)' = Supplier(s, p)
      BY <1>1, <2>1, CompactedSuppliers DEF Flattened
    <2> PICK t \in 0..MaxSnapshots : t = IF p \in Tracked THEN Supplier(s, p) ELSE 0
      <3>1. layer \in [Ids -> Layers] /\ ParentsOlder
        BY <1>1, AllParentsOlder DEF IInv, TypeOK
      <3> QED BY <2>1, <3>1, SupplierWalks, Basics
    <2>3. t = 0 \/ t \in Ids
      BY Basics DEF Ids
    <2>4. CASE t = 0
      <3>1. p = layer[s].anchor /\ layer[s].anchored # Gone
        BY <2>4 DEF RestorationEntry, NoEntry
      <3>2. p = layer'[s].anchor /\ layer'[s].anchored # Gone
        BY <2>1, <3>1
      <3> QED BY <2>2, <2>4, <3>2 DEF RestorationEntry
    <2>5. CASE t # 0
      <3>1. layer[t].files[p] # Gone
        BY <2>5 DEF RestorationEntry
      <3>2. layer'[t].files[p] # Gone
        BY <2>1, <2>3, <2>5, <3>1
      <3> QED BY <2>2, <2>5, <3>2 DEF RestorationEntry
    <2> QED BY <2>4, <2>5
  <1>2. IInv /\ [Flattened]_vars => [Keeps]_vars
    BY <1>1
  <1> QED BY <1>2, Invariance, PTL DEF CompactionKeepsRestores
===============================================================================
