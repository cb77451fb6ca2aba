------------------------ MODULE SnapshotAnchorsProofs ------------------------
(***************************************************************************)
(* Proofs about the anchors of SnapshotLayers: the one file that a         *)
(* snapshot of an action keeps whether the index tracks it or not.  Its    *)
(* copy moves: a rebase removes the copy of a snapshot for that of an      *)
(* older one, a compaction brings it back before the older one goes, and   *)
(* both let other tasks run between their steps.  What makes it work is    *)
(* that a snapshot whose copy others rest on is never rebased itself: no   *)
(* copy comes before its own in the pass over the snapshots.               *)
(***************************************************************************)
EXTENDS SnapshotLayersProofs

Key(s) == layer[s].anchor
HasCopy(s) == blob[s][Key(s)] # Gone
Harmed(s) == <<s, Key(s)>> \in harmed
Lost(s) == Harmed(s) /\ CutOff(s)
Tracker(y, s) == SameAnchor(y, s) /\ TracksAnchor(y)

-----------------------------------------------------------------------------
(* AnchorSource: what the pass over the snapshots finds before s.          *)

(* One step of the pass, from u, at t.                                     *)
NextSource(s, t, u) ==
  IF ~SameAnchor(t, s) THEN u
  ELSE IF TracksAnchor(t) THEN t
  ELSE IF u = 0 THEN (IF blob[t][Key(s)] = Gone THEN 0 ELSE t)
  ELSE (IF blob[u][Key(s)] = Gone THEN t ELSE u)

Pass(f, s, n) ==
  f = [t \in 0..n |-> IF t = 0 THEN 0 ELSE NextSource(s, t, f[t - 1])]

Passes(s) ==
  CHOOSE f : f = [t \in 0..MaxSnapshots |->
    IF t = 0 THEN 0
    ELSE LET u == f[t - 1]
         IN CASE ~SameAnchor(t, s) -> u
              [] SameAnchor(t, s) /\ TracksAnchor(t) -> t
              [] OTHER -> IF u = 0 THEN (IF blob[t][layer[s].anchor] = Gone THEN 0 ELSE t)
                          ELSE (IF blob[u][layer[s].anchor] = Gone THEN t ELSE u)]

LEMMA PassExists ==
  ASSUME NEW s, NEW n \in 0..MaxSnapshots
  PROVE  \E f : Pass(f, s, n)
  <1> DEFINE Fails == {k \in 0..MaxSnapshots : ~\E f : Pass(f, s, k)}
  <1>0. MaxSnapshots \in Nat
    BY SnapshotLayersAssumption
  <1>1. ASSUME Fails # {} PROVE FALSE
    <2>1. PICK k \in Fails : \A j \in Fails : k <= j
      <3>1. Fails \in SUBSET Nat
        BY <1>0
      <3> HIDE DEF Fails
      <3> QED BY <1>1, <3>1, LeastNumber
    <2>2. CASE k = 0
      <3>1. Pass([t \in 0..0 |-> 0], s, 0)
        BY DEF Pass
      <3> QED BY <2>1, <2>2, <3>1
    <2>3. CASE k # 0
      <3>1. k \in Nat \ {0} /\ k - 1 \in 0..MaxSnapshots /\ k - 1 \notin Fails
        BY <1>0, <2>1, <2>3
      <3>2. PICK f : Pass(f, s, k - 1)
        BY <3>1
      <3> DEFINE g == [t \in 0..k |-> IF t = k THEN NextSource(s, k, f[k - 1]) ELSE f[t]]
      <3>3. \A t \in 0..(k-1) : t \in 0..k /\ t # k /\ g[t] = f[t]
        BY <3>1
      <3>4. ASSUME NEW t \in 0..k
            PROVE  g[t] = IF t = 0 THEN 0 ELSE NextSource(s, t, g[t - 1])
        <4>1. CASE t = k
          <5>1. g[k] = NextSource(s, k, f[k - 1]) /\ g[k - 1] = f[k - 1] /\ k # 0
            BY <3>1, <3>3
          <5> HIDE DEF g
          <5> QED BY <4>1, <5>1
        <4>2. CASE t # k
          <5>1. t \in 0..(k-1)
            BY <3>1, <4>2
          <5>2. f[t] = IF t = 0 THEN 0 ELSE NextSource(s, t, f[t - 1])
            BY <3>2, <5>1 DEF Pass
          <5>3. g[t] = f[t] /\ (t # 0 => g[t - 1] = f[t - 1])
            BY <3>1, <3>3, <5>1
          <5> HIDE DEF g
          <5> QED BY <5>2, <5>3
        <4> QED BY <4>1, <4>2
      <3>5. Pass(g, s, k)
        <4>1. g = [t \in 0..k |-> g[t]]
          OBVIOUS
        <4> HIDE DEF g
        <4> QED BY <3>4, <4>1 DEF Pass
      <3> HIDE DEF g
      <3> QED BY <2>1, <3>5
    <2> QED BY <2>2, <2>3
  <1> QED BY <1>1

(* No copy before t that comes before the pass: from y on, where the pass  *)
(* starts or a layer says that the file is what it is, there are none.     *)
Bare(y, t, s) ==
  /\ y = 0 \/ (Tracker(y, s) /\ ~HasCopy(y))
  /\ \A r \in Ids : y < r /\ r < t /\ SameAnchor(r, s) => ~HasCopy(r)

(* The pass finds u when it has come to k.                                 *)
Found(s, k, u) ==
  /\ u = 0 \/ (u \in Ids /\ u <= k /\ SameAnchor(u, s))
  /\ \A y \in Ids : y <= k /\ Tracker(y, s) => y <= u
  /\ u # 0 => TracksAnchor(u) \/ \E y \in 0..MaxSnapshots : y < u /\ Bare(y, u, s)
  /\ u = 0 \/ ~HasCopy(u) => \E y \in 0..MaxSnapshots : y <= k /\ Bare(y, k + 1, s)

LEMMA FoundNext ==
  ASSUME NEW s \in Ids, NEW k \in 0..MaxSnapshots, k + 1 \in Ids, NEW u, Found(s, k, u)
  PROVE  Found(s, k + 1, NextSource(s, k + 1, u))
  <1>0. /\ MaxSnapshots \in Nat /\ k \in Nat /\ Ids \subseteq Nat \ {0}
        /\ \A y \in Ids : y \in 0..MaxSnapshots /\ y # 0
        /\ k + 1 # 0 /\ 0 \in 0..MaxSnapshots
    BY Basics
  <1> PICK j \in Ids : j = k + 1
    OBVIOUS
  <1>1. /\ u = 0 \/ (u \in Ids /\ u <= k /\ SameAnchor(u, s))
        /\ \A y \in Ids : y <= k /\ Tracker(y, s) => y <= u
        /\ u # 0 => TracksAnchor(u) \/ \E y \in 0..MaxSnapshots : y < u /\ Bare(y, u, s)
        /\ u = 0 \/ ~HasCopy(u) => \E y \in 0..MaxSnapshots : y <= k /\ Bare(y, j, s)
    BY DEF Found
  <1>2. ASSUME NEW y \in 0..MaxSnapshots, y <= k, Bare(y, j, s),
               SameAnchor(j, s) => ~HasCopy(j)
        PROVE  y <= j /\ Bare(y, j + 1, s)
    BY <1>0, <1>2 DEF Bare
  <1>3. \A r \in Ids : SameAnchor(r, s) => Key(r) = Key(s)
    BY DEF SameAnchor, Key
  <1>8. u = 0 \/ (u \in Ids /\ u <= j /\ SameAnchor(u, s))
    <2>1. ASSUME NEW i \in Nat, i <= k PROVE i <= j
      BY <1>0, <2>1
    <2>2. u \in Ids => u \in Nat
      BY <1>0
    <2> QED BY <1>1, <2>1, <2>2
  <1>4. CASE ~SameAnchor(j, s)
    <2>1. NextSource(s, j, u) = u
      BY <1>4 DEF NextSource
    <2>2. u = 0 \/ ~HasCopy(u) => \E y \in 0..MaxSnapshots : y <= j /\ Bare(y, j + 1, s)
      BY <1>1, <1>2, <1>4
    <2>3. \A y \in Ids : y <= j /\ Tracker(y, s) => y <= u
      BY <1>0, <1>1, <1>4 DEF Tracker
    <2>4. u # 0 => TracksAnchor(u) \/ \E y \in 0..MaxSnapshots : y < u /\ Bare(y, u, s)
      BY <1>1
    <2>5. Found(s, j, u)
      BY <1>8, <2>2, <2>3, <2>4 DEF Found
    <2> QED BY <2>1, <2>5
  <1>5. CASE SameAnchor(j, s) /\ TracksAnchor(j)
    <2>1. NextSource(s, j, u) = j
      BY <1>5 DEF NextSource
    <2>2. ~HasCopy(j) => Bare(j, j + 1, s)
      BY <1>0, <1>5 DEF Bare, Tracker
    <2>3. Found(s, j, j)
      BY <1>0, <1>5, <2>2 DEF Found
    <2> QED BY <2>1, <2>3
  <1>6. CASE SameAnchor(j, s) /\ ~TracksAnchor(j) /\ u = 0
    <2>1. NextSource(s, j, u) = IF HasCopy(j) THEN j ELSE 0
      BY <1>3, <1>6 DEF NextSource, HasCopy
    <2>2. \A y \in Ids : y <= j /\ Tracker(y, s) => FALSE
      BY <1>0, <1>1, <1>6 DEF Tracker
    <2>3. CASE HasCopy(j)
      <3>1. \E y \in 0..MaxSnapshots : y < j /\ Bare(y, j, s)
        BY <1>0, <1>1, <1>6
      <3>2. Found(s, j, j)
        BY <1>0, <1>6, <2>2, <2>3, <3>1 DEF Found
      <3> QED BY <2>1, <2>3, <3>2
    <2>4. CASE ~HasCopy(j)
      <3>1. \E y \in 0..MaxSnapshots : y <= j /\ Bare(y, j + 1, s)
        BY <1>1, <1>2, <1>6, <2>4
      <3>2. Found(s, j, 0)
        BY <1>0, <2>2, <3>1 DEF Found
      <3> QED BY <2>1, <2>4, <3>2
    <2> QED BY <2>3, <2>4
  <1>7. CASE SameAnchor(j, s) /\ ~TracksAnchor(j) /\ u # 0
    <2>1. NextSource(s, j, u) = IF HasCopy(u) THEN u ELSE j
      BY <1>1, <1>3, <1>7 DEF NextSource, HasCopy
    <2>2. \A y \in Ids : y <= j /\ Tracker(y, s) => y <= u
      BY <1>0, <1>1, <1>7 DEF Tracker
    <2>3. CASE HasCopy(u)
      <3>1. TracksAnchor(u) \/ \E y \in 0..MaxSnapshots : y < u /\ Bare(y, u, s)
        BY <1>1, <1>7
      <3>2. Found(s, j, u)
        BY <1>7, <1>8, <2>2, <2>3, <3>1 DEF Found
      <3> QED BY <2>1, <2>3, <3>2
    <2>4. CASE ~HasCopy(u)
      <3>1. \E y \in 0..MaxSnapshots : y < j /\ Bare(y, j, s)
        BY <1>0, <1>1, <2>4
      <3>2. ~HasCopy(j) => \E y \in 0..MaxSnapshots : y <= j /\ Bare(y, j + 1, s)
        BY <1>1, <1>2, <2>4
      <3>3. \A y \in Ids : y <= j /\ Tracker(y, s) => y <= j
        OBVIOUS
      <3>4. Found(s, j, j)
        BY <1>0, <1>7, <3>1, <3>2, <3>3 DEF Found
      <3> QED BY <2>1, <2>4, <3>4
    <2> QED BY <2>3, <2>4
  <1> QED BY <1>4, <1>5, <1>6, <1>7

LEMMA AnchorSourceFound ==
  ASSUME NEW s \in Ids
  PROVE  Found(s, s - 1, AnchorSource(s))
  <1>0. /\ MaxSnapshots \in Nat /\ s \in Nat \ {0} /\ s - 1 \in 0..MaxSnapshots
        /\ Ids \subseteq Nat \ {0} /\ s <= MaxSnapshots
    BY Basics DEF Ids
  <1> DEFINE f == Passes(s)
  <1>1. Pass(f, s, MaxSnapshots)
    <2>1. PICK g : Pass(g, s, MaxSnapshots)
      BY <1>0, PassExists
    <2>2. \A h : Pass(h, s, MaxSnapshots) <=>
                 h = [t \in 0..MaxSnapshots |->
      IF t = 0 THEN 0
      ELSE LET u == h[t - 1]
           IN CASE ~SameAnchor(t, s) -> u
                [] SameAnchor(t, s) /\ TracksAnchor(t) -> t
                [] OTHER -> IF u = 0 THEN (IF blob[t][layer[s].anchor] = Gone THEN 0 ELSE t)
                            ELSE (IF blob[u][layer[s].anchor] = Gone THEN t ELSE u)]
      BY DEF Pass, NextSource, Key
    <2> QED BY <2>1, <2>2 DEF Passes
  <1>2. AnchorSource(s) = f[s - 1]
    BY DEF AnchorSource, Passes
  <1> HIDE DEF f
  <1>3. \A t \in 0..MaxSnapshots : f[t] = IF t = 0 THEN 0 ELSE NextSource(s, t, f[t - 1])
    BY <1>1 DEF Pass
  <1> DEFINE Fails == {k \in 0..MaxSnapshots : ~Found(s, k, f[k])}
  <1>4. ASSUME Fails # {} PROVE FALSE
    <2>1. PICK k \in Fails : \A j \in Fails : k <= j
      <3>1. Fails \in SUBSET Nat
        BY <1>0
      <3> HIDE DEF Fails
      <3> QED BY <1>4, <3>1, LeastNumber
    <2>2. CASE k = 0
      <3>1. f[0] = 0 /\ 0 \in 0..MaxSnapshots
        BY <1>0, <1>3
      <3>2. Bare(0, 0 + 1, s)
        BY <1>0 DEF Bare
      <3>3. Found(s, 0, 0)
        BY <1>0, <3>1, <3>2 DEF Found
      <3> QED BY <2>1, <2>2, <3>1, <3>3
    <2>3. CASE k # 0
      <3>1. /\ k \in Nat \ {0} /\ k - 1 \in 0..MaxSnapshots /\ k - 1 \notin Fails
            /\ (k - 1) + 1 = k /\ k \in Ids
        BY <1>0, <2>1, <2>3 DEF Ids
      <3> PICK j \in 0..MaxSnapshots : j = k - 1
        BY <3>1
      <3>2. Found(s, j, f[j]) /\ j + 1 = k
        BY <3>1
      <3>3. f[k] = NextSource(s, j + 1, f[j])
        BY <1>3, <3>1
      <3>4. Found(s, j + 1, NextSource(s, j + 1, f[j]))
        BY <3>1, <3>2, FoundNext
      <3> QED BY <2>1, <3>2, <3>3, <3>4
    <2> QED BY <2>2, <2>3
  <1>5. s - 1 \notin Fails
    BY <1>4
  <1> QED BY <1>0, <1>2, <1>5

-----------------------------------------------------------------------------
(* The inductive invariant.                                                *)

Anchored == {s \in Listed : layer[s].anchored # Gone}

(* An older snapshot of the same anchor, with no layer between the two     *)
(* that says what the file is.                                             *)
Older(t, s) ==
  /\ t < s /\ SameAnchor(t, s)
  /\ \A y \in Ids : t < y /\ y < s => ~Tracker(y, s)

(* Where the pass would take another copy for that of t, were it not that  *)
(* the compaction in progress is about to remove it.                       *)
Passing(r, t) == r \in removing /\ t \notin removing /\ Key(t) \in Tracked

Calm(y, t) ==
  /\ y = 0 \/ (Tracker(y, t) /\ ~HasCopy(y))
  /\ \A r \in Ids : y < r /\ r < t /\ SameAnchor(r, t) => ~HasCopy(r) \/ Passing(r, t)

(* No rebase takes the copy of t away, unless it was harmed: it belongs to *)
(* a tracked file, or no copy of the anchor comes before it.               *)
Firm(t) ==
  \/ TracksAnchor(t) \/ Harmed(t)
  \/ \E y \in 0..MaxSnapshots : y < t /\ Calm(y, t)

(* Directories are made in the order of the revisions.                     *)
OrderInv == \A s, t \in Listed : s < t => OlderThan(s, t)

(* A compaction removes the oldest snapshots, and what it keeps starts     *)
(* with one whose parent it has cleared.                                   *)
TailInv ==
  /\ \A n \in removing, r \in Listed : r < n => r \in removing
  /\ removing # {} =>
       \E r \in Listed \ removing :
         /\ layer[r].parent = 0 /\ layer[r].revision > 1
         /\ \A q \in Listed \ removing : r <= q

(* A capture about to be committed has a copy of its anchor, or the layer  *)
(* says that there is no such file.                                        *)
CapturedOk(t) ==
  LET x == capture[t]
  IN /\ x.pc \in {"hashed", "copied"} /\ x.anchored # Gone => x.anchor \in Paths
     /\ x.pc = "copied" =>
          /\ x.base = revision => \A s \in Listed : s < x.id
          /\ x.anchored # Gone =>
               \/ <<x.id, x.anchor>> \in harmed
               \/ blob[x.id][x.anchor] = x.anchored
               \/ /\ blob[x.id][x.anchor] = Gone
                  /\ x.anchor \in Tracked /\ x.files[x.anchor] # Same

ShapeOk(s) ==
  /\ Key(s) \in Paths
  /\ blob[s][Key(s)] \in {Gone, layer[s].anchored} \/ Harmed(s)
  /\ layer[s].source \in 1..made /\ \A u \in Tasks : capture[u].id # layer[s].source
  /\ TracksAnchor(s) => layer[s].source = s

(* The copy of another snapshot is that of an older one, and stays there.  *)
BorrowOk(s) ==
  \A t \in Listed : layer[s].source = t /\ t # s =>
    Older(t, s) /\ (Firm(t) \/ Lost(s))

BackedOk(s) ==
  \/ TracksAnchor(s) \/ Lost(s)
  \/ \E t \in Listed : /\ layer[s].source = t
                       /\ rebasing[1] = t \/ HasCopy(t) \/ Harmed(t)

LeavingOk(s) ==
  \A t \in removing : layer[s].source = t /\ s \notin removing => Harmed(s)

AnchorOk(s) == ShapeOk(s) /\ BorrowOk(s) /\ BackedOk(s) /\ LeavingOk(s)

(* While s is rebased on t, t keeps its copy, and no other snapshot rests  *)
(* on s, unless a compaction removes t.                                    *)
RebaseOk(s, t) ==
  /\ s \in Anchored /\ ~TracksAnchor(s)
  /\ t <= made /\ \A u \in Tasks : capture[u].id # t
  /\ t \in Listed => /\ t = s \/ (Older(t, s) /\ (Firm(t) \/ Lost(s)))
                     /\ HasCopy(t) \/ Harmed(t)
  /\ t \notin Listed => CutOff(s)
  /\ t # s => \A u \in Anchored : layer[u].source = s /\ u # s =>
                t \notin Listed \/ Passing(t, s) \/ Harmed(s) \/ Lost(u)

RebasedInv == \A s \in Listed, t \in Ids : rebasing = <<s, t>> => RebaseOk(s, t)

AnchorInv ==
  /\ OrderInv /\ TailInv
  /\ \A t \in Tasks : CapturedOk(t)
  /\ \A s \in Anchored : AnchorOk(s)
  /\ RebasedInv

LEMMA AnchorInit == Init => AnchorInv
  <1> SUFFICES ASSUME Init PROVE AnchorInv
    OBVIOUS
  <1>1. Listed = {} /\ Anchored = {} /\ removing = {}
    BY DEF Init, Listed, Anchored, NoLayer
  <1>2. \A t \in Tasks : capture[t].pc = "idle"
    BY DEF Init, NoCapture
  <1> QED BY <1>1, <1>2 DEF AnchorInv, OrderInv, TailInv, CapturedOk, RebasedInv

-----------------------------------------------------------------------------
(* Facts about single states.                                              *)

LEMMA SameAnchorFacts ==
  ASSUME IInv, NEW r \in Ids, NEW s \in Ids, SameAnchor(r, s)
  PROVE  /\ Key(r) = Key(s) /\ Key(s) \in Paths
         /\ layer[r].anchored = layer[s].anchored
         /\ r \in Anchored /\ s \in Anchored
         /\ \A q \in Ids : SameAnchor(q, r) <=> SameAnchor(q, s)
  <1>1. /\ layer[r].anchor = layer[s].anchor /\ layer[r].anchor # NoPath
        /\ layer[r].anchored = layer[s].anchored /\ layer[r].anchored # Gone
    BY DEF SameAnchor
  <1>2. \A q \in Ids : q \notin Listed => layer[q].anchor = NoPath
    BY DEF IInv, ChainInv, LayerInv, NoLayer
  <1>3. layer[s].anchor \in Paths
    BY <1>1 DEF IInv, TypeOK, Layers
  <1> QED BY <1>1, <1>2, <1>3 DEF Key, Anchored, SameAnchor

LEMMA AnchoredFacts ==
  ASSUME IInv, AnchorInv, NEW s \in Anchored
  PROVE  /\ s \in Listed /\ s \in Ids /\ AnchorOk(s) /\ SameAnchor(s, s)
         /\ Key(s) \in Paths
  <1>1. s \in Listed /\ s \in Ids /\ layer[s].anchored # Gone
    BY DEF Anchored, Listed
  <1>2. AnchorOk(s)
    BY DEF AnchorInv
  <1>3. Key(s) \in Paths /\ layer[s].anchor # NoPath
    BY <1>2, Basics DEF AnchorOk, ShapeOk, Key
  <1> QED BY <1>1, <1>2, <1>3 DEF SameAnchor

(* A snapshot that another one rests on has the same anchor.               *)
LEMMA BorrowFacts ==
  ASSUME IInv, AnchorInv, NEW s \in Anchored, NEW t \in Listed, layer[s].source = t
  PROVE  /\ t \in Ids /\ t \in Anchored /\ SameAnchor(t, s) /\ Key(t) = Key(s)
         /\ t # s => Older(t, s) /\ (Firm(t) \/ Lost(s))
  <1>1. AnchorOk(s) /\ s \in Ids /\ SameAnchor(s, s) /\ t \in Ids
    BY AnchoredFacts DEF Listed
  <1>2. t # s => Older(t, s) /\ (Firm(t) \/ Lost(s))
    BY <1>1 DEF AnchorOk, BorrowOk
  <1>3. SameAnchor(t, s)
    BY <1>1, <1>2 DEF Older
  <1> QED BY <1>1, <1>2, <1>3, SameAnchorFacts

(* A copy of an anchor is a copy of what was there, unless it was harmed.  *)
LEMMA CopyIsAnchored ==
  ASSUME IInv, AnchorInv, NEW s \in Anchored, HasCopy(s)
  PROVE  blob[s][Key(s)] = layer[s].anchored \/ Harmed(s)
  BY AnchoredFacts DEF AnchorOk, ShapeOk, HasCopy

-----------------------------------------------------------------------------
(* What a step leaves as it is.                                            *)

RowKept(s) ==
  /\ layer'[s].anchor = layer[s].anchor /\ layer'[s].anchored = layer[s].anchored
  /\ layer'[s].files = layer[s].files

LEMMA RowFacts ==
  ASSUME NEW r \in Ids, NEW s \in Ids, RowKept(r), RowKept(s)
  PROVE  /\ SameAnchor(r, s)' <=> SameAnchor(r, s)
         /\ TracksAnchor(r)' <=> TracksAnchor(r)
         /\ Tracker(r, s)' <=> Tracker(r, s)
         /\ Key(r)' = Key(r)
  BY DEF RowKept, SameAnchor, TracksAnchor, Tracker, Key

LEMMA OlderFrame ==
  ASSUME NEW s \in Ids, NEW t \in Ids, Older(t, s), \A y \in Ids : y <= s => RowKept(y)
  PROVE  Older(t, s)'
  <1>1. \A y \in Ids : y \in Nat /\ (y < s => y <= s) /\ s <= s /\ t < s
    BY Basics DEF Older
  <1>2. SameAnchor(t, s)' <=> SameAnchor(t, s)
    BY <1>1, RowFacts
  <1>3. \A y \in Ids : y < s => (Tracker(y, s)' <=> Tracker(y, s))
    BY <1>1, RowFacts
  <1> QED BY <1>1, <1>2, <1>3 DEF Older

LEMMA FirmFrame ==
  ASSUME NEW t \in Ids, Firm(t), Harmed(t) => Harmed(t)',
         \A r \in Ids : r <= t => RowKept(r),
         \A r \in Ids : r < t /\ SameAnchor(r, t) /\ ~HasCopy(r) => ~HasCopy(r)',
         \A r \in Ids : r < t /\ SameAnchor(r, t) /\ Passing(r, t) => Passing(r, t)'
  PROVE  Firm(t)'
  <1>0. \A r \in Ids : r \in Nat /\ (r < t => r <= t) /\ t <= t
    BY Basics
  <1>1. CASE TracksAnchor(t) \/ Harmed(t)
    BY <1>0, <1>1, RowFacts DEF Firm
  <1>2. ASSUME NEW y \in 0..MaxSnapshots, y < t, Calm(y, t)
        PROVE  Calm(y, t)'
    <2>1. \A r \in Ids : r < t => /\ SameAnchor(r, t)' <=> SameAnchor(r, t)
                                  /\ Tracker(r, t)' <=> Tracker(r, t)
      BY <1>0, RowFacts
    <2>2. y = 0 \/ y \in Ids
      BY Basics DEF Ids
    <2>3. \A r \in Ids : Tracker(r, t) => SameAnchor(r, t)
      BY DEF Tracker
    <2>4. y = 0 \/ (Tracker(y, t)' /\ ~HasCopy(y)')
      BY <1>2, <2>1, <2>2, <2>3 DEF Calm
    <2>5. \A r \in Ids : y < r /\ r < t /\ SameAnchor(r, t)' =>
                         ~HasCopy(r)' \/ Passing(r, t)'
      BY <1>2, <2>1 DEF Calm
    <2> QED BY <2>4, <2>5 DEF Calm
  <1> QED BY <1>1, <1>2 DEF Firm

LEMMA CutOffFrame ==
  ASSUME NEW s \in Listed, CutOff(s), s \in Listed',
         \A r \in Listed : /\ r \in Listed' /\ layer'[r].revision = layer[r].revision
                           /\ layer[r].parent = 0 => layer'[r].parent = 0
  PROVE  CutOff(s)'
  BY DEF CutOff

(* A copy of an anchor stays, or its loss is known.                        *)
AnchorCopiesKept ==
  \A s \in Listed, p \in Paths :
    /\ blob'[s][p] = blob[s][p] \/ (blob'[s][p] = Gone /\ <<s, p>> \in harmed')
    /\ <<s, p>> \in harmed => <<s, p>> \in harmed'

(* A capture has the directory it had, none, or a new one.                 *)
DirectoriesKept ==
  /\ made' \in Nat /\ made <= made'
  /\ \A t \in Tasks : \/ capture'[t].id = capture[t].id
                      \/ capture'[t].id = 0
                      \/ capture'[t].id > made

LEMMA QuietAnchors ==
  ASSUME IInv, AnchorInv, UNCHANGED <<layer, removing, rebasing, revision>>,
         AnchorCopiesKept, DirectoriesKept, \A t \in Tasks : CapturedOk(t)'
  PROVE  AnchorInv'
  <1>0. layer' = layer /\ removing' = removing /\ Listed' = Listed /\ Listed \subseteq Ids
    BY DEF Listed
  <1>1. /\ Listed' = Listed /\ Anchored' = Anchored /\ Listed \subseteq Ids
        /\ \A s \in Ids : /\ RowKept(s) /\ Key(s)' = Key(s)
                          /\ TracksAnchor(s)' <=> TracksAnchor(s)
                          /\ CutOff(s)' <=> CutOff(s)
        /\ \A s, t \in Ids : /\ SameAnchor(s, t)' <=> SameAnchor(s, t)
                             /\ Passing(s, t)' <=> Passing(s, t)
                             /\ Older(s, t)' <=> Older(s, t)
    <2>1. Anchored' = Anchored
      BY <1>0 DEF Anchored
    <2>2. \A s \in Ids : /\ RowKept(s) /\ Key(s)' = Key(s)
                         /\ TracksAnchor(s)' <=> TracksAnchor(s)
      BY <1>0 DEF RowKept, Key, TracksAnchor
    <2>3. \A s \in Ids : CutOff(s)' <=> CutOff(s)
      BY <1>0 DEF CutOff
    <2>4. \A s, t \in Ids : /\ SameAnchor(s, t)' <=> SameAnchor(s, t)
                            /\ Passing(s, t)' <=> Passing(s, t)
      BY <1>0 DEF SameAnchor, Passing, Key
    <2>5. \A s, t \in Ids : Older(s, t)' <=> Older(s, t)
      BY <2>2, <2>4 DEF Older, Tracker
    <2> QED BY <1>0, <2>1, <2>2, <2>3, <2>4, <2>5
  <1>2. \A s \in Anchored : s \in Listed /\ s \in Ids /\ Key(s) \in Paths
    BY AnchoredFacts
  <1>3. \A s \in Anchored : /\ ~HasCopy(s) => ~HasCopy(s)'
                            /\ Harmed(s) => Harmed(s)'
                            /\ Lost(s) => Lost(s)'
                            /\ HasCopy(s) => HasCopy(s)' \/ Harmed(s)'
    BY <1>1, <1>2 DEF AnchorCopiesKept, HasCopy, Harmed, Lost
  <1>4. ASSUME NEW t \in Anchored, Firm(t) PROVE Firm(t)'
    <2>1. \A r \in Ids : r < t /\ SameAnchor(r, t) /\ ~HasCopy(r) => ~HasCopy(r)'
      BY <1>2, <1>3, SameAnchorFacts
    <2> QED BY <1>1, <1>2, <1>3, <1>4, <2>1, FirmFrame
  <1>5. ASSUME NEW s \in Anchored PROVE AnchorOk(s)'
    <2>1. AnchorOk(s) /\ s \in Listed /\ s \in Ids
      BY <1>2, AnchoredFacts
    <2>2. ShapeOk(s)'
      <3>1. /\ Key(s) \in Paths
            /\ blob[s][Key(s)] \in {Gone, layer[s].anchored} \/ Harmed(s)
            /\ layer[s].source \in 1..made
            /\ \A u \in Tasks : capture[u].id # layer[s].source
            /\ TracksAnchor(s) => layer[s].source = s
        BY <2>1 DEF AnchorOk, ShapeOk
      <3>2. blob'[s][Key(s)] \in {Gone, layer[s].anchored} \/ Harmed(s)'
        BY <1>3, <2>1, <3>1 DEF AnchorCopiesKept
      <3>3. made \in Nat /\ made' \in Nat /\ made <= made'
        BY Basics DEF IInv, TypeOK, DirectoriesKept
      <3>4. \A u \in Tasks : capture'[u].id # layer[s].source
        BY <3>1, <3>3 DEF DirectoriesKept
      <3>5. layer[s].source \in 1..made'
        BY <3>1, <3>3
      <3> QED BY <1>1, <2>1, <3>1, <3>2, <3>4, <3>5 DEF ShapeOk
    <2>3. BorrowOk(s)'
      <3>1. ASSUME NEW t \in Listed, layer[s].source = t, t # s
            PROVE  Older(t, s)' /\ (Firm(t)' \/ Lost(s)')
        <4>1. Older(t, s) /\ (Firm(t) \/ Lost(s))
          BY <2>1, <3>1 DEF AnchorOk, BorrowOk
        <4>2. t \in Anchored
          BY <3>1, BorrowFacts
        <4> QED BY <1>1, <1>3, <1>4, <2>1, <4>1, <4>2
      <3> QED BY <1>1, <3>1 DEF BorrowOk
    <2>4. BackedOk(s)'
      <3>1. CASE TracksAnchor(s) \/ Lost(s)
        BY <1>1, <1>3, <2>1, <3>1 DEF BackedOk
      <3>2. CASE \E t \in Listed : /\ layer[s].source = t
                                   /\ rebasing[1] = t \/ HasCopy(t) \/ Harmed(t)
        <4> PICK t \in Listed : /\ layer[s].source = t
                                /\ rebasing[1] = t \/ HasCopy(t) \/ Harmed(t)
          BY <3>2
        <4>1. t \in Anchored
          BY BorrowFacts
        <4>2. rebasing'[1] = t \/ HasCopy(t)' \/ Harmed(t)'
          BY <1>3, <4>1
        <4> QED BY <1>1, <4>2 DEF BackedOk
      <3> QED BY <2>1, <3>1, <3>2 DEF AnchorOk, BackedOk
    <2>5. LeavingOk(s)'
      <3>1. \A t \in removing : layer[s].source = t /\ s \notin removing => Harmed(s)'
        BY <1>3, <2>1 DEF AnchorOk, LeavingOk
      <3> QED BY <3>1 DEF LeavingOk
    <2> QED BY <2>2, <2>3, <2>4, <2>5 DEF AnchorOk
  <1>6. RebasedInv'
    <2> SUFFICES ASSUME NEW s \in Listed, NEW t \in Ids, rebasing = <<s, t>>
                 PROVE  RebaseOk(s, t)'
      BY <1>1 DEF RebasedInv
    <2>1. RebaseOk(s, t)
      BY DEF AnchorInv, RebasedInv
    <2>2. s \in Anchored /\ ~TracksAnchor(s) /\ s \in Ids
      BY <1>2, <2>1 DEF RebaseOk
    <2>3. t <= made' /\ \A u \in Tasks : capture'[u].id # t
      <3>1. /\ made \in Nat /\ made' \in Nat /\ made <= made' /\ t \in Nat \ {0}
            /\ t <= made /\ \A u \in Tasks : capture[u].id # t
        BY <2>1, Basics DEF IInv, TypeOK, DirectoriesKept, RebaseOk
      <3> QED BY <3>1 DEF DirectoriesKept
    <2>4. ASSUME t \in Listed
          PROVE  /\ t = s \/ (Older(t, s)' /\ (Firm(t)' \/ Lost(s)'))
                 /\ HasCopy(t)' \/ Harmed(t)'
      <3>1. /\ t = s \/ (Older(t, s) /\ (Firm(t) \/ Lost(s)))
            /\ HasCopy(t) \/ Harmed(t)
        BY <2>1, <2>4 DEF RebaseOk
      <3>2. t \in Anchored
        BY <1>1, <2>2, <3>1, SameAnchorFacts DEF Older
      <3> QED BY <1>1, <1>3, <1>4, <2>2, <3>1, <3>2
    <2>5. t \notin Listed => CutOff(s)'
      BY <1>1, <2>1, <2>2 DEF RebaseOk
    <2>6. t # s => \A u \in Anchored : layer[u].source = s /\ u # s =>
                     t \notin Listed \/ Passing(t, s) \/ Harmed(s)' \/ Lost(u)'
      BY <1>3, <2>1, <2>2 DEF RebaseOk
    <2> QED BY <1>0, <1>1, <2>2, <2>3, <2>4, <2>5, <2>6 DEF RebaseOk
  <1>7. OrderInv' /\ TailInv'
    BY <1>1 DEF AnchorInv, OrderInv, TailInv, OlderThan
  <1> QED BY <1>1, <1>5, <1>6, <1>7 DEF AnchorInv

(* A capture on its way is not disturbed by the steps of other tasks.      *)
CapturedKept(t) ==
  /\ capture'[t] = capture[t]
  /\ (revision' = revision /\ Listed' \subseteq Listed) \/ revision < revision'
  /\ capture[t].id \in Ids =>
       \A p \in Paths :
         /\ \/ blob'[capture[t].id][p] = blob[capture[t].id][p]
            \/ /\ blob'[capture[t].id][p] = Gone
               /\ <<capture[t].id, p>> \in harmed'
         /\ <<capture[t].id, p>> \in harmed => <<capture[t].id, p>> \in harmed'

LEMMA CapturedFrame ==
  ASSUME IInv, AnchorInv, NEW t \in Tasks, CapturedKept(t), revision' \in Nat
  PROVE  CapturedOk(t)'
  <1> PICK x \in Captures : x = capture[t]
    BY DEF IInv, TypeOK
  <1>1. capture'[t] = x
    BY DEF CapturedKept
  <1>0. x.pc \in {"hashed", "copied"} /\ x.anchored # Gone => x.anchor \in Paths
    BY DEF AnchorInv, CapturedOk
  <1> SUFFICES ASSUME x.pc = "copied"
               PROVE  /\ x.base = revision' => \A s \in Listed' : s < x.id
                      /\ x.anchored # Gone =>
                           \/ <<x.id, x.anchor>> \in harmed'
                           \/ blob'[x.id][x.anchor] = x.anchored
                           \/ /\ blob'[x.id][x.anchor] = Gone
                              /\ x.anchor \in Tracked /\ x.files[x.anchor] # Same
    BY <1>0, <1>1 DEF CapturedOk
  <1>2. /\ x.base = revision => \A s \in Listed : s < x.id
        /\ x.anchored # Gone =>
             \/ <<x.id, x.anchor>> \in harmed
             \/ blob[x.id][x.anchor] = x.anchored
             \/ /\ blob[x.id][x.anchor] = Gone
                /\ x.anchor \in Tracked /\ x.files[x.anchor] # Same
    BY DEF AnchorInv, CapturedOk
  <1>3. x.base <= revision /\ x.base \in Nat /\ revision \in Nat
    BY DEF IInv, CaptureInv, CaptureOk, TypeOK, Captures
  <1>4. x.id \in Ids
    <2>1. x.id # 0
      BY Basics DEF IInv, CaptureInv, CaptureOk, TypeOK
    <2> QED BY <2>1, OwnDirectory
  <1>5. x.base = revision' => revision' = revision /\ Listed' \subseteq Listed
    BY <1>3 DEF CapturedKept
  <1>6. ASSUME x.anchored # Gone
        PROVE  \/ <<x.id, x.anchor>> \in harmed'
               \/ blob'[x.id][x.anchor] = x.anchored
               \/ /\ blob'[x.id][x.anchor] = Gone
                  /\ x.anchor \in Tracked /\ x.files[x.anchor] # Same
    <2>1. /\ \/ blob'[x.id][x.anchor] = blob[x.id][x.anchor]
             \/ /\ blob'[x.id][x.anchor] = Gone
                /\ <<x.id, x.anchor>> \in harmed'
          /\ <<x.id, x.anchor>> \in harmed => <<x.id, x.anchor>> \in harmed'
      BY <1>0, <1>4, <1>6 DEF CapturedKept
    <2> QED BY <1>2, <1>6, <2>1
  <1> QED BY <1>2, <1>5, <1>6

-----------------------------------------------------------------------------
(* Steps that leave snapshots and maintenance alone.                       *)

CapturesStill ==
  \A t \in Tasks :
    \/ capture'[t] = capture[t]
    \/ /\ capture'[t].pc # "copied" /\ capture'[t].id = 0
       /\ capture'[t].pc = "hashed" /\ capture'[t].anchored # Gone =>
            capture'[t].anchor \in Paths

LEMMA StillAnchors ==
  ASSUME IInv, AnchorInv, CapturesStill,
         UNCHANGED <<layer, blob, made, removing, rebasing, revision, harmed>>
  PROVE  AnchorInv'
  <1>1. Listed' = Listed /\ revision' \in Nat
    BY DEF Listed, IInv, TypeOK
  <1>2. AnchorCopiesKept
    BY DEF AnchorCopiesKept
  <1>3. DirectoriesKept
    BY Basics DEF DirectoriesKept, CapturesStill, IInv, TypeOK
  <1>4. \A t \in Tasks : CapturedOk(t)'
    <2>1. ASSUME NEW t \in Tasks, capture'[t] = capture[t] PROVE CapturedOk(t)'
      <3>1. CapturedKept(t)
        BY <1>1, <2>1 DEF CapturedKept
      <3> QED BY <1>1, <3>1, CapturedFrame
    <2>2. ASSUME NEW t \in Tasks, capture'[t].pc # "copied",
                 capture'[t].pc = "hashed" /\ capture'[t].anchored # Gone =>
                   capture'[t].anchor \in Paths
          PROVE  CapturedOk(t)'
      BY <2>2 DEF CapturedOk
    <2> QED BY <2>1, <2>2 DEF CapturesStill
  <1> QED BY <1>2, <1>3, <1>4, QuietAnchors

LEMMA CollectAnchors ==
  ASSUME IInv, AnchorInv, Collect
  PROVE  AnchorInv'
  <1> DEFINE used == Listed \cup {capture[t].id : t \in Tasks}
             doomed == Ids \ referenced
  <1>1. /\ harmed' = harmed \cup ((doomed \cap used) \X Paths)
        /\ blob' = [s \in Ids |-> IF s \in doomed THEN NoFiles ELSE blob[s]]
        /\ UNCHANGED <<layer, made, capture, removing, rebasing, revision>>
    BY DEF Collect, database
  <1>2. ASSUME NEW s \in Ids, s \in used, NEW p \in Paths
        PROVE  /\ blob'[s][p] = blob[s][p] \/ (blob'[s][p] = Gone /\ <<s, p>> \in harmed')
               /\ <<s, p>> \in harmed => <<s, p>> \in harmed'
    BY <1>1, <1>2 DEF NoFiles
  <1>3. Listed' = Listed /\ revision' \in Nat
    BY <1>1 DEF Listed, IInv, TypeOK
  <1>4. AnchorCopiesKept
    BY <1>2 DEF AnchorCopiesKept, Listed
  <1>5. DirectoriesKept
    BY <1>1, Basics DEF DirectoriesKept, IInv, TypeOK
  <1>6. ASSUME NEW t \in Tasks PROVE CapturedOk(t)'
    <2>1. capture[t].id \in used
      OBVIOUS
    <2> HIDE DEF used
    <2>2. CapturedKept(t)
      BY <1>1, <1>2, <1>3, <2>1 DEF CapturedKept
    <2> QED BY <1>3, <2>2, CapturedFrame
  <1> QED BY <1>1, <1>4, <1>5, <1>6, QuietAnchors

LEMMA FailAnchors ==
  ASSUME IInv, AnchorInv, NEW t \in Tasks, Fail(t)
  PROVE  AnchorInv'
  <1> PICK n : n = capture[t].id
    OBVIOUS
  <1>1. /\ blob' = IF n = 0 THEN blob ELSE [blob EXCEPT ![n] = NoFiles]
        /\ harmed' = harmed \ ({n} \X Paths)
        /\ capture' = [capture EXCEPT ![t] = NoCapture]
        /\ UNCHANGED <<layer, made, removing, rebasing, revision>>
    BY DEF Fail, database
  <1>2. \A r \in Ids : r # n => /\ blob'[r] = blob[r]
                                /\ \A p \in Paths : <<r, p>> \in harmed => <<r, p>> \in harmed'
    BY <1>1 DEF IInv, TypeOK
  <1>3. Listed' = Listed /\ Listed \subseteq Ids /\ revision' \in Nat /\ n \notin Listed
    <2>1. Listed \subseteq Ids /\ 0 \notin Ids
      BY Basics DEF Listed
    <2>2. n \notin Listed
      BY <2>1, OwnDirectory
    <2> QED BY <1>1, <2>1, <2>2 DEF Listed, IInv, TypeOK
  <1>4. AnchorCopiesKept
    BY <1>2, <1>3 DEF AnchorCopiesKept
  <1>5. /\ capture'[t].pc = "idle" /\ capture'[t].id = 0
        /\ \A u \in Tasks : u # t => capture'[u] = capture[u]
    BY <1>1 DEF NoCapture, IInv, TypeOK
  <1>6. DirectoriesKept
    BY <1>1, <1>5, Basics DEF DirectoriesKept, IInv, TypeOK
  <1>7. ASSUME NEW u \in Tasks PROVE CapturedOk(u)'
    <2>1. CASE u = t
      BY <1>5, <2>1 DEF CapturedOk
    <2>2. CASE u # t
      <3>1. capture[u].id \in Ids => capture[u].id # n
        <4>1. capture[u].id \in Ids => capture[u].id # 0
          BY Basics
        <4> QED BY <2>2, <4>1, OwnDirectory
      <3>2. CapturedKept(u)
        BY <1>1, <1>2, <1>3, <1>5, <2>2, <3>1 DEF CapturedKept
      <3> QED BY <1>3, <3>2, CapturedFrame
    <2> QED BY <2>1, <2>2
  <1> QED BY <1>1, <1>4, <1>6, <1>7, QuietAnchors

(* commitSnapshot copies the anchor, or the layer has a copy of it.        *)
LEMMA CopyAnchors ==
  ASSUME IInv, AnchorInv, NEW t \in Tasks, Copy(t)
  PROVE  AnchorInv'
  <1> PICK x \in Captures : x = capture[t]
    BY DEF IInv, TypeOK
  <1> PICK s \in Ids : s = made + 1
    BY DEF Copy
  <1> PICK c : c = x.anchored
    OBVIOUS
  <1>1. /\ x.pc = "hashed" /\ made' = s
        /\ blob' = [blob EXCEPT ![s] =
                      [p \in Paths |-> IF p \in CopiedPaths(x) THEN live[p]
                                                               ELSE Gone]]
        /\ harmed' = harmed \cup
             {<<s, p>> : p \in {q \in CopiedPaths(x) : Noted(x, q) # {live[q]}}}
        /\ capture' = [capture EXCEPT ![t].pc = "copied", ![t].id = s]
        /\ UNCHANGED <<layer, removing, rebasing, revision>>
    BY DEF Copy, database
  <1>2. /\ made \in Nat /\ revision' \in Nat /\ made < s /\ s \in Nat
        /\ Listed' = Listed /\ Listed \subseteq Ids
        /\ \A r \in Listed : r < s /\ r # s
        /\ \A u \in Tasks : capture[u].id # s
    <2>1. made \in Nat /\ revision' \in Nat /\ made < s /\ s \in Nat \ {0}
      BY <1>1, Basics DEF IInv, TypeOK
    <2>2. Listed' = Listed /\ Listed \subseteq Ids
      BY <1>1 DEF Listed
    <2>3. \A r \in Listed : r <= made /\ r \in Nat
      BY <2>2, Basics DEF IInv, ChainInv, LayerInv
    <2>4. \A u \in Tasks : capture[u].id = 0 \/ capture[u].id \in 1..made
      BY DEF IInv, CaptureInv, CaptureOk
    <2> QED BY <2>1, <2>2, <2>3, <2>4
  <1>3. /\ \A r \in Ids : r # s => blob'[r] = blob[r]
        /\ \A p \in Paths : blob'[s][p] = IF p \in CopiedPaths(x) THEN live[p] ELSE Gone
    BY <1>1 DEF IInv, TypeOK
  <1>4. AnchorCopiesKept
    BY <1>1, <1>2, <1>3 DEF AnchorCopiesKept
  <1>5. /\ \A u \in Tasks : u # t => capture'[u] = capture[u]
        /\ capture'[t].id = s /\ capture'[t].pc = "copied" /\ capture'[t].anchored = c
        /\ capture'[t].anchor = x.anchor /\ capture'[t].files = x.files
    BY <1>1 DEF IInv, TypeOK, Captures
  <1>6. DirectoriesKept
    <2>1. made' \in Nat /\ made <= made' /\ s > made
      BY <1>1, <1>2
    <2>2. \A u \in Tasks : capture'[u].id = capture[u].id \/ capture'[u].id > made
      BY <1>5, <2>1
    <2> QED BY <2>1, <2>2 DEF DirectoriesKept
  <1>7. CapturedOk(t)'
    <2>1. c # Gone => x.anchor \in Paths
      BY <1>1 DEF AnchorInv, CapturedOk
    <2>2. ASSUME c # Gone
          PROVE  \/ <<s, x.anchor>> \in harmed'
                 \/ blob'[s][x.anchor] = c
                 \/ /\ blob'[s][x.anchor] = Gone
                    /\ x.anchor \in Tracked /\ x.files[x.anchor] # Same
      <3>1. CASE x.anchor \notin CopiedPaths(x)
        <4>1. x.anchor \in Tracked /\ x.files[x.anchor] # Same
          BY <2>1, <2>2, <3>1 DEF CopiedPaths
        <4> QED BY <1>3, <2>1, <2>2, <3>1, <4>1
      <3>2. CASE x.anchor \in CopiedPaths(x)
        <4>1. c \in Noted(x, x.anchor)
          BY DEF Noted
        <4>2. CASE Noted(x, x.anchor) = {live[x.anchor]}
          BY <1>3, <2>1, <2>2, <3>2, <4>1, <4>2
        <4>3. CASE Noted(x, x.anchor) # {live[x.anchor]}
          BY <1>1, <3>2, <4>3
        <4> QED BY <4>2, <4>3
      <3> QED BY <3>1, <3>2
    <2>3. \A r \in Listed' : r < s
      BY <1>2
    <2> QED BY <1>5, <2>1, <2>2, <2>3 DEF CapturedOk
  <1>8. ASSUME NEW u \in Tasks, u # t PROVE CapturedOk(u)'
    <2>1. CapturedKept(u)
      BY <1>1, <1>2, <1>3, <1>5, <1>8 DEF CapturedKept
    <2> QED BY <1>2, <2>1, CapturedFrame
  <1> QED BY <1>1, <1>4, <1>6, <1>7, <1>8, QuietAnchors

-----------------------------------------------------------------------------
(* A commit: no older snapshot rests on the new one, which has its copy.   *)

LEMMA CommitAnchors ==
  ASSUME IInv, AnchorInv, NEW t \in Tasks,
         Commit(t) \/ CommitUnwritten(t) \/ CommitTorn(t)
  PROVE  AnchorInv'
  <1> PICK x \in Captures : x = capture[t]
    BY DEF IInv, TypeOK
  <1>1. /\ x.pc = "copied" /\ x.base = revision /\ Record(x)
        /\ capture' = [capture EXCEPT ![t] = NoCapture]
        /\ UNCHANGED <<made, removing, rebasing>>
        /\ \/ blob' = blob /\ harmed' = harmed
           \/ /\ blob' = [blob EXCEPT ![x.id] = NoFiles]
              /\ harmed' = harmed \cup ({x.id} \X Paths)
    BY DEF Commit, CommitUnwritten, CommitTorn, directories
  <1> PICK s \in Ids : s = x.id
    BY <1>1, RecordShape
  <1>2. /\ s \notin Listed /\ s <= made /\ Listed' = Listed \cup {s}
        /\ \A r \in Ids : r # s => layer'[r] = layer[r]
        /\ revision' = revision + 1 /\ revision \in Nat
    BY <1>1, RecordShape
  <1>3. /\ layer'[s].revision = revision + 1 /\ layer'[s].files = x.files
        /\ layer'[s].anchor = x.anchor /\ layer'[s].anchored = x.anchored
        /\ x.anchored # Gone => layer'[s].source = s
    <2>1. layer'[s] = NewLayer(x)
      BY <1>1, RecordShape
    <2> QED BY <1>1, <2>1 DEF NewLayer
  <1>4. /\ \A r \in Listed : r < s
        /\ x.anchored # Gone =>
             /\ x.anchor \in Paths
             /\ \/ <<s, x.anchor>> \in harmed
                \/ blob[s][x.anchor] = x.anchored
                \/ /\ blob[s][x.anchor] = Gone
                   /\ x.anchor \in Tracked /\ x.files[x.anchor] # Same
    BY <1>1 DEF AnchorInv, CapturedOk
  <1>5. /\ Listed \subseteq Ids /\ removing \subseteq Listed /\ made \in Nat /\ s \in Nat \ {0}
        /\ \A r \in Ids : r \in Nat \ {0}
        /\ \A r \in Listed : r # s /\ layer'[r] = layer[r]
        /\ \A r \in Ids, n \in Listed : r <= n => r # s /\ RowKept(r) /\ Key(r)' = Key(r)
    <2>1. /\ Listed \subseteq Ids /\ removing \subseteq Listed /\ made \in Nat
          /\ s \in Nat \ {0} /\ \A r \in Ids : r \in Nat \ {0}
      BY Basics DEF Listed, IInv, TypeOK, ChainInv, RemovingInv
    <2>2. \A r \in Ids, n \in Listed : r <= n => r # s
      BY <1>4, <2>1
    <2>3. \A r \in Listed : r # s /\ layer'[r] = layer[r]
      BY <1>2, <2>1
    <2> QED BY <1>2, <2>1, <2>2, <2>3 DEF RowKept, Key
  <1>6. /\ \A r \in Ids : r # s => blob'[r] = blob[r]
        /\ \/ blob'[s] = blob[s]
           \/ blob'[s] = NoFiles /\ \A p \in Paths : <<s, p>> \in harmed'
        /\ harmed \subseteq harmed'
    BY <1>1 DEF IInv, TypeOK
  <1>7. /\ capture'[t].id = 0 /\ capture'[t].pc = "idle"
        /\ \A u \in Tasks : u # t => capture'[u] = capture[u] /\ capture[u].id # s
    <2>1. capture'[t] = NoCapture /\ \A u \in Tasks : u # t => capture'[u] = capture[u]
      BY <1>1 DEF IInv, TypeOK
    <2>2. \A u \in Tasks : u # t => capture[u].id # s
      BY <1>5, OwnDirectory
    <2> QED BY <2>1, <2>2 DEF NoCapture
  <1>8. /\ Anchored \subseteq Listed /\ Anchored \subseteq Anchored'
        /\ \A r \in Anchored' : r \in Anchored \/ (r = s /\ x.anchored # Gone)
        /\ \A r \in Anchored : r \in Listed' /\ r # s
    BY <1>2, <1>3, <1>5 DEF Anchored
  <1>9. \A r \in Listed : CutOff(r) => CutOff(r)'
    <2>1. \A q \in Listed : /\ q \in Listed' /\ layer'[q].revision = layer[q].revision
                            /\ layer[q].parent = 0 => layer'[q].parent = 0
      BY <1>2, <1>5
    <2> QED BY <1>2, <2>1, CutOffFrame
  <1>10. \A r \in Anchored : /\ Key(r)' = Key(r) /\ (HasCopy(r)' <=> HasCopy(r))
                             /\ Harmed(r) => Harmed(r)'
                             /\ Lost(r) => Lost(r)'
                             /\ TracksAnchor(r)' <=> TracksAnchor(r)
    BY <1>5, <1>6, <1>8, <1>9 DEF Key, HasCopy, Harmed, Lost, TracksAnchor
  <1>11. ASSUME NEW r \in Listed, Firm(r) PROVE Firm(r)'
    <2>1. \A q \in Ids : q <= r => RowKept(q)
      BY <1>5
    <2>2. \A q \in Ids : q < r => q <= r /\ r <= r
      BY <1>5
    <2>3. \A q \in Ids : q < r /\ SameAnchor(q, r) /\ ~HasCopy(q) => ~HasCopy(q)'
      BY <1>5, <1>6, <2>2 DEF HasCopy
    <2>4. \A q \in Ids : q < r /\ SameAnchor(q, r) /\ Passing(q, r) => Passing(q, r)'
      BY <1>1, <1>5, <2>2 DEF Passing
    <2>5. Harmed(r) => Harmed(r)'
      BY <1>5, <1>6 DEF Harmed, Key
    <2> QED BY <1>5, <1>11, <2>1, <2>3, <2>4, <2>5, FirmFrame
  <1>12. ASSUME NEW r \in Listed, NEW q \in Ids, Older(q, r) PROVE Older(q, r)'
    BY <1>5, <1>12, OlderFrame
  <1>13. ASSUME NEW r \in Anchored PROVE AnchorOk(r)'
    <2>1. AnchorOk(r) /\ r \in Listed /\ r \in Ids
      BY AnchoredFacts
    <2>2. /\ Key(r) \in Paths
          /\ blob[r][Key(r)] \in {Gone, layer[r].anchored} \/ Harmed(r)
          /\ layer[r].source \in 1..made /\ layer[r].source # s
          /\ \A u \in Tasks : capture[u].id # layer[r].source
          /\ TracksAnchor(r) => layer[r].source = r
      BY <2>1 DEF AnchorOk, ShapeOk
    <2>3. layer'[r] = layer[r] /\ blob'[r] = blob[r] /\ Key(r)' = Key(r)
      BY <1>5, <1>6, <1>8, <1>10, <2>1
    <2>4. ShapeOk(r)'
      BY <1>1, <1>7, <1>10, <2>2, <2>3 DEF ShapeOk
    <2>5. BorrowOk(r)'
      <3>1. ASSUME NEW q \in Listed', layer'[r].source = q, q # r
            PROVE  Older(q, r)' /\ (Firm(q)' \/ Lost(r)')
        <4>1. q \in Listed /\ layer[r].source = q
          BY <1>2, <2>2, <2>3, <3>1
        <4>2. q \in Ids /\ Older(q, r) /\ (Firm(q) \/ Lost(r))
          BY <3>1, <4>1, BorrowFacts
        <4> QED BY <1>10, <1>11, <1>12, <2>1, <4>1, <4>2
      <3> QED BY <3>1 DEF BorrowOk
    <2>6. BackedOk(r)'
      <3>1. CASE TracksAnchor(r) \/ Lost(r)
        BY <1>10, <3>1 DEF BackedOk
      <3>2. ASSUME NEW q \in Listed, layer[r].source = q,
                   rebasing[1] = q \/ HasCopy(q) \/ Harmed(q)
            PROVE  BackedOk(r)'
        <4>1. q \in Anchored
          BY <3>2, BorrowFacts
        <4>2. rebasing'[1] = q \/ HasCopy(q)' \/ Harmed(q)'
          BY <1>1, <1>10, <3>2, <4>1
        <4>3. q \in Listed' /\ layer'[r].source = q
          BY <1>2, <2>3, <3>2
        <4> QED BY <4>2, <4>3 DEF BackedOk
      <3> QED BY <2>1, <3>1, <3>2 DEF AnchorOk, BackedOk
    <2>7. LeavingOk(r)'
      <3>1. \A q \in removing : layer[r].source = q /\ r \notin removing => Harmed(r)'
        BY <1>10, <2>1 DEF AnchorOk, LeavingOk
      <3> QED BY <1>1, <2>3, <3>1 DEF LeavingOk
    <2> QED BY <2>4, <2>5, <2>6, <2>7 DEF AnchorOk
  <1>14. ASSUME x.anchored # Gone PROVE AnchorOk(s)'
    <2>1. Key(s)' = x.anchor /\ x.anchor \in Paths /\ layer'[s].source = s
      BY <1>3, <1>4, <1>14 DEF Key
    <2>2. ShapeOk(s)'
      <3>1. blob'[s][x.anchor] \in {Gone, x.anchored} \/ Harmed(s)'
        BY <1>4, <1>6, <1>14, <2>1 DEF NoFiles, Harmed
      <3>2. \A u \in Tasks : capture'[u].id # s
        BY <1>5, <1>7
      <3>3. s \in 1..made'
        BY <1>1, <1>2, <1>5
      <3> QED BY <1>3, <2>1, <3>1, <3>2, <3>3 DEF ShapeOk
    <2>3. BorrowOk(s)'
      BY <2>1 DEF BorrowOk
    <2>4. BackedOk(s)'
      <3>1. TracksAnchor(s)' \/ HasCopy(s)' \/ Harmed(s)'
        <4>1. x.anchor \in Tracked /\ x.files[x.anchor] # Same => TracksAnchor(s)'
          BY <1>3 DEF TracksAnchor
        <4>2. blob[s][x.anchor] = x.anchored => HasCopy(s)' \/ Harmed(s)'
          BY <1>6, <1>14, <2>1 DEF HasCopy, Harmed
        <4>3. <<s, x.anchor>> \in harmed => Harmed(s)'
          BY <1>6, <2>1 DEF Harmed
        <4> QED BY <1>4, <1>14, <4>1, <4>2, <4>3
      <3>2. s \in Listed'
        BY <1>2
      <3> QED BY <2>1, <3>1, <3>2 DEF BackedOk
    <2>5. LeavingOk(s)'
      BY <1>1, <1>2, <1>5, <2>1 DEF LeavingOk
    <2> QED BY <2>2, <2>3, <2>4, <2>5 DEF AnchorOk
  <1>15. RebasedInv'
    <2> SUFFICES ASSUME NEW r \in Listed', NEW q \in Ids, rebasing = <<r, q>>
                 PROVE  RebaseOk(r, q)'
      BY <1>1 DEF RebasedInv
    <2>1. r # s
      BY <1>5 DEF IInv, RebaseInv
    <2>2. RebaseOk(r, q) /\ r \in Listed
      BY <1>2, <2>1 DEF AnchorInv, RebasedInv
    <2>3. q # s /\ (q \in Listed' <=> q \in Listed)
      BY <1>2, <2>2 DEF RebaseOk
    <2>4. r \in Anchored' /\ ~TracksAnchor(r)' /\ r \in Ids
      BY <1>5, <1>8, <1>10, <2>2 DEF RebaseOk
    <2>5. q <= made' /\ \A u \in Tasks : capture'[u].id # q
      BY <1>1, <1>5, <1>7, <2>2 DEF RebaseOk
    <2>6. ASSUME q \in Listed
          PROVE  /\ q = r \/ (Older(q, r)' /\ (Firm(q)' \/ Lost(r)'))
                 /\ HasCopy(q)' \/ Harmed(q)'
      <3>1. /\ q = r \/ (Older(q, r) /\ (Firm(q) \/ Lost(r)))
            /\ HasCopy(q) \/ Harmed(q)
        BY <2>2, <2>6 DEF RebaseOk
      <3>2. q \in Anchored
        BY <2>2, <2>4, <3>1, SameAnchorFacts DEF Older, RebaseOk
      <3>3. r \in Anchored
        BY <2>2 DEF RebaseOk
      <3> QED BY <1>10, <1>11, <1>12, <2>2, <2>6, <3>1, <3>2, <3>3
    <2>7. q \notin Listed => CutOff(r)'
      BY <1>9, <2>2 DEF RebaseOk
    <2>8. ASSUME q # r, NEW u \in Anchored', layer'[u].source = r, u # r
          PROVE  q \notin Listed' \/ Passing(q, r)' \/ Harmed(r)' \/ Lost(u)'
      <3>1. u # s
        BY <1>3, <1>8, <2>1, <2>8
      <3>2. u \in Anchored /\ layer[u].source = r
        BY <1>5, <1>8, <2>8, <3>1
      <3>3. q \notin Listed \/ Passing(q, r) \/ Harmed(r) \/ Lost(u)
        BY <2>2, <2>8, <3>2 DEF RebaseOk
      <3>4. r \in Anchored
        BY <2>2 DEF RebaseOk
      <3>5. Passing(q, r) => Passing(q, r)'
        BY <1>1, <1>10, <3>4 DEF Passing
      <3> QED BY <1>1, <1>10, <2>3, <3>2, <3>3, <3>4, <3>5
    <2> QED BY <2>3, <2>4, <2>5, <2>6, <2>7, <2>8 DEF RebaseOk
  <1>16. OrderInv'
    <2>1. ASSUME NEW r \in Listed', NEW q \in Listed', r < q
          PROVE  layer'[r].revision < layer'[q].revision
      <3>1. \A n \in Listed : layer[n].revision \in 1..revision
        BY DEF IInv, ChainInv, LayerInv
      <3>2. r # s
        BY <1>2, <1>4, <1>5, <2>1
      <3>3. r \in Listed /\ layer'[r] = layer[r] /\ r # s
        BY <1>2, <1>5, <3>2
      <3>4. CASE q = s
        BY <1>2, <1>3, <3>1, <3>3, <3>4
      <3>5. CASE q # s
        <4>1. q \in Listed /\ layer'[q] = layer[q]
          BY <1>2, <1>5, <3>5
        <4> QED BY <2>1, <3>3, <4>1 DEF AnchorInv, OrderInv, OlderThan
      <3> QED BY <3>4, <3>5
    <2> QED BY <2>1 DEF OrderInv, OlderThan
  <1>17. TailInv'
    <2>1. TailInv
      BY DEF AnchorInv
    <2>2. ASSUME NEW n \in removing, NEW r \in Listed', r < n PROVE r \in removing
      <3>1. r # s
        BY <1>4, <1>5, <2>2
      <3> QED BY <1>2, <2>1, <2>2, <3>1 DEF TailInv
    <2>3. ASSUME removing # {}
          PROVE  \E r \in Listed' \ removing :
                   /\ layer'[r].parent = 0 /\ layer'[r].revision > 1
                   /\ \A q \in Listed' \ removing : r <= q
      <3> PICK r \in Listed \ removing :
                 /\ layer[r].parent = 0 /\ layer[r].revision > 1
                 /\ \A q \in Listed \ removing : r <= q
        BY <2>1, <2>3 DEF TailInv
      <3>1. r <= s
        BY <1>4, <1>5
      <3> QED BY <1>2, <1>5, <3>1
    <2> QED BY <1>1, <2>2, <2>3 DEF TailInv
  <1>18. ASSUME NEW u \in Tasks PROVE CapturedOk(u)'
    <2>1. CASE u = t
      BY <1>7, <2>1 DEF CapturedOk
    <2>2. CASE u # t
      <3>1. revision < revision' /\ revision' \in Nat
        BY <1>2
      <3>2. CapturedKept(u)
        BY <1>6, <1>7, <2>2, <3>1 DEF CapturedKept
      <3> QED BY <3>1, <3>2, CapturedFrame
    <2> QED BY <2>1, <2>2
  <1>19. \A r \in Anchored' : AnchorOk(r)'
    BY <1>8, <1>13, <1>14
  <1> QED BY <1>15, <1>16, <1>17, <1>18, <1>19 DEF AnchorInv

-----------------------------------------------------------------------------
(* The start of a compaction, as far as it comes: what is brought back is  *)
(* brought back only where the pass over the snapshots has found a copy    *)
(* before.                                                                 *)

LEMMA CompactionRows ==
  ASSUME IInv, NEW moved, Compacts(moved)
  PROVE  /\ Listed' = Listed /\ Listed \subseteq Ids /\ Listed # {}
         /\ removing = {} /\ removing' \in {Leaving, {}}
         /\ Leaving # {} /\ Leaving = Listed \ Kept /\ Kept \subseteq Listed
         /\ UNCHANGED <<revision, made, capture, rebasing>> /\ harmed \subseteq harmed'
         /\ \A s \in Ids :
              /\ RowKept(s) /\ layer'[s].revision = layer[s].revision
              /\ layer[s].parent = 0 => layer'[s].parent = 0
              /\ layer'[s].source = IF s \in moved THEN s ELSE layer[s].source
         /\ layer[OldestKept].parent \in Leaving => layer'[OldestKept].parent = 0
  <1>1. /\ UNCHANGED <<revision, made, capture, rebasing>>
        /\ Listed # {} /\ removing = {} /\ removing' \in {Leaving, {}}
        /\ Leaving # {} /\ Leaving = Listed \ Kept
        /\ Listed \subseteq Ids /\ harmed \subseteq harmed'
    BY CompactionShape DEF Compacts, Compact, Kept, Leaving, Listed
  <1>2. \A s \in Ids :
          /\ layer'[s].listed = layer[s].listed
          /\ layer'[s].revision = layer[s].revision
          /\ layer'[s].files = layer[s].files
          /\ layer'[s].anchor = layer[s].anchor
          /\ layer'[s].anchored = layer[s].anchored
          /\ layer'[s].parent = IF s \in Cut THEN 0 ELSE layer[s].parent
          /\ layer'[s].source = IF s \in moved THEN s ELSE layer[s].source
    BY CompactionShape, CompactedRowType
  <1>3. Listed' = Listed
    BY <1>2 DEF Listed
  <1>4. Kept \subseteq Listed /\ OldestKept \in Ids
    BY <1>1, KeptFacts
  <1>5. layer[OldestKept].parent \in Leaving => layer'[OldestKept].parent = 0
    BY <1>2, <1>4 DEF Cut
  <1> QED BY <1>1, <1>2, <1>3, <1>4, <1>5 DEF RowKept

LEMMA CompactionTail ==
  ASSUME IInv, OrderInv, NEW moved, Compacts(moved)
  PROVE  OrderInv' /\ TailInv'
  <1>1. /\ Listed' = Listed /\ Listed \subseteq Ids /\ Listed # {}
        /\ removing' \in {Leaving, {}}
        /\ Leaving # {} /\ Leaving = Listed \ Kept /\ Kept \subseteq Listed
        /\ \A s \in Ids : layer'[s].revision = layer[s].revision
        /\ layer[OldestKept].parent \in Leaving => layer'[OldestKept].parent = 0
        /\ \A s \in Ids : layer[s].parent = 0 => layer'[s].parent = 0
    BY CompactionRows
  <1>2. /\ \A s \in Listed : s \in Nat /\ layer[s].revision \in Nat /\ layer[s].revision >= 1
        /\ \A s, t \in Listed : s < t => layer[s].revision < layer[t].revision
        /\ \A s, t \in Listed : layer[s].revision = layer[t].revision => s = t
    <2>1. \A s \in Listed : s \in Nat /\ layer[s].revision \in 1..revision
      BY <1>1, Basics DEF IInv, ChainInv, LayerInv
    <2> QED BY <2>1 DEF OrderInv, OlderThan, IInv, ChainInv, OneChain, TypeOK
  <1>3. /\ OldestKept \in Kept
        /\ \A t \in Kept \ {OldestKept} : layer[OldestKept].revision < layer[t].revision
        /\ \A s \in Listed, t \in Kept : layer[t].revision < layer[s].revision => s \in Kept
    BY <1>1, KeptFacts DEF OlderThan
  <1> PICK o \in Listed : o = OldestKept
    BY <1>1, <1>3
  <1>4. OrderInv'
    BY <1>1, <1>2 DEF OrderInv, OlderThan
  <1>5. \A n \in removing', r \in Listed : r < n => r \in removing'
    BY <1>1, <1>2, <1>3
  <1>6. \A q \in Kept : o <= q /\ layer[o].revision <= layer[q].revision
    BY <1>1, <1>2, <1>3
  <1>7. layer'[o].parent = 0 /\ layer[o].revision > 1
    <2>1. PICK n \in Listed : n \notin Kept
      BY <1>1
    <2>2. layer[n].revision < layer[o].revision
      BY <1>2, <1>3, <2>1
    <2>3. layer[o].revision > 1
      BY <1>2, <2>2
    <2>4. ASSUME layer[o].parent # 0 PROVE layer[o].parent \in Leaving
      <3> PICK p \in Listed : p = layer[o].parent
        BY <2>4 DEF IInv, ChainInv, OneChain
      <3>1. layer[o].revision = layer[p].revision + 1
        BY <2>4 DEF IInv, ChainInv, OneChain
      <3> QED BY <1>1, <1>2, <1>6, <3>1
    <2> QED BY <1>1, <2>3, <2>4
  <1>8. TailInv'
    BY <1>1, <1>3, <1>5, <1>6, <1>7 DEF TailInv
  <1> QED BY <1>4, <1>8

(* Where a snapshot gets its copy back, the one it borrowed is older, with *)
(* no layer in between that says what the file is.                         *)
LEMMA MovedFrom ==
  ASSUME IInv, AnchorInv, NEW moved, Compacts(moved), NEW r \in moved
  PROVE  /\ r \in Anchored /\ r \in Ids
         /\ layer[r].source \in Ids /\ layer[r].source \in Anchored
         /\ Older(layer[r].source, r) /\ Key(layer[r].source) = Key(r)
  <1>1. /\ r \in Ids /\ r \in Listed /\ layer[r].anchored # Gone
        /\ layer[r].source # r
    BY MovedFacts DEF AnchorFrom
  <1>2. r \in Anchored
    BY <1>1 DEF Anchored
  <1> PICK q \in Listed : q = layer[r].source
    BY MovedFacts DEF Leaving
  <1> QED BY <1>1, <1>2, BorrowFacts

LEMMA CompactionCopies ==
  ASSUME IInv, AnchorInv, NEW moved, Compacts(moved)
  PROVE  /\ \A r \in Ids : ~(r \in moved /\ Refilled(r)) => blob'[r] = blob[r]
         /\ \A r \in moved : Refilled(r) =>
              /\ ~HasCopy(r)
              /\ blob'[r][Key(r)] = blob[layer[r].source][Key(r)]
              /\ Harmed(layer[r].source) => Harmed(r)'
         /\ \A r \in Anchored : HasCopy(r) => HasCopy(r)'
  <1>1. blob' = [s \in Ids |->
              IF s \in moved /\ Refilled(s)
              THEN [blob[s] EXCEPT ![layer[s].anchor] =
                      blob[layer[s].source][layer[s].anchor]]
              ELSE blob[s]]
    BY CompactionShape
  <1>2. \A r \in Ids : ~(r \in moved /\ Refilled(r)) => blob'[r] = blob[r]
    BY <1>1
  <1>3. ASSUME NEW r \in moved, Refilled(r)
        PROVE  /\ ~HasCopy(r)
               /\ blob'[r][Key(r)] = blob[layer[r].source][Key(r)]
               /\ Harmed(layer[r].source) => Harmed(r)'
    <2>1. Key(r) \in Paths /\ r \in Ids /\ Key(layer[r].source) = Key(r)
      BY <1>3, MovedFrom, AnchoredFacts
    <2>2. blob[r] \in [Paths -> States]
      BY <2>1 DEF IInv, TypeOK
    <2>3. blob'[r] = [blob[r] EXCEPT ![Key(r)] = blob[layer[r].source][Key(r)]]
      BY <1>1, <1>3, <2>1 DEF Key
    <2>4. ~HasCopy(r)
      BY <1>3 DEF Refilled, HasCopy, Key
    <2>5. Harmed(layer[r].source) => <<r, Key(r)>> \in harmed'
      BY <1>3, <2>1, CompactionShape DEF LostAnchor, Harmed, Key
    <2>6. Key(r)' = Key(r)
      BY <2>1, CompactionRows DEF RowKept, Key
    <2> QED BY <2>1, <2>2, <2>3, <2>4, <2>5, <2>6 DEF Harmed
  <1>4. \A r \in Anchored : r \in Ids /\ Key(r)' = Key(r)
    <2>1. \A r \in Anchored : r \in Ids
      BY AnchoredFacts
    <2> QED BY <2>1, CompactionRows DEF RowKept, Key
  <1> QED BY <1>2, <1>3, <1>4 DEF HasCopy

LEMMA CompactionFirm ==
  ASSUME IInv, AnchorInv, NEW moved, Compacts(moved), NEW t \in Ids, Firm(t)
  PROVE  Firm(t)'
  <1> DEFINE Refills(r) == r \in moved /\ Refilled(r)
  <1>1. /\ removing = {} /\ \A r \in Ids : RowKept(r) /\ r \in Nat
        /\ \A r \in Ids : ~Refills(r) => blob'[r] = blob[r]
        /\ harmed \subseteq harmed'
    BY CompactionRows, CompactionCopies, Basics
  <1>2. \A r, q \in Ids : /\ SameAnchor(r, q)' <=> SameAnchor(r, q)
                          /\ TracksAnchor(r)' <=> TracksAnchor(r)
                          /\ Tracker(r, q)' <=> Tracker(r, q)
                          /\ Key(r)' = Key(r)
    BY <1>1, RowFacts
  <1>3. CASE TracksAnchor(t) \/ Harmed(t)
    BY <1>1, <1>2, <1>3 DEF Firm, Harmed
  <1>4. ASSUME NEW y \in 0..MaxSnapshots, y < t, Calm(y, t)
        PROVE  Calm(y, t)'
    <2>1. /\ y = 0 \/ (y \in Ids /\ Tracker(y, t) /\ ~HasCopy(y))
          /\ \A r \in Ids : y < r /\ r < t /\ SameAnchor(r, t) => ~HasCopy(r)
      <3>1. y = 0 \/ y \in Ids
        BY Basics DEF Ids
      <3> QED BY <1>1, <1>4, <3>1 DEF Calm, Passing
    <2>2. y = 0 \/ (Tracker(y, t)' /\ ~HasCopy(y)')
      <3>1. ASSUME y \in Ids, Tracker(y, t) PROVE ~Refills(y)
        BY <3>1 DEF Tracker, Refilled
      <3> QED BY <1>1, <1>2, <2>1, <3>1 DEF HasCopy
    <2>3. ASSUME NEW r \in Ids, y < r, r < t, SameAnchor(r, t), Refills(r)
          PROVE  ~HasCopy(r)'
      <3> PICK q \in Ids : q = layer[r].source
        BY <2>3, MovedFrom
      <3>1. /\ Older(q, r) /\ Key(q) = Key(r) /\ q < r /\ SameAnchor(q, r)
            /\ \A z \in Ids : q < z /\ z < r => ~Tracker(z, r)
        BY <2>3, MovedFrom DEF Older
      <3>2. \A z \in Ids : SameAnchor(z, r) <=> SameAnchor(z, t)
        BY <2>3, SameAnchorFacts
      <3>3. ~HasCopy(q)
        <4>1. q \in Nat \ {0} /\ r \in Nat /\ t \in Nat /\ y \in Nat
          BY Basics
        <4>2. CASE y < q
          <5>1. q < t
            BY <2>3, <3>1, <4>1
          <5> QED BY <2>1, <3>1, <3>2, <4>2, <5>1
        <4>3. CASE y = q
          BY <2>1, <4>1, <4>3
        <4>4. CASE q < y
          <5>1. y \in Ids /\ Tracker(y, t)
            BY <2>1, <4>1, <4>4
          <5>2. Tracker(y, r)
            BY <3>2, <5>1 DEF Tracker
          <5> QED BY <2>3, <3>1, <4>4, <5>1, <5>2
        <4> QED BY <4>1, <4>2, <4>3, <4>4
      <3>4. blob'[r][Key(r)] = blob[q][Key(r)]
        BY <2>3, CompactionCopies
      <3> QED BY <1>2, <3>1, <3>3, <3>4 DEF HasCopy
    <2>4. \A r \in Ids : y < r /\ r < t /\ SameAnchor(r, t)' => ~HasCopy(r)'
      <3>1. \A r \in Ids : ~Refills(r) => (HasCopy(r)' <=> HasCopy(r))
        BY <1>1, <1>2 DEF HasCopy
      <3> QED BY <1>2, <2>1, <2>3, <3>1
    <2> QED BY <2>2, <2>4 DEF Calm
  <1> QED BY <1>3, <1>4 DEF Firm

LEMMA CompactionAnchors ==
  ASSUME IInv, AnchorInv, NEW moved, Compacts(moved)
  PROVE  AnchorInv'
  <1>1. /\ Listed' = Listed /\ Listed \subseteq Ids /\ Listed # {}
        /\ removing = {} /\ removing' \in {Leaving, {}}
        /\ Leaving = Listed \ Kept /\ Kept \subseteq Listed
        /\ UNCHANGED <<revision, made, capture, rebasing>> /\ harmed \subseteq harmed'
        /\ \A s \in Ids :
             /\ RowKept(s) /\ layer'[s].revision = layer[s].revision
             /\ layer[s].parent = 0 => layer'[s].parent = 0
             /\ layer'[s].source = IF s \in moved THEN s ELSE layer[s].source
    BY CompactionRows
  <1>2. /\ Anchored' = Anchored
        /\ \A r \in Ids : Key(r)' = Key(r) /\ (TracksAnchor(r)' <=> TracksAnchor(r))
    <2>1. Anchored' = Anchored
      BY <1>1 DEF Anchored, RowKept
    <2>2. \A r \in Ids : Key(r)' = Key(r) /\ (TracksAnchor(r)' <=> TracksAnchor(r))
      BY <1>1, RowFacts
    <2> QED BY <2>1, <2>2
  <1>3. \A r \in Anchored : r \in Listed /\ r \in Ids /\ Key(r) \in Paths
    BY AnchoredFacts
  <1>4. \A r \in Listed : CutOff(r) => CutOff(r)'
    BY <1>1, CutOffFrame
  <1>5. \A r \in Anchored : /\ HasCopy(r) => HasCopy(r)'
                            /\ Harmed(r) => Harmed(r)'
                            /\ Lost(r) => Lost(r)'
    <2>1. \A r \in Anchored : Harmed(r) => Harmed(r)'
      BY <1>1, <1>2, <1>3 DEF Harmed
    <2> QED BY <1>3, <1>4, <2>1, CompactionCopies DEF Lost
  <1>6. ASSUME NEW s \in Ids, NEW t \in Ids, Older(t, s) PROVE Older(t, s)'
    BY <1>1, <1>6, OlderFrame
  <1>7. \A s \in Anchored : /\ s \in moved => layer'[s].source = s
                            /\ s \notin moved => layer'[s].source = layer[s].source
    BY <1>1, <1>3
  <1>8. ASSUME NEW s \in Anchored, s \in Kept, removing' # {}
        PROVE  layer'[s].source \notin Leaving
    <2>1. removing' = Leaving
      BY <1>1, <1>8
    <2>2. s \in Moving => s \in moved
      <3>1. CASE moved = Moving
        BY <3>1
      <3>2. CASE removing' = {}
        BY <1>8, <3>2
      <3> QED BY <3>1, <3>2 DEF Compacts
    <2>3. layer[s].anchor # NoPath /\ layer[s].anchored # Gone
      BY <1>3, Basics DEF Anchored, Key
    <2>4. layer[s].source \in Leaving => s \in Moving
      BY <1>8, <2>3 DEF Moving, AnchorFrom
    <2> QED BY <1>1, <1>7, <1>8, <2>2, <2>4
  <1>9. ASSUME NEW s \in Anchored PROVE AnchorOk(s)'
    <2>1. AnchorOk(s) /\ s \in Listed /\ s \in Ids /\ Key(s) \in Paths
      BY AnchoredFacts
    <2>2. ShapeOk(s)'
      <3>1. /\ blob[s][Key(s)] \in {Gone, layer[s].anchored} \/ Harmed(s)
            /\ layer[s].source \in 1..made
            /\ \A u \in Tasks : capture[u].id # layer[s].source
            /\ TracksAnchor(s) => layer[s].source = s
        BY <2>1 DEF AnchorOk, ShapeOk
      <3>2. blob'[s][Key(s)] \in {Gone, layer[s].anchored} \/ Harmed(s)'
        <4>1. CASE ~(s \in moved /\ Refilled(s))
          BY <1>5, <2>1, <3>1, <4>1, CompactionCopies
        <4>2. CASE s \in moved /\ Refilled(s)
          <5> PICK q \in Ids : q = layer[s].source
            BY <2>1, <4>2, MovedFrom
          <5>1. q \in Anchored /\ Older(q, s) /\ Key(q) = Key(s)
            BY <2>1, <4>2, MovedFrom
          <5>2. blob[q][Key(q)] \in {Gone, layer[q].anchored} \/ Harmed(q)
            BY <5>1, AnchoredFacts DEF AnchorOk, ShapeOk
          <5>3. layer[q].anchored = layer[s].anchored
            BY <5>1 DEF Older, SameAnchor
          <5>4. blob'[s][Key(s)] = blob[q][Key(s)] /\ (Harmed(q) => Harmed(s)')
            BY <2>1, <4>2, CompactionCopies
          <5> QED BY <5>1, <5>2, <5>3, <5>4
        <4> QED BY <4>1, <4>2
      <3>3. s \in 1..made /\ \A u \in Tasks : capture[u].id # s
        <4>1. s <= made /\ s \in Nat \ {0} /\ made \in Nat
          BY <2>1, Basics DEF IInv, ChainInv, LayerInv, TypeOK
        <4>2. \A u \in Tasks : capture[u].id # s
          BY <2>1, <4>1, OwnDirectory
        <4> QED BY <4>1, <4>2
      <3>4. layer'[s].anchored = layer[s].anchored /\ Key(s)' = Key(s)
        BY <1>1, <1>2, <2>1 DEF RowKept
      <3>5. layer'[s].source = s \/ layer'[s].source = layer[s].source
        BY <1>1, <2>1
      <3> QED BY <1>1, <1>2, <2>1, <3>1, <3>2, <3>3, <3>4, <3>5 DEF ShapeOk
    <2>3. BorrowOk(s)'
      <3>1. ASSUME NEW t \in Listed, layer'[s].source = t, t # s
            PROVE  Older(t, s)' /\ (Firm(t)' \/ Lost(s)')
        <4>1. layer[s].source = t
          BY <1>7, <3>1
        <4>2. t \in Ids /\ Older(t, s) /\ (Firm(t) \/ Lost(s))
          BY <3>1, <4>1, BorrowFacts
        <4> QED BY <1>5, <1>6, <2>1, <4>2, CompactionFirm
      <3> QED BY <1>1, <3>1 DEF BorrowOk
    <2>4. BackedOk(s)'
      <3>1. CASE TracksAnchor(s) \/ Lost(s)
        BY <1>2, <1>5, <2>1, <3>1 DEF BackedOk
      <3>2. ASSUME NEW t \in Listed, layer[s].source = t, ~TracksAnchor(s),
                   rebasing[1] = t \/ HasCopy(t) \/ Harmed(t)
            PROVE  BackedOk(s)'
        <4>1. t \in Ids /\ t \in Anchored /\ Key(t) = Key(s)
          BY <3>2, BorrowFacts
        <4>2. CASE s \notin moved
          <5>1. layer'[s].source = t /\ t \in Listed'
            BY <1>1, <1>7, <3>2, <4>2
          <5>2. rebasing'[1] = t \/ HasCopy(t)' \/ Harmed(t)'
            BY <1>1, <1>5, <3>2, <4>1
          <5> QED BY <5>1, <5>2 DEF BackedOk
        <4>3. CASE s \in moved
          <5>1. layer'[s].source = s /\ s \in Listed'
            BY <1>1, <1>7, <2>1, <4>3
          <5>2. HasCopy(s)' \/ Harmed(s)'
            <6>1. CASE HasCopy(s)
              BY <1>5, <6>1
            <6>2. CASE ~HasCopy(s)
              <7>1. Refilled(s)
                BY <3>2, <4>3, <6>2 DEF Refilled, HasCopy, Key
              <7>2. blob'[s][Key(s)] = blob[t][Key(s)]
                BY <2>1, <3>2, <4>3, <7>1, CompactionCopies
              <7>3. CASE HasCopy(t)
                BY <1>2, <2>1, <4>1, <7>2, <7>3 DEF HasCopy
              <7>4. CASE ~HasCopy(t)
                <8>1. LostAnchor(s)
                  BY <3>2, <4>1, <7>1, <7>4 DEF LostAnchor, HasCopy, Harmed, Key
                <8>2. <<s, Key(s)>> \in harmed'
                  BY <4>3, <8>1, CompactionShape DEF Key
                <8> QED BY <1>2, <2>1, <8>2 DEF Harmed
              <7> QED BY <7>3, <7>4
            <6> QED BY <6>1, <6>2
          <5> QED BY <5>1, <5>2 DEF BackedOk
        <4> QED BY <4>2, <4>3
      <3> QED BY <2>1, <3>1, <3>2 DEF AnchorOk, BackedOk
    <2>5. LeavingOk(s)'
      <3>1. ASSUME NEW t \in removing', layer'[s].source = t, s \notin removing'
            PROVE  FALSE
        <4>1. removing' = Leaving /\ removing' # {} /\ s \in Kept
          BY <1>1, <2>1, <3>1
        <4> QED BY <1>8, <3>1, <4>1
      <3> QED BY <3>1 DEF LeavingOk
    <2> QED BY <2>2, <2>3, <2>4, <2>5 DEF AnchorOk
  <1>10. RebasedInv'
    <2> SUFFICES ASSUME NEW s \in Listed, NEW t \in Ids, rebasing = <<s, t>>
                 PROVE  RebaseOk(s, t)'
      BY <1>1 DEF RebasedInv
    <2>1. RebaseOk(s, t)
      BY DEF AnchorInv, RebasedInv
    <2>2. s \in Anchored /\ ~TracksAnchor(s) /\ s \in Ids
      BY <1>3, <2>1 DEF RebaseOk
    <2>3. ASSUME t \in Listed
          PROVE  /\ t = s \/ (Older(t, s)' /\ (Firm(t)' \/ Lost(s)'))
                 /\ HasCopy(t)' \/ Harmed(t)'
      <3>1. /\ t = s \/ (Older(t, s) /\ (Firm(t) \/ Lost(s)))
            /\ HasCopy(t) \/ Harmed(t)
        BY <2>1, <2>3 DEF RebaseOk
      <3>2. t \in Anchored
        BY <2>2, <3>1, SameAnchorFacts DEF Older
      <3> QED BY <1>5, <1>6, <2>2, <3>1, <3>2, CompactionFirm
    <2>4. t \notin Listed => CutOff(s)'
      BY <1>4, <2>1 DEF RebaseOk
    <2>5. ASSUME t # s, NEW u \in Anchored, layer'[u].source = s, u # s
          PROVE  t \notin Listed \/ Harmed(s)' \/ Lost(u)'
      <3>1. layer[u].source = s
        BY <1>7, <2>5
      <3>2. ~Passing(t, s)
        BY <1>1 DEF Passing
      <3> QED BY <1>5, <2>1, <2>2, <2>5, <3>1, <3>2 DEF RebaseOk
    <2>6. t <= made /\ \A u \in Tasks : capture[u].id # t
      BY <2>1 DEF RebaseOk
    <2> QED BY <1>1, <1>2, <2>2, <2>3, <2>4, <2>5, <2>6 DEF RebaseOk
  <1>11. ASSUME NEW t \in Tasks PROVE CapturedOk(t)'
    <2>1. revision' \in Nat
      BY <1>1 DEF IInv, TypeOK
    <2>2. capture[t].id \in Ids => blob'[capture[t].id] = blob[capture[t].id]
      <3>1. capture[t].id \in Ids => capture[t].id \notin Listed
        BY Basics, OwnDirectory
      <3>2. \A r \in moved : r \in Listed
        BY MovedFacts
      <3> QED BY <3>1, <3>2, CompactionCopies
    <2>3. CapturedKept(t)
      BY <1>1, <2>2 DEF CapturedKept
    <2> QED BY <2>1, <2>3, CapturedFrame
  <1>12. OrderInv' /\ TailInv'
    BY CompactionTail DEF AnchorInv
  <1>13. \A s \in Anchored' : AnchorOk(s)'
    BY <1>2, <1>9
  <1> QED BY <1>10, <1>11, <1>12, <1>13 DEF AnchorInv

-----------------------------------------------------------------------------
(* The snapshots a compaction keeps have had their chain cut.              *)
LEMMA TailCut ==
  ASSUME IInv, AnchorInv, removing # {}, NEW s \in Listed \ removing
  PROVE  \E r \in Listed \ removing :
           /\ layer[r].parent = 0 /\ layer[r].revision > 1 /\ r <= s
           /\ layer[r].revision <= layer[s].revision
  <1> PICK r \in Listed \ removing :
             /\ layer[r].parent = 0 /\ layer[r].revision > 1
             /\ \A q \in Listed \ removing : r <= q
    BY DEF AnchorInv, TailInv
  <1>1. \A q \in Listed : q \in Nat /\ layer[q].revision \in Nat
    BY Basics DEF Listed, IInv, TypeOK, Layers
  <1>2. r = s \/ r < s
    BY <1>1
  <1>3. r < s => layer[r].revision < layer[s].revision
    BY DEF AnchorInv, OrderInv, OlderThan
  <1> QED BY <1>1, <1>2, <1>3

LEMMA TailCutOff ==
  ASSUME IInv, AnchorInv, removing # {}, NEW s \in Listed \ removing
  PROVE  CutOff(s)
  BY TailCut DEF CutOff

-----------------------------------------------------------------------------
(* A compaction removes a snapshot: the newest of those that go.           *)

Removed(n) ==
  /\ n \in removing /\ n \in Listed /\ n \in Ids
  /\ Listed' = Listed \ {n} /\ removing' = removing \ {n}
  /\ UNCHANGED <<revision, made, capture, rebasing>>
  /\ layer'[n] = NoLayer
  /\ \A s \in Ids : s # n => /\ layer'[s] = layer[s] /\ blob'[s] = blob[s]
                             /\ \A p : <<s, p>> \in harmed' <=> <<s, p>> \in harmed
  /\ \A s \in Listed : IF s \in removing THEN s <= n ELSE n < s

LEMMA RemoveShape ==
  ASSUME IInv, AnchorInv, RemoveCompacted
  PROVE  \E n \in Ids : Removed(n)
  <1> PICK n \in Ids : n = Newest(removing)
    BY RemovedIsNewest DEF RemoveCompacted
  <1>1. /\ removing # {} /\ removing' = removing \ {n}
        /\ layer' = [layer EXCEPT ![n] = NoLayer]
        /\ blob' = [blob EXCEPT ![n] = NoFiles]
        /\ harmed' = harmed \ ({n} \X (Paths \cup {NoPath}))
        /\ UNCHANGED <<revision, made, capture, rebasing>>
    BY DEF RemoveCompacted
  <1>2. n \in removing /\ n \in Listed
    BY <1>1, RemovedIsNewest
  <1>3. /\ layer'[n] = NoLayer
        /\ \A s \in Ids : s # n => layer'[s] = layer[s] /\ blob'[s] = blob[s]
    BY <1>1 DEF IInv, TypeOK
  <1>4. \A s \in Ids : \A p : s # n => (<<s, p>> \in harmed' <=> <<s, p>> \in harmed)
    BY <1>1
  <1>5. Listed' = Listed \ {n}
    BY <1>3 DEF Listed, NoLayer
  <1>6. /\ removing \in SUBSET Ids /\ removing \subseteq Listed
        /\ \A s \in Listed : s \in Nat /\ layer[s].revision \in Nat
                             /\ layer[s].revision <= revision
        /\ revision \in Nat
    <2>1. \A s \in Listed : s \in Nat /\ layer[s].revision \in 1..revision
      BY Basics DEF IInv, ChainInv, LayerInv, Listed
    <2> QED BY <2>1 DEF IInv, TypeOK, ChainInv, RemovingInv
  <1>7. \A t \in removing : t = n \/ layer[t].revision < layer[n].revision
    <2>1. Ordered(removing)
      BY <1>6 DEF IInv, ChainInv, OneChain, Ordered
    <2>2. layer \in [Ids -> Layers]
      BY DEF IInv, TypeOK
    <2> QED BY <1>1, <1>6, <2>1, <2>2, NewestExists DEF OlderThan
  <1>8. \A s \in Listed : IF s \in removing THEN s <= n ELSE n < s
    <2>1. \A s \in Listed : n < s => layer[n].revision < layer[s].revision
      BY <1>2 DEF AnchorInv, OrderInv, OlderThan
    <2>2. \A s \in Listed : s < n => s \in removing
      BY <1>2 DEF AnchorInv, TailInv
    <2>3. \A s \in removing : s <= n
      BY <1>2, <1>6, <1>7, <2>1
    <2>4. \A s \in Listed : s \notin removing => n < s
      BY <1>2, <1>6, <2>2
    <2> QED BY <2>3, <2>4
  <1> QED BY <1>1, <1>2, <1>3, <1>4, <1>5, <1>8 DEF Removed

LEMMA RemoveRows ==
  ASSUME IInv, NEW n \in Ids, Removed(n), NEW s \in Ids, s # n, layer[s].anchor # NoPath
  PROVE  /\ Key(s)' = Key(s) /\ (HasCopy(s)' <=> HasCopy(s))
         /\ Harmed(s)' <=> Harmed(s)
         /\ TracksAnchor(s)' <=> TracksAnchor(s)
         /\ ~SameAnchor(n, s)'
         /\ \A r \in Ids : r # n => /\ SameAnchor(r, s)' <=> SameAnchor(r, s)
                                    /\ Tracker(r, s)' <=> Tracker(r, s)
  <1>1. layer'[s] = layer[s] /\ layer'[n].anchor = NoPath /\ blob'[s] = blob[s]
    BY DEF Removed, NoLayer
  <1>2. ~SameAnchor(n, s)'
    BY <1>1 DEF SameAnchor
  <1>3. \A r \in Ids : r # n => RowKept(r)
    BY DEF Removed, RowKept
  <1>4. \A r \in Ids : r # n => /\ SameAnchor(r, s)' <=> SameAnchor(r, s)
                                /\ Tracker(r, s)' <=> Tracker(r, s)
    BY <1>3, RowFacts
  <1>5. Key(s)' = Key(s) /\ (TracksAnchor(s)' <=> TracksAnchor(s))
    BY <1>3, RowFacts
  <1>6. (HasCopy(s)' <=> HasCopy(s)) /\ (Harmed(s)' <=> Harmed(s))
    BY <1>1, <1>5 DEF HasCopy, Harmed, Removed
  <1> QED BY <1>2, <1>4, <1>5, <1>6

LEMMA RemoveCutOff ==
  ASSUME IInv, AnchorInv, NEW n \in Ids, Removed(n), NEW s \in Listed, s # n
  PROVE  /\ CutOff(s) => CutOff(s)'
         /\ s \notin removing => CutOff(s)'
  <1>1. /\ Listed' = Listed \ {n} /\ n \in removing /\ n \in Listed
        /\ \A r \in Listed : r # n => layer'[r] = layer[r]
    BY DEF Removed, Listed
  <1>2. ASSUME s \notin removing PROVE CutOff(s)'
    <2> PICK r \in Listed \ removing :
               /\ layer[r].parent = 0 /\ layer[r].revision > 1 /\ r <= s
               /\ layer[r].revision <= layer[s].revision
      BY <1>1, <1>2, TailCut
    <2> QED BY <1>1 DEF CutOff
  <1>3. ASSUME s \in removing, CutOff(s) PROVE CutOff(s)'
    <2> PICK r \in Listed : /\ layer[r].parent = 0 /\ layer[r].revision > 1
                            /\ layer[r].revision <= layer[s].revision
      BY <1>3 DEF CutOff
    <2>1. s \in Nat /\ n \in Nat /\ s <= n
      BY <1>3, Basics DEF Removed, Listed
    <2>2. layer[s].revision < layer[n].revision
      BY <1>1, <2>1 DEF AnchorInv, OrderInv, OlderThan
    <2>3. /\ layer[r].revision \in Nat /\ layer[s].revision \in Nat
          /\ layer[n].revision \in Nat
      BY <1>1 DEF Listed, IInv, TypeOK, Layers
    <2>4. r # n
      BY <2>2, <2>3
    <2> QED BY <1>1, <2>4 DEF CutOff
  <1> QED BY <1>2, <1>3

LEMMA RemoveOlder ==
  ASSUME IInv, NEW n \in Ids, Removed(n), NEW s \in Anchored, NEW t \in Ids,
         s # n, t # n, s \in Ids, layer[s].anchor # NoPath, Older(t, s)
  PROVE  Older(t, s)'
  <1>1. \A y \in Ids : Tracker(y, s)' => y # n /\ Tracker(y, s)
    BY RemoveRows DEF Tracker
  <1>2. SameAnchor(t, s)' /\ t < s
    BY RemoveRows DEF Older
  <1> QED BY <1>1, <1>2 DEF Older

(* When the snapshot goes whose layer said what the file is, what comes    *)
(* before it is about to go too.                                           *)
LEMMA RemoveFirm ==
  ASSUME IInv, AnchorInv, NEW n \in Ids, Removed(n), NEW t \in Anchored, t # n, Firm(t)
  PROVE  Firm(t)'
  <1>1. t \in Listed /\ t \in Ids /\ layer[t].anchor # NoPath /\ t \in Nat
    BY AnchoredFacts, Basics DEF Key
  <1>2. /\ Key(t)' = Key(t) /\ (TracksAnchor(t)' <=> TracksAnchor(t))
        /\ ~SameAnchor(n, t)'
        /\ \A r \in Ids : r # n => /\ SameAnchor(r, t)' <=> SameAnchor(r, t)
                                   /\ Tracker(r, t)' <=> Tracker(r, t)
    BY <1>1, RemoveRows
  <1>3. ASSUME NEW r \in Ids, r # n, SameAnchor(r, t)
        PROVE  /\ HasCopy(r)' <=> HasCopy(r)
               /\ Passing(r, t) => Passing(r, t)'
    <2>1. layer[r].anchor # NoPath
      BY <1>3 DEF SameAnchor
    <2>2. HasCopy(r)' <=> HasCopy(r)
      BY <1>3, <2>1, RemoveRows
    <2>3. Passing(r, t) => Passing(r, t)'
      BY <1>2, <1>3 DEF Passing, Removed
    <2> QED BY <2>2, <2>3
  <1>4. CASE TracksAnchor(t) \/ Harmed(t)
    <2>1. Harmed(t)' <=> Harmed(t)
      BY <1>1, RemoveRows
    <2> QED BY <1>2, <1>4, <2>1 DEF Firm
  <1>5. ASSUME NEW y \in 0..MaxSnapshots, y < t, Calm(y, t), y # n
        PROVE  Calm(y, t)'
    <2>1. y = 0 \/ y \in Ids
      BY Basics DEF Ids
    <2>2. y = 0 \/ (Tracker(y, t)' /\ ~HasCopy(y)')
      BY <1>2, <1>3, <1>5, <2>1 DEF Calm, Tracker
    <2>3. \A r \in Ids : y < r /\ r < t /\ SameAnchor(r, t)' =>
                         ~HasCopy(r)' \/ Passing(r, t)'
      BY <1>2, <1>3, <1>5 DEF Calm
    <2> QED BY <2>2, <2>3 DEF Calm
  <1>6. ASSUME n < t, Calm(n, t)
        PROVE  Calm(0, t)'
    <2>1. n \in Nat \ {0} /\ \A r \in Ids : r \in Nat
      BY Basics
    <2>2. t \notin removing
      BY <1>1, <1>6, <2>1 DEF Removed
    <2>3. Tracker(n, t)
      BY <1>6, <2>1 DEF Calm
    <2>4. Key(t) \in Tracked
      BY <2>3 DEF Tracker, TracksAnchor, SameAnchor, Key
    <2>5. ASSUME NEW r \in Ids, r < t, SameAnchor(r, t)'
          PROVE  ~HasCopy(r)' \/ Passing(r, t)'
      <3>1. r # n /\ SameAnchor(r, t)
        BY <1>2, <2>5
      <3>2. CASE n < r
        BY <1>3, <1>6, <2>5, <3>1, <3>2 DEF Calm
      <3>3. CASE r < n
        <4>1. r \in Listed
          BY <1>1, <3>1, SameAnchorFacts DEF Anchored
        <4>2. r \in removing
          BY <2>1, <3>3, <4>1 DEF Removed
        <4>3. Passing(r, t)
          BY <2>2, <2>4, <4>2 DEF Passing
        <4> QED BY <1>3, <3>1, <4>3
      <3> QED BY <2>1, <3>1, <3>2, <3>3
    <2> QED BY <2>5 DEF Calm
  <1>7. 0 \in 0..MaxSnapshots /\ 0 < t
    BY <1>1, Basics
  <1> QED BY <1>4, <1>5, <1>6, <1>7 DEF Firm

LEMMA RemoveAnchors ==
  ASSUME IInv, AnchorInv, RemoveCompacted
  PROVE  AnchorInv'
  <1> PICK n \in Ids : Removed(n)
    BY RemoveShape
  <1>1. /\ n \in removing /\ n \in Listed
        /\ Listed' = Listed \ {n} /\ removing' = removing \ {n}
        /\ UNCHANGED <<revision, made, capture, rebasing>>
        /\ layer'[n] = NoLayer
        /\ \A s \in Ids : s # n => /\ layer'[s] = layer[s] /\ blob'[s] = blob[s]
                                   /\ \A p : <<s, p>> \in harmed' <=> <<s, p>> \in harmed
        /\ \A s \in Listed : IF s \in removing THEN s <= n ELSE n < s
    BY DEF Removed
  <1>2. Anchored' = Anchored \ {n} /\ Listed \subseteq Ids /\ n \in Nat /\ n # 0
    BY <1>1, Basics DEF Anchored, Listed
  <1>3. \A s \in Anchored : /\ s \in Listed /\ s \in Ids /\ Key(s) \in Paths
                            /\ layer[s].anchor # NoPath /\ s \in Nat
    BY AnchoredFacts, Basics DEF Key
  <1>4. \A s \in Anchored : s # n =>
          /\ Key(s)' = Key(s) /\ (HasCopy(s)' <=> HasCopy(s))
          /\ Harmed(s)' <=> Harmed(s)
          /\ TracksAnchor(s)' <=> TracksAnchor(s)
          /\ CutOff(s) => CutOff(s)'
          /\ s \notin removing => CutOff(s)'
    BY <1>3, RemoveRows, RemoveCutOff
  <1>5. \A s \in Anchored : s # n /\ Lost(s) => Lost(s)'
    BY <1>4 DEF Lost
  <1>6. ASSUME NEW s \in Anchored, s # n PROVE AnchorOk(s)'
    <2>1. AnchorOk(s)
      BY AnchoredFacts
    <2>2. layer'[s] = layer[s] /\ blob'[s] = blob[s] /\ s \in Ids /\ s \in Listed
      BY <1>1, <1>3, <1>6
    <2>3. ShapeOk(s)'
      BY <1>1, <1>4, <1>6, <2>1, <2>2 DEF AnchorOk, ShapeOk
    <2>4. ASSUME NEW t \in Listed, layer[s].source = t, t = n
          PROVE  Lost(s)'
      <3>1. n < s
        BY <1>6, <2>4, BorrowFacts DEF Older
      <3>2. s \notin removing
        BY <1>1, <1>2, <1>3, <2>2, <3>1
      <3>3. Harmed(s)
        BY <1>1, <2>1, <2>4, <3>2 DEF AnchorOk, LeavingOk
      <3> QED BY <1>4, <1>6, <3>2, <3>3 DEF Lost
    <2>5. BorrowOk(s)'
      <3>1. ASSUME NEW t \in Listed', layer[s].source = t, t # s
            PROVE  Older(t, s)' /\ (Firm(t)' \/ Lost(s)')
        <4>1. t \in Listed /\ t # n /\ t \in Ids
          BY <1>1, <1>2
        <4>2. t \in Anchored /\ Older(t, s) /\ (Firm(t) \/ Lost(s))
          BY <3>1, <4>1, BorrowFacts
        <4>3. Older(t, s)'
          BY <1>3, <1>6, <4>1, <4>2, RemoveOlder
        <4> QED BY <1>5, <1>6, <4>1, <4>2, <4>3, RemoveFirm
      <3> QED BY <2>2, <3>1 DEF BorrowOk
    <2>6. BackedOk(s)'
      <3>1. CASE TracksAnchor(s) \/ Lost(s)
        BY <1>4, <1>5, <1>6, <3>1 DEF BackedOk
      <3>2. ASSUME NEW t \in Listed, layer[s].source = t,
                   rebasing[1] = t \/ HasCopy(t) \/ Harmed(t)
            PROVE  BackedOk(s)'
        <4>1. CASE t = n
          BY <2>4, <3>2, <4>1 DEF BackedOk
        <4>2. CASE t # n
          <5>1. t \in Anchored /\ t \in Listed'
            BY <1>1, <3>2, <4>2, BorrowFacts
          <5>2. rebasing'[1] = t \/ HasCopy(t)' \/ Harmed(t)'
            BY <1>1, <1>4, <3>2, <4>2, <5>1
          <5> QED BY <2>2, <3>2, <5>1, <5>2 DEF BackedOk
        <4> QED BY <4>1, <4>2
      <3> QED BY <2>1, <3>1, <3>2 DEF AnchorOk, BackedOk
    <2>7. LeavingOk(s)'
      <3>1. ASSUME NEW t \in removing', layer[s].source = t, s \notin removing'
            PROVE  Harmed(s)'
        <4>1. t \in removing /\ s \notin removing
          BY <1>1, <1>6, <3>1
        <4> QED BY <1>4, <1>6, <2>1, <3>1, <4>1 DEF AnchorOk, LeavingOk
      <3> QED BY <2>2, <3>1 DEF LeavingOk
    <2> QED BY <2>3, <2>5, <2>6, <2>7 DEF AnchorOk
  <1>7. RebasedInv'
    <2> SUFFICES ASSUME NEW s \in Listed', NEW t \in Ids, rebasing = <<s, t>>
                 PROVE  RebaseOk(s, t)'
      BY <1>1 DEF RebasedInv
    <2>1. s \in Listed /\ s # n /\ RebaseOk(s, t)
      BY <1>1 DEF AnchorInv, RebasedInv
    <2>2. s \in Anchored /\ ~TracksAnchor(s) /\ s \in Ids
      BY <1>3, <2>1 DEF RebaseOk
    <2>3. t \in Listed =>
            /\ t = s \/ (Older(t, s) /\ (Firm(t) \/ Lost(s)) /\ t \in Anchored)
            /\ HasCopy(t) \/ Harmed(t)
      <3>1. t \in Listed => /\ t = s \/ (Older(t, s) /\ (Firm(t) \/ Lost(s)))
                            /\ HasCopy(t) \/ Harmed(t)
        BY <2>1 DEF RebaseOk
      <3>2. Older(t, s) => t \in Anchored
        BY <2>2, SameAnchorFacts DEF Older
      <3> QED BY <3>1, <3>2
    <2>4. ASSUME t \in Listed'
          PROVE  /\ t = s \/ (Older(t, s)' /\ (Firm(t)' \/ Lost(s)'))
                 /\ HasCopy(t)' \/ Harmed(t)'
      <3>1. t \in Listed /\ t # n /\ t \in Anchored
        BY <1>1, <2>2, <2>3, <2>4
      <3>2. HasCopy(t)' \/ Harmed(t)'
        BY <1>4, <2>3, <3>1
      <3>3. t # s => Older(t, s)'
        BY <1>3, <2>1, <2>2, <2>3, <3>1, RemoveOlder
      <3>4. t # s => Firm(t)' \/ Lost(s)'
        BY <1>5, <2>1, <2>2, <2>3, <3>1, RemoveFirm
      <3> QED BY <3>2, <3>3, <3>4
    <2>5. ASSUME t \notin Listed' PROVE CutOff(s)'
      <3>1. CASE t = n
        <4>1. n < s
          BY <1>1, <2>1, <2>3, <3>1 DEF Older
        <4>2. s \notin removing
          BY <1>1, <1>2, <1>3, <2>2, <4>1
        <4> QED BY <1>4, <2>1, <2>2, <4>2
      <3>2. CASE t # n
        BY <1>1, <1>4, <2>1, <2>2, <2>5, <3>2 DEF RebaseOk
      <3> QED BY <3>1, <3>2
    <2>6. ASSUME t # s, NEW u \in Anchored', layer'[u].source = s, u # s
          PROVE  t \notin Listed' \/ Passing(t, s)' \/ Harmed(s)' \/ Lost(u)'
      <3>1. u \in Anchored /\ u # n /\ layer[u].source = s
        BY <1>1, <1>2, <1>3, <2>6
      <3>2. t \notin Listed \/ Passing(t, s) \/ Harmed(s) \/ Lost(u)
        BY <2>1, <2>6, <3>1 DEF RebaseOk
      <3>3. Passing(t, s) /\ t # n => Passing(t, s)'
        BY <1>1, <1>4, <2>1, <2>2 DEF Passing
      <3>4. t = n => t \notin Listed'
        BY <1>1
      <3> QED BY <1>1, <1>4, <1>5, <2>1, <2>2, <3>1, <3>2, <3>3, <3>4
    <2>7. s \in Anchored' /\ ~TracksAnchor(s)'
      BY <1>2, <1>4, <2>1, <2>2
    <2>8. t <= made' /\ \A u \in Tasks : capture'[u].id # t
      BY <1>1, <2>1 DEF RebaseOk
    <2> QED BY <2>4, <2>5, <2>6, <2>7, <2>8 DEF RebaseOk
  <1>8. ASSUME NEW t \in Tasks PROVE CapturedOk(t)'
    <2>1. revision' \in Nat
      BY <1>1 DEF IInv, TypeOK
    <2>2. capture[t].id # n
      BY <1>1, <1>2, OwnDirectory
    <2>3. CapturedKept(t)
      BY <1>1, <2>2 DEF CapturedKept
    <2> QED BY <2>1, <2>3, CapturedFrame
  <1>9. OrderInv'
    <2>1. \A s \in Listed' : s \in Listed /\ layer'[s] = layer[s]
      BY <1>1, <1>2
    <2> QED BY <2>1 DEF AnchorInv, OrderInv, OlderThan
  <1>10. TailInv'
    <2>1. \A m \in removing', r \in Listed' : r < m => r \in removing'
      BY <1>1 DEF AnchorInv, TailInv
    <2> PICK r \in Listed \ removing :
               /\ layer[r].parent = 0 /\ layer[r].revision > 1
               /\ \A q \in Listed \ removing : r <= q
      BY <1>1 DEF AnchorInv, TailInv
    <2>2. /\ r \in Listed' \ removing' /\ layer'[r] = layer[r]
          /\ Listed' \ removing' \subseteq Listed \ removing
      BY <1>1, <1>2
    <2> QED BY <2>1, <2>2 DEF TailInv
  <1> QED BY <1>2, <1>6, <1>7, <1>8, <1>9, <1>10 DEF AnchorInv

-----------------------------------------------------------------------------
(* A rebase: the copy that the pass found before s is firm.                *)

(* What DropAnchor(s) takes for the source of the anchor of s.             *)
Chosen(s, t) ==
  /\ t <= made /\ t \in Listed /\ HasCopy(t)
  /\ t # s => t \in Anchored /\ Older(t, s) /\ Firm(t)

LEMMA DropShape ==
  ASSUME IInv, AnchorInv, NEW s \in Ids, DropAnchor(s)
  PROVE  \E t \in Ids :
           /\ Chosen(s, t) /\ s \in Anchored /\ ~TracksAnchor(s)
           /\ rebasing = <<0, 0>> /\ rebasing' = <<s, t>>
           /\ blob' = IF t = s THEN blob ELSE [blob EXCEPT ![s][Key(s)] = Gone]
           /\ UNCHANGED <<layer, revision, made, capture, removing, harmed>>
  <1> PICK t \in Ids :
        /\ rebasing = <<0, 0>> /\ s \in Listed /\ SameAnchor(s, s) /\ ~TracksAnchor(s)
        /\ t = IF AnchorSource(s) = 0 THEN s ELSE AnchorSource(s)
        /\ blob[t][Key(s)] # Gone /\ rebasing' = <<s, t>>
        /\ blob' = IF t = s THEN blob ELSE [blob EXCEPT ![s][Key(s)] = Gone]
        /\ UNCHANGED <<layer, revision, made, capture, removing, harmed>>
    BY DEF DropAnchor, database, Key
  <1>1. s \in Anchored
    BY SameAnchorFacts
  <1>2. ASSUME NEW q \in Listed PROVE q <= made
    BY DEF IInv, ChainInv, LayerInv
  <1>3. CASE t = s
    <2>1. Chosen(s, t)
      BY <1>2, <1>3 DEF Chosen, HasCopy
    <2> QED BY <1>1, <2>1
  <1>4. CASE t # s
    <2>0. /\ s \in Nat \ {0} /\ t \in Nat \ {0} /\ \A y \in Ids : y \in Nat
          /\ s - 1 \in Nat /\ MaxSnapshots \in Nat
      BY Basics
    <2>1. t = AnchorSource(s) /\ t # 0
      BY <1>4, <2>0
    <2>2. Found(s, s - 1, t)
      BY <2>1, AnchorSourceFound
    <2>3. /\ t <= s - 1 /\ SameAnchor(t, s)
          /\ \A y \in Ids : y <= s - 1 /\ Tracker(y, s) => y <= t
          /\ TracksAnchor(t) \/ \E y \in 0..MaxSnapshots : y < t /\ Bare(y, t, s)
      BY <2>1, <2>2 DEF Found
    <2>4. /\ t \in Anchored /\ Key(t) = Key(s)
          /\ \A q \in Ids : SameAnchor(q, t) <=> SameAnchor(q, s)
      BY <2>3, SameAnchorFacts
    <2>5. Older(t, s)
      <3>1. t < s
        BY <2>0, <2>3
      <3>2. ASSUME NEW y \in Ids, t < y, y < s PROVE ~Tracker(y, s)
        <4>1. y <= s - 1 /\ ~(y <= t)
          BY <2>0, <3>2
        <4> QED BY <2>3, <4>1
      <3> QED BY <2>3, <3>1, <3>2 DEF Older
    <2>6. Firm(t)
      <3>1. ASSUME NEW y \in 0..MaxSnapshots, Bare(y, t, s) PROVE Calm(y, t)
        <4>1. y = 0 \/ y \in Ids
          BY Basics DEF Ids
        <4> QED BY <2>4, <3>1, <4>1 DEF Bare, Calm, Tracker
      <3> QED BY <2>3, <3>1 DEF Firm
    <2>7. t \in Listed /\ HasCopy(t)
      BY <2>4 DEF Anchored, HasCopy
    <2>8. Chosen(s, t)
      BY <1>2, <2>4, <2>5, <2>6, <2>7 DEF Chosen
    <2> QED BY <1>1, <2>8
  <1> QED BY <1>3, <1>4

(* No snapshot rests on one that is rebased, unless a compaction is about  *)
(* to remove the copy that comes before.                                   *)
LEMMA RebasedIsFree ==
  ASSUME IInv, AnchorInv, NEW s \in Anchored, ~TracksAnchor(s),
         NEW t \in Listed, ~Passing(t, s), t # s, Chosen(s, t),
         NEW u \in Anchored, layer[u].source = s, u # s
  PROVE  Harmed(s) \/ Lost(u)
  <1>1. s \in Listed /\ s \in Ids /\ s \in Nat /\ t \in Ids /\ t \in Nat \ {0}
    BY AnchoredFacts, Basics DEF Listed
  <1>2. Firm(s) \/ Lost(u)
    BY <1>1, BorrowFacts
  <1>3. /\ t < s /\ SameAnchor(t, s) /\ HasCopy(t)
        /\ \A y \in Ids : t < y /\ y < s => ~Tracker(y, s)
    BY DEF Chosen, Older
  <1>4. ASSUME NEW y \in 0..MaxSnapshots, y < s, Calm(y, s) PROVE FALSE
    <2>0. y \in Nat /\ (y = 0 \/ y \in Ids)
      BY Basics DEF Ids
    <2>1. CASE y < t
      BY <1>1, <1>3, <1>4, <2>1 DEF Calm
    <2>2. CASE y = t
      BY <1>1, <1>3, <1>4, <2>2 DEF Calm
    <2>3. CASE t < y
      <3>1. y \in Ids
        BY <1>1, <2>0, <2>3
      <3>2. Tracker(y, s)
        BY <1>1, <1>4, <2>0, <2>3 DEF Calm
      <3> QED BY <1>3, <1>4, <2>3, <3>1, <3>2
    <2> QED BY <1>1, <2>0, <2>1, <2>2, <2>3
  <1> QED BY <1>2, <1>4 DEF Firm

LEMMA DropAnchors ==
  ASSUME IInv, AnchorInv, NEW s \in Ids, DropAnchor(s)
  PROVE  AnchorInv'
  <1> PICK t \in Ids :
           /\ Chosen(s, t) /\ s \in Anchored /\ ~TracksAnchor(s)
           /\ rebasing = <<0, 0>> /\ rebasing' = <<s, t>>
           /\ blob' = IF t = s THEN blob ELSE [blob EXCEPT ![s][Key(s)] = Gone]
           /\ UNCHANGED <<layer, revision, made, capture, removing, harmed>>
    BY DropShape
  <1>1. s \in Listed /\ s \in Nat \ {0} /\ Key(s) \in Paths /\ t \in Listed /\ t <= made
    BY AnchoredFacts, Basics DEF Chosen
  <1>2. /\ Listed' = Listed /\ Anchored' = Anchored /\ Listed \subseteq Ids
        /\ \A r \in Ids : RowKept(r) /\ Key(r)' = Key(r) /\ (TracksAnchor(r)' <=> TracksAnchor(r))
        /\ \A r \in Ids : CutOff(r)' <=> CutOff(r)
        /\ \A r, q \in Ids : Passing(r, q)' <=> Passing(r, q)
    <2>1. Listed' = Listed /\ Listed \subseteq Ids
      BY DEF Listed
    <2>2. Anchored' = Anchored
      BY <2>1 DEF Anchored
    <2>3. \A r \in Ids : RowKept(r) /\ Key(r)' = Key(r) /\ (TracksAnchor(r)' <=> TracksAnchor(r))
      BY DEF RowKept, Key, TracksAnchor
    <2>4. \A r \in Ids : CutOff(r)' <=> CutOff(r)
      BY <2>1 DEF CutOff
    <2>5. \A r, q \in Ids : Passing(r, q)' <=> Passing(r, q)
      BY DEF Passing, Key
    <2> QED BY <2>1, <2>2, <2>3, <2>4, <2>5
  <1>3. \A r \in Anchored : r \in Listed /\ r \in Ids /\ Key(r) \in Paths
    BY AnchoredFacts
  <1>4. /\ \A r \in Ids : r # s => blob'[r] = blob[r]
        /\ t = s => blob' = blob
        /\ t # s => blob'[s][Key(s)] = Gone
    BY <1>1 DEF IInv, TypeOK
  <1>5. \A r \in Anchored : /\ ~HasCopy(r) => ~HasCopy(r)'
                            /\ Harmed(r)' <=> Harmed(r)
                            /\ Lost(r)' <=> Lost(r)
                            /\ HasCopy(r) /\ r # s => HasCopy(r)'
    <2>1. \A r \in Anchored : (Harmed(r)' <=> Harmed(r)) /\ (Lost(r)' <=> Lost(r))
      BY <1>2, <1>3 DEF Harmed, Lost
    <2> QED BY <1>2, <1>3, <1>4, <2>1 DEF HasCopy
  <1>6. ASSUME NEW r \in Anchored, Firm(r) PROVE Firm(r)'
    <2>1. \A q \in Ids : q < r /\ SameAnchor(q, r) /\ ~HasCopy(q) => ~HasCopy(q)'
      BY <1>3, <1>5, SameAnchorFacts
    <2> QED BY <1>2, <1>3, <1>5, <1>6, <2>1, FirmFrame
  <1>7. ASSUME NEW r \in Ids, NEW q \in Ids, Older(q, r) PROVE Older(q, r)'
    BY <1>2, <1>7, OlderFrame
  <1>8. ASSUME NEW u \in Anchored PROVE AnchorOk(u)'
    <2>1. AnchorOk(u) /\ u \in Ids /\ u \in Listed
      BY AnchoredFacts
    <2>2. ShapeOk(u)'
      <3>1. blob'[u][Key(u)] = blob[u][Key(u)] \/ blob'[u][Key(u)] = Gone
        BY <1>4, <2>1
      <3> QED BY <1>2, <1>5, <2>1, <3>1 DEF AnchorOk, ShapeOk
    <2>3. BorrowOk(u)'
      <3>1. ASSUME NEW q \in Listed, layer[u].source = q, q # u
            PROVE  Older(q, u)' /\ (Firm(q)' \/ Lost(u)')
        <4>1. q \in Ids /\ q \in Anchored /\ Older(q, u) /\ (Firm(q) \/ Lost(u))
          BY <3>1, BorrowFacts
        <4> QED BY <1>5, <1>6, <1>7, <2>1, <4>1
      <3> QED BY <1>2, <3>1 DEF BorrowOk
    <2>4. BackedOk(u)'
      <3>1. CASE TracksAnchor(u) \/ Lost(u)
        BY <1>2, <1>5, <2>1, <3>1 DEF BackedOk
      <3>2. ASSUME NEW q \in Listed, layer[u].source = q,
                   rebasing[1] = q \/ HasCopy(q) \/ Harmed(q)
            PROVE  BackedOk(u)'
        <4>1. q \in Anchored /\ q \in Nat \ {0} /\ rebasing[1] # q
          BY <3>2, BorrowFacts, Basics
        <4>2. rebasing'[1] = q \/ HasCopy(q)' \/ Harmed(q)'
          BY <1>5, <3>2, <4>1
        <4> QED BY <1>2, <3>2, <4>2 DEF BackedOk
      <3> QED BY <2>1, <3>1, <3>2 DEF AnchorOk, BackedOk
    <2>5. LeavingOk(u)'
      <3>1. \A q \in removing : layer[u].source = q /\ u \notin removing => Harmed(u)'
        BY <1>5, <2>1 DEF AnchorOk, LeavingOk
      <3> QED BY <3>1 DEF LeavingOk
    <2> QED BY <2>2, <2>3, <2>4, <2>5 DEF AnchorOk
  <1>9. RebaseOk(s, t)'
    <2>1. \A u \in Tasks : capture[u].id # t
      <3>1. t \in Nat \ {0}
        BY Basics
      <3> QED BY <1>1, <3>1, OwnDirectory
    <2>2. /\ t = s \/ (Older(t, s)' /\ Firm(t)')
          /\ HasCopy(t)' \/ Harmed(t)'
      <3>1. CASE t = s
        <4>1. HasCopy(t)'
          BY <1>2, <1>4, <3>1 DEF Chosen, HasCopy
        <4> QED BY <3>1, <4>1
      <3>2. CASE t # s
        BY <1>5, <1>6, <1>7, <3>2 DEF Chosen
      <3> QED BY <3>1, <3>2
    <2>3. ASSUME t # s, NEW u \in Anchored, layer[u].source = s, u # s
          PROVE  t \notin Listed \/ Passing(t, s) \/ Harmed(s)' \/ Lost(u)'
      BY <1>5, <2>3, RebasedIsFree
    <2> QED BY <1>1, <1>2, <2>1, <2>2, <2>3 DEF RebaseOk
  <1>10. RebasedInv'
    <2>1. \A r, q \in Ids : rebasing' = <<r, q>> => r = s /\ q = t
      OBVIOUS
    <2> QED BY <1>2, <1>9, <2>1 DEF RebasedInv
  <1>11. OrderInv' /\ TailInv'
    BY <1>2 DEF AnchorInv, OrderInv, TailInv, OlderThan
  <1>12. ASSUME NEW u \in Tasks PROVE CapturedOk(u)'
    <2>1. revision' \in Nat
      BY DEF IInv, TypeOK
    <2>2. capture[u].id # s
      BY <1>1, OwnDirectory
    <2>3. CapturedKept(u)
      BY <1>2, <1>4, <2>2 DEF CapturedKept
    <2> QED BY <2>1, <2>3, CapturedFrame
  <1> QED BY <1>2, <1>8, <1>10, <1>11, <1>12 DEF AnchorInv

-----------------------------------------------------------------------------
(* The end of a rebase: what was chosen is the source from now on.         *)
LEMMA PersistAnchors ==
  ASSUME IInv, AnchorInv, NEW torn \in SUBSET Ids, PersistAnchorSource(torn)
  PROVE  AnchorInv'
  <1> PICK s \in Ids, t \in Ids : rebasing = <<s, t>>
    <2>1. rebasing # <<0, 0>>
      BY DEF PersistAnchorSource
    <2> QED BY <2>1, RebasedAnchor
  <1>1. /\ layer' = IF s \in Listed THEN [layer EXCEPT ![s].source = t] ELSE layer
        /\ harmed' = IF s \in Listed /\ t \notin (Listed \ removing) \cup {s}
                     THEN harmed \cup {<<s, Key(s)>>} ELSE harmed
        /\ rebasing' = <<0, 0>>
        /\ UNCHANGED <<revision, blob, made, capture, removing>>
    BY DEF PersistAnchorSource, Key
  <1>2. \A r \in Ids :
          /\ layer'[r].listed = layer[r].listed /\ layer'[r].revision = layer[r].revision
          /\ layer'[r].parent = layer[r].parent /\ layer'[r].files = layer[r].files
          /\ layer'[r].anchor = layer[r].anchor /\ layer'[r].anchored = layer[r].anchored
          /\ layer'[r].source = IF r = s /\ s \in Listed THEN t ELSE layer[r].source
    BY <1>1 DEF IInv, TypeOK, Layers
  <1>3. /\ Listed' = Listed /\ Anchored' = Anchored /\ Listed \subseteq Ids
        /\ \A r \in Ids : RowKept(r) /\ Key(r)' = Key(r) /\ (TracksAnchor(r)' <=> TracksAnchor(r))
        /\ \A r \in Listed : CutOff(r)' <=> CutOff(r)
        /\ \A r, q \in Ids : Passing(r, q)' <=> Passing(r, q)
    <2>1. Listed' = Listed /\ Listed \subseteq Ids
      BY <1>2 DEF Listed
    <2>2. Anchored' = Anchored
      BY <1>2, <2>1 DEF Anchored
    <2>3. \A r \in Ids : RowKept(r) /\ Key(r)' = Key(r)
      BY <1>2 DEF RowKept, Key
    <2>4. \A r \in Ids : TracksAnchor(r)' <=> TracksAnchor(r)
      BY <1>2 DEF TracksAnchor
    <2>5. \A r \in Listed : CutOff(r)' <=> CutOff(r)
      BY <1>2, <2>1 DEF CutOff
    <2>6. \A r, q \in Ids : Passing(r, q)' <=> Passing(r, q)
      BY <1>1, <2>3 DEF Passing
    <2> QED BY <2>1, <2>2, <2>3, <2>4, <2>5, <2>6
  <1>4. \A r \in Anchored : r \in Listed /\ r \in Ids /\ Key(r) \in Paths
    BY AnchoredFacts
  <1>5. \A r \in Anchored : /\ HasCopy(r)' <=> HasCopy(r)
                            /\ Harmed(r) => Harmed(r)'
                            /\ Lost(r) => Lost(r)'
    BY <1>1, <1>3, <1>4 DEF HasCopy, Harmed, Lost
  <1>6. ASSUME NEW r \in Anchored, Firm(r) PROVE Firm(r)'
    <2>1. \A q \in Ids : q < r /\ SameAnchor(q, r) /\ ~HasCopy(q) => ~HasCopy(q)'
      BY <1>4, <1>5, SameAnchorFacts
    <2> QED BY <1>3, <1>4, <1>5, <1>6, <2>1, FirmFrame
  <1>7. ASSUME NEW r \in Ids, NEW q \in Ids, Older(q, r) PROVE Older(q, r)'
    BY <1>3, <1>7, OlderFrame
  <1>8. ASSUME s \in Listed
        PROVE  /\ RebaseOk(s, t) /\ s \in Anchored
               /\ t \notin (Listed \ removing) \cup {s} => Harmed(s)'
    <2>1. RebaseOk(s, t)
      BY <1>8 DEF AnchorInv, RebasedInv
    <2> QED BY <1>1, <1>3, <1>8, <2>1 DEF RebaseOk, Harmed
  <1>9. ASSUME NEW u \in Anchored, u # s \/ s \notin Listed PROVE AnchorOk(u)'
    <2>1. AnchorOk(u) /\ u \in Ids /\ u \in Listed
      BY AnchoredFacts
    <2>2. layer'[u].source = layer[u].source /\ layer'[u].anchored = layer[u].anchored
      BY <1>2, <1>9, <2>1
    <2>3. ShapeOk(u)'
      BY <1>1, <1>3, <1>5, <2>1, <2>2 DEF AnchorOk, ShapeOk
    <2>4. BorrowOk(u)'
      <3>1. ASSUME NEW q \in Listed, layer[u].source = q, q # u
            PROVE  Older(q, u)' /\ (Firm(q)' \/ Lost(u)')
        <4>1. q \in Ids /\ q \in Anchored /\ Older(q, u) /\ (Firm(q) \/ Lost(u))
          BY <3>1, BorrowFacts
        <4> QED BY <1>5, <1>6, <1>7, <2>1, <4>1
      <3> QED BY <1>3, <2>2, <3>1 DEF BorrowOk
    <2>5. BackedOk(u)'
      <3>1. CASE TracksAnchor(u) \/ Lost(u)
        BY <1>3, <1>5, <2>1, <3>1 DEF BackedOk
      <3>2. ASSUME NEW q \in Listed, layer[u].source = q,
                   rebasing[1] = q \/ HasCopy(q) \/ Harmed(q)
            PROVE  BackedOk(u)'
        <4>1. q \in Anchored
          BY <3>2, BorrowFacts
        <4>2. CASE HasCopy(q) \/ Harmed(q)
          <5>1. HasCopy(q)' \/ Harmed(q)'
            BY <1>5, <4>1, <4>2
          <5> QED BY <1>3, <2>2, <3>2, <5>1 DEF BackedOk
        <4>3. CASE rebasing[1] = q
          <5>1. q = s /\ s \in Listed /\ u # s
            BY <1>9, <3>2, <4>3
          <5>2. RebaseOk(s, t) /\ s \in Anchored
                /\ (t \notin (Listed \ removing) \cup {s} => Harmed(s)')
            BY <1>8, <5>1
          <5>3. CASE t = s
            <6>1. HasCopy(s) \/ Harmed(s)
              BY <5>1, <5>2, <5>3 DEF RebaseOk
            <6> QED BY <4>2, <5>1, <6>1
          <5>4. CASE t # s
            <6>1. t \notin Listed \ removing \/ Harmed(s) \/ Lost(u)
              BY <3>2, <5>1, <5>2, <5>4 DEF RebaseOk, Passing
            <6>2. Harmed(s)' \/ Lost(u)'
              BY <1>5, <5>2, <5>4, <6>1
            <6> QED BY <1>3, <2>2, <3>2, <5>1, <6>2 DEF BackedOk
          <5> QED BY <5>3, <5>4
        <4> QED BY <3>2, <4>2, <4>3
      <3> QED BY <2>1, <3>1, <3>2 DEF AnchorOk, BackedOk
    <2>6. LeavingOk(u)'
      <3>1. \A q \in removing : layer[u].source = q /\ u \notin removing => Harmed(u)'
        BY <1>5, <2>1 DEF AnchorOk, LeavingOk
      <3> QED BY <1>1, <2>2, <3>1 DEF LeavingOk
    <2> QED BY <2>3, <2>4, <2>5, <2>6 DEF AnchorOk
  <1>10. ASSUME s \in Listed PROVE AnchorOk(s)'
    <2>1. /\ RebaseOk(s, t) /\ s \in Anchored /\ AnchorOk(s)
          /\ t \notin (Listed \ removing) \cup {s} => Harmed(s)'
      BY <1>8, <1>10, AnchoredFacts
    <2>2. layer'[s].source = t /\ layer'[s].anchored = layer[s].anchored
      BY <1>2, <1>10
    <2>3. /\ ~TracksAnchor(s) /\ t <= made /\ \A u \in Tasks : capture[u].id # t
          /\ t \in Listed => /\ t = s \/ (Older(t, s) /\ (Firm(t) \/ Lost(s)))
                             /\ HasCopy(t) \/ Harmed(t)
          /\ t \notin Listed => CutOff(s)
      BY <2>1 DEF RebaseOk
    <2>4. ASSUME t \in Listed PROVE t \in Anchored
      BY <2>1, <2>3, <2>4, SameAnchorFacts DEF Older
    <2>5. ShapeOk(s)'
      <3>1. t \in 1..made
        BY <2>3, Basics DEF IInv, TypeOK
      <3> QED BY <1>1, <1>3, <1>5, <2>1, <2>2, <2>3, <3>1 DEF AnchorOk, ShapeOk
    <2>6. BorrowOk(s)'
      <3>1. ASSUME t \in Listed, t # s PROVE Older(t, s)' /\ (Firm(t)' \/ Lost(s)')
        BY <1>5, <1>6, <1>7, <2>1, <2>3, <2>4, <3>1
      <3> QED BY <1>3, <2>2, <3>1 DEF BorrowOk
    <2>7. BackedOk(s)'
      <3>1. CASE t \in Listed
        <4>1. HasCopy(t)' \/ Harmed(t)'
          BY <1>5, <2>3, <2>4, <3>1
        <4> QED BY <1>3, <2>2, <3>1, <4>1 DEF BackedOk
      <3>2. CASE t \notin Listed
        <4>1. t \notin (Listed \ removing) \cup {s}
          BY <1>10, <3>2
        <4>2. Lost(s)'
          BY <1>3, <1>10, <2>1, <2>3, <3>2, <4>1 DEF Lost
        <4> QED BY <4>2 DEF BackedOk
      <3> QED BY <3>1, <3>2
    <2>8. LeavingOk(s)'
      <3>1. ASSUME t \in removing, s \notin removing PROVE Harmed(s)'
        BY <2>1, <3>1
      <3> QED BY <1>1, <2>2, <3>1 DEF LeavingOk
    <2> QED BY <2>5, <2>6, <2>7, <2>8 DEF AnchorOk
  <1>11. RebasedInv'
    <2>1. \A r, q \in Ids : rebasing' # <<r, q>>
      BY <1>1, Basics
    <2> QED BY <1>3, <2>1 DEF RebasedInv
  <1>12. OrderInv' /\ TailInv'
    <2>1. \A r \in Listed : /\ layer'[r].revision = layer[r].revision
                            /\ layer'[r].parent = layer[r].parent
      BY <1>2, <1>3
    <2>2. OrderInv'
      BY <1>3, <2>1 DEF AnchorInv, OrderInv, OlderThan
    <2>3. TailInv'
      BY <1>1, <1>3, <2>1 DEF AnchorInv, TailInv
    <2> QED BY <2>2, <2>3
  <1>13. ASSUME NEW u \in Tasks PROVE CapturedOk(u)'
    <2>1. revision' \in Nat
      BY <1>1 DEF IInv, TypeOK
    <2>2. CapturedKept(u)
      BY <1>1, <1>3 DEF CapturedKept
    <2> QED BY <2>1, <2>2, CapturedFrame
  <1>14. \A u \in Anchored' : AnchorOk(u)'
    BY <1>3, <1>4, <1>9, <1>10
  <1> QED BY <1>11, <1>12, <1>13, <1>14 DEF AnchorInv

-----------------------------------------------------------------------------
(* A crash: nothing is on its way any more, and what a compaction has left *)
(* may be taken for a copy; whoever rests on what comes later is harmed.   *)
LEMMA CrashAnchors ==
  ASSUME IInv, AnchorInv, Crash
  PROVE  AnchorInv'
  <1>1. /\ capture' = [t \in Tasks |-> NoCapture]
        /\ removing' = {} /\ rebasing' = <<0, 0>>
        /\ harmed' = harmed \cup {<<s, Key(s)>> : s \in Borrowed \cup Split}
        /\ UNCHANGED <<revision, layer, blob, made>>
    BY CrashShape DEF Key
  <1>2. /\ Listed' = Listed /\ Anchored' = Anchored /\ Listed \subseteq Ids
        /\ \A r \in Ids : RowKept(r) /\ Key(r)' = Key(r) /\ (TracksAnchor(r)' <=> TracksAnchor(r))
        /\ \A r \in Listed : CutOff(r)' <=> CutOff(r)
    <2>1. Listed' = Listed /\ Listed \subseteq Ids
      BY <1>1 DEF Listed
    <2>2. Anchored' = Anchored
      BY <1>1, <2>1 DEF Anchored
    <2>3. \A r \in Ids : RowKept(r) /\ Key(r)' = Key(r) /\ (TracksAnchor(r)' <=> TracksAnchor(r))
      BY <1>1 DEF RowKept, Key, TracksAnchor
    <2>4. \A r \in Listed : CutOff(r)' <=> CutOff(r)
      BY <1>1, <2>1 DEF CutOff
    <2> QED BY <2>1, <2>2, <2>3, <2>4
  <1>3. \A r \in Anchored : r \in Listed /\ r \in Ids /\ Key(r) \in Paths
    BY AnchoredFacts
  <1>4. \A r \in Anchored : /\ HasCopy(r)' <=> HasCopy(r)
                            /\ Harmed(r) => Harmed(r)'
                            /\ Lost(r) => Lost(r)'
    BY <1>1, <1>2, <1>3 DEF HasCopy, Harmed, Lost
  <1>5. ASSUME NEW r \in Anchored, Firm(r), removing = {} \/ r \in removing \/ Key(r) \notin Tracked
        PROVE  Firm(r)'
    <2>1. \A q \in Ids : q < r /\ SameAnchor(q, r) /\ ~HasCopy(q) => ~HasCopy(q)'
      BY <1>3, <1>4, SameAnchorFacts
    <2>2. \A q \in Ids : ~Passing(q, r)
      BY <1>5 DEF Passing
    <2> QED BY <1>2, <1>3, <1>4, <1>5, <2>1, <2>2, FirmFrame
  <1>6. ASSUME NEW r \in Ids, NEW q \in Ids, Older(q, r) PROVE Older(q, r)'
    BY <1>2, <1>6, OlderFrame
  <1>7. ASSUME NEW u \in Anchored PROVE AnchorOk(u)'
    <2>1. AnchorOk(u) /\ u \in Ids /\ u \in Listed
      BY AnchoredFacts
    <2>2. ShapeOk(u)'
      <3>1. \A q \in Tasks : capture'[q].id = 0
        BY <1>1 DEF NoCapture
      <3> QED BY <1>1, <1>2, <1>4, <2>1, <3>1 DEF AnchorOk, ShapeOk
    <2>3. BorrowOk(u)'
      <3>1. ASSUME NEW q \in Listed, layer[u].source = q, q # u
            PROVE  Older(q, u)' /\ (Firm(q)' \/ Lost(u)')
        <4>1. /\ q \in Ids /\ q \in Anchored /\ Older(q, u) /\ (Firm(q) \/ Lost(u))
              /\ Key(q) = Key(u)
          BY <3>1, BorrowFacts
        <4>2. CASE removing = {} \/ q \in removing \/ Key(q) \notin Tracked
          BY <1>4, <1>5, <1>6, <2>1, <4>1, <4>2
        <4>3. CASE removing # {} /\ q \notin removing /\ Key(q) \in Tracked
          <5>1. u \notin removing
            <6>1. q < u
              BY <4>1 DEF Older
            <6> QED BY <4>3, <6>1 DEF AnchorInv, TailInv
          <5>2. u \in Borrowed
            BY <2>1, <3>1, <4>1, <4>3, <5>1 DEF Borrowed, Key
          <5>3. Harmed(u)'
            BY <1>1, <1>2, <2>1, <5>2 DEF Harmed
          <5>4. CutOff(u)
            BY <2>1, <4>3, <5>1, TailCutOff
          <5>5. Lost(u)'
            BY <1>2, <2>1, <5>3, <5>4 DEF Lost
          <5> QED BY <1>6, <2>1, <4>1, <5>5
        <4> QED BY <4>2, <4>3
      <3> QED BY <1>1, <1>2, <3>1 DEF BorrowOk
    <2>4. BackedOk(u)'
      <3>1. CASE TracksAnchor(u) \/ Lost(u)
        BY <1>2, <1>4, <2>1, <3>1 DEF BackedOk
      <3>2. ASSUME NEW q \in Listed, layer[u].source = q,
                   rebasing[1] = q \/ HasCopy(q) \/ Harmed(q)
            PROVE  BackedOk(u)'
        <4>1. q \in Anchored /\ q \in Ids
          BY <3>2, BorrowFacts
        <4>2. HasCopy(q)' \/ Harmed(q)'
          <5>1. CASE HasCopy(q) \/ Harmed(q)
            BY <1>4, <4>1, <5>1
          <5>2. CASE rebasing[1] = q /\ rebasing[2] # q
            <6>1. q \in Split
              BY <3>2, <5>2 DEF Split
            <6> QED BY <1>1, <1>2, <4>1, <6>1 DEF Harmed
          <5>3. CASE rebasing[1] = q /\ rebasing[2] = q
            <6>1. rebasing = <<q, q>>
              <7>1. rebasing # <<0, 0>>
                BY <4>1, <5>3, Basics
              <7> QED BY <5>3, <7>1, RebasedAnchor
            <6>2. RebaseOk(q, q)
              BY <3>2, <4>1, <6>1 DEF AnchorInv, RebasedInv
            <6> QED BY <1>4, <3>2, <4>1, <6>2 DEF RebaseOk
          <5> QED BY <3>2, <5>1, <5>2, <5>3
        <4> QED BY <1>1, <1>2, <3>2, <4>2 DEF BackedOk
      <3> QED BY <2>1, <3>1, <3>2 DEF AnchorOk, BackedOk
    <2>5. LeavingOk(u)'
      BY <1>1 DEF LeavingOk
    <2> QED BY <2>2, <2>3, <2>4, <2>5 DEF AnchorOk
  <1>8. RebasedInv'
    <2>1. \A r, q \in Ids : rebasing' # <<r, q>>
      BY <1>1, Basics
    <2> QED BY <1>2, <2>1 DEF RebasedInv
  <1>9. OrderInv' /\ TailInv'
    BY <1>1, <1>2 DEF AnchorInv, OrderInv, TailInv, OlderThan
  <1>10. \A t \in Tasks : CapturedOk(t)'
    BY <1>1 DEF CapturedOk, NoCapture
  <1> QED BY <1>2, <1>7, <1>8, <1>9, <1>10 DEF AnchorInv

-----------------------------------------------------------------------------
(* A compaction that ends early does the same to its own; the snapshot     *)
(* whose rows it removed says no more what the file is, and is harmed.     *)
LEMMA StopAnchors ==
  ASSUME IInv, AnchorInv, NEW between \in BOOLEAN, StopCompaction(between)
  PROVE  AnchorInv'
  <1> PICK n \in Ids : n = Newest(removing)
    BY StopShape DEF Listed
  <1>1. /\ n \in removing /\ n \in Listed /\ removing' = {} /\ Listed' = Listed
        /\ layer' = [s \in Ids |-> StoppedRow(s, between)]
        /\ harmed' = harmed \cup {<<s, Key(s)>> : s \in Borrowed}
                           \cup (IF between THEN {n} \X (Paths \cup {NoPath}) ELSE {})
        /\ UNCHANGED <<revision, blob, made, capture, rebasing>>
    BY StopShape DEF Key
  <1>2. \A r \in Ids :
          /\ layer'[r].revision = layer[r].revision /\ layer'[r].parent = layer[r].parent
          /\ layer'[r].anchor = layer[r].anchor /\ layer'[r].anchored = layer[r].anchored
          /\ layer'[r].source = layer[r].source
          /\ r # n \/ ~between => layer'[r] = layer[r]
    BY <1>1, StoppedRowType
  <1>3. between => \A p \in Tracked : layer'[n].files[p] = Same
    <2>1. layer[n] \in Layers
      BY DEF IInv, TypeOK
    <2>2. between => layer'[n] = [layer[n] EXCEPT !.files = [p \in Tracked |-> Same]]
      BY <1>1 DEF StoppedRow
    <2> QED BY <2>1, <2>2 DEF Layers
  <1>4. /\ Anchored' = Anchored /\ Listed \subseteq Ids
        /\ \A r \in Ids : Key(r)' = Key(r)
        /\ \A r, q \in Ids : SameAnchor(r, q)' <=> SameAnchor(r, q)
        /\ \A r \in Listed : CutOff(r)' <=> CutOff(r)
    <2>1. Listed \subseteq Ids
      BY DEF Listed
    <2>2. Anchored' = Anchored
      BY <1>1, <1>2, <2>1 DEF Anchored
    <2>3. \A r \in Ids : Key(r)' = Key(r)
      BY <1>2 DEF Key
    <2>4. \A r, q \in Ids : SameAnchor(r, q)' <=> SameAnchor(r, q)
      BY <1>2 DEF SameAnchor
    <2>5. \A r \in Listed : CutOff(r)' <=> CutOff(r)
      BY <1>1, <1>2, <2>1 DEF CutOff
    <2> QED BY <2>1, <2>2, <2>3, <2>4, <2>5
  <1>5. \A r \in Ids : TracksAnchor(r)' <=> TracksAnchor(r) /\ ~(r = n /\ between)
    BY <1>2, <1>3 DEF TracksAnchor
  <1>6. \A r \in Anchored : r \in Listed /\ r \in Ids /\ Key(r) \in Paths /\ r \in Nat
    BY AnchoredFacts, Basics
  <1>7. \A r \in Anchored : /\ HasCopy(r)' <=> HasCopy(r)
                            /\ Harmed(r) => Harmed(r)'
                            /\ Lost(r) => Lost(r)'
                            /\ r = n /\ between => Harmed(r)'
    BY <1>1, <1>4, <1>6 DEF HasCopy, Harmed, Lost
  <1>8. \A s \in removing : s <= n
    <2>1. /\ removing \subseteq Listed /\ \A s \in removing : s \in Nat
          /\ n \in Nat
      BY Basics DEF IInv, ChainInv, RemovingInv, TypeOK
    <2>2. \A s \in removing : n < s => OlderThan(n, s)
      BY <1>1, <2>1 DEF AnchorInv, OrderInv
    <2>3. \A s \in removing : s = n \/ OlderThan(s, n)
      BY <1>1, RemovedIsNewest
    <2>4. \A s \in removing : layer[s].revision \in Nat /\ layer[n].revision \in Nat
      BY <1>1, <2>1 DEF Listed, IInv, TypeOK, Layers
    <2> QED BY <2>1, <2>2, <2>3, <2>4 DEF OlderThan
  <1>9. ASSUME NEW r \in Anchored, Firm(r), r \in removing \/ Key(r) \notin Tracked
        PROVE  Firm(r)'
    <2>1. CASE TracksAnchor(r) \/ Harmed(r)
      BY <1>5, <1>6, <1>7, <2>1 DEF Firm
    <2>2. ASSUME NEW y \in 0..MaxSnapshots, y < r, Calm(y, r) PROVE Calm(y, r)'
      <3>1. /\ y = 0 \/ (y \in Ids /\ y \in Nat /\ Tracker(y, r) /\ ~HasCopy(y))
            /\ \A q \in Ids : y < q /\ q < r /\ SameAnchor(q, r) => ~HasCopy(q)
        <4>1. y = 0 \/ (y \in Ids /\ y \in Nat)
          BY Basics DEF Ids
        <4> QED BY <1>9, <2>2, <4>1 DEF Calm, Passing
      <3>2. \A q \in Ids : SameAnchor(q, r) => (HasCopy(q)' <=> HasCopy(q))
        BY <1>6, <1>7, SameAnchorFacts
      <3>3. ASSUME y # 0 PROVE Tracker(y, r)' /\ ~HasCopy(y)'
        <4>1. y \in Ids /\ Tracker(y, r) /\ ~HasCopy(y)
          BY <3>1, <3>3
        <4>2. y # n
          <5>1. Key(r) \in Tracked
            BY <4>1 DEF Tracker, TracksAnchor, SameAnchor, Key
          <5>2. r <= n /\ r \in Nat /\ y \in Nat
            BY <1>6, <1>8, <1>9, <3>1, <3>3, <5>1
          <5> QED BY <2>2, <5>2
        <4> QED BY <1>4, <1>5, <1>6, <3>2, <4>1, <4>2 DEF Tracker
      <3>4. \A q \in Ids : y < q /\ q < r /\ SameAnchor(q, r)' => ~HasCopy(q)'
        BY <1>4, <1>6, <3>1, <3>2
      <3> QED BY <3>3, <3>4 DEF Calm
    <2> QED BY <1>9, <2>1, <2>2 DEF Firm
  <1>10. ASSUME NEW r \in Ids, NEW q \in Ids, Older(q, r) PROVE Older(q, r)'
    <2>1. \A y \in Ids : Tracker(y, r)' => Tracker(y, r)
      BY <1>4, <1>5 DEF Tracker
    <2> QED BY <1>4, <1>10, <2>1 DEF Older
  <1>11. ASSUME NEW u \in Listed \ removing, Key(u) \in Tracked,
                layer[u].source # u \/ rebasing \in {u} \X (Ids \ {u})
         PROVE  Lost(u)'
    <2>1. u \in Borrowed
      BY <1>1, <1>11 DEF Borrowed, Key
    <2>2. Harmed(u)'
      BY <1>1, <1>4, <2>1 DEF Harmed
    <2>3. CutOff(u)
      BY <1>1, TailCutOff
    <2> QED BY <1>4, <2>2, <2>3 DEF Lost
  <1>12. ASSUME NEW u \in Anchored, NEW q \in Listed, Older(q, u), Firm(q) \/ Lost(u),
                layer[u].source = q \/ rebasing = <<u, q>>, q # u
         PROVE  Firm(q)' \/ Lost(u)'
    <2>1. q \in Anchored /\ Key(q) = Key(u) /\ q \in Ids /\ q < u /\ u \in Ids
      BY <1>4, <1>6, <1>12, SameAnchorFacts DEF Older
    <2>2. CASE Lost(u) \/ q \in removing \/ Key(q) \notin Tracked
      BY <1>7, <1>9, <1>12, <2>1, <2>2
    <2>3. CASE q \notin removing /\ Key(q) \in Tracked
      <3>1. u \notin removing
        BY <1>12, <2>1, <2>3 DEF AnchorInv, TailInv
      <3> QED BY <1>6, <1>11, <1>12, <2>1, <2>3, <3>1
    <2> QED BY <2>2, <2>3
  <1>13. ASSUME NEW u \in Anchored PROVE AnchorOk(u)'
    <2>1. AnchorOk(u) /\ u \in Ids /\ u \in Listed
      BY AnchoredFacts
    <2>2. ShapeOk(u)'
      BY <1>1, <1>2, <1>4, <1>5, <1>7, <2>1 DEF AnchorOk, ShapeOk
    <2>3. BorrowOk(u)'
      <3>1. ASSUME NEW q \in Listed, layer[u].source = q, q # u
            PROVE  Older(q, u)' /\ (Firm(q)' \/ Lost(u)')
        <4>1. q \in Ids /\ Older(q, u) /\ (Firm(q) \/ Lost(u))
          BY <3>1, BorrowFacts
        <4> QED BY <1>10, <1>12, <2>1, <3>1, <4>1
      <3> QED BY <1>1, <1>2, <2>1, <3>1 DEF BorrowOk
    <2>4. BackedOk(u)'
      <3>1. CASE (TracksAnchor(u) /\ ~(u = n /\ between)) \/ Lost(u)
        BY <1>5, <1>7, <2>1, <3>1 DEF BackedOk
      <3>2. CASE TracksAnchor(u) /\ u = n /\ between
        <4>1. layer[u].source = u
          BY <2>1, <3>2 DEF AnchorOk, ShapeOk
        <4>2. Harmed(u)'
          BY <1>7, <3>2
        <4> QED BY <1>1, <1>2, <2>1, <4>1, <4>2 DEF BackedOk
      <3>3. ASSUME NEW q \in Listed, layer[u].source = q,
                   rebasing[1] = q \/ HasCopy(q) \/ Harmed(q)
            PROVE  BackedOk(u)'
        <4>1. q \in Anchored
          BY <3>3, BorrowFacts
        <4>2. rebasing'[1] = q \/ HasCopy(q)' \/ Harmed(q)'
          BY <1>1, <1>7, <3>3, <4>1
        <4> QED BY <1>1, <1>2, <2>1, <3>3, <4>2 DEF BackedOk
      <3> QED BY <2>1, <3>1, <3>2, <3>3 DEF AnchorOk, BackedOk
    <2>5. LeavingOk(u)'
      BY <1>1 DEF LeavingOk
    <2> QED BY <2>2, <2>3, <2>4, <2>5 DEF AnchorOk
  <1>14. RebasedInv'
    <2> SUFFICES ASSUME NEW s \in Listed, NEW t \in Ids, rebasing = <<s, t>>
                 PROVE  RebaseOk(s, t)'
      BY <1>1 DEF RebasedInv
    <2>1. RebaseOk(s, t)
      BY DEF AnchorInv, RebasedInv
    <2>2. s \in Anchored /\ ~TracksAnchor(s)' /\ s \in Ids
      BY <1>5, <1>6, <2>1 DEF RebaseOk
    <2>3. ASSUME t \in Listed
          PROVE  /\ t = s \/ (Older(t, s)' /\ (Firm(t)' \/ Lost(s)'))
                 /\ HasCopy(t)' \/ Harmed(t)'
      <3>1. /\ t = s \/ (Older(t, s) /\ (Firm(t) \/ Lost(s)))
            /\ HasCopy(t) \/ Harmed(t)
        BY <2>1, <2>3 DEF RebaseOk
      <3>2. t \in Anchored
        BY <2>2, <3>1, SameAnchorFacts DEF Older
      <3>3. t = s \/ (Older(t, s)' /\ (Firm(t)' \/ Lost(s)'))
        BY <1>10, <1>12, <2>2, <2>3, <3>1
      <3> QED BY <1>7, <3>1, <3>2, <3>3
    <2>4. t \notin Listed => CutOff(s)'
      BY <1>4, <2>1 DEF RebaseOk
    <2>5. ASSUME t # s, NEW u \in Anchored, layer[u].source = s, u # s
          PROVE  t \notin Listed \/ Harmed(s)' \/ Lost(u)'
      <3>1. t \notin Listed \/ Passing(t, s) \/ Harmed(s) \/ Lost(u)
        BY <2>1, <2>5 DEF RebaseOk
      <3>2. ASSUME Passing(t, s) PROVE Lost(u)'
        <4>1. Key(u) = Key(s) /\ s < u
          BY <2>5, BorrowFacts DEF Older
        <4>2. u \notin removing
          BY <3>2, <4>1 DEF Passing, AnchorInv, TailInv
        <4> QED BY <1>6, <1>11, <2>5, <3>2, <4>1, <4>2 DEF Passing
      <3> QED BY <1>7, <2>2, <3>1, <3>2
    <2>6. t <= made /\ \A u \in Tasks : capture[u].id # t
      BY <2>1 DEF RebaseOk
    <2>7. \A u \in Anchored : layer'[u].source = layer[u].source
      BY <1>2, <1>6
    <2> QED BY <1>1, <1>4, <2>2, <2>3, <2>4, <2>5, <2>6, <2>7 DEF RebaseOk
  <1>15. OrderInv' /\ TailInv'
    BY <1>1, <1>2, <1>4 DEF AnchorInv, OrderInv, TailInv, OlderThan
  <1>16. ASSUME NEW t \in Tasks PROVE CapturedOk(t)'
    <2>1. capture[t].id \in Ids =>
            \A p \in Paths : <<capture[t].id, p>> \in harmed =>
                             <<capture[t].id, p>> \in harmed'
      BY <1>1
    <2>2. CapturedKept(t) /\ revision' \in Nat
      BY <1>1, <2>1 DEF CapturedKept, IInv, TypeOK
    <2> QED BY <2>2, CapturedFrame
  <1> QED BY <1>4, <1>13, <1>14, <1>15, <1>16 DEF AnchorInv

-----------------------------------------------------------------------------
LEMMA QuietTasks ==
  ASSUME IInv, AnchorInv,
         \/ UNCHANGED vars
         \/ \E p \in Paths, c \in States : Edit(p, c)
         \/ \E t \in Tasks, anchor \in Paths \cup {NoPath} : StartScan(t, anchor)
         \/ \E t \in Tasks, view \in Views : Scan(t, view)
         \/ \E t \in Tasks, state \in States : StatAnchor(t, state)
         \/ \E s \in Ids, whole \in BOOLEAN, scope \in SUBSET Paths :
              PlanRestore(s, whole, scope)
         \/ ApplyRestore
         \/ \E ids \in {Listed, {}} : StartCollecting(ids)
  PROVE  AnchorInv'
  <1>1. UNCHANGED <<layer, blob, made, removing, rebasing, revision, harmed>>
    BY DEF vars, database, directories, tasks, Edit, StartScan, Scan, StatAnchor,
           PlanRestore, ApplyRestore, StartCollecting
  <1>2. CapturesStill
    <2>1. CASE \/ UNCHANGED vars
               \/ \E p \in Paths, c \in States : Edit(p, c)
               \/ \E ids \in {Listed, {}} : StartCollecting(ids)
      BY <2>1 DEF vars, tasks, Edit, StartCollecting, CapturesStill
    <2>2. ASSUME NEW t \in Tasks, NEW anchor \in Paths \cup {NoPath}, StartScan(t, anchor)
          PROVE  CapturesStill
      <3> PICK x : x = [NoCapture EXCEPT !.pc = "scanning", !.base = revision,
                                         !.anchor = anchor]
        OBVIOUS
      <3>1. x.pc = "scanning" /\ x.id = 0
        BY DEF NoCapture
      <3>2. capture'[t] = x /\ \A u \in Tasks : u # t => capture'[u] = capture[u]
        BY <2>2 DEF StartScan, IInv, TypeOK
      <3> QED BY <3>1, <3>2 DEF CapturesStill
    <2>3. ASSUME NEW t \in Tasks, NEW view \in Views, Scan(t, view)
          PROVE  CapturesStill
      <3>1. capture[t].pc = "scanning" /\ capture[t] \in Captures
        BY <2>3 DEF Scan, IInv, TypeOK
      <3>2. capture[t].id = 0
        BY <3>1 DEF IInv, CaptureInv, CaptureOk
      <3>3. capture'[t].pc = "scanned" /\ capture'[t].id = 0
        BY <2>3, <3>1, <3>2 DEF Scan, IInv, TypeOK, Captures
      <3>4. \A u \in Tasks : u # t => capture'[u] = capture[u]
        BY <2>3 DEF Scan, IInv, TypeOK
      <3> QED BY <3>3, <3>4 DEF CapturesStill
    <2>5. ASSUME NEW t \in Tasks, NEW state \in States, StatAnchor(t, state)
          PROVE  CapturesStill
      <3> PICK x \in Captures : x = capture[t]
        BY DEF IInv, TypeOK
      <3>1. x.pc = "scanned" /\ x.id = 0
        BY <2>5 DEF StatAnchor, IInv, CaptureInv, CaptureOk
      <3>2. state # Gone => x.anchor \in Paths
        <4>1. x.anchor \in Paths \cup {NoPath}
          BY DEF Captures
        <4> QED BY <2>5, <4>1 DEF StatAnchor
      <3>3. /\ capture'[t].pc = "hashed" /\ capture'[t].id = 0
            /\ capture'[t].anchored = state /\ capture'[t].anchor = x.anchor
        BY <2>5, <3>1 DEF StatAnchor, IInv, TypeOK, Captures
      <3>4. \A u \in Tasks : u # t => capture'[u] = capture[u]
        BY <2>5 DEF StatAnchor, IInv, TypeOK
      <3> QED BY <3>2, <3>3, <3>4 DEF CapturesStill
    <2>4. CASE \/ ApplyRestore
               \/ \E s \in Ids, whole \in BOOLEAN, scope \in SUBSET Paths :
                    PlanRestore(s, whole, scope)
      <3>1. /\ "restore" \in Tasks
            /\ \A u \in Tasks : u # "restore" => capture'[u] = capture[u]
        BY <2>4 DEF Tasks, PlanRestore, ApplyRestore, IInv, TypeOK
      <3>2. CASE ApplyRestore
        <4>1. capture["restore"].pc = "planned" /\ capture["restore"] \in Captures
          BY <3>1, <3>2 DEF ApplyRestore, IInv, TypeOK
        <4>2. capture["restore"].id = 0
          BY <3>1, <4>1 DEF IInv, CaptureInv, CaptureOk
        <4>3. capture'["restore"].pc = "applied" /\ capture'["restore"].id = 0
          BY <3>1, <3>2, <4>1, <4>2 DEF ApplyRestore, IInv, TypeOK, Captures
        <4> QED BY <3>1, <4>3 DEF CapturesStill
      <3>3. ASSUME NEW s \in Ids, NEW whole \in BOOLEAN, NEW scope \in SUBSET Paths,
                   PlanRestore(s, whole, scope)
            PROVE  CapturesStill
        <4>1. capture'["restore"] = [NoCapture EXCEPT !.pc = "planned",
                                                      !.anchor = layer[s].anchor]
          BY <3>1, <3>3 DEF PlanRestore, IInv, TypeOK
        <4>2. capture'["restore"].pc = "planned" /\ capture'["restore"].id = 0
          BY <4>1 DEF NoCapture
        <4> QED BY <3>1, <4>2 DEF CapturesStill
      <3> QED BY <2>4, <3>2, <3>3
    <2> QED BY <2>1, <2>2, <2>3, <2>4, <2>5
  <1> QED BY <1>1, <1>2, StillAnchors

LEMMA AnchorNext == IInv /\ AnchorInv /\ [Next]_vars => AnchorInv'
  <1> SUFFICES ASSUME IInv, AnchorInv, [Next]_vars PROVE AnchorInv'
    OBVIOUS
  <1>1. CASE UNCHANGED vars \/ \E p \in Paths, c \in States : Edit(p, c)
    BY <1>1, QuietTasks
  <1>2. CASE \E anchor \in Anchors : CreateSnapshot(anchor)
    <2> PICK anchor \in Paths \cup {NoPath} : StartScan("create", anchor)
      BY <1>2, Basics DEF CreateSnapshot
    <2>1. "create" \in Tasks
      BY DEF Tasks
    <2> QED BY <2>1, QuietTasks
  <1>3. CASE CaptureRestored
    <2> PICK anchor \in Paths \cup {NoPath} : StartScan("restore", anchor)
      BY <1>3 DEF CaptureRestored, IInv, TypeOK, Tasks, Captures
    <2>1. "restore" \in Tasks
      BY DEF Tasks
    <2> QED BY <2>1, QuietTasks
  <1>4. CASE \E t \in Tasks :
               \/ \E view \in Views : Scan(t, view)
               \/ \E state \in States : StatAnchor(t, state)
               \/ Copy(t) \/ Commit(t) \/ CommitUnwritten(t) \/ CommitTorn(t) \/ Fail(t)
    BY <1>4, QuietTasks, CopyAnchors, CommitAnchors, FailAnchors
  <1>5. CASE (\E s \in Ids, whole \in BOOLEAN, scope \in SUBSET Paths :
                PlanRestore(s, whole, scope)) \/ ApplyRestore
    BY <1>5, QuietTasks
  <1>6. CASE (\E ids \in {Listed, {}} : StartCollecting(ids)) \/ Collect
    BY <1>6, QuietTasks, CollectAnchors
  <1>7. CASE \/ StartCompaction \/ RemoveCompacted
            \/ \E moved \in SUBSET Moving : BreakCompaction(moved)
            \/ \E between \in BOOLEAN : StopCompaction(between)
    <2>1. CASE StartCompaction \/ \E moved \in SUBSET Moving : BreakCompaction(moved)
      BY <2>1, CompactionForms, CompactionAnchors
    <2> QED BY <1>7, <2>1, RemoveAnchors, StopAnchors
  <1>8. CASE \/ \E s \in Ids : DropAnchor(s)
            \/ \E torn \in SUBSET Ids : PersistAnchorSource(torn)
    BY <1>8, DropAnchors, PersistAnchors
  <1>9. CASE Crash
    BY <1>9, CrashAnchors
  <1> QED BY <1>1, <1>2, <1>3, <1>4, <1>5, <1>6, <1>7, <1>8, <1>9 DEF Next

LEMMA AnchorInvariance == Spec => [](IInv /\ AnchorInv)
  <1>1. Init => IInv /\ AnchorInv
    BY InvInit, AnchorInit
  <1>2. IInv /\ AnchorInv /\ [Next]_vars => (IInv /\ AnchorInv)'
    BY InvNext, AnchorNext
  <1> QED BY <1>1, <1>2, PTL DEF Spec

-----------------------------------------------------------------------------
(* Where the copy of an anchor is, in a state of the invariant.            *)
LEMMA AnchorsHold ==
  ASSUME IInv, AnchorInv, NEW s \in Anchored
  PROVE  \/ rebasing[1] = layer[s].source
         \/ TracksAnchor(s)
         \/ blob[layer[s].source][layer[s].anchor] = layer[s].anchored
         \/ <<layer[s].source, layer[s].anchor>> \in harmed
         \/ Lost(s)
  <1>1. BackedOk(s)
    BY AnchoredFacts DEF AnchorOk
  <1>2. CASE TracksAnchor(s) \/ Lost(s)
    BY <1>2
  <1>3. ASSUME NEW t \in Listed, layer[s].source = t,
               rebasing[1] = t \/ HasCopy(t) \/ Harmed(t)
        PROVE  \/ rebasing[1] = layer[s].source
               \/ blob[layer[s].source][layer[s].anchor] = layer[s].anchored
               \/ <<layer[s].source, layer[s].anchor>> \in harmed
    <2>1. /\ t \in Anchored /\ SameAnchor(t, s)
          /\ layer[t].anchor = layer[s].anchor /\ layer[t].anchored = layer[s].anchored
      BY <1>3, BorrowFacts DEF SameAnchor
    <2>2. HasCopy(t) => blob[t][layer[s].anchor] = layer[s].anchored \/ Harmed(t)
      BY <2>1, CopyIsAnchored DEF Key
    <2>3. Harmed(t) => <<t, layer[s].anchor>> \in harmed
      BY <2>1 DEF Harmed, Key
    <2> QED BY <1>3, <2>2, <2>3
  <1> QED BY <1>1, <1>2, <1>3 DEF BackedOk

LEMMA TracksSupplies ==
  ASSUME IInv, NEW s \in Listed, TracksAnchor(s)
  PROVE  layer[s].anchor \in Tracked /\ Supplier(s, layer[s].anchor) = s
  <1>1. s \in Ids /\ layer[s].anchor \in Tracked /\ layer[s].files[layer[s].anchor] # Same
    BY DEF Listed, TracksAnchor
  <1> QED BY <1>1, AllParentsOlder, SupplierWalks DEF IInv, TypeOK

(* The anchor of a snapshot that no layer supplies is in the directory of  *)
(* its source, as it was when the snapshot was committed, through rebases, *)
(* compactions and crashes in any order, or its loss is known.             *)
THEOREM AnchorsStayRecoverable == Spec => []AnchorsRecoverable
  <1>1. ASSUME IInv, AnchorInv PROVE AnchorsRecoverable
    <2> SUFFICES ASSUME NEW s \in Listed, layer[s].anchored # Gone
                 PROVE  \/ rebasing[1] = layer[s].source
                        \/ layer[s].anchor \in Tracked /\ Supplier(s, layer[s].anchor) # 0
                        \/ blob[layer[s].source][layer[s].anchor] = layer[s].anchored
                        \/ ({s, layer[s].source} \X {layer[s].anchor}) \cap harmed # {}
      BY DEF AnchorsRecoverable
    <2>1. s \in Anchored /\ s # 0
      BY Basics DEF Anchored, Listed
    <2>2. CASE TracksAnchor(s)
      BY <1>1, <2>1, <2>2, TracksSupplies
    <2>3. CASE <<layer[s].source, layer[s].anchor>> \in harmed \/ Lost(s)
      BY <2>3 DEF Lost, Harmed, Key
    <2> QED BY <1>1, <2>1, <2>2, <2>3, AnchorsHold
  <1>2. IInv /\ AnchorInv => AnchorsRecoverable
    BY <1>1
  <1> QED BY <1>2, AnchorInvariance, PTL

(* What a snapshot recorded of files and anchor can be brought back until  *)
(* compaction cuts its chain, or the loss of the copy is known.            *)
THEOREM SnapshotsStayRecoverable == Spec => []SnapshotsRecoverable
  <1>1. IInv => ManifestsKept
    BY DEF IInv
  <1> QED BY <1>1, FilesStayRecoverable, AnchorsStayRecoverable, Invariance, PTL
          DEF SnapshotsRecoverable

-----------------------------------------------------------------------------
(* Restores.                                                               *)

(* What a restore makes of a file that a layer says something of.          *)
LEMMA SuppliedIsExact ==
  ASSUME FilesRecoverable, NEW s \in Listed, ~CutOff(s), ~Emptied(s), NEW p \in Tracked,
         Supplier(s, p) # 0, plan.entries[p] = RestorationEntry(s, p)
  PROVE  Restored(p) = recorded[s][p] \/ <<plan.entries[p].from, p>> \in harmed
  <1> DEFINE t == Supplier(s, p)
             e == plan.entries[p]
  <1> HIDE DEF t
  <1>1. /\ layer[t].files[p] = recorded[s][p]
        /\ blob[t][p] # recorded[s][p] => <<t, p>> \in harmed
    BY DEF FilesRecoverable, t
  <1>2. /\ e.from = t
        /\ e.kind = IF layer[t].files[p] = Gone THEN "gone" ELSE "copy"
    BY DEF RestorationEntry, t
  <1>3. CASE layer[t].files[p] = Gone
    BY <1>1, <1>2, <1>3 DEF Restored
  <1>4. CASE layer[t].files[p] # Gone
    BY <1>1, <1>2, <1>4 DEF Restored
  <1> QED BY <1>3, <1>4

(* What it makes of an anchor that no layer supplies.                      *)
LEMMA AnchorIsExact ==
  ASSUME IInv, AnchorInv, NEW s \in Listed, ~CutOff(s), NEW p \in Paths,
         p = layer[s].anchor, p \in Tracked => Supplier(s, p) = 0,
         plan.entries[p] = RestorationEntry(s, p)
  PROVE  \/ Restored(p) = layer[s].anchored
         \/ <<plan.entries[p].from, p>> \in harmed
         \/ plan.entries[p].kind = "copy" /\ rebasing[1] = plan.entries[p].from
  <1> DEFINE e == plan.entries[p]
  <1>1. e = IF layer[s].anchored = Gone THEN [kind |-> "gone", from |-> 0]
            ELSE [kind |-> "copy", from |-> layer[s].source]
    BY DEF RestorationEntry
  <1>2. CASE layer[s].anchored = Gone
    <2>1. e.kind = "gone"
      BY <1>1, <1>2
    <2> QED BY <1>2, <2>1 DEF Restored
  <1>3. CASE layer[s].anchored # Gone
    <2>1. e.kind = "copy" /\ e.from = layer[s].source
      BY <1>1, <1>3
    <2>2. s \in Anchored /\ s # 0
      BY <1>3, Basics DEF Anchored, Listed
    <2>3. ~TracksAnchor(s)
      BY <2>2, TracksSupplies
    <2>4. \/ rebasing[1] = layer[s].source
          \/ blob[layer[s].source][p] = layer[s].anchored
          \/ <<layer[s].source, p>> \in harmed
      BY <2>2, <2>3, AnchorsHold DEF Lost
    <2>5. blob[layer[s].source][p] = layer[s].anchored => Restored(p) = layer[s].anchored
      BY <1>3, <2>1 DEF Restored
    <2> QED BY <2>1, <2>4, <2>5
  <1> QED BY <1>2, <1>3

(* What it makes of a file that the snapshot says nothing of.              *)
LEMMA UnsaidIsExact ==
  ASSUME FilesRecoverable, NEW s \in Listed, ~CutOff(s), ~Emptied(s),
         NEW p \in plan.scope,
         p \in Tracked => Supplier(s, p) = 0, p # layer[s].anchor,
         plan.entries[p] = RestorationEntry(s, p)
  PROVE  \/ Remembered(s, p) = {} /\ Restored(p) = live[p]
         \/ Restored(p) \in Remembered(s, p)
         \/ plan.entries[p].kind = "none" /\ index[p] = Gone
  <1>1. plan.entries[p].kind = "none"
    BY DEF RestorationEntry, NoEntry
  <1>2. CASE p \in Tracked
    <2>1. recorded[s][p] = Gone
      BY <1>2 DEF FilesRecoverable
    <2>2. Gone \in Remembered(s, p)
      BY <1>2, <2>1 DEF Remembered
    <2>3. Unplanned(p) \/ index[p] = Gone
      BY <1>2 DEF Unplanned
    <2>4. Unplanned(p) => Restored(p) = Gone
      BY <1>1 DEF Restored
    <2> QED BY <1>1, <2>2, <2>3, <2>4
  <1>3. CASE p \notin Tracked
    <2>1. Remembered(s, p) = {}
      BY <1>3 DEF Remembered
    <2>2. ~Unplanned(p)
      BY <1>3 DEF Unplanned
    <2> QED BY <1>1, <2>1, <2>2 DEF Restored
  <1> QED BY <1>2, <1>3

(* A restore gives every file of its scope the state the snapshot has of   *)
(* it, whatever ran since the snapshot was made: captures, restores,       *)
(* rebases, collections and crashes.  It may fail to only where a copy was *)
(* harmed, or compaction or a rebase moved it under the restore.           *)
THEOREM RestoresAreExact == Spec => RestoreIsExact
  <1> DEFINE Exact(p) ==
               LET e == plan.entries[p]
               IN \/ Remembered(plan.target, p) = {} /\ live'[p] = live[p]
                  \/ live'[p] \in Remembered(plan.target, p)
                  \/ e.kind = "none" /\ index[p] = Gone
                  \/ <<e.from, p>> \in harmed
                  \/ e # RestorationEntry(plan.target, p)
                  \/ e.kind = "copy" /\ rebasing[1] = e.from
             Exactly ==
               ApplyRestore /\ plan.target \in {s \in Listed : ~CutOff(s) /\ ~Emptied(s)}
                 => \A p \in plan.scope : Exact(p)
  <1>1. ASSUME IInv, AnchorInv, FilesRecoverable PROVE Exactly
    <2> SUFFICES ASSUME ApplyRestore, NEW s \in Listed, plan.target = s,
                        ~CutOff(s), ~Emptied(s),
                        NEW p \in plan.scope, plan.entries[p] = RestorationEntry(s, p)
                 PROVE  \/ Remembered(s, p) = {} /\ live'[p] = live[p]
                        \/ live'[p] \in Remembered(s, p)
                        \/ plan.entries[p].kind = "none" /\ index[p] = Gone
                        \/ <<plan.entries[p].from, p>> \in harmed
                        \/ plan.entries[p].kind = "copy" /\ rebasing[1] = plan.entries[p].from
      OBVIOUS
    <2>1. p \in Paths
      <3>1. plan.scope \subseteq Paths
        BY <1>1 DEF IInv, TypeOK
      <3> QED BY <3>1
    <2>2. live'[p] = Restored(p)
      BY <2>1 DEF ApplyRestore
    <2>3. CASE p \in Tracked /\ Supplier(s, p) # 0
      <3>1. recorded[s][p] \in Remembered(s, p)
        BY <2>3 DEF Remembered
      <3> QED BY <1>1, <2>2, <2>3, <3>1, SuppliedIsExact
    <2>4. CASE (p \in Tracked => Supplier(s, p) = 0) /\ p = layer[s].anchor
      <3>1. layer[s].anchored \in Remembered(s, p)
        BY <2>4 DEF Remembered
      <3> QED BY <1>1, <2>1, <2>2, <2>4, <3>1, AnchorIsExact
    <2>5. CASE (p \in Tracked => Supplier(s, p) = 0) /\ p # layer[s].anchor
      BY <1>1, <2>2, <2>5, UnsaidIsExact
    <2> QED BY <2>3, <2>4, <2>5
  <1>2. IInv /\ AnchorInv /\ FilesRecoverable => [Exactly]_vars
    BY <1>1
  <1> QED BY <1>2, AnchorInvariance, FilesStayRecoverable, PTL DEF RestoreIsExact
===============================================================================
