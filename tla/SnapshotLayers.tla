--------------------------- MODULE SnapshotLayers ---------------------------
(***************************************************************************)
(* Layered snapshots of one workspace (packages/workspace-index) and the   *)
(* engine that captures, restores, compacts and collects them              *)
(* (packages/snapshot-engine).                                             *)
(*                                                                         *)
(* A snapshot is a row of the index database, with the files that changed  *)
(* since its parent, and a directory with a copy of each.  The index holds *)
(* the workspace as it was last committed.  One daemon runs everything; a  *)
(* task lets go of the event loop at an await, and only captures of an     *)
(* action or a checkpoint and garbage collection hold the engine's lock.   *)
(* A step of a task reads or writes files one after the other: what the    *)
(* properties say is said of each file on its own, so a step takes them    *)
(* all at once.  Two states of a file differ in size, mode or modification *)
(* time, which is how a scan tells them apart; modes, sizes, symbolic      *)
(* links and snapshots without layers are left out.  A write of a file is  *)
(* not atomic: what it fails in, or the end of the process, may leave a    *)
(* manifest torn; a crash comes as a step of its own.                      *)
(***************************************************************************)
EXTENDS Naturals, FiniteSets

CONSTANTS Paths,
          Tracked,        (* paths some scan may see: not always ignored   *)
          Contents,
          Gone,           (* no such file                                  *)
          Workspaces,     (* what the workspace may be like at first       *)
          Same,           (* a layer says nothing of the file              *)
          NoPath,
          KeepLast,       (* snapshots a compaction keeps (20 in the code) *)
          Anchors,        (* what a snapshot may be anchored at            *)
          Scopes,         (* sets of paths a restore is asked for          *)
          MaxSnapshots,   (* bound: directories ever made                  *)
          MaxEvents,      (* bound: edits, restores, maintenance           *)
          MaxFaults       (* bound: what fails, crashes among it           *)

ASSUME SnapshotLayersAssumption ==
  /\ Tracked \subseteq Paths
  /\ NoPath \notin Paths
  /\ Workspaces \subseteq [Paths -> Contents \cup {Gone}]
  /\ Gone \notin Contents /\ Same \notin Contents /\ Gone # Same
  /\ Anchors \subseteq Paths \cup {NoPath}
  /\ Scopes \subseteq SUBSET Paths
  /\ KeepLast \in Nat \ {0}
  /\ MaxSnapshots \in Nat
  /\ MaxEvents \in Nat /\ MaxFaults \in Nat

VARIABLES
  live,       (* the workspace                                             *)
  index,      (* file_index: the workspace as last committed               *)
  revision,   (* current_baseline_revision                                 *)
  layer,      (* rows of snapshots and snap_files                          *)
  blob,       (* the files in a snapshot's directory                       *)
  manifest,   (* the manifest there: none without a directory              *)
  made,       (* directories made so far; the next is made + 1             *)
  capture,    (* a scan on its way to become a snapshot, for each task     *)
  plan,       (* the restoration set a restore works from                  *)
  collecting, (* garbage collection runs ...                               *)
  referenced, (* ... and takes these for the referenced snapshots          *)
  removing,   (* snapshots a compaction has still to remove                *)
  rebasing,   (* anchor rebased: its snapshot and the new source           *)
  recorded,   (* what the scan of a snapshot saw (history)                 *)
  harmed,     (* copies, or with NoPath the rows of the files, that were   *)
              (* lost or spoilt in a known way (history)                   *)
  events      (* edits and so on, and faults, so far                       *)

database == <<index, revision, layer>>
tasks == <<capture, plan, collecting, referenced, removing, rebasing>>
directories == <<blob, manifest, made>>
vars == <<live, database, directories, tasks, recorded, harmed, events>>

Ids == 1..MaxSnapshots
Tasks == {"create", "restore"}
States == Contents \cup {Gone}

Layers == [listed : BOOLEAN, revision : Nat, parent : 0..MaxSnapshots,
           files : [Tracked -> States \cup {Same}],
           anchor : Paths \cup {NoPath}, anchored : States,
           source : 0..MaxSnapshots]

NoLayer == [listed |-> FALSE, revision |-> 0, parent |-> 0,
            files |-> [p \in Tracked |-> Same],
            anchor |-> NoPath, anchored |-> Gone, source |-> 0]

Captures == [pc : {"idle", "planned", "applied", "scanning", "scanned",
                   "hashed", "copied"},
             base : Nat, view : [Tracked -> States],
             files : [Tracked -> States \cup {Same}],
             anchor : Paths \cup {NoPath}, anchored : States,
             id : 0..MaxSnapshots, parent : 0..MaxSnapshots]

NothingSeen == [p \in Tracked |-> Gone]
NoFiles == [p \in Paths |-> Gone]

NoCapture == [pc |-> "idle", base |-> 0, view |-> NothingSeen,
              files |-> [p \in Tracked |-> Same], anchor |-> NoPath,
              anchored |-> Gone, id |-> 0, parent |-> 0]

(* An entry of a restoration set: nothing, a removal, or a copy from the   *)
(* directory of a snapshot.                                                *)
Entries == [kind : {"none", "gone", "copy"}, from : 0..MaxSnapshots]
NoEntry == [kind |-> "none", from |-> 0]

NoPlan == [target |-> 0, whole |-> FALSE, scope |-> {},
           entries |-> [p \in Paths |-> NoEntry]]

TypeOK ==
  /\ live \in [Paths -> States]
  /\ index \in [Tracked -> States]
  /\ revision \in Nat
  /\ layer \in [Ids -> Layers]
  /\ blob \in [Ids -> [Paths -> States]]
  /\ manifest \in [Ids -> {"none", "whole", "torn"}]
  /\ made \in 0..MaxSnapshots
  /\ capture \in [Tasks -> Captures]
  /\ plan \in [target : 0..MaxSnapshots, whole : BOOLEAN, scope : SUBSET Paths,
               entries : [Paths -> Entries]]
  /\ collecting \in BOOLEAN
  /\ referenced \subseteq Ids
  /\ collecting => capture["create"].pc = "idle"
  /\ removing \subseteq Ids
  /\ rebasing \in (0..MaxSnapshots) \X (0..MaxSnapshots)
  /\ recorded \in [Ids -> [Tracked -> States]]
  /\ harmed \subseteq Ids \X (Paths \cup {NoPath})
  /\ events \in (0..MaxEvents) \X (0..MaxFaults)

Init ==
  /\ live \in Workspaces
  /\ index = [p \in Tracked |-> Gone]
  /\ revision = 0
  /\ layer = [s \in Ids |-> NoLayer]
  /\ blob = [s \in Ids |-> NoFiles]
  /\ manifest = [s \in Ids |-> "none"]
  /\ made = 0
  /\ capture = [t \in Tasks |-> NoCapture]
  /\ plan = NoPlan
  /\ collecting = FALSE
  /\ referenced = {}
  /\ removing = {}
  /\ rebasing = <<0, 0>>
  /\ recorded = [s \in Ids |-> NothingSeen]
  /\ harmed = {}
  /\ events = <<0, 0>>

Listed == {s \in Ids : layer[s].listed}
OlderThan(s, t) == layer[s].revision < layer[t].revision

(* The snapshot of the highest revision; 0 when there is none.             *)
Newest(S) ==
  IF S = {} THEN 0 ELSE CHOOSE s \in S : \A t \in S \ {s} : OlderThan(t, s)

Event == events[1] < MaxEvents /\ events' = [events EXCEPT ![1] = @ + 1]
Fault == events[2] < MaxFaults /\ events' = [events EXCEPT ![2] = @ + 1]
FaultIf(fault) == IF fault THEN Fault ELSE UNCHANGED events

(* The workspace may be edited at any time, also in the middle of a task,  *)
(* by its user, another agent, or an action the daemon executes.           *)
Edit(p, c) ==
  /\ Event
  /\ live[p] # c
  /\ live' = [live EXCEPT ![p] = c]
  /\ UNCHANGED <<database, directories, tasks, recorded, harmed>>

-----------------------------------------------------------------------------
(* Capture: prepareScan and commitSnapshot.                                *)

Dirty(view) == [p \in Tracked |-> IF view[p] = index[p] THEN Same ELSE view[p]]

(* A scan remembers the revision first; then it walks the workspace.       *)
StartScan(t, anchor) ==
  /\ capture' = [capture EXCEPT ![t] =
                   [NoCapture EXCEPT !.pc = "scanning", !.base = revision,
                                     !.anchor = anchor]]
  /\ UNCHANGED <<live, database, directories, plan, collecting, referenced,
                 removing, rebasing, recorded, harmed, events>>

(* Faulty: a snapshot does not wait for the lock.                          *)
CreateUnlocked(anchor) ==
  /\ capture["create"].pc = "idle"
  /\ StartScan("create", anchor)

(* createSnapshot, under the lock: the anchor is the target of the action, *)
(* or nothing for a checkpoint of the whole workspace.                     *)
CreateSnapshot(anchor) ==
  /\ capture["create"].pc = "idle" /\ ~collecting
  /\ StartScan("create", anchor)

(* The restored workspace is captured in turn, without the lock.           *)
CaptureRestored ==
  /\ capture["restore"].pc = "applied"
  /\ StartScan("restore", capture["restore"].anchor)

(* What a scan may make of the workspace: a file that cannot be listed, or *)
(* that the ignore file now names, is not there; one that cannot be read   *)
(* is as the index has it.                                                 *)
Views == {view \in [Tracked -> States] :
            \A p \in Tracked : view[p] \in {live[p], Gone, index[p]}}

(* Faulty: what the scan saw is the new baseline at once.                  *)
ScanAndPromote(t, view) ==
  /\ capture[t].pc = "scanning"
  /\ FaultIf(\E p \in Tracked : view[p] # live[p])
  /\ capture' = [capture EXCEPT ![t].pc = "scanned", ![t].view = view,
                                ![t].files = Dirty(view)]
  /\ index' = view
  /\ UNCHANGED <<live, revision, layer, directories, plan, collecting,
                 referenced, removing, rebasing, recorded, harmed>>

(* What the walk finds is compared with the index, which is left as it is. *)
Scan(t, view) ==
  /\ capture[t].pc = "scanning"
  /\ FaultIf(\E p \in Tracked : view[p] # live[p])
  /\ capture' = [capture EXCEPT ![t].pc = "scanned", ![t].view = view,
                                ![t].files = Dirty(view)]
  /\ UNCHANGED <<live, database, directories, plan, collecting, referenced,
                 removing, rebasing, recorded, harmed>>

(* commitSnapshot starts with the newest snapshot and the state of the     *)
(* anchor; what cannot be read does not exist.                             *)
StatAnchor(t, state) ==
  LET anchor == capture[t].anchor
      now == IF anchor = NoPath THEN Gone ELSE live[anchor]
  IN /\ capture[t].pc = "scanned"
     /\ state \in {now, Gone}
     /\ FaultIf(state # now)
     /\ capture' = [capture EXCEPT ![t].pc = "hashed", ![t].anchored = state,
                                   ![t].parent = Newest(Listed)]
     /\ UNCHANGED <<live, database, directories, plan, collecting, referenced,
                    removing, rebasing, recorded, harmed>>

(* What is copied of the workspace: the files the scan found changed, and  *)
(* an anchor that exists when it is not among those or the removed ones.   *)
CopiedPaths(x) ==
  {p \in Paths : IF p \in Tracked /\ x.files[p] # Same THEN x.files[p] # Gone
                 ELSE p = x.anchor /\ x.anchored # Gone}

(* What the scan and the look at the anchor have noted of a file copied.   *)
Noted(x, p) ==
  (IF p \in Tracked /\ x.files[p] # Same THEN {x.files[p]} ELSE {})
    \cup (IF p = x.anchor THEN {x.anchored} ELSE {})

(* Then the files are copied, the anchor last, and a rename makes the      *)
(* directory visible.  A copy of what is not there any more fails; a copy  *)
(* of what has changed since it was noted does not.                        *)
Copy(t) ==
  LET x == capture[t]
      s == made + 1
  IN /\ x.pc = "hashed" /\ s \in Ids
     /\ \A p \in CopiedPaths(x) : live[p] \in Contents
     /\ made' = s
     /\ blob' = [blob EXCEPT ![s] =
                   [p \in Paths |-> IF p \in CopiedPaths(x) THEN live[p]
                                                            ELSE Gone]]
     /\ manifest' = [manifest EXCEPT ![s] = "whole"]
     /\ harmed' = harmed \cup
          {<<s, p>> : p \in {q \in CopiedPaths(x) : Noted(x, q) # {live[q]}}}
     /\ capture' = [capture EXCEPT ![t].pc = "copied", ![t].id = s]
     /\ UNCHANGED <<live, database, plan, collecting, referenced, removing,
                    rebasing, recorded, events>>

NewLayer(x) ==
  [listed |-> TRUE, revision |-> x.base + 1, parent |-> x.parent,
   files |-> x.files, anchor |-> x.anchor, anchored |-> x.anchored,
   source |-> IF x.anchored = Gone THEN 0 ELSE x.id]

(* The transaction at the end of commitSnapshot.                           *)
Record(x) ==
  /\ layer' = [layer EXCEPT ![x.id] = NewLayer(x)]
  /\ index' = [p \in Tracked |-> IF x.files[p] = Same THEN index[p]
                                                      ELSE x.files[p]]
  /\ revision' = x.base + 1
  /\ recorded' = [recorded EXCEPT ![x.id] = x.view]

(* Faulty: the revision is not compared.                                   *)
CommitStale(t) ==
  /\ capture[t].pc = "copied"
  /\ Record(capture[t])
  /\ capture' = [capture EXCEPT ![t] = NoCapture]
  /\ UNCHANGED <<live, directories, plan, collecting, referenced, removing,
                 rebasing, harmed, events>>

(* The index is still at the revision the scan started from.               *)
Commit(t) ==
  /\ capture[t].pc = "copied"
  /\ capture[t].base = revision
  /\ Record(capture[t])
  /\ capture' = [capture EXCEPT ![t] = NoCapture]
  /\ UNCHANGED <<live, directories, plan, collecting, referenced, removing,
                 rebasing, harmed, events>>

(* The disk is full when the manifest is written once more afterwards: the *)
(* directory is removed, the snapshot stays listed.                        *)
CommitUnwritten(t) ==
  LET x == capture[t]
  IN /\ Fault
     /\ x.pc = "copied" /\ x.base = revision
     /\ Record(x)
     /\ blob' = [blob EXCEPT ![x.id] = NoFiles]
     /\ manifest' = [manifest EXCEPT ![x.id] = "none"]
     /\ harmed' = harmed \cup ({x.id} \X Paths)
     /\ capture' = [capture EXCEPT ![t] = NoCapture]
     /\ UNCHANGED <<live, made, plan, collecting, referenced, removing,
                    rebasing>>

(* A manifest is written in place, where there is a directory for it; the  *)
(* write of one of torn is cut off.                                        *)
Written(ids, torn) ==
  [s \in Ids |-> IF s \notin ids \/ manifest[s] = "none" THEN manifest[s]
                 ELSE IF s \in torn THEN "torn" ELSE "whole"]

(* Or that write is cut off.                                               *)
CommitTorn(t) ==
  LET x == capture[t]
  IN /\ Fault
     /\ x.pc = "copied" /\ x.base = revision
     /\ Record(x)
     /\ manifest' = Written({x.id}, {x.id})
     /\ capture' = [capture EXCEPT ![t] = NoCapture]
     /\ UNCHANGED <<live, blob, made, plan, collecting, referenced, removing,
                    rebasing, harmed>>

(* The revision has moved on, or a file to copy is gone.                   *)
MustFail(x) ==
  \/ x.pc = "copied" /\ x.base # revision
  \/ x.pc = "hashed" /\ \E p \in CopiedPaths(x) : live[p] = Gone

(* Then, or with an error of the file system or the database, nothing is   *)
(* committed and the directory is removed.                                 *)
Fail(t) ==
  LET x == capture[t]
  IN /\ x.pc \in {"scanning", "scanned", "hashed", "copied"}
     /\ FaultIf(~MustFail(x))
     /\ blob' = IF x.id = 0 THEN blob ELSE [blob EXCEPT ![x.id] = NoFiles]
     /\ manifest' = IF x.id = 0 THEN manifest
                    ELSE [manifest EXCEPT ![x.id] = "none"]
     /\ harmed' = harmed \ ({x.id} \X Paths)
     /\ capture' = [capture EXCEPT ![t] = NoCapture]
     /\ UNCHANGED <<live, database, made, plan, collecting, referenced,
                    removing, rebasing, recorded>>

-----------------------------------------------------------------------------
(* Restore: restore and restoreSubset.                                     *)

(* Faulty: the oldest layer wins.                                          *)
SupplierOldest(s, p) ==
  LET last[t \in 0..MaxSnapshots] ==
        IF t = 0 THEN 0
        ELSE IF last[layer[t].parent] # 0 THEN last[layer[t].parent]
        ELSE IF layer[t].files[p] # Same THEN t ELSE 0
  IN last[s]

(* The first layer that says something of the file, from s on through its  *)
(* parents; 0 when none does.                                              *)
Supplier(s, p) ==
  LET first[t \in 0..MaxSnapshots] ==
        IF t = 0 THEN 0
        ELSE IF layer[t].files[p] # Same THEN t ELSE first[layer[t].parent]
  IN first[s]

(* buildRestorationSet: the anchor supplies a file no layer does.          *)
RestorationEntry(s, p) ==
  LET t == IF p \in Tracked THEN Supplier(s, p) ELSE 0
  IN CASE t # 0 -> [kind |-> IF layer[t].files[p] = Gone THEN "gone" ELSE "copy",
                    from |-> t]
       [] t = 0 /\ p = layer[s].anchor ->
            IF layer[s].anchored = Gone THEN [kind |-> "gone", from |-> 0]
            ELSE [kind |-> "copy", from |-> layer[s].source]
       [] OTHER -> NoEntry

(* restore takes every path, restoreSubset those that are asked for; both  *)
(* are refused when the manifest cannot be read.                           *)
PlanRestore(s, whole, scope) ==
  /\ Event
  /\ capture["restore"].pc = "idle"
  /\ s \in Listed /\ manifest[s] = "whole"
  /\ IF whole THEN scope = Paths ELSE scope \in Scopes
  /\ plan' = [target |-> s, whole |-> whole, scope |-> scope,
              entries |-> [p \in Paths |-> IF p \in scope
                                           THEN RestorationEntry(s, p)
                                           ELSE NoEntry]]
  /\ capture' = [capture EXCEPT !["restore"] =
                   [NoCapture EXCEPT !.pc = "planned",
                                     !.anchor = layer[s].anchor]]
  /\ UNCHANGED <<live, database, directories, collecting, referenced,
                 removing, rebasing, recorded, harmed>>

(* A file without an entry goes when the index has it; restoreSubset looks *)
(* at the workspace instead.                                               *)
Unplanned(p) ==
  /\ p \in Tracked \cap plan.scope
  /\ plan.whole => index[p] # Gone

(* A copy that is not in its directory is skipped.                         *)
Restored(p) ==
  LET e == plan.entries[p]
  IN CASE e.kind = "gone" -> Gone
       [] e.kind = "copy" ->
            IF blob[e.from][p] = Gone THEN live[p] ELSE blob[e.from][p]
       [] e.kind = "none" -> IF Unplanned(p) THEN Gone ELSE live[p]

ApplyRestore ==
  /\ capture["restore"].pc = "planned"
  /\ live' = [p \in Paths |-> Restored(p)]
  /\ capture' = [capture EXCEPT !["restore"].pc = "applied"]
  /\ plan' = NoPlan
  /\ UNCHANGED <<database, directories, collecting, referenced, removing,
                 rebasing, recorded, harmed, events>>

-----------------------------------------------------------------------------
(* Maintenance: garbageCollectSnapshots, compact, rebaseSyntheticAnchors.  *)

(* Under the lock: the snapshots the indexes list, or none of this         *)
(* workspace's when the job is scoped to another.                          *)
StartCollecting(ids) ==
  /\ Event
  /\ ~collecting /\ capture["create"].pc = "idle"
  /\ ids \in {Listed, {}}
  /\ collecting' = TRUE
  /\ referenced' = ids
  /\ UNCHANGED <<live, database, directories, capture, plan, removing,
                 rebasing, recorded, harmed>>

(* Every directory that is not referenced goes: also one a restore has     *)
(* made since, which may be listed by now.                                 *)
Collect ==
  LET used == Listed \cup {capture[t].id : t \in Tasks}
      doomed == Ids \ referenced
  IN /\ collecting
     /\ blob' = [s \in Ids |-> IF s \in doomed THEN NoFiles ELSE blob[s]]
     /\ manifest' = [s \in Ids |-> IF s \in doomed THEN "none" ELSE manifest[s]]
     /\ harmed' = harmed \cup ((doomed \cap used) \X Paths)
     /\ collecting' = FALSE
     /\ referenced' = {}
     /\ UNCHANGED <<live, database, made, capture, plan, removing, rebasing,
                    recorded, events>>

AnchorFrom(s, ids) ==
  layer[s].anchor # NoPath /\ layer[s].anchored # Gone /\ layer[s].source \in ids

TracksAnchor(s) ==
  layer[s].anchor \in Tracked /\ layer[s].files[layer[s].anchor] # Same

(* compact keeps the newest snapshots.                                     *)
Kept == {s \in Listed :
           Cardinality({t \in Listed : OlderThan(s, t)}) < KeepLast}
Leaving == Listed \ Kept
OldestKept == CHOOSE s \in Kept : \A t \in Kept \ {s} : OlderThan(s, t)

(* The snapshots kept whose parent, or whose source of the anchor, goes.   *)
Cut == {s \in {OldestKept} : layer[s].parent \in Leaving}
Moving == {s \in Kept : AnchorFrom(s, Leaving)}

Refilled(s) == ~TracksAnchor(s) /\ blob[s][layer[s].anchor] = Gone

(* The oldest snapshot kept loses its parent; then anchors whose source    *)
(* goes are copied and become their own source, those of moved so far.     *)
Compact(moved) ==
  /\ removing = {} /\ Leaving # {}
  /\ layer' = [s \in Ids |->
       LET row == IF s \in Cut THEN [layer[s] EXCEPT !.parent = 0] ELSE layer[s]
       IN IF s \in moved THEN [row EXCEPT !.source = s] ELSE row]
  /\ blob' = [s \in Ids |->
       IF s \in moved /\ Refilled(s)
       THEN [blob[s] EXCEPT ![layer[s].anchor] =
               blob[layer[s].source][layer[s].anchor]]
       ELSE blob[s]]
  /\ harmed' = harmed \cup
       {<<s, layer[s].anchor>> : s \in {r \in moved :
          /\ Refilled(r)
          /\ \/ <<layer[r].source, layer[r].anchor>> \in harmed
             \/ /\ layer[r].source = rebasing[1]
                /\ blob[layer[r].source][layer[r].anchor] = Gone}}
  /\ UNCHANGED <<live, index, revision, made, capture, plan, collecting,
                 referenced, rebasing, recorded>>

StartCompaction ==
  /\ Event
  /\ Compact(Moving)
  /\ \A s \in Cut \cup Moving : manifest[s] # "none"
  /\ manifest' = Written(Cut \cup Moving, {})
  /\ removing' = Leaving

(* It comes as far as the newer ones when a write fails or is cut off, and *)
(* removes nothing.                                                        *)
BreakCompaction(moved) ==
  LET last == IF moved = {} THEN Cut
              ELSE {s \in moved : \A t \in moved \ {s} : OlderThan(s, t)}
  IN /\ Fault
     /\ moved \subseteq Moving
     /\ \A s \in moved, t \in Moving : OlderThan(s, t) => t \in moved
     /\ Compact(moved)
     /\ \E torn \in SUBSET last : manifest' = Written(Cut \cup moved, torn)
     /\ removing' = {}

RemoveCompacted ==
  LET s == Newest(removing)
  IN /\ removing # {}
     /\ removing' = removing \ {s}
     /\ layer' = [layer EXCEPT ![s] = NoLayer]
     /\ blob' = [blob EXCEPT ![s] = NoFiles]
     /\ manifest' = [manifest EXCEPT ![s] = "none"]
     /\ recorded' = [recorded EXCEPT ![s] = NothingSeen]
     /\ harmed' = harmed \ ({s} \X (Paths \cup {NoPath}))
     /\ UNCHANGED <<live, index, revision, made, capture, plan, collecting,
                    referenced, rebasing, events>>

(* What is left of a compaction that ends early may be taken for a copy by *)
(* the next rebase, and then it is not the one a snapshot borrows, or is   *)
(* about to.                                                               *)
Borrowed == {s \in Listed \ removing :
               /\ removing # {} /\ layer[s].anchor \in Tracked
               /\ layer[s].source # s \/ rebasing \in {s} \X (Ids \ {s})}

(* A removal fails, the next one perhaps between its two deletes: the rows *)
(* of the files are gone and the snapshot is still listed.                 *)
StopCompaction(between) ==
  LET n == Newest(removing)
  IN /\ Fault
     /\ removing # {}
     /\ removing' = {}
     /\ layer' = IF between
                 THEN [layer EXCEPT ![n].files = [p \in Tracked |-> Same]]
                 ELSE layer
     /\ harmed' = harmed \cup {<<s, layer[s].anchor>> : s \in Borrowed}
                         \cup (IF between THEN {n} \X (Paths \cup {NoPath})
                               ELSE {})
     /\ UNCHANGED <<live, index, revision, directories, capture, plan,
                    collecting, referenced, rebasing, recorded>>

(* Faulty: anchors of one path are taken for duplicates.                   *)
SamePath(s, t) ==
  /\ layer[s].anchor = layer[t].anchor /\ layer[s].anchor # NoPath
  /\ layer[s].anchored # Gone /\ layer[t].anchored # Gone

(* anchorDeduplicationKey: duplicates agree in path and content.           *)
SameAnchor(s, t) ==
  /\ layer[s].anchor = layer[t].anchor /\ layer[s].anchor # NoPath
  /\ layer[s].anchored = layer[t].anchored /\ layer[s].anchored # Gone

(* sourceByAnchorKey when the pass over the snapshots comes to s.          *)
AnchorSource(s) ==
  LET key == layer[s].anchor
      source[t \in 0..MaxSnapshots] ==
        IF t = 0 THEN 0
        ELSE LET u == source[t - 1]
             IN CASE ~SameAnchor(t, s) -> u
                  [] SameAnchor(t, s) /\ TracksAnchor(t) -> t
                  [] OTHER -> IF u = 0 THEN (IF blob[t][key] = Gone THEN 0 ELSE t)
                              ELSE (IF blob[u][key] = Gone THEN t ELSE u)
  IN source[s - 1]

(* rebaseSyntheticAnchors: an anchor that an older snapshot t has too is   *)
(* removed from the directory of s; without one, s is its own source.      *)
DropAnchor(s) ==
  LET key == layer[s].anchor
      older == AnchorSource(s)
  IN \E t \in Ids :
       /\ Event
       /\ rebasing = <<0, 0>>
       /\ s \in Listed /\ SameAnchor(s, s) /\ ~TracksAnchor(s)
       /\ t = IF older = 0 THEN s ELSE older
       /\ blob[t][key] # Gone
       /\ layer[s].source = t => t # s /\ blob[s][key] # Gone
       /\ rebasing' = <<s, t>>
       /\ blob' = IF t = s THEN blob ELSE [blob EXCEPT ![s][key] = Gone]
       /\ UNCHANGED <<live, database, manifest, made, capture, plan,
                      collecting, referenced, removing, recorded, harmed>>

(* Then t becomes its source, unless s was compacted meanwhile; the write  *)
(* of the manifest may be cut off.                                         *)
PersistAnchorSource(torn) ==
  LET s == rebasing[1]
      t == rebasing[2]
  IN /\ rebasing # <<0, 0>>
     /\ torn \subseteq Listed \cap {s}
     /\ FaultIf(torn # {})
     /\ rebasing' = <<0, 0>>
     /\ layer' = IF s \in Listed THEN [layer EXCEPT ![s].source = t] ELSE layer
     /\ manifest' = Written(Listed \cap {s}, torn)
     /\ harmed' = IF s \in Listed /\ t \notin (Listed \ removing) \cup {s}
                  THEN harmed \cup {<<s, layer[s].anchor>>} ELSE harmed
     /\ UNCHANGED <<live, index, revision, blob, made, capture, plan,
                    collecting, referenced, removing, recorded>>

(* The daemon stops: every task is forgotten and the lock is free.         *)
Split == (Listed \cap {rebasing[1]}) \ {rebasing[2]}

Crash ==
  /\ Fault
  /\ capture' = [t \in Tasks |-> NoCapture]
  /\ plan' = NoPlan
  /\ collecting' = FALSE
  /\ referenced' = {}
  /\ removing' = {}
  /\ rebasing' = <<0, 0>>
  /\ harmed' = harmed \cup {<<s, layer[s].anchor>> : s \in Borrowed \cup Split}
  /\ UNCHANGED <<live, database, directories, recorded>>

-----------------------------------------------------------------------------
Next ==
  \/ \E p \in Paths, c \in States : Edit(p, c)
  \/ \E anchor \in Anchors : CreateSnapshot(anchor)
  \/ \E t \in Tasks :
       \/ \E view \in Views : Scan(t, view)
       \/ \E state \in States : StatAnchor(t, state)
       \/ Copy(t) \/ Commit(t) \/ CommitUnwritten(t) \/ CommitTorn(t) \/ Fail(t)
  \/ \E s \in Ids, whole \in BOOLEAN, scope \in SUBSET Paths :
       PlanRestore(s, whole, scope)
  \/ ApplyRestore \/ CaptureRestored
  \/ \E ids \in {Listed, {}} : StartCollecting(ids)
  \/ Collect \/ StartCompaction \/ RemoveCompacted
  \/ \E moved \in SUBSET Moving : BreakCompaction(moved)
  \/ \E between \in BOOLEAN : StopCompaction(between)
  \/ \E s \in Ids : DropAnchor(s)
  \/ \E torn \in SUBSET Ids : PersistAnchorSource(torn)
  \/ Crash

Spec == Init /\ [][Next]_vars

-----------------------------------------------------------------------------
(* Properties.                                                             *)

(* The index is the last committed baseline, never what some scan happened *)
(* to see: the invariant WORKSPACE-INDEX-PROPOSAL.md calls the core one.   *)
BaselineIsCommitted ==
  IF Listed = {} THEN index = [p \in Tracked |-> Gone] /\ revision = 0
  ELSE /\ index = recorded[Newest(Listed)]
       /\ revision = layer[Newest(Listed)].revision

(* Snapshots form one chain, without a fork or a gap, that compaction cuts *)
(* cleanly: a parent is listed, and one revision older.                    *)
OneChain ==
  \A s \in Listed :
    /\ layer[s].parent # 0 => /\ layer[s].parent \in Listed
                              /\ layer[s].revision = layer[layer[s].parent].revision + 1
    /\ \A t \in Listed : layer[s].revision = layer[t].revision => s = t

(* Compaction cleared a parent in the chain of s.                          *)
CutOff(s) ==
  \E r \in Listed : /\ layer[r].parent = 0 /\ layer[r].revision > 1
                    /\ layer[r].revision <= layer[s].revision

(* The rows of the files of s were lost amid its removal.                  *)
Emptied(s) == <<s, NoPath>> \in harmed

(* Until compaction cuts its chain, or has begun to remove it, a snapshot  *)
(* says of every tracked file what its scan saw, and the copy is there.    *)
FilesRecoverable ==
  \A s \in Listed, p \in Tracked :
    CutOff(s) \/ Emptied(s) \/
      LET t == Supplier(s, p)
      IN IF t = 0 THEN recorded[s][p] = Gone
         ELSE /\ layer[t].files[p] = recorded[s][p]
              /\ blob[t][p] # recorded[s][p] => <<t, p>> \in harmed

(* The anchor of a snapshot that no layer supplies keeps its copy, through *)
(* rebasing and compaction.                                                *)
AnchorsRecoverable ==
  \A s \in Listed :
    layer[s].anchored # Gone =>
      \/ rebasing[1] = layer[s].source
      \/ layer[s].anchor \in Tracked /\ Supplier(s, layer[s].anchor) # 0
      \/ blob[layer[s].source][layer[s].anchor] = layer[s].anchored
      \/ ({s, layer[s].source} \X {layer[s].anchor}) \cap harmed # {}

(* A manifest goes only with all the copies beside it.                     *)
ManifestsKept ==
  \A s \in Listed : manifest[s] = "none" => {s} \X Paths \subseteq harmed

(* What a snapshot recorded can be brought back, unless its copy was       *)
(* harmed: by an edit between the scan, or the look at the anchor, and the *)
(* copy; a disk that fills up after the commit; a collection scoped to     *)
(* another workspace or racing a restore; a rebase or a compaction that    *)
(* ends halfway, or between the two deletes of a removal; or a rebase      *)
(* racing a compaction.  A copy of what was harmed is harmed.              *)
SnapshotsRecoverable ==
  FilesRecoverable /\ AnchorsRecoverable /\ ManifestsKept

(* What a snapshot remembers of a file: what its scan saw, and for its     *)
(* anchor also what was there when it was committed.                       *)
Remembered(s, p) ==
  (IF p \in Tracked THEN {recorded[s][p]} ELSE {})
    \cup (IF p = layer[s].anchor THEN {layer[s].anchored} ELSE {})

(* A restore brings every file of its scope back to what the snapshot      *)
(* remembers, provided no compaction or rebase moved it since the restore  *)
(* was planned; a file the index does not know is left alone.              *)
RestoreIsExact ==
  [][ApplyRestore /\ plan.target \in {s \in Listed : ~CutOff(s) /\ ~Emptied(s)} =>
       \A p \in plan.scope :
         LET e == plan.entries[p]
         IN \/ Remembered(plan.target, p) = {} /\ live'[p] = live[p]
            \/ live'[p] \in Remembered(plan.target, p)
            \/ e.kind = "none" /\ index[p] = Gone
            \/ <<e.from, p>> \in harmed
            \/ e # RestorationEntry(plan.target, p)
            \/ e.kind = "copy" /\ rebasing[1] = e.from]_vars

(* What the documents plan for compaction: the removed layers are          *)
(* flattened, so that the snapshots kept restore as they did.              *)
CompactionKeepsRestores ==
  [][StartCompaction =>
       \A s \in Listed \ removing', p \in Paths :
         RestorationEntry(s, p).kind = "copy" =>
           RestorationEntry(s, p)'.kind = "copy"]_vars
=============================================================================
