----------------------- MODULE CandidateImagesProofs -----------------------
(***************************************************************************)
(* Proofs about CandidateImages, for any pinsets, trees, slots, digests,   *)
(* number of runs and edits: the shape of the state, the source cache as   *)
(* long as a rebuild and a rehearsal never ran side by side, what a        *)
(* committed deploy was built from, and which references outlive it.       *)
(***************************************************************************)
EXTENDS CandidateImages, TLAPS

\* The actions, one disjunct each.
LEMMA NextCases ==
    ASSUME Next
    PROVE  \/ EditArgs \/ (\E p \in Pinsets : Rotate(p)) \/ Rebuild \/ Rehearse
           \/ \E a \in Actors :
                 \/ Look(a) \/ Exists(a) \/ Clear(a) \/ Cleared(a)
                 \/ Fetch(a) \/ Fill(a) \/ Sync(a) \/ Place(a) \/ Stop(a)
           \/ PruneRecord \/ PruneTree \/ PrunePartial \/ Pruned
           \/ BuildApp \/ AppBuilt \/ BuildCompose \/ ComposeBuilt
           \/ Ensure \/ Ensured \/ Judge \/ Deploy \/ Converge \/ Commit
           \/ Retain \/ Retained \/ Untag \/ Finish \/ Warn
           \/ PowerFails
BY DEF Next, Sources, Materialize, Prune, Candidate, Deployment, Retention

-----------------------------------------------------------------------------
(* The shape of the state.                                                   *)
Walks == [pinset : Pinsets, index : 1..2, again : BOOLEAN]
Runs == [args : Args, images : [Slots -> Images \cup {None}], left : SUBSET Slots]
Records == [state : {"none", "in_progress", "committed"}, pinset : Pinsets, args : Args,
            images : [Slots -> Images \cup {None}]]

LEMMA Blanks ==
    /\ \A p \in Pinsets : WalkTo(p) \in Walks
    /\ \A v \in Args : RunWith(v) \in Runs
    /\ NoRecord \in Records /\ NoImages \in [Slots -> Images \cup {None}]
    /\ First \in Pinsets /\ 0 \in Args
BY PinsetAssumption DEF WalkTo, Walks, RunWith, Runs, NoRecord, Records, NoImages, Args

LEMMA TreeType ==
    ASSUME NEW s \in Slots, NEW p \in Pinsets
    PROVE  TreeOf(s, p) \in Trees /\ \E i \in 1..2 : TreeOf(s, p) = Needs[p][i]
<1>1. RoleOf[s] \in {1, 2} /\ Needs[p] \in Trees \X Trees
  BY SlotAssumption, PinsetAssumption
<1> QED BY <1>1 DEF TreeOf

LEMMA MineType ==
    ASSUME TypeOK, NEW a \in Actors
    PROVE  Mine(a) \in Trees /\ walk[a] \in Walks
<1>1. walk[a] \in Walks /\ walk[a].index \in {1, 2} /\ Needs[walk[a].pinset] \in Trees \X Trees
  BY PinsetAssumption DEF TypeOK, Walks
<1> QED BY <1>1 DEF Mine

LEMMA BuildsType ==
    ASSUME TypeOK, NEW s \in Slots, NEW v \in Args \cup {None}, NEW i \in Builds(s, v)
    PROVE  /\ i \in Images /\ i.slot = s /\ i.tree = TreeOf(s, Aim) /\ i.args = v
           /\ cache[TreeOf(s, Aim)] # None
           /\ i.whole = (cache[TreeOf(s, Aim)].tree \in {"fresh", "whole"})
           /\ i # None
<1>1. Aim \in Pinsets
  BY MineType DEF Aim, Actors, Walks
<1>2. TreeOf(s, Aim) \in Trees
  BY <1>1, TreeType
<1>3. i \in Images
  BY <1>2 DEF Builds, Images
<1> QED BY <1>3, NoneAssumption DEF Builds

LEMMA InitType == Init => TypeOK
<1> SUFFICES ASSUME Init PROVE TypeOK
  OBVIOUS
<1>1. "off" \in Steps /\ \A a \in Actors : 0 \in Nat
  BY DEF Steps
<1>2. /\ WalkTo(First) \in Walks /\ RunWith(0) \in Runs /\ NoRecord \in Records
      /\ NoImages \in [Slots -> Images \cup {None}] /\ First \in Pinsets /\ 0 \in Args
  BY Blanks
<1>3. 0 \in 0..MaxEdits
  BY BoundAssumption
<1>4. walk \in [Actors -> Walks] /\ run \in Runs /\ record \in Records
  BY <1>2 DEF Init
<1>5. tags \in [Pinsets -> [Slots -> Images \cup {None}]] /\ containers \in [Slots -> Images \cup {None}]
  BY <1>2 DEF Init
<1> QED BY <1>1, <1>2, <1>3, <1>4, <1>5 DEF Init, TypeOK, Walks, Runs, Records

LEMMA EndsType ==
    ASSUME TypeOK, NEW a \in Actors, Ends(a)
    PROVE  /\ pc' \in [Actors -> Steps] /\ part' \in [Actors -> Entries \cup {None}]
           /\ walk' \in [Actors -> Walks] /\ run' \in Runs
           /\ pc'[a] = "off" /\ part'[a] = None
           /\ \A b \in Actors \ {a} : pc'[b] = pc[b] /\ part'[b] = part[b] /\ walk'[b] = walk[b]
BY Blanks DEF TypeOK, Ends, Goto, Steps, Walks, Runs

LEMMA GotoType ==
    ASSUME TypeOK, NEW a \in Actors, NEW step \in Steps, Goto(a, step)
    PROVE  pc' \in [Actors -> Steps] /\ pc'[a] = step /\ \A b \in Actors \ {a} : pc'[b] = pc[b]
BY DEF TypeOK, Goto

LEMMA AdvanceType ==
    ASSUME TypeOK, NEW a \in Actors, Advance(a)
    PROVE  /\ pc' \in [Actors -> Steps] /\ part' \in [Actors -> Entries \cup {None}]
           /\ walk' \in [Actors -> Walks] /\ run' \in Runs
<1>1. CASE walk[a].index = 1 /\ Goto(a, "look") /\ UNCHANGED <<part, run>>
           /\ walk' = [walk EXCEPT ![a] = [pinset |-> @.pinset, index |-> 2, again |-> FALSE]]
  <2>1. pc' \in [Actors -> Steps]
    BY <1>1, GotoType DEF Steps, SourceSteps
  <2>2. [pinset |-> walk[a].pinset, index |-> 2, again |-> FALSE] \in Walks
    BY MineType DEF Walks
  <2>3. walk' \in [Actors -> Walks]
    BY <1>1, <2>2 DEF TypeOK, Walks
  <2> QED BY <1>1, <2>1, <2>3 DEF TypeOK, Runs
<1>2. CASE Goto(a, "prune") /\ UNCHANGED <<part, walk, run>>
  BY <1>2, GotoType DEF TypeOK, Steps, Walks, Runs
<1>3. CASE Ends(a)
  BY <1>3, EndsType
<1> QED BY <1>1, <1>2, <1>3 DEF Advance

LEMMA MissingType ==
    ASSUME TypeOK, NEW a \in Actors, Missing(a)
    PROVE  /\ pc' \in [Actors -> Steps] /\ part' \in [Actors -> Entries \cup {None}]
           /\ walk' \in [Actors -> Walks] /\ run' \in Runs
<1>1. CASE Goto(a, "fetch") /\ UNCHANGED <<part, walk, run>>
  BY <1>1, GotoType DEF TypeOK, Steps, SourceSteps, Walks, Runs
<1>2. CASE Ends(a)
  BY <1>2, EndsType
<1> QED BY <1>1, <1>2 DEF Missing

LEMMA EntryType ==
    ASSUME NEW e \in Entries \cup {None}, e # None
    PROVE  /\ e \in Entries
           /\ [e EXCEPT !.record = FALSE] \in Entries /\ [e EXCEPT !.record = FALSE].tree = e.tree
           /\ ~[e EXCEPT !.record = FALSE].record
           /\ \A w \in {"none", "half", "cut", "fresh", "whole"} :
                 /\ [e EXCEPT !.tree = w] \in Entries
                 /\ [e EXCEPT !.tree = w].tree = w /\ [e EXCEPT !.tree = w].record = e.record
           /\ Filled(e) \in Entries /\ Filled(e).record
           /\ Synced(e) \in Entries /\ Lost(e) \in Entries
           /\ Synced(e).record = e.record /\ Lost(e).record = e.record
           /\ Synced(e).tree = IF e.tree = "fresh" THEN "whole" ELSE e.tree
           /\ Lost(e).tree = IF e.tree = "fresh" THEN "half" ELSE e.tree
           /\ None \notin Entries
BY NoneAssumption DEF Entries, Filled, Synced, Lost

LEMMA SyncedForm ==
    ASSUME NEW e \in Entries
    PROVE  /\ Synced(e) \in Entries /\ Synced(e) # None /\ e # None
           /\ Synced(e).record = e.record
           /\ e.tree \in {"fresh", "whole"} => Synced(e).tree = "whole"
<1>1. e \in Entries \cup {None} /\ e # None
  BY NoneAssumption
<1>2. Synced(e) \in Entries /\ Synced(e).record = e.record
  BY <1>1, EntryType
<1>3. Synced(e).tree = IF e.tree = "fresh" THEN "whole" ELSE e.tree
  BY <1>1 DEF Synced, Entries
<1> QED BY <1>1, <1>2, <1>3, NoneAssumption

LEMMA EntryForm ==
    ASSUME NEW b \in BOOLEAN, NEW w \in {"none", "half", "cut", "fresh", "whole"}
    PROVE  /\ [record |-> b, tree |-> w] \in Entries /\ [record |-> b, tree |-> w] # None
           /\ [record |-> b, tree |-> w].record = b /\ [record |-> b, tree |-> w].tree = w
<1>1. [record |-> b, tree |-> w] \in Entries
  BY DEF Entries
<1> QED BY <1>1, NoneAssumption

\* The sources do not touch the rest.
LEMMA SourcesType ==
    ASSUME TypeOK, NEW a \in Actors,
           OnlySources, cache' \in [Trees -> Entries \cup {None}],
           pc' \in [Actors -> Steps], part' \in [Actors -> Entries \cup {None}],
           walk' \in [Actors -> Walks], run' \in Runs
    PROVE  TypeOK'
BY DEF TypeOK, OnlySources, host, docker, bounds, Walks, Runs

LEMMA MaterializeType ==
    ASSUME TypeOK, NEW a \in Actors, Materialize(a)
    PROVE  TypeOK'
<1> USE MineType
<1>1. ASSUME Look(a) PROVE TypeOK'
  <2>1. CASE Goto(a, "exists") /\ UNCHANGED <<part, walk, run>>
    BY <1>1, <2>1, GotoType, SourcesType DEF TypeOK, Look, Steps, SourceSteps, Walks, Runs
  <2>2. CASE Advance(a)
    BY <1>1, <2>2, AdvanceType, SourcesType DEF TypeOK, Look
  <2>3. CASE Goto(a, "clear") /\ UNCHANGED <<part, walk, run>>
    BY <1>1, <2>3, GotoType, SourcesType DEF TypeOK, Look, Steps, SourceSteps, Walks, Runs
  <2> QED BY <1>1, <2>1, <2>2, <2>3 DEF Look
<1>2. ASSUME Exists(a) PROVE TypeOK'
  <2>1. CASE Missing(a)
    BY <1>2, <2>1, MissingType, SourcesType DEF TypeOK, Exists
  <2>2. CASE Goto(a, "clear") /\ UNCHANGED <<part, walk, run>>
    BY <1>2, <2>2, GotoType, SourcesType DEF TypeOK, Exists, Steps, SourceSteps, Walks, Runs
  <2> QED BY <1>2, <2>1, <2>2 DEF Exists
<1>3. ASSUME Clear(a) PROVE TypeOK'
  <2> DEFINE e == cache[Mine(a)]
  <2>1. e \in Entries \cup {None} /\ e # None
    BY <1>3 DEF Clear, TypeOK
  <2>2. cache' \in [Trees -> Entries \cup {None}]
    <3>1. CASE cache' = [cache EXCEPT ![Mine(a)].record = FALSE]
      BY <3>1, <2>1, EntryType DEF TypeOK
    <3>2. CASE cache' = [cache EXCEPT ![Mine(a)].tree = IF @ = "none" THEN "none" ELSE "half"]
      BY <3>2, <2>1, EntryType DEF TypeOK
    <3>3. CASE cache' = [cache EXCEPT ![Mine(a)].tree = "none"]
      BY <3>3, <2>1, EntryType DEF TypeOK
    <3> QED BY <1>3, <3>1, <3>2, <3>3 DEF Clear
  <2>3. pc' \in [Actors -> Steps]
    BY <1>3, GotoType DEF Clear, Steps, SourceSteps
  <2> QED BY <1>3, <2>2, <2>3, SourcesType DEF Clear, Stays, TypeOK, Walks, Runs
<1>4. ASSUME Cleared(a) PROVE TypeOK'
  <2>1. cache' \in [Trees -> Entries \cup {None}]
    BY <1>4 DEF Cleared, TypeOK
  <2> QED BY <1>4, <2>1, MissingType, SourcesType DEF Cleared
<1>5. ASSUME Fetch(a) PROVE TypeOK'
  <2>1. pc' \in [Actors -> Steps]
    BY <1>5, GotoType DEF Fetch, Steps, SourceSteps
  <2>2. part' \in [Actors -> Entries \cup {None}]
    BY <1>5 DEF Fetch, TypeOK, Entries
  <2> QED BY <1>5, <2>1, <2>2, SourcesType DEF Fetch, Stays, TypeOK, Walks, Runs
<1>6. ASSUME Fill(a) PROVE TypeOK'
  <2>1. pc' \in [Actors -> Steps]
    BY <1>6, GotoType DEF Fill, Steps, SourceSteps
  <2>4. part[a] \in Entries \cup {None} /\ part[a] # None
    BY <1>6 DEF Fill, TypeOK
  <2>2. Filled(part[a]) \in Entries
    BY <2>4, EntryType
  <2>3. part' \in [Actors -> Entries \cup {None}]
    BY <1>6, <2>2 DEF Fill, TypeOK
  <2> QED BY <1>6, <2>1, <2>3, SourcesType DEF Fill, Stays, TypeOK, Walks, Runs
<1>7. ASSUME Sync(a) PROVE TypeOK'
  <2>1. pc' \in [Actors -> Steps]
    BY <1>7, GotoType DEF Sync, Steps, SourceSteps
  <2>2. \A e \in Entries \cup {None} : Synced(e) \in Entries \cup {None}
    BY EntryType DEF Synced
  <2>3. part' \in [Actors -> Entries \cup {None}] /\ cache' \in [Trees -> Entries \cup {None}]
    BY <1>7, <2>2 DEF Sync, TypeOK
  <2> QED BY <1>7, <2>1, <2>3, SourcesType DEF Sync, Stays, TypeOK, Walks, Runs
<1>8. ASSUME Place(a) PROVE TypeOK'
  <2>1. pc' \in [Actors -> Steps]
    BY <1>8, GotoType DEF Place, Steps, SourceSteps
  <2>2. part' \in [Actors -> Entries \cup {None}] /\ cache' \in [Trees -> Entries \cup {None}]
    BY <1>8 DEF Place, TypeOK
  <2>3. [walk[a] EXCEPT !.again = TRUE] \in Walks
    BY DEF Walks
  <2>4. walk' \in [Actors -> Walks] /\ run' \in Runs
    BY <1>8, <2>3 DEF Place, TypeOK, Walks, Runs
  <2> QED BY <1>8, <2>1, <2>2, <2>4, SourcesType DEF Place
<1> QED BY <1>1, <1>2, <1>3, <1>4, <1>5, <1>6, <1>7, <1>8 DEF Materialize

\* A step of the rebuild that stays outside the sources.
LEMMA RebuildType ==
    ASSUME TypeOK, UNCHANGED <<host, crossed, bounds>>,
           pc' \in [Actors -> Steps], walk' \in [Actors -> Walks], run' \in Runs,
           cache' \in [Trees -> Entries \cup {None}], part' \in [Actors -> Entries \cup {None}],
           tags' \in [Pinsets -> [Slots -> Images \cup {None}]], kept' \subseteq Images,
           containers' \in [Slots -> Images \cup {None}], record' \in Records,
           outcome' \in {"none", "clean", "warned"}, drifted' \in BOOLEAN
    PROVE  TypeOK'
BY DEF TypeOK, host, bounds, Walks, Runs, Records

LEMMA Unfolded ==
    ASSUME TypeOK
    PROVE  /\ pc \in [Actors -> Steps] /\ walk \in [Actors -> Walks] /\ run \in Runs
           /\ cache \in [Trees -> Entries \cup {None}] /\ part \in [Actors -> Entries \cup {None}]
           /\ tags \in [Pinsets -> [Slots -> Images \cup {None}]] /\ kept \subseteq Images
           /\ containers \in [Slots -> Images \cup {None}] /\ record \in Records
           /\ outcome \in {"none", "clean", "warned"} /\ drifted \in BOOLEAN /\ crossed \in BOOLEAN
           /\ Aim \in Pinsets /\ tags[Aim] \in [Slots -> Images \cup {None}]
           /\ "rebuild" \in Actors /\ "rehearsal" \in Actors
           /\ run.images \in [Slots -> Images \cup {None}] /\ run.left \subseteq Slots /\ run.args \in Args
BY DEF TypeOK, Walks, Runs, Records, Aim, Actors

LEMMA ProceedType ==
    ASSUME TypeOK, NEW step \in Steps, Proceed(step)
    PROVE  pc' \in [Actors -> Steps] /\ pc'["rebuild"] = step /\ pc'["rehearsal"] = pc["rehearsal"]
BY GotoType DEF Proceed, Actors

LEMMA PruneType == ASSUME TypeOK, Prune PROVE TypeOK'
<1> USE Unfolded
<1>1. ASSUME PruneRecord PROVE TypeOK'
  <2>1. PICK t \in Trees : Recorded(cache[t]) /\ cache' = [cache EXCEPT ![t].record = FALSE]
    BY <1>1 DEF PruneRecord
  <2>4. cache[t] \in Entries \cup {None} /\ cache[t] # None
    BY <2>1 DEF Recorded
  <2>2. [cache[t] EXCEPT !.record = FALSE] \in Entries
    BY <2>4, EntryType
  <2>3. cache' \in [Trees -> Entries \cup {None}]
    BY <2>1, <2>2
  <2> QED BY <1>1, <2>3, RebuildType DEF PruneRecord, Mover, Fixed, docker
<1>2. ASSUME PruneTree PROVE TypeOK'
  <2>1. PICK t \in Trees :
           /\ cache[t] # None
           /\ cache' \in {[cache EXCEPT ![t] = None], [cache EXCEPT ![t].tree = "half"]}
    BY <1>2 DEF PruneTree
  <2>4. cache[t] \in Entries \cup {None}
    OBVIOUS
  <2>2. [cache[t] EXCEPT !.tree = "half"] \in Entries
    BY <2>1, <2>4, EntryType
  <2>3. cache' \in [Trees -> Entries \cup {None}]
    BY <2>1, <2>2
  <2> QED BY <1>2, <2>3, RebuildType DEF PruneTree, Mover, Fixed, docker
<1>3. ASSUME PrunePartial PROVE TypeOK'
  <2>1. [record |-> FALSE, tree |-> "cut"] \in Entries
    BY DEF Entries
  <2>2. part' \in [Actors -> Entries \cup {None}]
    BY <1>3, <2>1 DEF PrunePartial
  <2> QED BY <1>3, <2>2, RebuildType DEF PrunePartial, Mover, Fixed, docker
<1>4. ASSUME Pruned PROVE TypeOK'
  <2>1. pc' \in [Actors -> Steps]
    BY <1>4, ProceedType DEF Pruned, Steps
  <2>2. run' \in Runs
    BY <1>4 DEF Pruned, Runs, Slots
  <2> QED BY <1>4, <2>1, <2>2, RebuildType DEF Pruned, Mover, Fixed, docker
<1> QED BY <1>1, <1>2, <1>3, <1>4 DEF Prune

\* What a build changes.
LEMMA BuildType ==
    ASSUME TypeOK, NEW s \in Slots, NEW i \in Images, Build(s, i)
    PROVE  /\ run' \in Runs /\ tags' \in [Pinsets -> [Slots -> Images \cup {None}]]
           /\ run'.left = run.left \ {s} /\ run'.args = run.args /\ run'.images = run.images
           /\ tags'[Aim][s] = i
           /\ \A p \in Pinsets, r \in Slots : p # Aim \/ r # s => tags'[p][r] = tags[p][r]
<1>1. run' = [run EXCEPT !.left = run.left \ {s}] /\ run \in Runs
  BY Unfolded DEF Build
<1>2. run' \in Runs /\ run'.left = run.left \ {s} /\ run'.args = run.args /\ run'.images = run.images
  BY <1>1 DEF Runs
<1>3. tags' = [tags EXCEPT ![Aim] = [tags[Aim] EXCEPT ![s] = i]]
  BY DEF Build
<1>4. [tags[Aim] EXCEPT ![s] = i] \in [Slots -> Images \cup {None}]
  BY Unfolded
<1>5. /\ tags' \in [Pinsets -> [Slots -> Images \cup {None}]]
      /\ tags'[Aim] = [tags[Aim] EXCEPT ![s] = i]
      /\ \A p \in Pinsets : p # Aim => tags'[p] = tags[p]
  BY <1>3, <1>4, Unfolded
<1> QED BY <1>2, <1>5, Unfolded

LEMMA CandidateType == ASSUME TypeOK, Candidate PROVE TypeOK'
<1> USE Unfolded
<1>1. ASSUME BuildApp PROVE TypeOK'
  <2>1. PICK s \in AppSlots : \E i \in Builds(s, None) : Build(s, i)
    BY <1>1 DEF BuildApp
  <2>2. PICK i \in Images : Build(s, i)
    BY <2>1, BuildsType DEF Slots
  <2>3. run' \in Runs /\ tags' \in [Pinsets -> [Slots -> Images \cup {None}]]
    BY <2>2, BuildType DEF Slots
  <2> QED BY <1>1, <2>2, <2>3, RebuildType DEF BuildApp, Mover, Build, sources
<1>2. ASSUME BuildCompose PROVE TypeOK'
  <2>1. PICK s \in ComposeSlots : \E i \in Builds(s, run.args) : Build(s, i)
    BY <1>2 DEF BuildCompose
  <2>2. PICK i \in Images : Build(s, i)
    BY <2>1, BuildsType DEF Slots
  <2>3. run' \in Runs /\ tags' \in [Pinsets -> [Slots -> Images \cup {None}]]
    BY <2>2, BuildType DEF Slots
  <2>4. drifted' \in BOOLEAN
    BY <1>2 DEF BuildCompose
  <2> QED BY <1>2, <2>2, <2>3, <2>4, RebuildType DEF BuildCompose, Mover, Build, sources
<1>3. ASSUME AppBuilt PROVE TypeOK'
  <2>1. pc' \in [Actors -> Steps]
    BY <1>3, ProceedType DEF AppBuilt, Steps
  <2>3. {s \in ComposeSlots : Stale(s)} \subseteq Slots
    BY DEF Slots
  <2>2. run' \in Runs
    BY <1>3, <2>3 DEF AppBuilt, Runs
  <2> QED BY <1>3, <2>1, <2>2, RebuildType DEF AppBuilt, Mover, Fixed, docker, sources
<1>4. ASSUME ComposeBuilt PROVE TypeOK'
  <2>1. pc' \in [Actors -> Steps]
    BY <1>4, ProceedType DEF ComposeBuilt, Steps
  <2>3. run' = [run EXCEPT !.images = tags[Aim]]
    BY <1>4 DEF ComposeBuilt
  <2>2. run' \in Runs
    BY <2>3 DEF Runs
  <2> QED BY <1>4, <2>1, <2>2, RebuildType DEF ComposeBuilt, Mover, Fixed, docker, sources
<1> QED BY <1>1, <1>2, <1>3, <1>4 DEF Candidate

LEMMA RebuildEnds ==
    ASSUME TypeOK, Ends("rebuild")
    PROVE  /\ pc' \in [Actors -> Steps] /\ part' \in [Actors -> Entries \cup {None}]
           /\ walk' \in [Actors -> Walks] /\ run' \in Runs /\ pc'["rebuild"] = "off"
           /\ pc'["rehearsal"] = pc["rehearsal"]
BY EndsType, Unfolded

LEMMA UpType ==
    ASSUME TypeOK, NEW step \in Steps, NEW next \in Steps, Up(step, next)
    PROVE  TypeOK' /\ containers' \in Ups
<1> USE Unfolded
<1>1. CASE containers' = run.images /\ Proceed(next) /\ UNCHANGED <<run, part, walk>>
  <2>1. pc' \in [Actors -> Steps] /\ containers' \in [Slots -> Images \cup {None}]
    BY <1>1, ProceedType
  <2> QED BY <1>1, <2>1, RebuildType DEF Up, Mover, Ups
<1>2. CASE containers' \in Ups /\ Ends("rebuild")
  <2>1. containers' \in [Slots -> Images \cup {None}]
    BY <1>2 DEF Ups
  <2> QED BY <1>2, <2>1, RebuildEnds, RebuildType DEF Up, Mover
<1> QED BY <1>1, <1>2 DEF Up

LEMMA WantedType == ASSUME TypeOK PROVE Wanted \subseteq Images
BY Unfolded DEF Wanted, Names

LEMMA DeploymentType == ASSUME TypeOK, Deployment PROVE TypeOK'
<1> USE Unfolded
<1>1. ASSUME Ensure PROVE TypeOK'
  BY <1>1, WantedType, RebuildType DEF Ensure, Mover, sources
<1>2. ASSUME Ensured PROVE TypeOK'
  <2>1. pc' \in [Actors -> Steps]
    BY <1>2, ProceedType DEF Ensured, Steps
  <2> QED BY <1>2, <2>1, RebuildType DEF Ensured, Mover, Fixed, docker, sources
<1>3. ASSUME Judge PROVE TypeOK'
  <2>1. pc' \in [Actors -> Steps]
    BY <1>3, ProceedType DEF Judge, Steps
  <2>2. record' \in Records
    BY <1>3, Blanks DEF Judge, Records
  <2> QED BY <1>3, <2>1, <2>2, RebuildType DEF Judge, Mover, docker, sources
<1>4. ASSUME Deploy PROVE TypeOK'
  BY <1>4, UpType DEF Deploy, Steps
<1>5. ASSUME Converge PROVE TypeOK'
  BY <1>5, UpType DEF Converge, Steps
<1>6. ASSUME Commit PROVE TypeOK'
  <2>1. pc' \in [Actors -> Steps]
    BY <1>6, ProceedType DEF Commit, Steps
  <2>2. record' \in Records
    BY <1>6 DEF Commit, Records
  <2> QED BY <1>6, <2>1, <2>2, RebuildType DEF Commit, Mover, docker, sources
<1> QED BY <1>1, <1>2, <1>3, <1>4, <1>5, <1>6 DEF Deployment

\* What the removal of a tag changes.
LEMMA UntagType ==
    ASSUME TypeOK, NEW p \in Pinsets, NEW s \in Slots, tags' = [tags EXCEPT ![p][s] = None]
    PROVE  /\ tags' \in [Pinsets -> [Slots -> Images \cup {None}]] /\ tags'[p][s] = None
           /\ \A q \in Pinsets \ {p} : tags'[q] = tags[q]
           /\ \A r \in Slots \ {s} : tags'[p][r] = tags[p][r]
<1>1. [tags[p] EXCEPT ![s] = None] \in [Slots -> Images \cup {None}]
  BY Unfolded
<1> QED BY <1>1, Unfolded

LEMMA RetentionType == ASSUME TypeOK, Retention PROVE TypeOK'
<1> USE Unfolded
<1>1. ASSUME Retain PROVE TypeOK'
  BY <1>1, RebuildType DEF Retain, Mover, sources
<1>2. ASSUME Retained PROVE TypeOK'
  <2>1. pc' \in [Actors -> Steps]
    BY <1>2, ProceedType DEF Retained, Steps
  <2> QED BY <1>2, <2>1, RebuildType DEF Retained, Mover, Fixed, docker, sources
<1>3. ASSUME Untag PROVE TypeOK'
  <2>1. tags' \in [Pinsets -> [Slots -> Images \cup {None}]]
    BY <1>3, UntagType DEF Untag
  <2> QED BY <1>3, <2>1, RebuildType DEF Untag, Mover, sources
<1>4. ASSUME Finish PROVE TypeOK'
  BY <1>4, RebuildEnds, RebuildType DEF Finish, Mover, docker
<1>5. ASSUME Warn PROVE TypeOK'
  BY <1>5, RebuildEnds, RebuildType DEF Warn, Mover, docker
<1> QED BY <1>1, <1>2, <1>3, <1>4, <1>5 DEF Retention

LEMMA OperatorType ==
    ASSUME TypeOK, EditArgs \/ (\E p \in Pinsets : Rotate(p)) \/ Rebuild \/ Rehearse
    PROVE  TypeOK'
<1> USE Unfolded
<1>1. ASSUME Edit PROVE edits' \in 0..MaxEdits
  BY <1>1, BoundAssumption DEF Edit, TypeOK
<1>2. ASSUME EditArgs PROVE TypeOK'
  <2>1. args' \in Args
    BY <1>2 DEF EditArgs, TypeOK, Args
  <2> QED BY <1>1, <1>2, <2>1 DEF EditArgs, Edit, TypeOK, sources, docker
<1>3. ASSUME NEW p \in Pinsets, Rotate(p) PROVE TypeOK'
  BY <1>1, <1>3 DEF Rotate, Edit, TypeOK, sources, docker
<1>4. ASSUME NEW a \in Actors, Start(a)
      PROVE  /\ pc' \in [Actors -> Steps] /\ walk' \in [Actors -> Walks]
             /\ crossed' \in BOOLEAN /\ runs' \in [Actors -> Nat]
             /\ UNCHANGED <<pinned, args, cache, part, tags, kept, containers, record, drifted, edits>>
  <2>1. pc' \in [Actors -> Steps]
    BY <1>4, GotoType DEF Start, Steps, SourceSteps
  <2>2. WalkTo(pinned) \in Walks
    BY Blanks DEF TypeOK
  <2>3. runs' \in [Actors -> Nat]
    BY <1>4 DEF Start, TypeOK
  <2> QED BY <1>4, <2>1, <2>2, <2>3 DEF Start, host, docker
<1>5. ASSUME Rebuild PROVE TypeOK'
  <2>1. run' \in Runs
    BY <1>5, Blanks DEF Rebuild, TypeOK
  <2> QED BY <1>4, <1>5, <2>1 DEF Rebuild, TypeOK, Runs, Walks
<1>6. ASSUME Rehearse PROVE TypeOK'
  BY <1>4, <1>6 DEF Rehearse, TypeOK, Walks
<1> QED BY <1>2, <1>3, <1>5, <1>6

LEMMA CrashType ==
    ASSUME TypeOK, PowerFails \/ \E a \in Actors : Stop(a)
    PROVE  TypeOK'
<1> USE Unfolded
<1>1. ASSUME NEW a \in Actors, Stop(a) PROVE TypeOK'
  BY <1>1, EndsType DEF Stop, Crash, TypeOK, host, docker, bounds, Walks, Runs
<1>2. ASSUME PowerFails PROVE TypeOK'
  <2>1. \A e \in Entries \cup {None} : Lost(e) \in Entries \cup {None}
    BY EntryType DEF Lost
  <2>2. /\ cache' \in [Trees -> Entries \cup {None}] /\ part' \in [Actors -> Entries \cup {None}]
        /\ pc' \in [Actors -> Steps]
    BY <1>2, <2>1 DEF PowerFails, Steps
  <2>3. walk' \in [Actors -> Walks] /\ run' \in Runs
    BY <1>2, Blanks DEF PowerFails
  <2> QED BY <1>2, <2>2, <2>3 DEF PowerFails, Crash, TypeOK, host, docker, bounds, Walks, Runs
<1> QED BY <1>1, <1>2

LEMMA TypeStep == ASSUME TypeOK, [Next]_vars PROVE TypeOK'
<1>1. CASE Next
  BY <1>1, OperatorType, MaterializeType, PruneType, CandidateType, DeploymentType,
     RetentionType, CrashType DEF Next, Sources
<1>2. CASE UNCHANGED vars
  BY <1>2 DEF TypeOK, vars, host, sources, docker, bounds
<1> QED BY <1>1, <1>2

\* Every variable stays in its type.
THEOREM TypeCorrect == Spec => []TypeOK
BY InitType, TypeStep, PTL DEF Spec

-----------------------------------------------------------------------------
(* The source cache.                                                         *)

\* Who is off fills no directory, and a rehearsal only materializes.
Own == /\ \A a \in Actors : At(a, "off") => part[a] = None
       /\ pc["rehearsal"] \in SourceSteps \cup {"off"}

\* What an actor who is alone knows at each of its steps.
Mid(a) ==
    /\ At(a, "fill") => part[a] = [record |-> FALSE, tree |-> "half"]
    /\ At(a, "sync") => part[a] = [record |-> TRUE, tree |-> "fresh"]
    /\ At(a, "place") => part[a] = [record |-> TRUE, tree |-> "whole"]
    /\ pc[a] \in {"exists", "clear", "clearing", "fetch", "fill", "sync"} => ~Recorded(cache[Mine(a)])
    /\ pc[a] \in SourceSteps /\ walk[a].index = 2 => Recorded(cache[Needs[walk[a].pinset][1]])
    /\ pc[a] \in {"prune", "app", "compose"} =>
          Recorded(cache[Needs[walk[a].pinset][1]]) /\ Recorded(cache[Needs[walk[a].pinset][2]])
One == pc["rebuild"] = "off" \/ pc["rehearsal"] = "off"
Clean == One /\ NamedSourcesAreWhole /\ \A a \in Actors : Mid(a)
SourcesInv == Own /\ (~crossed => Clean)

LEMMA OffIsMid == ASSUME NEW a \in Actors, pc[a] = "off" PROVE Mid(a)
BY DEF Mid, At, SourceSteps

LEMMA OwnStep ==
    ASSUME TypeOK, Own, NEW a \in Actors,
           \A b \in Actors \ {a} : pc'[b] = pc[b] /\ part'[b] = part[b],
           pc'[a] = "off" => part'[a] = None,
           a = "rehearsal" => pc'[a] \in SourceSteps \cup {"off"}
    PROVE  Own'
BY DEF Own, At, Actors

\* After a step of the one who is alone.
LEMMA CleanStep ==
    ASSUME TypeOK, Own, Clean, NEW a \in Actors, pc[a] # "off",
           \A b \in Actors \ {a} : pc'[b] = pc[b],
           NamedSourcesAreWhole', Mid(a)'
    PROVE  Clean'
<1>1. \A b \in Actors \ {a} : pc'[b] = "off"
  BY DEF Clean, One, Actors
<1>2. ASSUME NEW b \in Actors, b # a PROVE Mid(b)'
  BY <1>1, <1>2 DEF Mid, At, SourceSteps
<1>3. One'
  BY <1>1 DEF One, Actors
<1> QED BY <1>2, <1>3 DEF Clean

LEMMA InitSources == Init => SourcesInv
<1> SUFFICES ASSUME Init PROVE SourcesInv
  OBVIOUS
<1>1. \A a \in Actors : pc[a] = "off" /\ part[a] = None
  BY DEF Init
<1>2. \A t \in Trees : cache[t] = None
  BY DEF Init
<1>3. Own /\ One
  BY <1>1 DEF Own, One, At, Actors
<1>4. NamedSourcesAreWhole
  BY <1>2 DEF NamedSourcesAreWhole, Recorded
<1> QED BY <1>1, <1>3, <1>4, OffIsMid DEF SourcesInv, Clean

\* A step that leaves the sources and every program counter alone.
LEMMA SourcesStay ==
    ASSUME SourcesInv, UNCHANGED <<cache, part, walk, pc, crossed>>
    PROVE  SourcesInv'
<1>1. Own'
  BY DEF SourcesInv, Own, At
<1>2. ASSUME Clean PROVE Clean'
  BY <1>2 DEF Clean, One, NamedSourcesAreWhole, Mid, At, Mine
<1> QED BY <1>1, <1>2 DEF SourcesInv

LEMMA EndsSources ==
    ASSUME TypeOK, SourcesInv, NEW a \in Actors, Ends(a), UNCHANGED crossed,
           pc[a] # "off",
           ~crossed => NamedSourcesAreWhole'
    PROVE  SourcesInv'
<1>1. /\ pc'[a] = "off" /\ part'[a] = None
      /\ \A b \in Actors \ {a} : pc'[b] = pc[b] /\ part'[b] = part[b]
  BY EndsType
<1>2. Own'
  BY <1>1, OwnStep DEF SourcesInv
<1>3. ASSUME ~crossed PROVE Clean'
  <2>1. \A b \in Actors \ {a} : pc'[b] = "off"
    BY <1>1, <1>3 DEF SourcesInv, Clean, One, Actors
  <2>2. \A b \in Actors : pc'[b] = "off"
    BY <2>1, <1>1
  <2>3. \A b \in Actors : Mid(b)'
    BY <2>2 DEF Mid, At, SourceSteps
  <2> QED BY <1>3, <2>2, <2>3 DEF Clean, One, Actors
<1> QED BY <1>2, <1>3 DEF SourcesInv

\* An actor at a step of its own is the one who is alone, its walk is its.
LEMMA AloneFacts ==
    ASSUME TypeOK, SourcesInv, ~crossed, NEW a \in Actors
    PROVE  /\ Mid(a) /\ NamedSourcesAreWhole /\ Own
           /\ walk[a] \in Walks /\ Mine(a) \in Trees /\ walk[a].index \in {1, 2}
           /\ Needs[walk[a].pinset][1] \in Trees /\ Needs[walk[a].pinset][2] \in Trees
           /\ Mine(a) = Needs[walk[a].pinset][walk[a].index]
<1>1. walk[a] \in Walks /\ Mine(a) \in Trees
  BY MineType
<1>2. walk[a].index \in {1, 2} /\ Needs[walk[a].pinset] \in Trees \X Trees
  BY <1>1, PinsetAssumption DEF Walks
<1> QED BY <1>1, <1>2 DEF SourcesInv, Clean, Mine

\* A step of the materialization: what is left to show of it.
LEMMA SourceMove ==
    ASSUME TypeOK, SourcesInv, NEW a \in Actors, pc[a] # "off",
           NEW next \in SourceSteps, Goto(a, next), UNCHANGED crossed,
           \A b \in Actors \ {a} : part'[b] = part[b] \/ part'[b] = Synced(part[b]),
           ~crossed => NamedSourcesAreWhole' /\ Mid(a)'
    PROVE  SourcesInv'
<1>1. pc' \in [Actors -> Steps] /\ pc'[a] = next /\ \A b \in Actors \ {a} : pc'[b] = pc[b]
  BY GotoType DEF Steps
<1>2. next # "off"
  BY DEF SourceSteps
<1>3. ASSUME NEW b \in Actors, pc'[b] = "off" PROVE part'[b] = None
  BY <1>1, <1>2, <1>3 DEF SourcesInv, Own, At, Synced
<1>4. Own'
  BY <1>1, <1>3 DEF SourcesInv, Own, At, Actors
<1>5. ASSUME ~crossed PROVE Clean'
  BY <1>1, <1>5, CleanStep DEF SourcesInv
<1> QED BY <1>4, <1>5 DEF SourcesInv

LEMMA AdvanceSources ==
    ASSUME TypeOK, SourcesInv, NEW a \in Actors, pc[a] \in SourceSteps, Advance(a), UNCHANGED <<cache, crossed>>,
           ~crossed => Recorded(cache[Mine(a)])
    PROVE  SourcesInv'
<1>1. CASE walk[a].index = 1 /\ Goto(a, "look") /\ UNCHANGED <<part, run>>
           /\ walk' = [walk EXCEPT ![a] = [pinset |-> @.pinset, index |-> 2, again |-> FALSE]]
  <2>1. "look" \in SourceSteps /\ pc[a] # "off"
    BY DEF SourceSteps
  <2>2. pc'[a] = "look"
    BY <1>1, GotoType DEF Steps, SourceSteps
  <2>3. walk'[a].index = 2 /\ walk'[a].pinset = walk[a].pinset
    BY <1>1 DEF TypeOK
  <2>4. ASSUME ~crossed PROVE NamedSourcesAreWhole' /\ Mid(a)'
    <3>1. Recorded(cache[Needs[walk[a].pinset][1]])
      BY <2>4, <1>1 DEF Mine
    <3> QED BY <2>2, <2>3, <2>4, <3>1, AloneFacts DEF NamedSourcesAreWhole, Mid, At, Recorded
  <2> QED BY <1>1, <2>1, <2>4, SourceMove
<1>2. CASE walk[a].index = 2 /\ a = "rebuild" /\ Goto(a, "prune") /\ UNCHANGED <<part, walk, run>>
  <2>1. pc'[a] = "prune" /\ \A b \in Actors \ {a} : pc'[b] = pc[b]
    BY <1>2, GotoType DEF Steps
  <2>2. Own'
    BY <1>2, <2>1, OwnStep DEF SourcesInv
  <2>3. ASSUME ~crossed PROVE Clean'
    <3>1. Mid(a)'
      BY <1>2, <2>1, <2>3, AloneFacts DEF Mid, At, Recorded, Mine, SourceSteps
    <3>2. NamedSourcesAreWhole' /\ pc[a] # "off"
      BY <2>3, AloneFacts DEF NamedSourcesAreWhole, Recorded, SourceSteps
    <3> QED BY <2>1, <2>3, <3>1, <3>2, CleanStep DEF SourcesInv
  <2> QED BY <2>2, <2>3 DEF SourcesInv
<1>3. CASE Ends(a)
  BY <1>3, EndsSources, AloneFacts DEF NamedSourcesAreWhole, Recorded, SourceSteps
<1> QED BY <1>1, <1>2, <1>3 DEF Advance

LEMMA MissingSources ==
    ASSUME TypeOK, SourcesInv, NEW a \in Actors, pc[a] \in SourceSteps, Missing(a), UNCHANGED crossed,
           ~crossed => /\ NamedSourcesAreWhole' /\ ~Recorded(cache'[Mine(a)])
                       /\ \A t \in Trees : Recorded(cache[t]) => cache'[t] = cache[t]
    PROVE  SourcesInv'
<1>1. CASE Goto(a, "fetch") /\ UNCHANGED <<part, walk, run>>
  <2>1. "fetch" \in SourceSteps /\ pc[a] # "off"
    BY DEF SourceSteps
  <2>2. pc'[a] = "fetch"
    BY <1>1, GotoType DEF Steps, SourceSteps
  <2>3. ASSUME ~crossed PROVE Mid(a)'
    <3>1. walk[a].index = 2 => Recorded(cache[Needs[walk[a].pinset][1]])
      BY <2>3, AloneFacts DEF Mid
    <3>2. walk[a].index = 2 => Recorded(cache'[Needs[walk[a].pinset][1]])
      BY <2>3, <3>1, AloneFacts
    <3> QED BY <1>1, <2>2, <2>3, <3>2 DEF Mid, At, Recorded, Mine
  <2> QED BY <1>1, <2>1, <2>3, SourceMove
<1>2. CASE Ends(a)
  BY <1>2, EndsSources DEF SourceSteps
<1> QED BY <1>1, <1>2 DEF Missing

LEMMA LookSources ==
    ASSUME TypeOK, SourcesInv, NEW a \in Actors, Look(a)
    PROVE  SourcesInv'
<1>1. /\ pc[a] = "look" /\ "look" \in SourceSteps /\ "exists" \in SourceSteps /\ "clear" \in SourceSteps
      /\ pc[a] # "off" /\ UNCHANGED <<cache, crossed>>
  BY DEF Look, At, OnlySources, SourceSteps
<1>2. ~crossed => (Recorded(cache[Mine(a)]) => cache[Mine(a)].tree = "whole")
  BY AloneFacts DEF NamedSourcesAreWhole
<1>3. CASE ~Recorded(cache[Mine(a)]) /\ Goto(a, "exists") /\ UNCHANGED <<part, walk, run>>
  <2>1. pc'[a] = "exists"
    BY <1>3, GotoType DEF Steps, SourceSteps
  <2>2. ASSUME ~crossed PROVE NamedSourcesAreWhole' /\ Mid(a)'
    <3>1. Mid(a) /\ NamedSourcesAreWhole
      BY <2>2, AloneFacts
    <3> QED BY <1>1, <1>3, <2>1, <3>1 DEF Mid, At, Recorded, Mine, NamedSourcesAreWhole
  <2> QED BY <1>1, <1>3, <2>2, SourceMove
<1>4. CASE Recorded(cache[Mine(a)]) /\ Advance(a)
  BY <1>1, <1>4, AdvanceSources
<1>5. CASE Recorded(cache[Mine(a)]) /\ cache[Mine(a)].tree = "none"
           /\ Goto(a, "clear") /\ UNCHANGED <<part, walk, run>>
  BY <1>1, <1>2, <1>5, SourceMove
<1> QED BY <1>3, <1>4, <1>5 DEF Look

LEMMA ExistsSources ==
    ASSUME TypeOK, SourcesInv, NEW a \in Actors, Exists(a)
    PROVE  SourcesInv'
<1>1. /\ pc[a] = "exists" /\ pc[a] \in SourceSteps /\ "clear" \in SourceSteps
      /\ pc[a] # "off" /\ UNCHANGED <<cache, crossed>>
  BY DEF Exists, At, OnlySources, SourceSteps
<1>2. ASSUME ~crossed PROVE Mid(a) /\ NamedSourcesAreWhole /\ ~Recorded(cache[Mine(a)])
  BY <1>1, <1>2, AloneFacts DEF Mid
<1>3. NamedSourcesAreWhole => NamedSourcesAreWhole'
  BY <1>1 DEF NamedSourcesAreWhole, Recorded
<1>4. CASE Missing(a)
  BY <1>1, <1>2, <1>3, <1>4, MissingSources
<1>5. CASE Goto(a, "clear") /\ UNCHANGED <<part, walk, run>>
  <2>1. pc'[a] = "clear"
    BY <1>5, GotoType DEF Steps, SourceSteps
  <2>2. ASSUME ~crossed PROVE Mid(a)'
    BY <1>1, <1>2, <1>5, <2>1, <2>2 DEF Mid, At, Recorded, Mine
  <2> QED BY <1>1, <1>2, <1>3, <1>5, <2>2, SourceMove
<1> QED BY <1>4, <1>5 DEF Exists

\* What has no record is nobody's source, whatever becomes of it.
LEMMA UnrecordedMayChange ==
    ASSUME TypeOK, NEW t \in Trees, NEW e, ~Recorded(cache[t]), ~Recorded(e), cache' = [cache EXCEPT ![t] = e]
    PROVE  /\ NamedSourcesAreWhole => NamedSourcesAreWhole'
           /\ \A u \in Trees : Recorded(cache[u]) => cache'[u] = cache[u]
           /\ ~Recorded(cache'[t])
<1>1. cache'[t] = e /\ \A u \in Trees \ {t} : cache'[u] = cache[u]
  BY DEF TypeOK
<1>2. \A u \in Trees : Recorded(cache[u]) => cache'[u] = cache[u]
  BY <1>1
<1>3. \A u \in Trees : Recorded(cache'[u]) => cache'[u] = cache[u] /\ Recorded(cache[u])
  BY <1>1
<1> QED BY <1>1, <1>2, <1>3 DEF NamedSourcesAreWhole, Recorded

LEMMA ClearSources ==
    ASSUME TypeOK, SourcesInv, NEW a \in Actors, Clear(a)
    PROVE  SourcesInv'
<1> DEFINE e == cache[Mine(a)]
<1>1. /\ pc[a] = "clear" /\ pc[a] # "off" /\ "clearing" \in SourceSteps
      /\ Goto(a, "clearing") /\ UNCHANGED <<part, walk, run, crossed>> /\ e # None
  BY DEF Clear, At, OnlySources, SourceSteps, Stays
<1>2. pc'[a] = "clearing"
  BY <1>1, GotoType DEF Steps, SourceSteps
<1>3. ASSUME ~crossed PROVE NamedSourcesAreWhole' /\ Mid(a)'
  <2>1. Mid(a) /\ NamedSourcesAreWhole /\ Mine(a) \in Trees
    BY <1>3, AloneFacts
  <2>2. ~Recorded(e)
    BY <1>1, <2>1 DEF Mid
  <2>3. e \in Entries \cup {None}
    BY <2>1 DEF TypeOK
  <2>4. /\ ~Recorded([e EXCEPT !.record = FALSE]) /\ ~Recorded([e EXCEPT !.tree = "none"])
        /\ ~Recorded([e EXCEPT !.tree = "half"])
    BY <1>1, <2>2, <2>3, EntryType DEF Recorded
  <2>5. PICK f : cache' = [cache EXCEPT ![Mine(a)] = f] /\ ~Recorded(f)
    <3>1. CASE cache' = [cache EXCEPT ![Mine(a)].record = FALSE]
      BY <2>4, <3>1
    <3>2. CASE cache' = [cache EXCEPT ![Mine(a)].tree = IF @ = "none" THEN "none" ELSE "half"]
      <4>1. CASE e.tree = "none"
        BY <2>4, <3>2, <4>1
      <4>2. CASE e.tree # "none"
        BY <2>4, <3>2, <4>2
      <4> QED BY <4>1, <4>2
    <3>3. CASE cache' = [cache EXCEPT ![Mine(a)].tree = "none"]
      BY <2>4, <3>3
    <3> QED BY <3>1, <3>2, <3>3 DEF Clear
  <2>6. /\ NamedSourcesAreWhole' /\ ~Recorded(cache'[Mine(a)])
        /\ \A u \in Trees : Recorded(cache[u]) => cache'[u] = cache[u]
    BY <2>1, <2>2, <2>5, UnrecordedMayChange
  <2>7. walk[a].index = 2 => Recorded(cache'[Needs[walk[a].pinset][1]])
    BY <1>1, <1>3, <2>1, <2>6, AloneFacts DEF Mid, SourceSteps
  <2> QED BY <1>1, <1>2, <2>6, <2>7 DEF Mid, At, Recorded, Mine
<1> QED BY <1>1, <1>3, SourceMove

LEMMA ClearedSources ==
    ASSUME TypeOK, SourcesInv, NEW a \in Actors, Cleared(a)
    PROVE  SourcesInv'
<1>1. pc[a] = "clearing" /\ pc[a] \in SourceSteps /\ UNCHANGED crossed /\ Missing(a)
  BY DEF Cleared, At, OnlySources, SourceSteps
<1>2. ASSUME ~crossed
      PROVE  /\ NamedSourcesAreWhole' /\ ~Recorded(cache'[Mine(a)])
             /\ \A t \in Trees : Recorded(cache[t]) => cache'[t] = cache[t]
  <2>1. Mid(a) /\ NamedSourcesAreWhole /\ Mine(a) \in Trees
    BY <1>2, AloneFacts
  <2>2. ~Recorded(cache[Mine(a)]) /\ ~Recorded(None)
    BY <1>1, <2>1 DEF Mid, Recorded
  <2> QED BY <2>1, <2>2, UnrecordedMayChange DEF Cleared
<1> QED BY <1>1, <1>2, MissingSources

LEMMA FetchSources ==
    ASSUME TypeOK, SourcesInv, NEW a \in Actors, Fetch(a)
    PROVE  SourcesInv'
<1>1. /\ pc[a] = "fetch" /\ pc[a] # "off" /\ "fill" \in SourceSteps
      /\ Goto(a, "fill") /\ UNCHANGED <<cache, walk, run, crossed>>
      /\ part' = [part EXCEPT ![a] = [record |-> FALSE, tree |-> "half"]]
  BY DEF Fetch, At, OnlySources, SourceSteps, Stays
<1>2. pc'[a] = "fill" /\ part'[a] = [record |-> FALSE, tree |-> "half"]
  BY <1>1, GotoType DEF Steps, SourceSteps, TypeOK
<1>3. ASSUME ~crossed PROVE NamedSourcesAreWhole' /\ Mid(a)'
  <2>1. Mid(a) /\ NamedSourcesAreWhole
    BY <1>3, AloneFacts
  <2> QED BY <1>1, <1>2, <2>1 DEF Mid, At, Recorded, Mine, NamedSourcesAreWhole, SourceSteps
<1>4. \A b \in Actors \ {a} : part'[b] = part[b]
  BY <1>1 DEF TypeOK
<1> QED BY <1>1, <1>3, <1>4, SourceMove

LEMMA FillSources ==
    ASSUME TypeOK, SourcesInv, NEW a \in Actors, Fill(a)
    PROVE  SourcesInv'
<1>1. /\ pc[a] = "fill" /\ pc[a] # "off" /\ "sync" \in SourceSteps
      /\ Goto(a, "sync") /\ UNCHANGED <<cache, walk, run, crossed>>
      /\ part' = [part EXCEPT ![a] = Filled(part[a])]
  BY DEF Fill, At, OnlySources, SourceSteps, Stays
<1>2. pc'[a] = "sync" /\ part'[a] = Filled(part[a])
  BY <1>1, GotoType DEF Steps, SourceSteps, TypeOK
<1>3. ASSUME ~crossed PROVE NamedSourcesAreWhole' /\ Mid(a)'
  <2>1. Mid(a) /\ NamedSourcesAreWhole
    BY <1>3, AloneFacts
  <2>3. part[a] = [record |-> FALSE, tree |-> "half"]
    BY <1>1, <2>1 DEF Mid, At
  <2>4. part[a].tree = "half"
    BY <2>3, EntryForm
  <2>2. part'[a] = [record |-> TRUE, tree |-> "fresh"]
    BY <1>2, <2>4 DEF Filled
  <2> QED BY <1>1, <1>2, <2>1, <2>2 DEF Mid, At, Recorded, Mine, NamedSourcesAreWhole, SourceSteps
<1>4. \A b \in Actors \ {a} : part'[b] = part[b]
  BY <1>1 DEF TypeOK
<1> QED BY <1>1, <1>3, <1>4, SourceMove

LEMMA SyncSources ==
    ASSUME TypeOK, SourcesInv, NEW a \in Actors, Sync(a)
    PROVE  SourcesInv'
<1>1. /\ pc[a] = "sync" /\ pc[a] # "off" /\ "place" \in SourceSteps
      /\ Goto(a, "place") /\ UNCHANGED <<walk, run, crossed>>
      /\ \A b \in Actors : part'[b] = Synced(part[b])
      /\ \A t \in Trees : cache'[t] = Synced(cache[t])
  BY DEF Sync, At, OnlySources, SourceSteps, Stays
<1>2. pc'[a] = "place"
  BY <1>1, GotoType DEF Steps, SourceSteps
<1>3. ASSUME NEW t \in Trees
      PROVE  /\ Recorded(cache'[t]) <=> Recorded(cache[t])
             /\ Recorded(cache[t]) /\ cache[t].tree = "whole" => cache'[t].tree = "whole"
  <2>1. cache[t] \in Entries \cup {None}
    BY DEF TypeOK
  <2>2. CASE cache[t] = None
    BY <1>1, <2>2 DEF Recorded, Synced
  <2>3. CASE cache[t] # None
    <3>1. cache[t] \in Entries
      BY <2>1, <2>3
    <3>2. cache'[t] = Synced(cache[t]) /\ cache'[t] # None /\ cache'[t].record = cache[t].record
      BY <1>1, <3>1, SyncedForm, Zenon
    <3>3. cache[t].tree = "whole" => cache'[t].tree = "whole"
      BY <1>1, <3>1, SyncedForm
    <3>4. Recorded(cache'[t]) <=> Recorded(cache[t])
      BY <2>3, <3>2, Zenon DEF Recorded
    <3> QED BY <3>3, <3>4
  <2> QED BY <2>2, <2>3
<1>4. ASSUME ~crossed PROVE NamedSourcesAreWhole' /\ Mid(a)'
  <2>1. Mid(a) /\ NamedSourcesAreWhole /\ Needs[walk[a].pinset][1] \in Trees
    BY <1>4, AloneFacts
  <2>2. part[a] = [record |-> TRUE, tree |-> "fresh"]
    BY <1>1, <2>1 DEF Mid, At
  <2>7. part[a] # None /\ part[a].tree = "fresh"
    BY <2>2, EntryForm
  <2>3. part[a] \in Entries /\ part[a].record = TRUE
    BY <2>2, EntryForm
  <2>8. part'[a] \in Entries /\ part'[a].record = TRUE /\ part'[a].tree = "whole"
    BY <1>1, <2>3, <2>7, SyncedForm
  <2>4. part'[a] = [record |-> TRUE, tree |-> "whole"]
    BY <2>8 DEF Entries
  <2>5. NamedSourcesAreWhole'
    BY <1>3, <2>1 DEF NamedSourcesAreWhole, Recorded
  <2>6. walk[a].index = 2 => Recorded(cache'[Needs[walk[a].pinset][1]])
    BY <1>1, <1>3, <2>1 DEF Mid, SourceSteps
  <2> QED BY <1>1, <1>2, <2>4, <2>5, <2>6 DEF Mid, At, Recorded, Mine
<1> QED BY <1>1, <1>4, SourceMove

LEMMA PlaceSources ==
    ASSUME TypeOK, SourcesInv, NEW a \in Actors, Place(a)
    PROVE  SourcesInv'
<1>1. /\ pc[a] = "place" /\ pc[a] # "off" /\ "look" \in SourceSteps
      /\ Goto(a, "look") /\ UNCHANGED <<run, crossed>>
      /\ walk' = [walk EXCEPT ![a].again = TRUE]
      /\ part' = [part EXCEPT ![a] = None]
  BY DEF Place, At, OnlySources, SourceSteps
<1>2. pc'[a] = "look"
  BY <1>1, GotoType DEF Steps, SourceSteps
<1>3. walk'[a].index = walk[a].index /\ walk'[a].pinset = walk[a].pinset
  BY <1>1 DEF TypeOK
<1>4. ASSUME ~crossed PROVE NamedSourcesAreWhole' /\ Mid(a)'
  <2>1. Mid(a) /\ NamedSourcesAreWhole /\ Needs[walk[a].pinset][1] \in Trees /\ Mine(a) \in Trees
    BY <1>4, AloneFacts
  <2>2. part[a] = [record |-> TRUE, tree |-> "whole"]
    BY <1>1, <2>1 DEF Mid, At
  <2>3. part[a].record = TRUE /\ part[a].tree = "whole" /\ part[a] # None
    BY <2>2, EntryForm
  <2>4. \A t \in Trees : cache'[t] = cache[t] \/ cache'[t] = part[a]
    BY DEF Place, TypeOK
  <2>5. \A t \in Trees : Recorded(cache[t]) => Recorded(cache'[t])
    BY <2>3, <2>4 DEF Recorded
  <2>6. NamedSourcesAreWhole'
    BY <2>1, <2>3, <2>4 DEF NamedSourcesAreWhole, Recorded
  <2>7. walk[a].index = 2 => Recorded(cache'[Needs[walk[a].pinset][1]])
    BY <1>1, <2>1, <2>5 DEF Mid, SourceSteps
  <2> QED BY <1>2, <1>3, <2>6, <2>7 DEF Mid, At, Recorded
<1>5. \A b \in Actors \ {a} : part'[b] = part[b]
  BY <1>1 DEF TypeOK
<1> QED BY <1>1, <1>4, <1>5, SourceMove

LEMMA MaterializeSources ==
    ASSUME TypeOK, SourcesInv, NEW a \in Actors, Materialize(a)
    PROVE  SourcesInv'
BY LookSources, ExistsSources, ClearSources, ClearedSources, FetchSources, FillSources,
   SyncSources, PlaceSources DEF Materialize

\* A step of the rebuild away from the sources.
LEMMA RebuildSources ==
    ASSUME TypeOK, SourcesInv, NEW step \in Steps \ (SourceSteps \cup {"off"}), Proceed(step),
           UNCHANGED <<cache, part, walk, crossed>>, pc["rebuild"] # "off",
           step \in {"app", "compose"} => pc["rebuild"] \in {"prune", "app", "compose"},
           step # "prune"
    PROVE  SourcesInv'
<1>1. pc'["rebuild"] = step /\ \A b \in Actors \ {"rebuild"} : pc'[b] = pc[b]
  BY GotoType, Unfolded DEF Proceed
<1>2. Own'
  BY <1>1, Unfolded, OwnStep DEF SourcesInv
<1>3. ASSUME ~crossed PROVE Clean'
  <2>1. Mid("rebuild") /\ NamedSourcesAreWhole
    BY <1>3, AloneFacts, Unfolded
  <2>2. NamedSourcesAreWhole'
    BY <2>1 DEF NamedSourcesAreWhole, Recorded
  <2>3. step \in {"app", "compose"} =>
           Recorded(cache[Needs[walk["rebuild"].pinset][1]]) /\ Recorded(cache[Needs[walk["rebuild"].pinset][2]])
    BY <2>1 DEF Mid
  <2>4. Mid("rebuild")'
    BY <1>1, <2>3 DEF Mid, At, Recorded, SourceSteps, Steps
  <2> QED BY <1>1, <1>3, <2>2, <2>4, Unfolded, CleanStep DEF SourcesInv
<1> QED BY <1>2, <1>3 DEF SourcesInv

LEMMA RebuildEndsSources ==
    ASSUME TypeOK, SourcesInv, Ends("rebuild"), pc["rebuild"] # "off", UNCHANGED <<cache, crossed>>
    PROVE  SourcesInv'
<1>1. ~crossed => NamedSourcesAreWhole'
  BY AloneFacts, Unfolded DEF NamedSourcesAreWhole, Recorded
<1> QED BY <1>1, EndsSources, Unfolded

LEMMA PruneSources == ASSUME TypeOK, SourcesInv, Prune PROVE SourcesInv'
<1> USE Unfolded
\* What nobody needs changes in the cache: its source is lost or was none.
<1>1. ASSUME NEW t \in Trees, ~Needed(t), NEW e, cache' = [cache EXCEPT ![t] = e], ~Recorded(e),
             Mover("prune"), UNCHANGED <<pc, walk, run, part>>
      PROVE  SourcesInv'
  <2>1. crossed' = crossed /\ pc["rebuild"] = "prune" /\ \A u \in Trees \ {t} : cache'[u] = cache[u]
    BY <1>1 DEF Mover, At
  <2>2. Own'
    BY <1>1 DEF SourcesInv, Own, At
  <2>3. ASSUME ~crossed PROVE Clean'
    <3>1. /\ Mid("rebuild") /\ NamedSourcesAreWhole
          /\ Needs[walk["rebuild"].pinset][1] \in Trees /\ Needs[walk["rebuild"].pinset][2] \in Trees
      BY <2>3, AloneFacts
    <3>2. t # Needs[walk["rebuild"].pinset][1] /\ t # Needs[walk["rebuild"].pinset][2]
      BY <1>1 DEF Needed, Aim
    <3>3. Mid("rebuild")'
      BY <1>1, <2>1, <3>1, <3>2 DEF Mid, At, Recorded, SourceSteps
    <3>4. NamedSourcesAreWhole'
      BY <1>1, <2>1, <3>1 DEF NamedSourcesAreWhole, Recorded
    <3> QED BY <1>1, <2>1, <2>3, <3>3, <3>4, CleanStep DEF SourcesInv
  <2> QED BY <2>1, <2>2, <2>3 DEF SourcesInv
<1>2. ASSUME PruneRecord PROVE SourcesInv'
  <2>1. PICK t \in Trees : ~Needed(t) /\ Recorded(cache[t]) /\ cache' = [cache EXCEPT ![t].record = FALSE]
    BY <1>2 DEF PruneRecord
  <2>2. cache[t] \in Entries \cup {None} /\ cache[t] # None
    BY <2>1 DEF Recorded
  <2>3. ~Recorded([cache[t] EXCEPT !.record = FALSE])
    BY <2>2, EntryType DEF Recorded
  <2> QED BY <1>1, <1>2, <2>1, <2>3 DEF PruneRecord
<1>3. ASSUME PruneTree PROVE SourcesInv'
  <2>1. PICK t \in Trees :
           /\ ~Needed(t) /\ cache[t] # None /\ ~cache[t].record
           /\ cache' \in {[cache EXCEPT ![t] = None], [cache EXCEPT ![t].tree = "half"]}
    BY <1>3 DEF PruneTree
  <2>2. cache[t] \in Entries \cup {None} /\ cache[t] # None
    BY <2>1
  <2>3. ~Recorded([cache[t] EXCEPT !.tree = "half"]) /\ ~Recorded(None)
    BY <2>1, <2>2, EntryType DEF Recorded
  <2> QED BY <1>1, <1>3, <2>1, <2>3 DEF PruneTree
<1>4. ASSUME PrunePartial PROVE SourcesInv'
  <2>1. /\ UNCHANGED <<pc, walk, cache, crossed>> /\ pc["rebuild"] = "prune" /\ pc["rehearsal"] # "off"
        /\ part'["rebuild"] = part["rebuild"]
    BY <1>4 DEF PrunePartial, Mover, SourcesInv, Own, At
  <2>2. crossed
    BY <2>1 DEF SourcesInv, Clean, One
  <2> QED BY <2>1, <2>2 DEF SourcesInv, Own, At, Actors
<1>5. ASSUME Pruned PROVE SourcesInv'
  BY <1>5, RebuildSources DEF Pruned, Mover, At, Steps, SourceSteps
<1> QED BY <1>2, <1>3, <1>4, <1>5 DEF Prune

LEMMA CandidateSources == ASSUME TypeOK, SourcesInv, Candidate PROVE SourcesInv'
<1>1. ASSUME BuildApp \/ BuildCompose PROVE SourcesInv'
  BY <1>1, SourcesStay DEF BuildApp, BuildCompose, Build, Mover, sources
<1>2. ASSUME AppBuilt PROVE SourcesInv'
  BY <1>2, RebuildSources DEF AppBuilt, Mover, At, Steps, SourceSteps, sources
<1>3. ASSUME ComposeBuilt PROVE SourcesInv'
  BY <1>3, RebuildSources DEF ComposeBuilt, Mover, At, Steps, SourceSteps, sources
<1> QED BY <1>1, <1>2, <1>3 DEF Candidate

LEMMA UpSources ==
    ASSUME TypeOK, SourcesInv, NEW step \in {"up", "converge"}, NEW next \in {"commit", "retain"}, Up(step, next)
    PROVE  SourcesInv'
<1>1. UNCHANGED <<cache, crossed>> /\ pc["rebuild"] # "off"
  BY DEF Up, Mover, At
<1>2. CASE Proceed(next) /\ UNCHANGED <<run, part, walk>>
  BY <1>1, <1>2, RebuildSources DEF Steps, SourceSteps
<1>3. CASE Ends("rebuild")
  BY <1>1, <1>3, RebuildEndsSources
<1> QED BY <1>2, <1>3 DEF Up

LEMMA DeploymentSources == ASSUME TypeOK, SourcesInv, Deployment PROVE SourcesInv'
<1>1. ASSUME Ensure PROVE SourcesInv'
  BY <1>1, SourcesStay DEF Ensure, Mover, sources
<1>2. ASSUME Ensured PROVE SourcesInv'
  BY <1>2, RebuildSources DEF Ensured, Mover, At, Steps, SourceSteps, sources
<1>3. ASSUME Judge PROVE SourcesInv'
  BY <1>3, RebuildSources DEF Judge, Mover, At, Steps, SourceSteps, sources
<1>4. ASSUME Deploy \/ Converge PROVE SourcesInv'
  BY <1>4, UpSources DEF Deploy, Converge
<1>5. ASSUME Commit PROVE SourcesInv'
  BY <1>5, RebuildSources DEF Commit, Mover, At, Steps, SourceSteps, sources
<1> QED BY <1>1, <1>2, <1>3, <1>4, <1>5 DEF Deployment

LEMMA RetentionSources == ASSUME TypeOK, SourcesInv, Retention PROVE SourcesInv'
<1>1. ASSUME Retain \/ Untag PROVE SourcesInv'
  BY <1>1, SourcesStay DEF Retain, Untag, Mover, sources
<1>2. ASSUME Retained PROVE SourcesInv'
  BY <1>2, RebuildSources DEF Retained, Mover, At, Steps, SourceSteps, sources
<1>3. ASSUME Finish \/ Warn PROVE SourcesInv'
  BY <1>3, RebuildEndsSources DEF Finish, Warn, Mover, At
<1> QED BY <1>1, <1>2, <1>3 DEF Retention

LEMMA StartSources ==
    ASSUME TypeOK, SourcesInv, NEW a \in Actors, Start(a)
    PROVE  SourcesInv'
<1>1. /\ pc'[a] = "look" /\ \A b \in Actors \ {a} : pc'[b] = pc[b]
      /\ walk'[a].index = 1 /\ UNCHANGED <<cache, part>>
  BY GotoType DEF Start, Steps, SourceSteps, TypeOK, WalkTo
<1>2. Own'
  BY <1>1, OwnStep DEF SourcesInv, SourceSteps
<1>3. ASSUME ~crossed' PROVE Clean'
  <2>1. ~crossed /\ \A b \in Actors \ {a} : pc'[b] = "off"
    BY <1>1, <1>3 DEF Start, At
  <2>2. ASSUME NEW b \in Actors, b # a PROVE Mid(b)'
    BY <2>1, <2>2 DEF Mid, At, SourceSteps
  <2>3. Mid(a)'
    BY <1>1 DEF Mid, At
  <2>4. NamedSourcesAreWhole'
    BY <1>1, <2>1 DEF SourcesInv, Clean, NamedSourcesAreWhole, Recorded
  <2>5. One'
    BY <2>1 DEF One, Actors
  <2> QED BY <2>2, <2>3, <2>4, <2>5 DEF Clean
<1> QED BY <1>2, <1>3 DEF SourcesInv

LEMMA CrashSources ==
    ASSUME TypeOK, SourcesInv, PowerFails \/ \E a \in Actors : Stop(a)
    PROVE  SourcesInv'
<1>1. ASSUME NEW a \in Actors, Stop(a) PROVE SourcesInv'
  <2>1. ~crossed => NamedSourcesAreWhole'
    BY <1>1, AloneFacts DEF NamedSourcesAreWhole, Recorded, Stop
  <2> QED BY <1>1, <2>1, EndsSources DEF Stop, Crash, At
<1>2. ASSUME PowerFails PROVE SourcesInv'
  <2>1. crossed' = crossed /\ \A a \in Actors : pc'[a] = "off" /\ part'[a] = None
    BY <1>2 DEF PowerFails, Crash
  <2>2. Own' /\ One' /\ \A a \in Actors : Mid(a)'
    BY <2>1 DEF Own, One, At, Actors, Mid, SourceSteps
  <2>3. ASSUME ~crossed PROVE NamedSourcesAreWhole'
    <3>1. NamedSourcesAreWhole
      BY <2>3 DEF SourcesInv, Clean
    <3>2. ASSUME NEW t \in Trees, Recorded(cache'[t]) PROVE cache'[t].tree = "whole"
      <4>1. cache[t] \in Entries \cup {None} /\ cache'[t] = Lost(cache[t])
        BY <1>2 DEF TypeOK, PowerFails
      <4>2. cache[t] # None
        BY <3>2, <4>1 DEF Lost, Recorded
      <4>3. cache[t].tree = "fresh" \/ cache'[t] = cache[t]
        BY <4>1 DEF Lost
      <4>4. CASE cache'[t] = cache[t]
        BY <3>1, <3>2, <4>4 DEF NamedSourcesAreWhole
      <4>5. CASE cache[t].tree = "fresh"
        <5>1. cache[t] \in Entries
          BY <4>1, <4>2
        <5>2. cache'[t].record = cache[t].record
          BY <4>1, <4>2, <5>1 DEF Lost, Entries
        <5>3. Recorded(cache[t])
          BY <3>2, <4>2, <5>2, Zenon DEF Recorded
        <5> QED BY <3>1, <4>5, <5>3 DEF NamedSourcesAreWhole
      <4> QED BY <4>3, <4>4, <4>5
    <3> QED BY <3>2 DEF NamedSourcesAreWhole
  <2> QED BY <2>1, <2>2, <2>3 DEF SourcesInv, Clean
<1> QED BY <1>1, <1>2

LEMMA SourcesStep == ASSUME TypeOK, SourcesInv, [Next]_vars PROVE SourcesInv'
<1>1. ASSUME EditArgs \/ \E p \in Pinsets : Rotate(p) PROVE SourcesInv'
  BY <1>1, SourcesStay DEF EditArgs, Rotate, Edit, sources
<1>2. ASSUME Rebuild \/ Rehearse PROVE SourcesInv'
  BY <1>2, StartSources DEF Rebuild, Rehearse, Actors
<1>3. CASE UNCHANGED vars
  BY <1>3, SourcesStay DEF vars, sources
<1> QED BY <1>1, <1>2, <1>3, MaterializeSources, PruneSources, CandidateSources, DeploymentSources,
           RetentionSources, CrashSources DEF Next, Sources

\* As long as no rehearsal ran beside a rebuild, a directory of the cache
\* with a source.json holds its whole tree, whatever was killed, cut off or
\* left half deleted before (_read_source takes a record for the source).
THEOREM SourcesAreWhole == Spec => [](~crossed => NamedSourcesAreWhole)
<1>1. SourcesInv => (~crossed => NamedSourcesAreWhole)
  BY DEF SourcesInv, Clean
<1> QED BY <1>1, InitType, TypeStep, InitSources, SourcesStep, PTL DEF Spec

-----------------------------------------------------------------------------
(* The candidate, the deploy and the references.                             *)

Committed == record.state = "committed"

\* A tag names an image of its own revision.
TagsAsBuilt ==
    \A p \in Pinsets, s \in Slots :
        tags[p][s] # None => tags[p][s].tree = TreeOf(s, p) /\ (tags[p][s].whole \/ crossed)

Retaining == {"retain", "untag"}
Keeping == {"judge", "converge", "up", "commit"} \cup Retaining
Late == {"ensure"} \cup Keeping

\* What the rebuild knows at each of its steps.
AtApp ==
    /\ \A s \in AppSlots \ run.left : Tagged(s) # None
    /\ Committed /\ record.pinset = Aim /\ run.left # {} => drifted
AtCompose ==
    /\ \A s \in AppSlots : Tagged(s) # None
    /\ Committed /\ record.pinset = Aim /\ run.left # {} => drifted \/ record.args # run.args
Built ==
    /\ run.images = tags[Aim] /\ \A s \in Slots : run.images[s] # None
    /\ \A s \in ComposeSlots : run.images[s].args = run.args
AsRecorded == Committed /\ record.pinset = Aim /\ record.images = run.images
Progress ==
    /\ At("rebuild", "app") => AtApp
    /\ At("rebuild", "compose") => AtCompose
    /\ pc["rebuild"] \in Late => Built
    /\ pc["rebuild"] \in Keeping => Wanted \subseteq kept
    /\ pc["rebuild"] \in {"converge"} \cup Retaining => AsRecorded
    /\ pc["rebuild"] \in {"commit"} \cup Retaining => containers = run.images
    /\ At("rebuild", "untag") => kept = Wanted

\* How a rebuild ended is known when none runs.
Reported == outcome # "none" => At("rebuild", "off")

DeployInv ==
    /\ TagsAsBuilt /\ Progress /\ Reported
    /\ RuntimeImagesAreKept /\ CommittedIsAsPinned /\ RerunFindsItsImages /\ NothingPilesUp

LEMMA InitDeploy == Init => DeployInv
<1> SUFFICES ASSUME Init PROVE DeployInv
  OBVIOUS
<1>1. /\ pc["rebuild"] = "off" /\ outcome = "none" /\ ~Committed
      /\ containers = NoImages /\ \A p \in Pinsets : tags[p] = NoImages
  BY DEF Init, Actors, NoRecord, Committed
<1>2. \A s \in Slots : NoImages[s] = None
  BY DEF NoImages
<1>3. Names(containers) = {}
  BY <1>1, <1>2 DEF Names
<1>4. TagsAsBuilt /\ Progress /\ Reported
  BY <1>1, <1>2 DEF TagsAsBuilt, Progress, Reported, At, Late, Keeping, Retaining
<1> QED BY <1>1, <1>3, <1>4 DEF DeployInv, RuntimeImagesAreKept, CommittedIsAsPinned,
           RerunFindsItsImages, NothingPilesUp, Committed

\* A step that leaves the images, the record and the rebuild alone.
LEMMA DeployStays ==
    ASSUME TypeOK, DeployInv, UNCHANGED <<docker, record, outcome, drifted, run>>,
           pc'["rebuild"] = pc["rebuild"], walk'["rebuild"] = walk["rebuild"], crossed => crossed'
    PROVE  DeployInv'
<1>1. TagsAsBuilt' /\ Reported'
  BY DEF DeployInv, TagsAsBuilt, Reported, At, docker
<1>2. Progress'
  BY DEF DeployInv, Progress, At, AtApp, AtCompose, Built, AsRecorded, Committed, Aim, Tagged, Wanted, Names, docker
<1>3. RuntimeImagesAreKept' /\ CommittedIsAsPinned' /\ RerunFindsItsImages' /\ NothingPilesUp'
  BY DEF DeployInv, RuntimeImagesAreKept, CommittedIsAsPinned, RerunFindsItsImages, NothingPilesUp, docker, Names
<1> QED BY <1>1, <1>2, <1>3 DEF DeployInv

\* A step after which the rebuild is off or at its sources.
LEMMA DeployIdles ==
    ASSUME TypeOK, DeployInv, UNCHANGED <<docker, record, drifted>>, crossed => crossed',
           pc'["rebuild"] \in SourceSteps \cup {"off", "prune"},
           outcome' = outcome \/ outcome' = "none",
           outcome' # "none" => pc'["rebuild"] = "off"
    PROVE  DeployInv'
<1>1. TagsAsBuilt' /\ Reported'
  BY DEF DeployInv, TagsAsBuilt, Reported, At, docker
<1>2. Progress'
  BY DEF Progress, At, Late, Keeping, Retaining, SourceSteps
<1>3. RuntimeImagesAreKept' /\ CommittedIsAsPinned' /\ RerunFindsItsImages' /\ NothingPilesUp'
  BY DEF DeployInv, RuntimeImagesAreKept, CommittedIsAsPinned, RerunFindsItsImages, NothingPilesUp, docker, Names
<1> QED BY <1>1, <1>2, <1>3 DEF DeployInv

LEMMA EndsDeploy ==
    ASSUME TypeOK, DeployInv, NEW a \in Actors, Ends(a), ~At(a, "off"), crossed' = crossed,
           UNCHANGED <<docker, record, outcome, drifted>>
    PROVE  DeployInv'
<1>1. CASE a = "rebuild"
  BY <1>1, EndsType, DeployIdles
<1>2. CASE a # "rebuild"
  <2>1. run' = run /\ pc'["rebuild"] = pc["rebuild"] /\ walk'["rebuild"] = walk["rebuild"]
    BY <1>2, EndsType, Unfolded DEF Ends
  <2> QED BY <2>1, DeployStays
<1> QED BY <1>1, <1>2

\* A step of the materialization that goes on.
LEMMA GoesOnDeploy ==
    ASSUME TypeOK, DeployInv, NEW a \in Actors, NEW next \in SourceSteps \cup {"prune"}, Goto(a, next),
           pc[a] \in SourceSteps, OnlySources, run' = run,
           a # "rebuild" => walk'["rebuild"] = walk["rebuild"]
    PROVE  DeployInv'
<1>1. pc'[a] = next /\ \A b \in Actors \ {a} : pc'[b] = pc[b]
  BY GotoType DEF Steps
<1>2. CASE a = "rebuild"
  <2>1. outcome = "none"
    BY <1>2 DEF DeployInv, Reported, At, SourceSteps
  <2> QED BY <1>1, <1>2, <2>1, DeployIdles DEF OnlySources
<1>3. CASE a # "rebuild"
  BY <1>1, <1>3, Unfolded, DeployStays DEF OnlySources
<1> QED BY <1>2, <1>3

LEMMA MaterializeDeploy ==
    ASSUME TypeOK, DeployInv, NEW a \in Actors, Materialize(a)
    PROVE  DeployInv'
<1>1. pc[a] \in SourceSteps /\ ~At(a, "off") /\ OnlySources
  BY DEF Materialize, Look, Exists, Clear, Cleared, Fetch, Fill, Sync, Place, At, SourceSteps
<1>2. CASE Ends(a)
  BY <1>1, <1>2, EndsDeploy DEF OnlySources
<1>3. CASE ~Ends(a)
  <2>1. PICK next \in SourceSteps \cup {"prune"} : Goto(a, next) /\ run' = run
    BY <1>3 DEF Materialize, Look, Exists, Clear, Cleared, Fetch, Fill, Sync, Place, Advance, Missing,
       Stays, SourceSteps
  <2>2. a # "rebuild" => walk'["rebuild"] = walk["rebuild"]
    BY <1>3, Unfolded DEF Materialize, Look, Exists, Clear, Cleared, Fetch, Fill, Sync, Place, Advance,
       Missing, Stays
  <2> QED BY <1>1, <2>1, <2>2, GoesOnDeploy
<1> QED BY <1>2, <1>3

LEMMA PruneDeploy == ASSUME TypeOK, DeployInv, Prune PROVE DeployInv'
<1> USE Unfolded
<1>1. ASSUME PruneRecord \/ PruneTree \/ PrunePartial PROVE DeployInv'
  BY <1>1, DeployStays DEF PruneRecord, PruneTree, PrunePartial, Mover, Fixed
<1>2. ASSUME Pruned PROVE DeployInv'
  <2>1. /\ pc["rebuild"] = "prune" /\ UNCHANGED <<tags, kept, containers, record, outcome, drifted, crossed, walk>>
        /\ run' = [run EXCEPT !.left = IF \A s \in AppSlots : Tagged(s) # None THEN {} ELSE AppSlots]
    BY <1>2 DEF Pruned, Mover, At, Fixed, docker
  <2>2. pc'["rebuild"] = "app"
    BY <1>2, ProceedType DEF Pruned, Steps
  <2>3. /\ run'.left = IF \A s \in AppSlots : Tagged(s) # None THEN {} ELSE AppSlots
        /\ run'.args = run.args /\ run'.images = run.images
    BY <2>1 DEF Runs
  <2>4. AtApp'
    <3>1. \A s \in AppSlots : s \notin run'.left => tags[Aim][s] # None
      BY <2>3 DEF Tagged
    <3>2. ASSUME Committed, record.pinset = Aim, run'.left # {} PROVE drifted
      <4>1. PICK s \in AppSlots : tags[Aim][s] = None
        BY <2>3, <3>2 DEF Tagged
      <4>2. record.images[s] # None
        BY <3>2 DEF DeployInv, CommittedIsAsPinned, Committed, Slots
      <4> QED BY <3>2, <4>1, <4>2 DEF DeployInv, RerunFindsItsImages, Committed
    <3> QED BY <2>1, <3>1, <3>2 DEF AtApp, Committed, Tagged, Aim
  <2>5. Progress'
    BY <2>2, <2>4 DEF Progress, At, Late, Keeping, Retaining
  <2>6. TagsAsBuilt' /\ Reported'
    BY <2>1 DEF DeployInv, TagsAsBuilt, Reported, At
  <2>7. RuntimeImagesAreKept' /\ CommittedIsAsPinned' /\ RerunFindsItsImages' /\ NothingPilesUp'
    BY <2>1 DEF DeployInv, RuntimeImagesAreKept, CommittedIsAsPinned, RerunFindsItsImages, NothingPilesUp, Names
  <2> QED BY <2>5, <2>6, <2>7 DEF DeployInv
<1> QED BY <1>1, <1>2 DEF Prune

\* A build gives the tag of a slot an image of the pinned revision.
LEMMA BuildDeploy ==
    ASSUME TypeOK, DeployInv, SourcesInv, NEW s \in Slots, NEW v \in Args \cup {None},
           NEW i \in Builds(s, v), Build(s, i), UNCHANGED crossed, pc["rebuild"] \in {"app", "compose"}
    PROVE  /\ TagsAsBuilt' /\ Reported'
           /\ tags'[Aim][s] # None
           /\ \A r \in Slots : tags[Aim][r] # None => tags'[Aim][r] # None
           /\ UNCHANGED <<pc, walk, kept, containers, record, outcome>>
<1>1. i \in Images /\ i # None /\ i.tree = TreeOf(s, Aim) /\ cache[TreeOf(s, Aim)] # None
      /\ i.whole = (cache[TreeOf(s, Aim)].tree \in {"fresh", "whole"})
  BY BuildsType
<1>2. /\ tags'[Aim][s] = i
      /\ \A p \in Pinsets, r \in Slots : p # Aim \/ r # s => tags'[p][r] = tags[p][r]
  BY <1>1, BuildType
<1>3. UNCHANGED <<pc, walk, kept, containers, record, outcome>>
  BY DEF Build, sources
<1>4. i.whole \/ crossed
  <2>1. ASSUME ~crossed PROVE cache[TreeOf(s, Aim)].tree = "whole"
    <3>1. /\ Mid("rebuild") /\ NamedSourcesAreWhole
          /\ TreeOf(s, Aim) \in Trees /\ \E k \in 1..2 : TreeOf(s, Aim) = Needs[Aim][k]
      BY <2>1, AloneFacts, Unfolded, TreeType
    <3>2. Recorded(cache[Needs[Aim][1]]) /\ Recorded(cache[Needs[Aim][2]])
      BY <3>1 DEF Mid, Aim
    <3>3. Recorded(cache[TreeOf(s, Aim)])
      BY <3>1, <3>2
    <3> QED BY <3>1, <3>3 DEF NamedSourcesAreWhole
  <2> QED BY <1>1, <2>1
<1>5. TagsAsBuilt'
  BY <1>1, <1>2, <1>4, Unfolded DEF DeployInv, TagsAsBuilt
<1>6. Reported'
  BY <1>3 DEF DeployInv, Reported, At
<1> QED BY <1>1, <1>2, <1>3, <1>5, <1>6, Unfolded

LEMMA CandidateDeploy == ASSUME TypeOK, DeployInv, SourcesInv, Candidate PROVE DeployInv'
<1> USE Unfolded
<1>1. ASSUME BuildApp PROVE DeployInv'
  <2>1. PICK s \in AppSlots : \E i \in Builds(s, None) : Build(s, i)
    BY <1>1 DEF BuildApp
  <2>12. PICK i \in Builds(s, None) : Build(s, i)
    BY <2>1
  <2>2. s \in Slots /\ None \in Args \cup {None} /\ pc["rebuild"] = "app" /\ UNCHANGED <<crossed, drifted>>
    BY <1>1 DEF BuildApp, Mover, At, Slots
  <2>3. /\ TagsAsBuilt' /\ Reported' /\ tags'[Aim][s] # None
        /\ \A r \in Slots : tags[Aim][r] # None => tags'[Aim][r] # None
        /\ UNCHANGED <<pc, walk, kept, containers, record, outcome>>
    BY <2>12, <2>2, BuildDeploy
  <2>4. i \in Images
    BY <2>12, <2>2, BuildsType
  <2>5. /\ run'.left = run.left \ {s} /\ s \in run.left
        /\ \A p \in Pinsets, r \in Slots : p # Aim \/ r # s => tags'[p][r] = tags[p][r]
        /\ tags' \in [Pinsets -> [Slots -> Images \cup {None}]]
    BY <2>12, <2>2, <2>4, BuildType DEF Build
  <2>6. ~(Committed /\ record.pinset = Aim /\ ~drifted)
    BY <2>2, <2>5 DEF DeployInv, Progress, AtApp, At
  <2>7. AtApp'
    <3>1. ASSUME NEW r \in AppSlots, r \notin run'.left PROVE tags'[Aim][r] # None
      BY <2>2, <2>3, <2>5, <3>1 DEF DeployInv, Progress, AtApp, At, Tagged, Slots
    <3> QED BY <2>2, <2>3, <2>6, <3>1 DEF AtApp, Committed, Tagged, Aim
  <2>8. Progress'
    BY <2>2, <2>3, <2>7 DEF Progress, At, Late, Keeping, Retaining
  <2>9. RuntimeImagesAreKept' /\ CommittedIsAsPinned'
    BY <2>2, <2>3 DEF DeployInv, RuntimeImagesAreKept, CommittedIsAsPinned, Names
  <2>10. RerunFindsItsImages'
    <3>1. ASSUME Committed, ~drifted PROVE tags'[record.pinset] = record.images
      <4>1. record.pinset # Aim /\ record.pinset \in Pinsets
        BY <2>6, <3>1 DEF Records
      <4>2. tags'[record.pinset] = tags[record.pinset]
        BY <2>5, <4>1
      <4> QED BY <3>1, <4>2 DEF DeployInv, RerunFindsItsImages, Committed
    <3> QED BY <2>2, <2>3, <3>1 DEF RerunFindsItsImages, Committed
  <2>11. NothingPilesUp'
    BY <2>2, <2>3 DEF DeployInv, Reported, At, NothingPilesUp
  <2> QED BY <2>3, <2>8, <2>9, <2>10, <2>11 DEF DeployInv
<1>2. ASSUME BuildCompose PROVE DeployInv'
  <2>1. PICK s \in ComposeSlots : \E i \in Builds(s, run.args) : Build(s, i)
    BY <1>2 DEF BuildCompose
  <2>12. PICK i \in Builds(s, run.args) : Build(s, i)
    BY <2>1
  <2>2. /\ s \in Slots /\ run.args \in Args \cup {None} /\ pc["rebuild"] = "compose" /\ UNCHANGED crossed
        /\ drifted' = (drifted \/ (record.pinset = Aim /\ record.args # run.args))
    BY <1>2 DEF BuildCompose, Mover, At, Slots
  <2>3. /\ TagsAsBuilt' /\ Reported' /\ tags'[Aim][s] # None
        /\ \A r \in Slots : tags[Aim][r] # None => tags'[Aim][r] # None
        /\ UNCHANGED <<pc, walk, kept, containers, record, outcome>>
    BY <2>12, <2>2, BuildDeploy
  <2>4. i \in Images
    BY <2>12, <2>2, BuildsType
  <2>5. /\ run'.left = run.left \ {s} /\ s \in run.left /\ run'.args = run.args
        /\ \A p \in Pinsets, r \in Slots : p # Aim \/ r # s => tags'[p][r] = tags[p][r]
        /\ tags' \in [Pinsets -> [Slots -> Images \cup {None}]]
    BY <2>12, <2>2, <2>4, BuildType DEF Build
  <2>6. ~(Committed /\ record.pinset = Aim /\ ~drifted')
    BY <2>2, <2>5 DEF DeployInv, Progress, AtCompose, At
  <2>7. AtCompose'
    <3>1. ASSUME NEW r \in AppSlots PROVE tags'[Aim][r] # None
      BY <2>2, <2>3, <3>1 DEF DeployInv, Progress, AtCompose, At, Tagged, Slots
    <3> QED BY <2>2, <2>3, <2>6, <3>1 DEF AtCompose, Committed, Tagged, Aim
  <2>8. Progress'
    BY <2>2, <2>3, <2>7 DEF Progress, At, Late, Keeping, Retaining
  <2>9. RuntimeImagesAreKept' /\ CommittedIsAsPinned'
    BY <2>2, <2>3 DEF DeployInv, RuntimeImagesAreKept, CommittedIsAsPinned, Names
  <2>10. RerunFindsItsImages'
    <3>1. ASSUME Committed, ~drifted' PROVE tags'[record.pinset] = record.images
      <4>1. record.pinset # Aim /\ record.pinset \in Pinsets /\ ~drifted
        BY <2>2, <2>6, <3>1 DEF Records
      <4>2. tags'[record.pinset] = tags[record.pinset]
        BY <2>5, <4>1
      <4> QED BY <3>1, <4>1, <4>2 DEF DeployInv, RerunFindsItsImages, Committed
    <3> QED BY <2>3, <3>1 DEF RerunFindsItsImages, Committed
  <2>11. NothingPilesUp'
    BY <2>2, <2>3 DEF DeployInv, Reported, At, NothingPilesUp
  <2> QED BY <2>3, <2>8, <2>9, <2>10, <2>11 DEF DeployInv
<1>3. ASSUME AppBuilt PROVE DeployInv'
  <2>1. /\ pc["rebuild"] = "app" /\ run.left = {}
        /\ UNCHANGED <<tags, kept, containers, record, outcome, drifted, crossed, walk>>
        /\ run' = [run EXCEPT !.left = {s \in ComposeSlots : Stale(s)}]
    BY <1>3 DEF AppBuilt, Mover, At, Fixed, docker, sources
  <2>2. pc'["rebuild"] = "compose"
    BY <1>3, ProceedType DEF AppBuilt, Steps
  <2>3. run'.left = {s \in ComposeSlots : Stale(s)} /\ run'.args = run.args
    BY <2>1 DEF Runs
  <2>4. \A s \in AppSlots : tags[Aim][s] # None
    BY <2>1 DEF DeployInv, Progress, AtApp, At, Tagged
  <2>5. ASSUME Committed, record.pinset = Aim, run'.left # {}, ~drifted PROVE record.args # run.args
    <3>1. PICK s \in ComposeSlots : Stale(s)
      BY <2>3, <2>5
    <3>2. tags[Aim] = record.images
      BY <2>5 DEF DeployInv, RerunFindsItsImages, Committed
    <3>3. record.images[s] # None /\ record.images[s].args = record.args
      BY <2>5 DEF DeployInv, CommittedIsAsPinned, Committed, Slots
    <3> QED BY <3>1, <3>2, <3>3 DEF Stale, Tagged
  <2>6. AtCompose'
    BY <2>1, <2>3, <2>4, <2>5 DEF AtCompose, Committed, Tagged, Aim
  <2>7. Progress'
    BY <2>2, <2>6 DEF Progress, At, Late, Keeping, Retaining
  <2>8. TagsAsBuilt' /\ Reported'
    BY <2>1 DEF DeployInv, TagsAsBuilt, Reported, At
  <2>9. RuntimeImagesAreKept' /\ CommittedIsAsPinned' /\ RerunFindsItsImages' /\ NothingPilesUp'
    BY <2>1 DEF DeployInv, RuntimeImagesAreKept, CommittedIsAsPinned, RerunFindsItsImages, NothingPilesUp, Names
  <2> QED BY <2>7, <2>8, <2>9 DEF DeployInv
<1>4. ASSUME ComposeBuilt PROVE DeployInv'
  <2>1. /\ pc["rebuild"] = "compose" /\ \A s \in ComposeSlots : ~Stale(s)
        /\ UNCHANGED <<tags, kept, containers, record, outcome, drifted, crossed, walk>>
        /\ run' = [run EXCEPT !.images = tags[Aim]]
    BY <1>4 DEF ComposeBuilt, Mover, At, Fixed, docker, sources
  <2>2. pc'["rebuild"] = "ensure"
    BY <1>4, ProceedType DEF ComposeBuilt, Steps
  <2>3. run'.images = tags[Aim] /\ run'.args = run.args
    BY <2>1 DEF Runs
  <2>4. \A s \in AppSlots : tags[Aim][s] # None
    BY <2>1 DEF DeployInv, Progress, AtCompose, At, Tagged
  <2>5. \A s \in ComposeSlots : tags[Aim][s] # None /\ tags[Aim][s].args = run.args
    BY <2>1 DEF Stale, Tagged
  <2>6. Built'
    BY <2>1, <2>3, <2>4, <2>5 DEF Built, Aim, Slots
  <2>7. Progress'
    BY <2>2, <2>6 DEF Progress, At, Late, Keeping, Retaining
  <2>8. TagsAsBuilt' /\ Reported'
    BY <2>1 DEF DeployInv, TagsAsBuilt, Reported, At
  <2>9. RuntimeImagesAreKept' /\ CommittedIsAsPinned' /\ RerunFindsItsImages' /\ NothingPilesUp'
    BY <2>1 DEF DeployInv, RuntimeImagesAreKept, CommittedIsAsPinned, RerunFindsItsImages, NothingPilesUp, Names
  <2> QED BY <2>7, <2>8, <2>9 DEF DeployInv
<1> QED BY <1>1, <1>2, <1>3, <1>4 DEF Candidate

\* A step of the rebuild that leaves the tags and its locals alone, from
\* what it knew at a late step.
LEMMA LateFrame ==
    ASSUME TypeOK, DeployInv, pc["rebuild"] \in Late,
           UNCHANGED <<tags, outcome, drifted, crossed, walk, run>>
    PROVE  /\ TagsAsBuilt' /\ Built' /\ Wanted' = Wanted /\ Aim' = Aim /\ outcome = "none"
           /\ Reported' /\ NothingPilesUp'
<1>1. TagsAsBuilt'
  BY DEF DeployInv, TagsAsBuilt
<1>2. Built'
  BY DEF DeployInv, Progress, Built, Aim
<1>3. outcome = "none"
  BY DEF DeployInv, Reported, At, Late, Keeping, Retaining
<1> QED BY <1>1, <1>2, <1>3 DEF Wanted, Names, Aim, Reported, NothingPilesUp

\* The images of the run as it is committed.
LEMMA BuiltIsAsPinned ==
    ASSUME TypeOK, TagsAsBuilt, Built, NEW s \in Slots
    PROVE  /\ run.images[s] # None /\ run.images[s] \in Wanted
           /\ run.images[s].tree = TreeOf(s, Aim)
           /\ run.images[s].whole \/ crossed
           /\ s \in ComposeSlots => run.images[s].args = run.args
BY Unfolded DEF TagsAsBuilt, Built, Wanted, Names

LEMMA UpDeploy ==
    ASSUME TypeOK, DeployInv, NEW step \in {"up", "converge"},
           NEW next \in {"commit", "retain"}, (step = "up") = (next = "commit"), Up(step, next)
    PROVE  DeployInv'
<1> USE Unfolded
<1>1. /\ pc["rebuild"] = step /\ UNCHANGED <<tags, kept, record, outcome, drifted, crossed>>
      /\ step \in Late /\ step \in Keeping
  BY DEF Up, Mover, At, Late, Keeping
<1>2. Wanted \subseteq kept /\ Built /\ Names(containers) \subseteq kept
  BY <1>1 DEF DeployInv, Progress, RuntimeImagesAreKept
<1>3. containers' \in Ups
  BY UpType, <1>1 DEF Late, Keeping, Retaining, Steps
<1>4. Names(containers') \subseteq kept
  <2>1. ASSUME NEW s \in Slots, containers'[s] # None PROVE containers'[s] \in kept
    <3>1. containers'[s] = containers[s] \/ containers'[s] = run.images[s]
      BY <1>3 DEF Ups
    <3> QED BY <1>2, <2>1, <3>1 DEF Names, Wanted
  <2> QED BY <2>1 DEF Names
<1>5. RuntimeImagesAreKept' /\ CommittedIsAsPinned' /\ RerunFindsItsImages'
  BY <1>1, <1>4 DEF DeployInv, RuntimeImagesAreKept, CommittedIsAsPinned, RerunFindsItsImages, Names
<1>6. TagsAsBuilt'
  BY <1>1 DEF DeployInv, TagsAsBuilt
<1>7. outcome = "none" /\ Reported' /\ NothingPilesUp'
  BY <1>1 DEF DeployInv, Reported, At, NothingPilesUp
<1>8. CASE containers' = run.images /\ Proceed(next) /\ UNCHANGED <<run, part, walk>>
  <2>1. pc'["rebuild"] = next
    BY <1>8, ProceedType DEF Steps
  <2>2. Built' /\ Wanted' \subseteq kept' /\ containers' = run'.images
    BY <1>1, <1>2, <1>8 DEF Built, Wanted, Names, Aim
  <2>3. next = "retain" => AsRecorded'
    BY <1>1, <1>8 DEF DeployInv, Progress, AsRecorded, Committed, Aim
  <2>4. Progress'
    BY <2>1, <2>2, <2>3 DEF Progress, At, Late, Keeping, Retaining
  <2> QED BY <1>5, <1>6, <1>7, <2>4 DEF DeployInv
<1>9. CASE Ends("rebuild")
  <2>1. pc'["rebuild"] = "off"
    BY <1>9, RebuildEnds
  <2>2. Progress'
    BY <2>1 DEF Progress, At, Late, Keeping, Retaining
  <2> QED BY <1>5, <1>6, <1>7, <2>2 DEF DeployInv
<1> QED BY <1>8, <1>9 DEF Up

LEMMA DeploymentDeploy == ASSUME TypeOK, DeployInv, Deployment PROVE DeployInv'
<1> USE Unfolded
<1>1. ASSUME Ensure PROVE DeployInv'
  <2>1. /\ pc["rebuild"] = "ensure" /\ pc' = pc
        /\ UNCHANGED <<tags, outcome, drifted, crossed, walk, run, containers, record>> /\ kept \subseteq kept'
    BY <1>1 DEF Ensure, Mover, At, sources
  <2>2. TagsAsBuilt' /\ Built' /\ Reported' /\ NothingPilesUp'
    BY <2>1, LateFrame DEF Late
  <2>3. Progress'
    BY <2>1, <2>2 DEF Progress, At, Late, Keeping, Retaining
  <2>4. RuntimeImagesAreKept' /\ CommittedIsAsPinned' /\ RerunFindsItsImages'
    BY <2>1 DEF DeployInv, RuntimeImagesAreKept, CommittedIsAsPinned, RerunFindsItsImages, Names
  <2> QED BY <2>2, <2>3, <2>4 DEF DeployInv
<1>2. ASSUME Ensured PROVE DeployInv'
  <2>1. /\ pc["rebuild"] = "ensure" /\ Wanted \subseteq kept
        /\ UNCHANGED <<tags, kept, outcome, drifted, crossed, walk, run, containers, record>>
    BY <1>2 DEF Ensured, Mover, At, Fixed, docker, sources
  <2>2. pc'["rebuild"] = "judge"
    BY <1>2, ProceedType DEF Ensured, Steps
  <2>3. TagsAsBuilt' /\ Built' /\ Reported' /\ NothingPilesUp' /\ Wanted' = Wanted
    BY <2>1, LateFrame DEF Late
  <2>4. Progress'
    BY <2>1, <2>2, <2>3 DEF Progress, At, Late, Keeping, Retaining
  <2>5. RuntimeImagesAreKept' /\ CommittedIsAsPinned' /\ RerunFindsItsImages'
    BY <2>1 DEF DeployInv, RuntimeImagesAreKept, CommittedIsAsPinned, RerunFindsItsImages, Names
  <2> QED BY <2>3, <2>4, <2>5 DEF DeployInv
<1>3. ASSUME Judge PROVE DeployInv'
  <2>1. /\ pc["rebuild"] = "judge"
        /\ UNCHANGED <<tags, kept, outcome, drifted, crossed, walk, run, containers>>
    BY <1>3 DEF Judge, Mover, At, docker, sources
  <2>2. TagsAsBuilt' /\ Built' /\ Reported' /\ NothingPilesUp' /\ Wanted' = Wanted
    BY <2>1, LateFrame DEF Late, Keeping
  <2>3. Wanted \subseteq kept /\ Names(containers) \subseteq kept
    BY <2>1 DEF DeployInv, Progress, Keeping, RuntimeImagesAreKept
  <2>4. CASE SameDeploy /\ Proceed("converge") /\ UNCHANGED record
    <3>1. pc'["rebuild"] = "converge"
      BY <2>4, ProceedType DEF Steps
    <3>2. record.pinset = Aim
      BY <2>4, PinsetsDiffer DEF SameDeploy, Records
    <3>3. AsRecorded'
      BY <2>1, <2>4, <3>2 DEF SameDeploy, AsRecorded, Committed, Aim
    <3>4. Progress'
      BY <2>1, <2>2, <2>3, <3>1, <3>3 DEF Progress, At, Late, Keeping, Retaining
    <3>5. RuntimeImagesAreKept' /\ CommittedIsAsPinned' /\ RerunFindsItsImages'
      BY <2>1, <2>4 DEF DeployInv, RuntimeImagesAreKept, CommittedIsAsPinned, RerunFindsItsImages, Names
    <3> QED BY <2>2, <3>4, <3>5 DEF DeployInv
  <2>5. CASE Proceed("up") /\ record' = [NoRecord EXCEPT !.state = "in_progress"]
    <3>1. pc'["rebuild"] = "up" /\ record'.state = "in_progress"
      BY <2>5, ProceedType DEF Steps, NoRecord
    <3>2. Progress'
      BY <2>1, <2>2, <2>3, <3>1 DEF Progress, At, Late, Keeping, Retaining
    <3>3. RuntimeImagesAreKept' /\ CommittedIsAsPinned' /\ RerunFindsItsImages'
      BY <2>1, <2>3, <3>1 DEF RuntimeImagesAreKept, CommittedIsAsPinned, RerunFindsItsImages, Names
    <3> QED BY <2>2, <3>2, <3>3 DEF DeployInv
  <2> QED BY <1>3, <2>4, <2>5 DEF Judge
<1>4. ASSUME Deploy PROVE DeployInv'
  BY <1>4, UpDeploy DEF Deploy
<1>5. ASSUME Converge PROVE DeployInv'
  BY <1>5, UpDeploy DEF Converge
<1>6. ASSUME Commit PROVE DeployInv'
  <2>1. /\ pc["rebuild"] = "commit" /\ drifted' = FALSE
        /\ UNCHANGED <<tags, kept, outcome, crossed, walk, run, containers>>
        /\ record' = [state |-> "committed", pinset |-> Aim, args |-> run.args, images |-> run.images]
    BY <1>6 DEF Commit, Mover, At, docker, sources
  <2>2. pc'["rebuild"] = "retain"
    BY <1>6, ProceedType DEF Commit, Steps
  <2>3. /\ Wanted \subseteq kept /\ Built /\ containers = run.images /\ TagsAsBuilt /\ outcome = "none"
    BY <2>1 DEF DeployInv, Progress, Late, Keeping, Reported, At
  <2>4. record'.state = "committed" /\ record'.pinset = Aim /\ record'.args = run.args
        /\ record'.images = run.images
    BY <2>1
  <2>5. TagsAsBuilt' /\ Built' /\ AsRecorded' /\ Wanted' = Wanted
    BY <2>1, <2>3, <2>4 DEF TagsAsBuilt, Built, AsRecorded, Committed, Aim, Wanted, Names
  <2>6. Progress'
    BY <2>1, <2>2, <2>3, <2>5 DEF Progress, At, Late, Keeping, Retaining
  <2>7. RuntimeImagesAreKept'
    BY <2>1, <2>3, <2>4 DEF RuntimeImagesAreKept, Wanted, Names
  <2>8. CommittedIsAsPinned'
    BY <2>1, <2>3, <2>4, BuiltIsAsPinned DEF CommittedIsAsPinned
  <2>9. RerunFindsItsImages'
    BY <2>1, <2>3, <2>4 DEF RerunFindsItsImages, Built
  <2>10. Reported' /\ NothingPilesUp'
    BY <2>1, <2>3 DEF Reported, NothingPilesUp
  <2> QED BY <2>5, <2>6, <2>7, <2>8, <2>9, <2>10 DEF DeployInv
<1> QED BY <1>1, <1>2, <1>3, <1>4, <1>5, <1>6 DEF Deployment

LEMMA RetentionDeploy == ASSUME TypeOK, DeployInv, Retention PROVE DeployInv'
<1> USE Unfolded
<1>1. ASSUME Retain PROVE DeployInv'
  <2>1. /\ pc["rebuild"] = "retain" /\ pc' = pc
        /\ UNCHANGED <<tags, outcome, drifted, crossed, walk, run, containers, record>>
    BY <1>1 DEF Retain, Mover, At, sources
  <2>2. PICK i \in kept \ Wanted : kept' = kept \ {i}
    BY <1>1 DEF Retain
  <2>3. /\ AsRecorded /\ containers = run.images /\ Wanted \subseteq kept
        /\ TagsAsBuilt' /\ Built' /\ Reported' /\ NothingPilesUp' /\ Wanted' = Wanted
    BY <2>1, LateFrame DEF DeployInv, Progress, Late, Keeping, Retaining
  <2>4. Wanted \subseteq kept'
    BY <2>2, <2>3
  <2>5. Progress'
    BY <2>1, <2>3, <2>4 DEF Progress, At, Late, Keeping, Retaining, AsRecorded, Committed, Aim
  <2>6. RuntimeImagesAreKept'
    BY <2>1, <2>3, <2>4 DEF RuntimeImagesAreKept, AsRecorded, Wanted, Names
  <2>7. CommittedIsAsPinned' /\ RerunFindsItsImages'
    BY <2>1 DEF DeployInv, CommittedIsAsPinned, RerunFindsItsImages
  <2> QED BY <2>3, <2>5, <2>6, <2>7 DEF DeployInv
<1>2. ASSUME Retained PROVE DeployInv'
  <2>1. /\ pc["rebuild"] = "retain" /\ kept = Wanted
        /\ UNCHANGED <<tags, kept, outcome, drifted, crossed, walk, run, containers, record>>
    BY <1>2 DEF Retained, Mover, At, Fixed, docker, sources
  <2>2. pc'["rebuild"] = "untag"
    BY <1>2, ProceedType DEF Retained, Steps
  <2>3. /\ AsRecorded /\ containers = run.images
        /\ TagsAsBuilt' /\ Built' /\ Reported' /\ NothingPilesUp' /\ Wanted' = Wanted
    BY <2>1, LateFrame DEF DeployInv, Progress, Late, Keeping, Retaining
  <2>4. Progress'
    BY <2>1, <2>2, <2>3 DEF Progress, At, Late, Keeping, Retaining, AsRecorded, Committed, Aim
  <2>5. RuntimeImagesAreKept' /\ CommittedIsAsPinned' /\ RerunFindsItsImages'
    BY <2>1 DEF DeployInv, RuntimeImagesAreKept, CommittedIsAsPinned, RerunFindsItsImages, Names
  <2> QED BY <2>3, <2>4, <2>5 DEF DeployInv
<1>3. ASSUME Untag PROVE DeployInv'
  <2>1. /\ pc["rebuild"] = "untag" /\ pc' = pc
        /\ UNCHANGED <<kept, outcome, drifted, crossed, walk, run, containers, record>>
    BY <1>3 DEF Untag, Mover, At, sources
  <2>2. PICK p \in Pinsets \ {Aim}, s \in Slots : tags' = [tags EXCEPT ![p][s] = None]
    BY <1>3 DEF Untag
  <2>3. /\ tags'[p][s] = None /\ \A q \in Pinsets \ {p} : tags'[q] = tags[q]
        /\ \A r \in Slots \ {s} : tags'[p][r] = tags[p][r]
    BY <2>2, UntagType
  <2>4. AsRecorded /\ containers = run.images /\ kept = Wanted /\ Built /\ outcome = "none"
    BY <2>1 DEF DeployInv, Progress, At, Late, Keeping, Retaining, Reported
  <2>5. TagsAsBuilt'
    <3>1. ASSUME NEW q \in Pinsets, NEW r \in Slots, tags'[q][r] # None
          PROVE  tags'[q][r] = tags[q][r]
      BY <2>3, <3>1
    <3> QED BY <2>1, <3>1 DEF DeployInv, TagsAsBuilt
  <2>6. tags'[Aim] = tags[Aim] /\ Aim' = Aim /\ Wanted' = Wanted
    BY <2>1, <2>3 DEF Aim, Wanted, Names
  <2>7. Built' /\ AsRecorded'
    BY <2>1, <2>4, <2>6 DEF Built, AsRecorded, Committed
  <2>8. Progress'
    BY <2>1, <2>4, <2>6, <2>7 DEF Progress, At, Late, Keeping, Retaining
  <2>9. RuntimeImagesAreKept' /\ CommittedIsAsPinned' /\ Reported' /\ NothingPilesUp'
    BY <2>1, <2>4 DEF DeployInv, RuntimeImagesAreKept, CommittedIsAsPinned, Names, Reported, NothingPilesUp
  <2>10. RerunFindsItsImages'
    BY <2>1, <2>4, <2>6 DEF DeployInv, RerunFindsItsImages, AsRecorded
  <2> QED BY <2>5, <2>8, <2>9, <2>10 DEF DeployInv
<1>4. ASSUME Finish \/ Warn PROVE DeployInv'
  <2>1. /\ pc["rebuild"] \in Retaining /\ UNCHANGED <<tags, kept, containers, record, drifted, crossed>>
        /\ outcome' \in {"clean", "warned"} /\ Ends("rebuild")
    BY <1>4 DEF Finish, Warn, Mover, At, docker, Retaining
  <2>2. pc'["rebuild"] = "off"
    BY <2>1, RebuildEnds
  <2>3. TagsAsBuilt' /\ Progress' /\ Reported'
    BY <2>1, <2>2 DEF DeployInv, TagsAsBuilt, Progress, Reported, At, Late, Keeping, Retaining
  <2>4. RuntimeImagesAreKept' /\ CommittedIsAsPinned' /\ RerunFindsItsImages'
    BY <2>1 DEF DeployInv, RuntimeImagesAreKept, CommittedIsAsPinned, RerunFindsItsImages, Names
  <2>5. NothingPilesUp'
    <3>1. CASE Warn
      BY <3>1 DEF Warn, NothingPilesUp
    <3>2. CASE Finish
      <4>1. kept = Wanted /\ AsRecorded /\ Untagged
        BY <3>2 DEF Finish, Mover, At, DeployInv, Progress, Retaining
      <4> QED BY <2>1, <4>1 DEF NothingPilesUp, AsRecorded, Wanted, Untagged, Names
    <3> QED BY <1>4, <3>1, <3>2
  <2> QED BY <2>3, <2>4, <2>5 DEF DeployInv
<1> QED BY <1>1, <1>2, <1>3, <1>4 DEF Retention

LEMMA DeployStep == ASSUME TypeOK, SourcesInv, DeployInv, [Next]_vars PROVE DeployInv'
<1> USE Unfolded
<1>1. ASSUME EditArgs \/ \E p \in Pinsets : Rotate(p) PROVE DeployInv'
  BY <1>1, DeployStays DEF EditArgs, Rotate, Edit, sources
<1>2. ASSUME Rebuild PROVE DeployInv'
  <2>1. pc'["rebuild"] = "look" /\ outcome' = "none" /\ UNCHANGED <<docker, record, drifted>> /\ (crossed => crossed')
    BY <1>2, GotoType DEF Rebuild, Start, Steps, SourceSteps
  <2> QED BY <2>1, DeployIdles DEF SourceSteps
<1>3. ASSUME Rehearse PROVE DeployInv'
  <2>1. /\ pc'["rebuild"] = pc["rebuild"] /\ walk'["rebuild"] = walk["rebuild"] /\ (crossed => crossed')
        /\ UNCHANGED <<docker, record, outcome, drifted, run>>
    BY <1>3, GotoType DEF Rehearse, Start, Steps, SourceSteps, Actors
  <2> QED BY <2>1, DeployStays
<1>4. ASSUME NEW a \in Actors, Stop(a) PROVE DeployInv'
  BY <1>4, EndsDeploy DEF Stop, Crash
<1>5. ASSUME PowerFails PROVE DeployInv'
  <2>1. pc'["rebuild"] = "off"
    BY <1>5 DEF PowerFails
  <2> QED BY <1>5, <2>1, DeployIdles DEF PowerFails, Crash
<1>6. CASE UNCHANGED vars
  <2>1. UNCHANGED <<docker, record, outcome, drifted, run, pc, walk, crossed>>
    BY <1>6 DEF vars, sources
  <2> QED BY <2>1, DeployStays
<1> QED BY <1>1, <1>2, <1>3, <1>4, <1>5, <1>6, MaterializeDeploy, PruneDeploy, CandidateDeploy,
           DeploymentDeploy, RetentionDeploy DEF Next, Sources

LEMMA DeployInvariant == Spec => []DeployInv
BY InitType, TypeStep, InitSources, SourcesStep, InitDeploy, DeployStep, PTL DEF Spec

\* No cleanup, rebuild or crash takes the reference of an image away that a
\* container was made from or that a committed record names.
THEOREM RuntimeImagesAlwaysKept == Spec => []RuntimeImagesAreKept
<1>1. DeployInv => RuntimeImagesAreKept
  BY DEF DeployInv
<1> QED BY <1>1, DeployInvariant, PTL

\* A committed deploy was built from its pinned revisions and its frozen
\* arguments, and from whole trees unless a rehearsal ran beside a rebuild.
THEOREM CommittedAlwaysAsPinned == Spec => []CommittedIsAsPinned
<1>1. DeployInv => CommittedIsAsPinned
  BY DEF DeployInv
<1> QED BY <1>1, DeployInvariant, PTL

\* A rerun of a committed deploy finds the images it committed under their
\* tags, unless a rebuild with other arguments came between.
THEOREM RerunAlwaysFindsItsImages == Spec => []RerunFindsItsImages
<1>1. DeployInv => RerunFindsItsImages
  BY DEF DeployInv
<1> QED BY <1>1, DeployInvariant, PTL

\* After a rebuild without a warning no reference and no tag of another
\* deploy is left.
THEOREM NothingEverPilesUp == Spec => []NothingPilesUp
<1>1. DeployInv => NothingPilesUp
  BY DEF DeployInv
<1> QED BY <1>1, DeployInvariant, PTL
=============================================================================
