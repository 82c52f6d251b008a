--------------------------- MODULE IntegrationProofs ---------------------------
(***************************************************************************)
(* Theorems about integration, of a candidate (Integration, CiJob) and of  *)
(* a merge group (MergeGroup), for any plans, blueprints and histories.    *)
(*                                                                         *)
(* Both compare blueprints by IntegrationEffects, so the first part is     *)
(* about the comparison: for any three blueprints and any merge of them,   *)
(* when it finds no conflict the merge keeps every watched part that a     *)
(* branch changed.  The two branches are looked at one by one, so its      *)
(* lemmas are about a base, one branch and the merge.                      *)
(*                                                                         *)
(* The second part is about the candidate: a compatible result is safe and *)
(* stood, the verifier refuses nothing that the runner assembles, and the  *)
(* job of a pull request succeeds only when its event deserves it.         *)
(*                                                                         *)
(* The third part is about the group: one that passes is earned, its joins *)
(* lose nothing, and the verifier accepts whatever the adapter assembles.  *)
(* The adapter judges a group once, by what the history then is, so the    *)
(* invariant is about histories: DagInv says that a commit's parents are   *)
(* there before it.  It makes ancestry (Up), which the adapter asks Git    *)
(* for, the relation that the verifier derives from a bundle (Reach), up   *)
(* to the base of the group.                                               *)
(***************************************************************************)
EXTENDS CiJob, MergeGroup, NumberFacts

-----------------------------------------------------------------------------
(* The comparison of blueprints *)

\* What the delta says of a node that differs.
LEMMA DeltaNodes ==
    ASSUME NEW a, NEW b
    PROVE  /\ DOMAIN Delta(a, b).nodes = Changed(a.nodes, b.nodes)
           /\ \A k \in Changed(a.nodes, b.nodes) :
                /\ Delta(a, b).nodes[k].type = Kind(a.nodes, b.nodes, k)
                /\ Delta(a, b).nodes[k].before = ValueOf(a.nodes, k)
                /\ Delta(a, b).nodes[k].after = ValueOf(b.nodes, k)
BY DEF Delta

\* An edge differs when it comes or goes.
LEMMA DeltaEdges ==
    ASSUME NEW a, NEW b
    PROVE  /\ DOMAIN Delta(a, b).edges = (a.edges \ b.edges) \cup (b.edges \ a.edges)
           /\ \A e \in DOMAIN Delta(a, b).edges :
                Delta(a, b).edges[e] = IF e \in b.edges THEN "added" ELSE "removed"
BY DEF Delta

\* The delta tells of the mounts that come or go.
LEMMA DeltaMounts ==
    ASSUME NEW a, NEW b
    PROVE  /\ DOMAIN Delta(a, b).mounts =
                 (DOMAIN a.mounts \ DOMAIN b.mounts) \cup (DOMAIN b.mounts \ DOMAIN a.mounts)
           /\ \A m \in DOMAIN Delta(a, b).mounts :
                /\ Delta(a, b).mounts[m].type = IF m \in DOMAIN b.mounts THEN "added" ELSE "removed"
                /\ m \in DOMAIN b.mounts => Delta(a, b).mounts[m].topology = b.mounts[m]
<1> DEFINE S == {n \in Changed(a.mounts, b.mounts) : Kind(a.mounts, b.mounts, n) # "changed"}
           f == [m \in S |-> [type |-> Kind(a.mounts, b.mounts, m),
                              topology |-> IF m \in DOMAIN b.mounts THEN b.mounts[m] ELSE a.mounts[m]]]
<1>1. Delta(a, b).mounts = f
  BY DEF Delta
<1>2. S = (DOMAIN a.mounts \ DOMAIN b.mounts) \cup (DOMAIN b.mounts \ DOMAIN a.mounts)
  BY DEF Changed, Kind
<1>3. \A m \in S : /\ f[m].type = IF m \in DOMAIN b.mounts THEN "added" ELSE "removed"
                   /\ m \in DOMAIN b.mounts => f[m].topology = b.mounts[m]
  BY <1>2 DEF Kind
<1>4. DOMAIN f = S
  OBVIOUS
<1> HIDE DEF f, S
<1>5. QED
  BY <1>1, <1>2, <1>3, <1>4

\* The names of fields differ.
LEMMA FieldNames ==
    ASSUME NEW j
    PROVE  /\ <<"kind">> # <<"meta">>
           /\ <<"meta", j>> # <<"kind">>
           /\ <<"meta", j>> # <<"meta">>
           /\ <<"meta", j>>[2] = j
OBVIOUS

\* The value of a field in a node that is there after an event, and in one that is not.
LEMMA FieldValues ==
    ASSUME NEW event, NEW none
    PROVE  /\ event.type = "removed" => \A field : FieldAfter(event, field, none) = none
           /\ event.type # "removed" => FieldAfter(event, <<"kind">>, none) = event.after.kind
           /\ event.type # "removed" => FieldAfter(event, <<"meta">>, none) = event.after.meta
           /\ \A j : event.type # "removed" =>
                FieldAfter(event, <<"meta", j>>, none) =
                    IF j \in DOMAIN event.after.meta THEN event.after.meta[j] ELSE none
<1>1. event.type = "removed" => \A field : FieldAfter(event, field, none) = none
  BY DEF FieldAfter
<1>2. ASSUME event.type # "removed"
      PROVE  /\ FieldAfter(event, <<"kind">>, none) = event.after.kind
             /\ FieldAfter(event, <<"meta">>, none) = event.after.meta
  BY <1>2, FieldNames DEF FieldAfter
<1>3. ASSUME event.type # "removed", NEW j
      PROVE  FieldAfter(event, <<"meta", j>>, none) =
                IF j \in DOMAIN event.after.meta THEN event.after.meta[j] ELSE none
  BY <1>3, FieldNames DEF FieldAfter
<1>4. QED
  BY <1>1, <1>2, <1>3

\* A change of a node that is kept: every field it touches is found as it was wanted.
LEMMA KeptFields ==
    ASSUME NEW key, NEW event, NEW merge, NodeKept(key, event, merge) = {}
    PROVE  IF event.type = "removed"
           THEN key \in DOMAIN merge.nodes /\ merge.nodes[key].type = "removed"
           ELSE \A g \in FieldsOf(event) :
                    /\ key \in DOMAIN merge.nodes
                    /\ Found(merge.nodes[key], g) = Wanted(event, g)
<1>1. CASE event.type = "removed"
  BY <1>1 DEF NodeKept
<1>2. CASE event.type # "removed"
  <2> DEFINE T == {g \in FieldsOf(event) :
                    ~(key \in DOMAIN merge.nodes /\ Found(merge.nodes[key], g) = Wanted(event, g))}
  <2>1. {Conflict(FieldReason(f), <<key[2], f>>) : f \in T} = {}
    BY <1>2 DEF NodeKept
  <2>2. T = {}
    BY <2>1
  <2>3. QED
    BY <1>2, <2>2
<1>3. QED
  BY <1>1, <1>2
\* What the parts of a blueprint are.
LEMMA PartValues ==
    ASSUME NEW b
    PROVE  /\ \A k : Part(b, <<"kind", k>>) =
                        IF k \in DOMAIN b.nodes THEN b.nodes[k].kind ELSE Missing
           /\ \A k, j : Part(b, <<"meta", k, j>>) =
                        IF k \in DOMAIN b.nodes THEN MetaValue(b.nodes[k].meta, j) ELSE Missing
           /\ \A e : Part(b, <<"edge", e>>) = (e \in b.edges)
           /\ \A m : Part(b, <<"mount", m>>) = ValueOf(b.mounts, m)
<1>1. ASSUME NEW k
      PROVE  Part(b, <<"kind", k>>) = IF k \in DOMAIN b.nodes THEN b.nodes[k].kind ELSE Missing
  BY DEF Part
<1>2. ASSUME NEW k, NEW j
      PROVE  Part(b, <<"meta", k, j>>) =
                IF k \in DOMAIN b.nodes THEN MetaValue(b.nodes[k].meta, j) ELSE Missing
  BY DEF Part
<1>3. ASSUME NEW e PROVE Part(b, <<"edge", e>>) = (e \in b.edges)
  BY DEF Part
<1>4. ASSUME NEW m PROVE Part(b, <<"mount", m>>) = ValueOf(b.mounts, m)
  BY DEF Part
<1>5. QED
  BY <1>1, <1>2, <1>3, <1>4

\* A field of a node that stays is kept with its value, which is not that of no node.
LEMMA StayingNode ==
    ASSUME NEW base, NEW branch, NEW merge, IsBlueprint(branch),
           NEW k \in DOMAIN base.nodes \cap DOMAIN branch.nodes,
           base.nodes[k] # branch.nodes[k],
           NodeKept(k, Delta(base, branch).nodes[k], Delta(base, merge)) = {}
    PROVE  /\ branch.nodes[k].kind # base.nodes[k].kind =>
                k \in DOMAIN merge.nodes /\ merge.nodes[k].kind = branch.nodes[k].kind
           /\ \A j : MetaValue(branch.nodes[k].meta, j) # MetaValue(base.nodes[k].meta, j) =>
                /\ k \in DOMAIN merge.nodes
                /\ MetaValue(merge.nodes[k].meta, j) = MetaValue(branch.nodes[k].meta, j)
<1> DEFINE event == Delta(base, branch).nodes[k]
           found == Delta(base, merge).nodes[k]
<1>1. k \in Changed(base.nodes, branch.nodes)
  BY DEF Changed
<1>2. event.type = "changed" /\ event.before = base.nodes[k] /\ event.after = branch.nodes[k]
  BY <1>1, DeltaNodes DEF Kind, ValueOf
<1>3. k \in Changed(base.nodes, merge.nodes) =>
        /\ found.type = IF k \in DOMAIN merge.nodes THEN "changed" ELSE "removed"
        /\ k \in DOMAIN merge.nodes => found.after = merge.nodes[k]
  BY DeltaNodes DEF Kind, ValueOf
<1> HIDE DEF event, found
<1>4. \A g \in FieldsOf(event) :
        k \in Changed(base.nodes, merge.nodes) /\ Found(found, g) = Wanted(event, g)
  BY <1>2, KeptFields, DeltaNodes DEF event, found
<1>5. FieldsOf(event) =
        {f \in {<<"kind">>} : base.nodes[k].kind # branch.nodes[k].kind}
        \cup {<<"meta", i>> :
                i \in {j \in DOMAIN base.nodes[k].meta \cup DOMAIN branch.nodes[k].meta :
                        MetaValue(base.nodes[k].meta, j) # MetaValue(branch.nodes[k].meta, j)}}
  BY <1>2 DEF FieldsOf
<1>6. ASSUME branch.nodes[k].kind # base.nodes[k].kind
      PROVE  k \in DOMAIN merge.nodes /\ merge.nodes[k].kind = branch.nodes[k].kind
  <2>1. <<"kind">> \in FieldsOf(event)
    BY <1>5, <1>6
  <2>2. k \in Changed(base.nodes, merge.nodes) /\ Found(found, <<"kind">>) = branch.nodes[k].kind
    BY <1>2, <1>4, <2>1, FieldValues DEF Wanted
  <2>3. branch.nodes[k].kind # Missing
    BY DEF IsBlueprint
  <2>4. found.type # "removed"
    BY <2>2, <2>3, FieldValues DEF Found
  <2>5. QED
    BY <1>3, <2>2, <2>4, FieldValues DEF Found
<1>7. ASSUME NEW j, MetaValue(branch.nodes[k].meta, j) # MetaValue(base.nodes[k].meta, j)
      PROVE  /\ k \in DOMAIN merge.nodes
             /\ MetaValue(merge.nodes[k].meta, j) = MetaValue(branch.nodes[k].meta, j)
  <2> DEFINE v == MetaValue(branch.nodes[k].meta, j)
  <2>1. j \in DOMAIN base.nodes[k].meta \cup DOMAIN branch.nodes[k].meta
    BY <1>7 DEF MetaValue
  <2>2. <<"meta", j>> \in FieldsOf(event)
    BY <1>5, <1>7, <2>1
  <2>3. Wanted(event, <<"meta", j>>) = v
    <3>1. event.type # "removed"
      BY <1>2
    <3>2. FieldAfter(event, <<"meta", j>>, Null) =
            IF j \in DOMAIN event.after.meta THEN event.after.meta[j] ELSE Null
      BY <3>1, FieldValues
    <3>3. QED
      BY <1>2, <3>2 DEF Wanted, MetaValue
  <2>4. k \in Changed(base.nodes, merge.nodes) /\ Found(found, <<"meta", j>>) = v
    BY <1>4, <2>2, <2>3
  <2>5. v # Missing
    BY NullAssumption DEF IsBlueprint, MetaValue
  <2> HIDE DEF v
  <2>6. found.type # "removed"
    BY <2>4, <2>5, FieldValues DEF Found
  <2>7. k \in DOMAIN merge.nodes /\ found.after = merge.nodes[k]
    BY <1>3, <2>4, <2>6
  <2>8. v = IF j \in DOMAIN merge.nodes[k].meta THEN merge.nodes[k].meta[j] ELSE Missing
    BY <2>4, <2>6, <2>7, FieldValues, ZenonT(40) DEF Found
  <2>9. v = MetaValue(merge.nodes[k].meta, j)
    BY <2>5, <2>8 DEF MetaValue
  <2>10. QED
    BY <2>7, <2>9 DEF v
<1>8. QED
  BY <1>6, <1>7

\* A node that comes is there with its kind and its metadata, one that goes is gone.
LEMMA ComingNode ==
    ASSUME NEW base, NEW branch, NEW merge, NEW k,
           k \in DOMAIN base.nodes <=> k \notin DOMAIN branch.nodes,
           NodeKept(k, Delta(base, branch).nodes[k], Delta(base, merge)) = {}
    PROVE  /\ k \in DOMAIN merge.nodes <=> k \in DOMAIN branch.nodes
           /\ k \in DOMAIN branch.nodes =>
                /\ merge.nodes[k].kind = branch.nodes[k].kind
                /\ merge.nodes[k].meta = branch.nodes[k].meta
<1> DEFINE event == Delta(base, branch).nodes[k]
           found == Delta(base, merge).nodes[k]
<1>1. k \in Changed(base.nodes, branch.nodes)
  BY DEF Changed
<1>2. /\ event.type = IF k \in DOMAIN branch.nodes THEN "added" ELSE "removed"
      /\ k \in DOMAIN branch.nodes => event.after = branch.nodes[k]
  BY <1>1, DeltaNodes DEF Kind, ValueOf
<1>3. k \in Changed(base.nodes, merge.nodes) =>
        /\ found.type = Kind(base.nodes, merge.nodes, k)
        /\ k \in DOMAIN merge.nodes => found.after = merge.nodes[k]
  BY DeltaNodes DEF ValueOf
<1> HIDE DEF event, found
<1>4. CASE k \in DOMAIN branch.nodes
  <2>1. FieldsOf(event) = {<<"kind">>, <<"meta">>}
    BY <1>2, <1>4 DEF FieldsOf
  <2>2. /\ k \in Changed(base.nodes, merge.nodes)
        /\ Found(found, <<"kind">>) = Wanted(event, <<"kind">>)
        /\ Found(found, <<"meta">>) = Wanted(event, <<"meta">>)
    BY <1>2, <1>4, <2>1, KeptFields, DeltaNodes DEF event, found
  <2>3. k \in DOMAIN merge.nodes /\ found.type = "added" /\ found.after = merge.nodes[k]
    BY <1>3, <1>4, <2>2 DEF Changed, Kind
  <2>4. QED
    BY <1>2, <1>4, <2>2, <2>3, FieldValues DEF Found, Wanted
<1>5. CASE k \notin DOMAIN branch.nodes
  <2>1. k \in Changed(base.nodes, merge.nodes) /\ found.type = "removed"
    BY <1>2, <1>5, KeptFields, DeltaNodes DEF event, found
  <2>2. QED
    BY <1>3, <1>5, <2>1 DEF Kind
<1>6. QED
  BY <1>4, <1>5

\* One branch, part by part.
LEMMA NodePartsKept ==
    ASSUME NEW base, NEW branch, NEW merge, IsBlueprint(branch),
           NodesKept(Delta(base, branch), Delta(base, merge)) = {}, NEW k
    PROVE  /\ KeepsPart(base, branch, merge, <<"kind", k>>)
           /\ \A j : KeepsPart(base, branch, merge, <<"meta", k, j>>)
<1>1. k \in Changed(base.nodes, branch.nodes) =>
        NodeKept(k, Delta(base, branch).nodes[k], Delta(base, merge)) = {}
  BY DeltaNodes DEF NodesKept
<1>2. CASE k \in DOMAIN base.nodes \cap DOMAIN branch.nodes
  <2>1. CASE base.nodes[k] = branch.nodes[k]
    BY <1>2, <2>1, PartValues DEF KeepsPart
  <2>2. CASE base.nodes[k] # branch.nodes[k]
    <3>1. NodeKept(k, Delta(base, branch).nodes[k], Delta(base, merge)) = {}
      BY <1>1, <1>2, <2>2 DEF Changed
    <3>2. /\ branch.nodes[k].kind # base.nodes[k].kind =>
               k \in DOMAIN merge.nodes /\ merge.nodes[k].kind = branch.nodes[k].kind
          /\ \A j : MetaValue(branch.nodes[k].meta, j) # MetaValue(base.nodes[k].meta, j) =>
               /\ k \in DOMAIN merge.nodes
               /\ MetaValue(merge.nodes[k].meta, j) = MetaValue(branch.nodes[k].meta, j)
      BY <1>2, <2>2, <3>1, StayingNode
    <3>3. QED
      BY <1>2, <3>2, PartValues DEF KeepsPart
  <2>3. QED
    BY <2>1, <2>2
<1>3. CASE k \in DOMAIN base.nodes <=> k \notin DOMAIN branch.nodes
  <2>1. NodeKept(k, Delta(base, branch).nodes[k], Delta(base, merge)) = {}
    BY <1>1, <1>3 DEF Changed
  <2>2. /\ k \in DOMAIN merge.nodes <=> k \in DOMAIN branch.nodes
        /\ k \in DOMAIN branch.nodes =>
             /\ merge.nodes[k].kind = branch.nodes[k].kind
             /\ merge.nodes[k].meta = branch.nodes[k].meta
    BY <1>3, <2>1, ComingNode, ZenonT(40)
  <2>3. QED
    BY <2>2, PartValues DEF KeepsPart
<1>4. CASE k \notin DOMAIN base.nodes \cup DOMAIN branch.nodes
  BY <1>4, PartValues DEF KeepsPart
<1>5. QED
  BY <1>2, <1>3, <1>4

LEMMA EdgePartKept ==
    ASSUME NEW base, NEW branch, NEW merge, NEW removed,
           EdgesKept(Delta(base, branch), Delta(base, merge), removed) = {},
           NEW e, {e[2], e[3]} \cap removed = {}
    PROVE  KeepsPart(base, branch, merge, <<"edge", e>>)
<1> DEFINE B == Delta(base, branch).edges
           M == Delta(base, merge).edges
           lost == {f \in DOMAIN B : /\ ~(f \in DOMAIN M /\ M[f] = B[f])
                                     /\ {f[2], f[3]} \cap removed = {}}
<1>1. {Conflict("EDGE_INCOMPATIBLE_CHANGE", f) : f \in lost} = {}
  BY DEF EdgesKept
<1>2. lost = {}
  BY <1>1
<1>3. e \in DOMAIN B => e \in DOMAIN M /\ M[e] = B[e]
  BY <1>2
<1> HIDE DEF B, M
<1>4. (e \in branch.edges) # (e \in base.edges) => e \in DOMAIN B /\ e \in DOMAIN M /\ M[e] = B[e]
  BY <1>3, DeltaEdges DEF B
<1>5. (e \in branch.edges) # (e \in base.edges) => ((e \in merge.edges) = (e \in branch.edges))
  BY <1>4, DeltaEdges DEF B, M
<1>6. QED
  BY <1>5, PartValues DEF KeepsPart

LEMMA MountPartKept ==
    ASSUME NEW base, NEW branch, NEW merge,
           MountsKept(Delta(base, branch), Delta(base, merge)) = {}, NEW m
    PROVE  KeepsPart(base, branch, merge, <<"mount", m>>)
<1> DEFINE B == Delta(base, branch).mounts
           M == Delta(base, merge).mounts
           lost == {n \in DOMAIN B : ~ /\ n \in DOMAIN M
                                       /\ M[n].type = B[n].type
                                       /\ \/ B[n].type = "removed"
                                          \/ M[n].topology = B[n].topology}
<1>1. {Conflict("SUBGRAPH_INCOMPATIBLE_CHANGE", <<n>>) : n \in lost} = {}
  BY DEF MountsKept
<1>2. lost = {}
  BY <1>1
<1>3. m \in DOMAIN B => /\ m \in DOMAIN M
                        /\ M[m].type = B[m].type
                        /\ B[m].type = "removed" \/ M[m].topology = B[m].topology
  BY <1>2
<1> HIDE DEF B, M
<1>4. CASE m \in DOMAIN base.mounts /\ m \notin DOMAIN branch.mounts
  <2>1. m \in DOMAIN M /\ M[m].type = "removed"
    BY <1>3, <1>4, DeltaMounts DEF B
  <2>2. m \notin DOMAIN merge.mounts
    BY <2>1, DeltaMounts DEF M
  <2>3. QED
    BY <1>4, <2>2, PartValues DEF KeepsPart, ValueOf
<1>5. CASE m \notin DOMAIN base.mounts /\ m \in DOMAIN branch.mounts
  <2>1. m \in DOMAIN M /\ M[m].type = "added" /\ M[m].topology = branch.mounts[m]
    BY <1>3, <1>5, DeltaMounts DEF B
  <2>2. m \in DOMAIN merge.mounts /\ merge.mounts[m] = branch.mounts[m]
    BY <2>1, DeltaMounts DEF M
  <2>3. QED
    BY <1>5, <2>2, PartValues DEF KeepsPart, ValueOf
<1>6. CASE m \notin DOMAIN base.mounts /\ m \notin DOMAIN branch.mounts
  BY <1>6, PartValues DEF KeepsPart, ValueOf
<1>7. CASE m \in DOMAIN base.mounts /\ m \in DOMAIN branch.mounts
  BY <1>7 DEF KeepsPart, StaysMounted
<1>8. QED
  BY <1>4, <1>5, <1>6, <1>7

\* For any three blueprints and any merge: where the comparison of the graphs reports
\* no conflict, every watched part that a branch changed is in the merge as that branch
\* left it (evaluateIntegrationEffects).
THEOREM EffectsKeepWatched ==
    ASSUME NEW graph, IsBlueprint(graph.target), IsBlueprint(graph.head),
           GraphConflicts(graph) = {}
    PROVE  KeepsWatched(graph)
<1> DEFINE target == Delta(graph.base, graph.target)
           head == Delta(graph.base, graph.head)
           merge == Delta(graph.base, graph.merge)
           removed == RemovedNames(target) \cup RemovedNames(head)
<1> HIDE DEF target, head, merge
<1>1. Effects(target, head, merge) = {}
  BY DEF GraphConflicts, target, head, merge
<1>2. /\ NodesKept(target, merge) = {} /\ NodesKept(head, merge) = {}
      /\ EdgesKept(target, merge, removed) = {} /\ EdgesKept(head, merge, removed) = {}
      /\ MountsKept(target, merge) = {} /\ MountsKept(head, merge) = {}
  <2>1. /\ NodesKept(target, merge) \subseteq Effects(target, head, merge)
        /\ NodesKept(head, merge) \subseteq Effects(target, head, merge)
    BY SMT DEF Effects
  <2>2. /\ EdgesKept(target, merge, removed) \subseteq Effects(target, head, merge)
        /\ EdgesKept(head, merge, removed) \subseteq Effects(target, head, merge)
    BY SMT DEF Effects
  <2>3. /\ MountsKept(target, merge) \subseteq Effects(target, head, merge)
        /\ MountsKept(head, merge) \subseteq Effects(target, head, merge)
    BY SMT DEF Effects
  <2> HIDE DEF removed
  <2>4. QED
    BY <1>1, <2>1, <2>2, <2>3
<1> HIDE DEF removed
<1>3. SUFFICES ASSUME NEW part \in Parts({graph.base, graph.target, graph.head}),
                      Watched(graph, part)
               PROVE  /\ KeepsPart(graph.base, graph.target, graph.merge, part)
                      /\ KeepsPart(graph.base, graph.head, graph.merge, part)
  BY DEF KeepsWatched
<1>4. ASSUME NEW k, part = <<"kind", k>> \/ \E j : part = <<"meta", k, j>>
      PROVE  /\ KeepsPart(graph.base, graph.target, graph.merge, part)
             /\ KeepsPart(graph.base, graph.head, graph.merge, part)
  BY <1>2, <1>4, NodePartsKept DEF target, head, merge
<1>5. ASSUME NEW e, part = <<"edge", e>>
      PROVE  /\ KeepsPart(graph.base, graph.target, graph.merge, part)
             /\ KeepsPart(graph.base, graph.head, graph.merge, part)
  <2>1. part[1] = "edge" /\ part[2] = e
    BY <1>5
  <2>2. {e[2], e[3]} \cap removed = {}
    BY <1>3, <2>1 DEF Watched, removed, target, head
  <2>3. QED
    BY <1>2, <1>5, <2>2, EdgePartKept DEF target, head, merge
<1>6. ASSUME NEW m, part = <<"mount", m>>
      PROVE  /\ KeepsPart(graph.base, graph.target, graph.merge, part)
             /\ KeepsPart(graph.base, graph.head, graph.merge, part)
  BY <1>2, <1>6, MountPartKept DEF target, head, merge
<1>7. \/ \E k : part = <<"kind", k>> \/ \E j : part = <<"meta", k, j>>
      \/ \E e : part = <<"edge", e>>
      \/ \E m : part = <<"mount", m>>
  BY DEF Parts
<1>8. QED
  BY <1>4, <1>5, <1>6, <1>7

-----------------------------------------------------------------------------
(* The reasons of the conflicts that a comparison finds. *)

Reasoned(conflicts) == \A c \in conflicts : c.reason \in ConflictReasons

LEMMA ConflictParts ==
    ASSUME NEW reason, NEW witness
    PROVE  /\ Conflict(reason, witness).reason = reason
           /\ Conflict(reason, witness).witness = witness
  BY DEF Conflict

LEMMA FieldReasonIsKnown ==
    ASSUME NEW field
    PROVE  FieldReason(field) \in ConflictReasons
  BY DEF FieldReason, ConflictReasons

LEMMA NodesReasoned ==
    ASSUME NEW id, NEW left, NEW right, NEW key, NEW event, NEW branch, NEW merge
    PROVE  /\ Reasoned(NodePair(id, left, right))
           /\ Reasoned(NodeKept(key, event, merge))
           /\ Reasoned(NodesKept(branch, merge))
<1>1. /\ "NODE_DELETE_CHANGE" \in ConflictReasons
      /\ "NODE_INCOMPATIBLE_CHANGE" \in ConflictReasons
  BY DEF ConflictReasons
<1>2. ASSUME NEW c \in NodePair(id, left, right)
      PROVE  c.reason \in ConflictReasons
  <2>1. \/ c = Deleted(id)
        \/ c = Conflict("NODE_INCOMPATIBLE_CHANGE", <<id, <<"*">>>>)
        \/ \E f : c = Conflict(FieldReason(f), <<id, f>>)
    <3> DEFINE fields == {g \in FieldsOf(left) \cap FieldsOf(right) :
                            Wanted(left, g) # Wanted(right, g)}
    <3>1. \/ c = Deleted(id)
          \/ c = Conflict("NODE_INCOMPATIBLE_CHANGE", <<id, <<"*">>>>)
          \/ c \in {Conflict(FieldReason(f), <<id, f>>) : f \in fields}
      BY <1>2 DEF NodePair
    <3> HIDE DEF fields
    <3>2. QED
      BY <3>1
  <2>2. ASSUME NEW f, c = Conflict(FieldReason(f), <<id, f>>)
        PROVE  c.reason \in ConflictReasons
    BY <2>2, FieldReasonIsKnown, ConflictParts
  <2>3. ASSUME c = Deleted(id)
        PROVE  c.reason \in ConflictReasons
    BY <1>1, <2>3, ConflictParts DEF Deleted
  <2>4. ASSUME c = Conflict("NODE_INCOMPATIBLE_CHANGE", <<id, <<"*">>>>)
        PROVE  c.reason \in ConflictReasons
    BY <1>1, <2>4, ConflictParts
  <2>5. QED
    BY <2>1, <2>2, <2>3, <2>4, Zenon
<1>3. ASSUME NEW k, NEW e, NEW c \in NodeKept(k, e, merge)
      PROVE  c.reason \in ConflictReasons
  <2>1. \/ c = Deleted(k[2])
        \/ \E f : c = Conflict(FieldReason(f), <<k[2], f>>)
    <3> DEFINE fields == {g \in FieldsOf(e) :
                            ~(k \in DOMAIN merge.nodes /\ Found(merge.nodes[k], g) = Wanted(e, g))}
    <3>1. \/ c = Deleted(k[2])
          \/ c \in {Conflict(FieldReason(f), <<k[2], f>>) : f \in fields}
      BY <1>3 DEF NodeKept
    <3> HIDE DEF fields
    <3>2. QED
      BY <3>1
  <2>2. ASSUME NEW f, c = Conflict(FieldReason(f), <<k[2], f>>)
        PROVE  c.reason \in ConflictReasons
    BY <2>2, FieldReasonIsKnown, ConflictParts
  <2>3. ASSUME c = Deleted(k[2])
        PROVE  c.reason \in ConflictReasons
    BY <1>1, <2>3, ConflictParts DEF Deleted
  <2>4. QED
    BY <2>1, <2>2, <2>3, Zenon
<1>4. Reasoned(NodesKept(branch, merge))
  BY <1>3 DEF NodesKept, Reasoned
<1>5. QED
  BY <1>2, <1>3, <1>4 DEF Reasoned

LEMMA RestReasoned ==
    ASSUME NEW branch, NEW other, NEW merge, NEW removed
    PROVE  /\ Reasoned(EdgesKept(branch, merge, removed))
           /\ Reasoned(MountsKept(branch, merge))
           /\ Reasoned(Dangling(branch, other))
<1>1. /\ "NODE_DELETE_CHANGE" \in ConflictReasons
      /\ "EDGE_INCOMPATIBLE_CHANGE" \in ConflictReasons
      /\ "SUBGRAPH_INCOMPATIBLE_CHANGE" \in ConflictReasons
  BY DEF ConflictReasons
<1>2. ASSUME NEW c \in EdgesKept(branch, merge, removed)
      PROVE  c.reason \in ConflictReasons
  <2>1. \E e : c = Conflict("EDGE_INCOMPATIBLE_CHANGE", e)
    BY <1>2 DEF EdgesKept
  <2>2. QED
    BY <1>1, <2>1, ConflictParts
<1>3. ASSUME NEW c \in MountsKept(branch, merge)
      PROVE  c.reason \in ConflictReasons
  <2>1. \E m : c = Conflict("SUBGRAPH_INCOMPATIBLE_CHANGE", <<m>>)
    BY <1>3 DEF MountsKept
  <2>2. QED
    BY <1>1, <2>1, ConflictParts
<1>4. ASSUME NEW c \in Dangling(branch, other)
      PROVE  c.reason \in ConflictReasons
  <2>1. \E id : c = Deleted(id)
    BY <1>4 DEF Dangling
  <2>2. QED
    BY <1>1, <2>1, ConflictParts DEF Deleted
<1>5. QED
  BY <1>2, <1>3, <1>4 DEF Reasoned

LEMMA EffectsReasoned ==
    ASSUME NEW target, NEW head, NEW merge
    PROVE  Reasoned(Effects(target, head, merge))
<1> DEFINE removed == RemovedNames(target) \cup RemovedNames(head)
           pairs == UNION {NodePair(k[2], target.nodes[k], head.nodes[k]) :
                             k \in DOMAIN target.nodes \cap DOMAIN head.nodes}
           edges == {Conflict("EDGE_INCOMPATIBLE_CHANGE", e) :
                       e \in {f \in DOMAIN target.edges \cap DOMAIN head.edges :
                               target.edges[f] # head.edges[f]}}
           mounts == {Conflict("SUBGRAPH_INCOMPATIBLE_CHANGE", <<m>>) :
                        m \in {n \in DOMAIN target.mounts \cap DOMAIN head.mounts :
                                target.mounts[n] # head.mounts[n]}}
           nodesKept == NodesKept(target, merge) \cup NodesKept(head, merge)
           edgesKept == EdgesKept(target, merge, removed) \cup EdgesKept(head, merge, removed)
           mountsKept == MountsKept(target, merge) \cup MountsKept(head, merge)
           dangling == Dangling(target, head) \cup Dangling(head, target)
<1>1. Reasoned(pairs)
  BY NodesReasoned DEF Reasoned
<1>2. Reasoned(edges)
  BY ConflictParts DEF Reasoned, ConflictReasons
<1>3. ASSUME NEW c \in mounts
      PROVE  c.reason \in ConflictReasons
  <2>1. \E m : c = Conflict("SUBGRAPH_INCOMPATIBLE_CHANGE", <<m>>)
    BY <1>3
  <2>2. QED
    BY <2>1, ConflictParts DEF ConflictReasons
<1>4. Reasoned(nodesKept)
  BY NodesReasoned DEF Reasoned
<1>5. Reasoned(edgesKept) /\ Reasoned(mountsKept) /\ Reasoned(dangling)
  <2> HIDE DEF removed
  <2>1. QED
    BY RestReasoned DEF Reasoned
<1>6. Effects(target, head, merge) =
        pairs \cup nodesKept \cup edges \cup edgesKept \cup mounts \cup mountsKept \cup dangling
  BY SMT DEF Effects
<1> HIDE DEF pairs, nodesKept, edges, edgesKept, mounts, mountsKept, dangling
<1>7. QED
  BY <1>1, <1>2, <1>3, <1>4, <1>5, <1>6 DEF Reasoned

LEMMA ClaimsReasoned ==
    ASSUME NEW merge
    PROVE  /\ Reasoned(ClaimConflicts(merge))
           /\ ClaimConflicts(merge) = {} => \A u \in UnitSet : merge \in Satisfying[u]
<1> DEFINE claims == {Conflict("CLAIM_INVALIDATED", <<u>>) :
                        u \in {v \in UnitSet : merge \notin Satisfying[v]}}
           lost == UNION {{Conflict("DEPENDENCY_INVALIDATED", <<u, d>>) :
                             d \in Deps[u] \cap Invalid(merge)} : u \in UnitSet}
<1>1. ClaimConflicts(merge) = claims \cup lost
  BY DEF ClaimConflicts
<1>2. ASSUME NEW c \in claims
      PROVE  c.reason \in ConflictReasons
  <2>1. \E u : c = Conflict("CLAIM_INVALIDATED", <<u>>)
    BY <1>2
  <2>2. QED
    BY <2>1, ConflictParts DEF ConflictReasons
<1>3. ASSUME NEW c \in lost
      PROVE  c.reason \in ConflictReasons
  <2>1. \E u, d : c = Conflict("DEPENDENCY_INVALIDATED", <<u, d>>)
    BY <1>3
  <2>2. QED
    BY <2>1, ConflictParts DEF ConflictReasons
<1>4. claims = {} => \A u \in UnitSet : merge \in Satisfying[u]
  OBVIOUS
<1> HIDE DEF claims, lost
<1>5. QED
  BY <1>1, <1>2, <1>3, <1>4 DEF Reasoned

-----------------------------------------------------------------------------
(* The invariant. *)

Heads == [id : Nat, fork : Nat, verdict : Verdicts]
Refs == [target : Nat, head : Heads]

RunFields == {"at", "fixed", "gate", "target", "graph", "candidate", "result", "why"}

\* The stages that know the head, the target as well, and a result as well.
Concluded == {"recheck", "rehead", "done"}
Aimed == {"evaluate", "judge"} \cup Concluded
Gated == {"snapshot", "merge"} \cup Aimed
RunStages == {"idle", "gate", "failed"} \cup Gated

\* What a run knows is of the right kind, and its head is not newer than the branch.
RunShape ==
    /\ refs \in Refs
    /\ run.at \in RunStages
    /\ run.at = "idle" <=> run = NoRun
    /\ run.at # "idle" => DOMAIN run = RunFields /\ run.fixed \in {None, refs}
    /\ run.at \in Gated => run.gate \in Heads /\ run.gate.id <= refs.head.id
    /\ run.at \in {"gate", "snapshot"} => run.target = None
    /\ run.at \in Aimed \/ (run.at = "merge" /\ run.target # None) => run.target \in Nat
    /\ run.at = "judge" => run.graph.target \in Blueprints /\ run.graph.head \in Blueprints

\* A result that calls the integration compatible is about the revisions of the run,
\* whose head passes its gate; while the graph is still there, it has no conflict.
ResultHolds ==
    /\ run.at \in Concluded =>
        /\ run.result.outcome \in {"compatible", "conflict", "error"}
        /\ run.result.outcome = "compatible" =>
            /\ run.result.observed = <<run.target, run.gate.id>>
            /\ run.gate.verdict = "pass"
    /\ run.at = "recheck" /\ run.result.outcome = "compatible" =>
        /\ run.graph.target \in Blueprints /\ run.graph.head \in Blueprints
        /\ GraphConflicts(run.graph) = {}
        /\ ClaimConflicts(run.graph.merge) = {}

\* From the evaluation on, the revisions that stand are among those that have stood;
\* once the target has been read again, a head that has not moved stood with it.
StoodHolds ==
    /\ run.at \in {"judge", "recheck", "rehead"} => Now(refs) \in stood
    /\ run.at = "rehead" /\ refs.head.id = run.gate.id => <<run.target, run.gate.id>> \in stood
    /\ run.at = "done" /\ run.result.outcome = "compatible" => <<run.target, run.gate.id>> \in stood

RunInv == RunShape /\ ResultHolds /\ StoodHolds /\ VerifierNeverRefuses

JobFields == {"at", "event", "cancelled", "exit", "file", "outcome", "announced", "uploaded"}

\* A job has the revisions of its event, and so has its run.
JobShape ==
    /\ job # NoJob =>
        /\ DOMAIN job = JobFields
        /\ job.at \in Steps \cup {"upload", "over"}
        /\ job.event = refs
        /\ DOMAIN job.exit = Steps /\ DOMAIN job.file = Steps /\ DOMAIN job.outcome = Steps
        /\ run.at \in Gated => run.gate = refs.head
        /\ run.at \in Aimed \/ (run.at = "merge" /\ run.target # None) => run.target = refs.target
    /\ job = NoJob /\ run.at # "idle" => run.fixed = None
    /\ job # NoJob /\ run.at # "idle" => run.fixed = refs

\* What a step leaves is about its work: the file about the verdict of the head and the
\* result of the run, what is announced about the file, the exit code about both.
StepsHold ==
    job # NoJob =>
        /\ job.file["gate"] # "none" =>
            RangeFits(job.event) /\ job.outcome["gate"] = job.event.head.verdict
        /\ job.file["integration"] # "none" =>
            run.at = "done" /\ job.outcome["integration"] = run.result.outcome
        /\ \A s \in job.announced : job.file[s] # "none"
        /\ \A s \in Steps : job.exit[s] = 0 =>
            s \in job.announced /\ job.outcome[s] \in {"pass", "compatible"}
        /\ job.at = "over" => job.uploaded = job.announced
        /\ job.announced \subseteq Steps

CiInv == RunInv /\ JobShape /\ StepsHold

\* What the run resolves are the revisions that stand.
LEMMA Resolves ==
    ASSUME RunShape, run.at # "idle", NEW name
    PROVE  Resolve(name) = refs[name]
BY DEF RunShape, Resolve

\* A failure that tells the revisions as they are is accepted, and never compatible.
LEMMA FailIsAccepted ==
    ASSUME NEW next, NEW reason, NEW observed, DOMAIN run = RunFields,
           Fail(next, reason, observed),
           reason = "TARGET_MOVED" <=> observed[1] # run.target,
           reason = "HEAD_MOVED" <=> observed[2] # run.gate.id
    PROVE  /\ run' = [run EXCEPT !.at = next, !.candidate = run'.candidate, !.result = run'.result]
           /\ run'.result.outcome \in {"conflict", "error"}
<1> DEFINE candidate == Candidate(FailureOutcome(reason))
           result == [observed |-> observed, conflicts |-> {Conflict(reason, <<reason>>)},
                      reasons |-> {reason}, outcome |-> FailureOutcome(reason)]
<1>1. /\ candidate.target = run.target /\ candidate.head = run.gate.id
      /\ result.observed = observed /\ result.reasons = {reason}
      /\ result.outcome = FailureOutcome(reason)
      /\ result.conflicts = {Conflict(reason, <<reason>>)}
  BY DEF Candidate
<1>2. /\ FailureOutcome(reason) \in {"conflict", "error"}
      /\ FailureOutcome(reason) = "conflict" <=> reason \in ConflictReasons
  BY DEF FailureOutcome
<1> HIDE DEF candidate, result
<1>3. {c.reason : c \in result.conflicts} = {reason}
  BY <1>1, ConflictParts
<1>4. Accepts(candidate, result)
  BY <1>1, <1>2, <1>3 DEF Accepts
<1>5. run' = [run EXCEPT !.at = next, !.candidate = candidate, !.result = result]
  BY <1>4 DEF Fail, Assemble, candidate, result
<1>6. run'.candidate = candidate /\ run'.result = result
  BY <1>5 DEF RunFields
<1>7. QED
  BY <1>1, <1>2, <1>5, <1>6

\* The judgement of the conflicts that were found is accepted too.
LEMMA JudgementIsAccepted ==
    ASSUME NEW next, NEW conflicts, DOMAIN run = RunFields, Reasoned(conflicts),
           GateConflicts \subseteq conflicts,
           Assemble(next, Candidate("ready"), Judged(conflicts))
    PROVE  /\ run' = [run EXCEPT !.at = next, !.candidate = run'.candidate, !.result = run'.result]
           /\ run'.result.outcome = IF conflicts = {} THEN "compatible" ELSE "conflict"
           /\ run'.result.observed = <<run.target, run.gate.id>>
           /\ conflicts = {} => run.gate.verdict = "pass"
<1> DEFINE candidate == Candidate("ready")
           result == Judged(conflicts)
<1>1. /\ candidate.target = run.target /\ candidate.head = run.gate.id
      /\ candidate.status = "ready" /\ candidate.verdict = run.gate.verdict
      /\ result.observed = <<run.target, run.gate.id>>
      /\ result.reasons = {c.reason : c \in conflicts}
      /\ result.conflicts = conflicts
      /\ result.outcome = IF conflicts = {} THEN "compatible" ELSE "conflict"
  BY DEF Candidate, Judged
<1>2. conflicts = {} => run.gate.verdict = "pass"
  BY DEF GateConflicts
<1> HIDE DEF candidate, result
<1>3. /\ result.reasons \subseteq ConflictReasons
      /\ conflicts # {} => result.reasons # {}
      /\ conflicts = {} => result.reasons = {}
  BY <1>1 DEF Reasoned
<1>4. "TARGET_MOVED" \notin ConflictReasons /\ "HEAD_MOVED" \notin ConflictReasons
  BY DEF ConflictReasons
<1>5. Accepts(candidate, result)
  BY <1>1, <1>2, <1>3, <1>4 DEF Accepts
<1>6. run' = [run EXCEPT !.at = next, !.candidate = candidate, !.result = result]
  BY <1>5 DEF Assemble, candidate, result
<1>7. run'.candidate = candidate /\ run'.result = result
  BY <1>6 DEF RunFields
<1>8. QED
  BY <1>1, <1>2, <1>6, <1>7

-----------------------------------------------------------------------------
(* The steps of a run. *)

\* A failure of a run that has begun, with a reason of its own or none that it verifies.
LEMMA GivingUpKeeps ==
    ASSUME CiInv, run.at \notin {"idle", "done", "failed"}, NEW why, why # "verifier",
           GiveUp(why), UNCHANGED <<refs, stood, job>>
    PROVE  CiInv'
<1>1. /\ DOMAIN run = RunFields /\ run.at # "done"
  BY DEF CiInv, RunInv, RunShape
<1>2. /\ DOMAIN run' = RunFields /\ run'.at = "failed" /\ run'.why = why
      /\ run'.fixed = run.fixed
      /\ run' # NoRun
  BY <1>1 DEF GiveUp, RunFields, NoRun
<1>3. RunInv'
  BY <1>2 DEF CiInv, RunInv, RunShape, ResultHolds, StoodHolds, VerifierNeverRefuses,
              RunStages, Gated, Aimed, Concluded, Now
<1>4. JobShape'
  BY <1>2 DEF CiInv, RunInv, RunShape, JobShape, Gated, Aimed, Concluded
<1>5. StepsHold'
  BY <1>1 DEF CiInv, StepsHold
<1>6. QED
  BY <1>3, <1>4, <1>5 DEF CiInv

\* A run that ends without being compatible, with what it knew.
LEMMA FailingKeeps ==
    ASSUME CiInv, run.at \in {"merge", "evaluate", "recheck", "rehead"},
           run.at = "merge" => run.target # None,
           NEW next, next = "done" \/ (next = "recheck" /\ Now(refs) \in stood'),
           run' = [run EXCEPT !.at = next, !.candidate = run'.candidate, !.result = run'.result],
           run'.result.outcome \in {"conflict", "error"},
           UNCHANGED <<refs, job>>
    PROVE  CiInv'
<1>1. /\ DOMAIN run = RunFields /\ run.at # "done" /\ run.at # "idle"
      /\ run.fixed \in {None, refs} /\ refs \in Refs
      /\ run.gate \in Heads /\ run.gate.id <= refs.head.id
      /\ run.target \in Nat
  BY DEF CiInv, RunInv, RunShape, Gated, Aimed, Concluded
<1>2. /\ DOMAIN run' = RunFields /\ run'.at = next
      /\ run'.fixed = run.fixed /\ run'.gate = run.gate /\ run'.target = run.target
      /\ run' # NoRun
  BY <1>1 DEF RunFields, NoRun
<1>3. RunShape'
  BY <1>1, <1>2 DEF RunShape, RunStages, Gated, Aimed, Concluded
<1>4. ResultHolds'
  BY <1>2 DEF ResultHolds
<1>5. StoodHolds'
  BY <1>2 DEF StoodHolds, Now
<1>6. VerifierNeverRefuses'
  BY <1>2 DEF VerifierNeverRefuses
<1>7. JobShape'
  BY <1>1, <1>2 DEF CiInv, JobShape, Gated, Aimed, Concluded
<1>8. StepsHold'
  BY <1>1 DEF CiInv, StepsHold
<1>9. QED
  BY <1>3, <1>4, <1>5, <1>6, <1>7, <1>8 DEF CiInv, RunInv

\* A run that goes on to a stage, with what the stages before it knew.
LEMMA RunStepKeeps ==
    ASSUME CiInv, RunStep, UNCHANGED job
    PROVE  CiInv'
<1>1. RunShape /\ RunInv /\ JobShape /\ StepsHold
  BY DEF CiInv, RunInv
<1>2. run.at \notin {"idle", "done", "failed"}
  BY DEF RunStep, GateHead, SnapshotTarget, ResolveTarget, MergeIsolated, Evaluate, Judge,
         RecheckTarget, RecheckHead
<1>3. DOMAIN run = RunFields /\ run.fixed \in {None, refs} /\ refs \in Refs
  BY <1>1, <1>2 DEF RunShape
<1>4. Resolve("head") = refs.head /\ Resolve("target") = refs.target
  BY <1>1, <1>2, Resolves
<1>5. refs.head \in Heads /\ refs.target \in Nat /\ refs.head.id \in Nat
  BY <1>3 DEF Refs, Heads
<1>6. StepsHold'
  BY <1>1, <1>2 DEF StepsHold
<1>7. CASE GateHead
  <2>1. CASE run' = [run EXCEPT !.at = "snapshot", !.gate = Resolve("head")]
    <3>1. /\ DOMAIN run' = RunFields /\ run'.at = "snapshot" /\ run'.gate = refs.head
          /\ run'.fixed = run.fixed /\ run'.target = run.target /\ run' # NoRun
          /\ run.at = "gate"
          /\ refs' = refs /\ stood' = stood
      BY <1>3, <1>4, <1>7, <2>1 DEF GateHead, RunFields, NoRun
    <3>2. RunInv'
      BY <1>1, <1>3, <1>5, <3>1 DEF RunInv, RunShape, ResultHolds, StoodHolds, VerifierNeverRefuses,
                              RunStages, Gated, Aimed, Concluded
    <3>3. JobShape'
      BY <1>1, <1>2, <3>1 DEF JobShape, Gated, Aimed, Concluded
    <3>4. QED
      BY <1>6, <3>2, <3>3 DEF CiInv
  <2>2. CASE GiveUp("plan")
    BY <1>2, <1>7, <2>2, GivingUpKeeps DEF GateHead
  <2>3. QED
    BY <1>7, <2>1, <2>2 DEF GateHead
<1>8. CASE SnapshotTarget
  <2>1. CASE run' = [run EXCEPT !.at = "merge"]
    <3>1. /\ DOMAIN run' = RunFields /\ run'.at = "merge" /\ run.at = "snapshot"
          /\ run'.fixed = run.fixed /\ run' # NoRun
          /\ run'.gate = run.gate /\ run'.target = run.target
          /\ refs' = refs /\ stood' = stood
      BY <1>3, <1>8, <2>1 DEF SnapshotTarget, RunFields, NoRun
    <3>2. RunInv'
      BY <1>1, <1>3, <1>5, <3>1 DEF RunInv, RunShape, ResultHolds, StoodHolds, VerifierNeverRefuses,
                              RunStages, Gated, Aimed, Concluded
    <3>3. JobShape'
      BY <1>1, <1>2, <3>1 DEF JobShape, RunShape, Gated, Aimed, Concluded
    <3>4. QED
      BY <1>6, <3>2, <3>3 DEF CiInv
  <2>2. CASE GiveUp("snapshot")
    BY <1>2, <1>8, <2>2, GivingUpKeeps DEF SnapshotTarget
  <2>3. QED
    BY <1>8, <2>1, <2>2 DEF SnapshotTarget
<1>9. CASE ResolveTarget
  <2>1. /\ DOMAIN run' = RunFields /\ run'.at = "merge" /\ run.at = "merge"
        /\ run'.fixed = run.fixed /\ run' # NoRun
        /\ run'.gate = run.gate /\ run'.target = refs.target
        /\ refs' = refs /\ stood' = stood
    BY <1>3, <1>4, <1>9 DEF ResolveTarget, RunFields, NoRun
  <2>2. RunInv'
    BY <1>1, <1>3, <1>5, <2>1 DEF RunInv, RunShape, ResultHolds, StoodHolds, VerifierNeverRefuses,
                                  RunStages, Gated, Aimed, Concluded
  <2>3. JobShape'
    BY <1>1, <1>2, <2>1 DEF JobShape, Gated, Aimed, Concluded
  <2>4. QED
    BY <1>6, <2>2, <2>3 DEF CiInv
<1>10. CASE MergeIsolated
  <2>1. CASE run' = [run EXCEPT !.at = "evaluate"]
    <3>1. /\ DOMAIN run' = RunFields /\ run'.at = "evaluate" /\ run.at = "merge"
          /\ run'.fixed = run.fixed /\ run' # NoRun
          /\ run'.gate = run.gate /\ run'.target = run.target /\ run.target # None
          /\ refs' = refs /\ stood' = stood
      BY <1>3, <1>10, <2>1 DEF MergeIsolated, RunFields, NoRun
    <3>2. RunInv'
      BY <1>1, <1>3, <1>5, <3>1 DEF RunInv, RunShape, ResultHolds, StoodHolds, VerifierNeverRefuses,
                              RunStages, Gated, Aimed, Concluded
    <3>3. JobShape'
      BY <1>1, <1>2, <3>1 DEF JobShape, Gated, Aimed, Concluded
    <3>4. QED
      BY <1>6, <3>2, <3>3 DEF CiInv
  <2>2. ASSUME NEW reason \in MergeTrouble, Fail("done", reason, <<run.target, run.gate.id>>)
        PROVE  CiInv'
    <3>1. reason # "TARGET_MOVED" /\ reason # "HEAD_MOVED"
      BY DEF MergeTrouble
    <3>2. /\ run' = [run EXCEPT !.at = "done", !.candidate = run'.candidate, !.result = run'.result]
          /\ run'.result.outcome \in {"conflict", "error"}
      BY <1>3, <2>2, <3>1, FailIsAccepted
    <3>3. QED
      BY <1>10, <3>2, FailingKeeps DEF MergeIsolated
  <2>3. QED
    BY <1>10, <2>1, <2>2 DEF MergeIsolated
<1>11. CASE Evaluate
  <2>1. /\ run.at = "evaluate" /\ refs' = refs /\ stood' = {Now(refs)}
    BY <1>11 DEF Evaluate
  <2>2. ASSUME NEW base \in Blueprints, NEW target \in Blueprints, NEW head \in Blueprints,
               NEW merge \in Blueprints,
               run' = [run EXCEPT !.at = "judge",
                        !.graph = [base |-> base, target |-> target, head |-> head, merge |-> merge]]
        PROVE  CiInv'
    <3>1. /\ DOMAIN run' = RunFields /\ run'.at = "judge"
          /\ run'.fixed = run.fixed /\ run' # NoRun
          /\ run'.gate = run.gate /\ run'.target = run.target
          /\ run'.graph.target = target /\ run'.graph.head = head
      BY <1>3, <2>2 DEF RunFields, NoRun
    <3>2. RunShape'
      BY <1>1, <1>3, <1>5, <2>1, <2>2, <3>1 DEF RunShape, RunStages, Gated, Aimed, Concluded
    <3>3. ResultHolds' /\ StoodHolds' /\ VerifierNeverRefuses'
      BY <2>1, <3>1 DEF ResultHolds, StoodHolds, VerifierNeverRefuses, Concluded, Now
    <3>4. JobShape'
      BY <1>1, <1>2, <2>1, <3>1 DEF JobShape, Gated, Aimed, Concluded
    <3>5. QED
      BY <1>6, <3>2, <3>3, <3>4 DEF CiInv, RunInv
  <2>3. ASSUME NEW reason \in {"CANDIDATE_EVALUATION_FAILED", "CANDIDATE_BLUEPRINT_INVALID"},
               Fail("recheck", reason, <<run.target, run.gate.id>>)
        PROVE  CiInv'
    <3>1. /\ run' = [run EXCEPT !.at = "recheck", !.candidate = run'.candidate, !.result = run'.result]
          /\ run'.result.outcome \in {"conflict", "error"}
      BY <1>3, <2>3, FailIsAccepted
    <3>2. QED
      BY <2>1, <3>1, FailingKeeps
  <2>4. QED
    BY <1>11, <2>2, <2>3 DEF Evaluate
<1>12. CASE Judge
  <2>1. PICK policy \in {{}} \cup {{Conflict("POLICY_INVALIDATED", <<"policy">>)} :
                                t \in {"policy"} \cap Troubles} :
        Assemble("recheck", Candidate("ready"),
            Judged(GraphConflicts(run.graph) \cup ClaimConflicts(run.graph.merge)
                   \cup GateConflicts \cup policy))
    BY <1>12 DEF Judge
  <2> DEFINE conflicts == GraphConflicts(run.graph) \cup ClaimConflicts(run.graph.merge)
                   \cup GateConflicts \cup policy
  <2>2. Reasoned(conflicts)
    <3>1. Reasoned(policy) /\ Reasoned(GateConflicts)
      BY ConflictParts DEF Reasoned, GateConflicts, ConflictReasons
    <3>2. Reasoned(GraphConflicts(run.graph)) /\ Reasoned(ClaimConflicts(run.graph.merge))
      BY EffectsReasoned, ClaimsReasoned DEF GraphConflicts
    <3>3. QED
      BY <3>1, <3>2 DEF Reasoned
  <2>3. /\ GateConflicts \subseteq conflicts
        /\ conflicts = {} => GraphConflicts(run.graph) = {} /\ ClaimConflicts(run.graph.merge) = {}
    OBVIOUS
  <2>4. Assemble("recheck", Candidate("ready"), Judged(conflicts))
    BY <2>1
  <2> HIDE DEF conflicts
  <2>5. /\ run' = [run EXCEPT !.at = "recheck", !.candidate = run'.candidate, !.result = run'.result]
        /\ run'.result.outcome = IF conflicts = {} THEN "compatible" ELSE "conflict"
        /\ run'.result.observed = <<run.target, run.gate.id>>
        /\ conflicts = {} => run.gate.verdict = "pass"
    BY <1>3, <2>2, <2>3, <2>4, JudgementIsAccepted
  <2>6. /\ DOMAIN run' = RunFields /\ run'.at = "recheck" /\ run.at = "judge"
        /\ run'.fixed = run.fixed /\ run' # NoRun
        /\ run'.gate = run.gate /\ run'.target = run.target /\ run'.graph = run.graph
        /\ refs' = refs /\ stood' = stood
    BY <1>3, <1>12, <2>5 DEF Judge, RunFields, NoRun
  <2>7. RunShape'
    BY <1>1, <1>3, <1>5, <2>6 DEF RunShape, RunStages, Gated, Aimed, Concluded
  <2>8. ResultHolds'
    BY <1>1, <2>3, <2>5, <2>6 DEF ResultHolds, RunShape
  <2>9. StoodHolds' /\ VerifierNeverRefuses'
    BY <1>1, <2>6 DEF RunInv, StoodHolds, VerifierNeverRefuses, Now
  <2>10. JobShape'
    BY <1>1, <1>2, <2>6 DEF JobShape, Gated, Aimed, Concluded
  <2>11. QED
    BY <1>6, <2>7, <2>8, <2>9, <2>10 DEF CiInv, RunInv
<1>13. CASE RecheckTarget
  <2>1. CASE Resolve("target") = run.target
    <3>1. /\ DOMAIN run' = RunFields /\ run'.at = "rehead" /\ run.at = "recheck"
          /\ run'.fixed = run.fixed /\ run' # NoRun
          /\ run'.gate = run.gate /\ run'.target = run.target /\ run'.result = run.result
          /\ refs' = refs /\ stood' = stood
      BY <1>3, <1>13, <2>1 DEF RecheckTarget, RunFields, NoRun
    <3>2. RunShape'
      BY <1>1, <1>3, <1>5, <3>1 DEF RunShape, RunStages, Gated, Aimed, Concluded
    <3>3. ResultHolds' /\ VerifierNeverRefuses'
      BY <1>1, <3>1 DEF RunInv, ResultHolds, VerifierNeverRefuses, Concluded
    <3>4. StoodHolds'
      BY <1>1, <1>4, <2>1, <3>1 DEF RunInv, StoodHolds, Now
    <3>5. JobShape'
      BY <1>1, <1>2, <3>1 DEF JobShape, Gated, Aimed, Concluded
    <3>6. QED
      BY <1>6, <3>2, <3>3, <3>4, <3>5 DEF CiInv, RunInv
  <2>2. CASE Resolve("target") # run.target
    <3>1. Fail("done", "TARGET_MOVED", <<Resolve("target"), run.gate.id>>)
      BY <1>13, <2>2 DEF RecheckTarget
    <3>2. /\ run' = [run EXCEPT !.at = "done", !.candidate = run'.candidate, !.result = run'.result]
          /\ run'.result.outcome \in {"conflict", "error"}
      BY <1>3, <2>2, <3>1, FailIsAccepted
    <3>3. QED
      BY <1>13, <3>2, FailingKeeps DEF RecheckTarget
  <2>3. QED
    BY <2>1, <2>2
<1>14. CASE RecheckHead
  <2>1. CASE Resolve("head").id = run.gate.id
    <3>1. /\ DOMAIN run' = RunFields /\ run'.at = "done" /\ run.at = "rehead"
          /\ run'.fixed = run.fixed /\ run' # NoRun
          /\ run'.gate = run.gate /\ run'.target = run.target /\ run'.result = run.result
          /\ refs' = refs /\ stood' = stood
      BY <1>3, <1>14, <2>1 DEF RecheckHead, RunFields, NoRun
    <3>2. RunShape'
      BY <1>1, <1>3, <1>5, <3>1 DEF RunShape, RunStages, Gated, Aimed, Concluded
    <3>3. ResultHolds' /\ VerifierNeverRefuses'
      BY <1>1, <3>1 DEF RunInv, ResultHolds, VerifierNeverRefuses, Concluded
    <3>4. StoodHolds'
      BY <1>1, <1>4, <2>1, <3>1 DEF RunInv, StoodHolds
    <3>5. JobShape'
      BY <1>1, <1>2, <3>1 DEF JobShape, Gated, Aimed, Concluded
    <3>6. QED
      BY <1>6, <3>2, <3>3, <3>4, <3>5 DEF CiInv, RunInv
  <2>2. CASE Resolve("head").id # run.gate.id
    <3>1. Fail("done", "HEAD_MOVED", <<run.target, Resolve("head").id>>)
      BY <1>14, <2>2 DEF RecheckHead
    <3>2. /\ run' = [run EXCEPT !.at = "done", !.candidate = run'.candidate, !.result = run'.result]
          /\ run'.result.outcome \in {"conflict", "error"}
      BY <1>3, <2>2, <3>1, FailIsAccepted
    <3>3. QED
      BY <1>14, <3>2, FailingKeeps DEF RecheckHead
  <2>3. QED
    BY <2>1, <2>2
<1>15. QED
  BY <1>7, <1>8, <1>9, <1>10, <1>11, <1>12, <1>13, <1>14 DEF RunStep

-----------------------------------------------------------------------------
(* The steps of the job and the branches. *)

\* The branches move on only while there is no job, and only forward.
LEMMA PushKeeps ==
    ASSUME CiInv, Push
    PROVE  CiInv'
<1>1. job = NoJob /\ UNCHANGED <<run, job>>
  BY DEF Push, PushTarget, PushHead
<1>2. refs \in Refs /\ refs.target \in Nat /\ refs.head \in Heads /\ refs.head.id \in Nat
      /\ refs.head.fork \in Nat
  BY DEF CiInv, RunInv, RunShape, Refs, Heads
<1>3. /\ refs' \in Refs
      /\ refs'.head.id \in Nat
      /\ stood' = stood \cup {Now(refs')}
      /\ \/ refs'.head = refs.head
         \/ refs'.head.id = refs.head.id + 1
  <2>1. CASE PushTarget
    BY <1>2, <2>1 DEF PushTarget, Refs
  <2>2. CASE PushHead
    <3>1. PICK fork \in {refs.head.fork, refs.target}, verdict \in Verdicts :
            refs' = [refs EXCEPT !.head = [id |-> @.id + 1, fork |-> fork, verdict |-> verdict]]
      BY <2>2 DEF PushHead
    <3> DEFINE head == [id |-> refs.head.id + 1, fork |-> fork, verdict |-> verdict]
    <3>2. head \in Heads /\ head.id = refs.head.id + 1
      BY <1>2 DEF Heads
    <3>3. refs' = [refs EXCEPT !.head = head]
      BY <3>1
    <3> HIDE DEF head
    <3>4. refs' \in Refs /\ refs'.head = head
      BY <1>2, <3>2, <3>3 DEF Refs
    <3>5. QED
      BY <1>2, <2>2, <3>2, <3>4 DEF PushHead
  <2>3. QED
    BY <2>1, <2>2 DEF Push
<1>4. run.at # "idle" => run.fixed = None
  BY <1>1 DEF CiInv, JobShape
<1>5. RunShape'
  <2>1. run.at \in Gated => run.gate.id \in Nat
    BY DEF CiInv, RunInv, RunShape, Heads
  <2>2. run.at \in Gated => run.gate.id <= refs'.head.id
    BY <1>2, <1>3, <2>1 DEF CiInv, RunInv, RunShape
  <2>3. QED
    BY <1>1, <1>3, <1>4, <2>2 DEF CiInv, RunInv, RunShape
<1>6. ResultHolds' /\ VerifierNeverRefuses'
  BY <1>1 DEF CiInv, RunInv, ResultHolds, VerifierNeverRefuses
<1>7. StoodHolds'
  <2>1. run.at = "rehead" => run.gate.id \in Nat /\ run.gate.id <= refs.head.id
    BY DEF CiInv, RunInv, RunShape, Heads, Gated, Aimed, Concluded
  <2>2. run.at = "rehead" /\ refs'.head.id = run.gate.id => refs.head.id = run.gate.id
    BY <1>2, <1>3, <2>1
  <2>3. QED
    BY <1>1, <1>3, <2>2 DEF CiInv, RunInv, StoodHolds
<1>8. JobShape' /\ StepsHold'
  BY <1>1, <1>4 DEF CiInv, JobShape, StepsHold
<1>9. QED
  BY <1>5, <1>6, <1>7, <1>8 DEF CiInv, RunInv

\* A run starts on names, or on the revisions of the event of the job.
LEMMA StartKeeps ==
    ASSUME CiInv, FromTheCommandLine \/ StartIntegration
    PROVE  CiInv'
<1> DEFINE fixed == IF job = NoJob THEN None ELSE refs
<1>1. /\ StartRun(fixed)
      /\ run.at = "idle"
      /\ UNCHANGED <<refs, stood, job>>
  <2>1. CASE FromTheCommandLine
    BY <2>1 DEF FromTheCommandLine, IntegrateNames
  <2>2. CASE StartIntegration
    <3>1. job # NoJob => job.event = refs
      BY DEF CiInv, JobShape
    <3>2. QED
      BY <2>2, <3>1 DEF StartIntegration, Running, NoRun
  <2>3. QED
    BY <2>1, <2>2
<1>2. /\ DOMAIN run' = RunFields /\ run'.at = "gate" /\ run'.fixed = fixed
      /\ run'.target = None
      /\ run' # NoRun
  BY <1>1 DEF StartRun, RunFields, NoRun
<1>3. RunInv'
  BY <1>1, <1>2 DEF CiInv, RunInv, RunShape, ResultHolds, StoodHolds, VerifierNeverRefuses,
              RunStages, Gated, Aimed, Concluded
<1>4. JobShape'
  BY <1>1, <1>2 DEF CiInv, JobShape, Gated, Aimed, Concluded
<1>5. StepsHold'
  BY <1>1 DEF CiInv, StepsHold
<1>6. QED
  BY <1>3, <1>4, <1>5 DEF CiInv

\* The run is not disturbed by a step of the job, whose shape is kept.
LEMMA JobStepKeeps ==
    ASSUME CiInv, UNCHANGED <<refs, run, stood>>, job # NoJob,
           DOMAIN job' = JobFields, job'.at \in Steps \cup {"upload", "over"},
           job'.event = job.event,
           DOMAIN job'.exit = Steps, DOMAIN job'.file = Steps, DOMAIN job'.outcome = Steps,
           StepsHold'
    PROVE  CiInv'
<1>1. RunInv'
  BY DEF CiInv, RunInv, RunShape, ResultHolds, StoodHolds, VerifierNeverRefuses
<1>2. JobShape'
  <2>1. job' # NoJob
    BY DEF NoJob, Steps
  <2>2. QED
    BY <2>1 DEF CiInv, JobShape
<1>3. QED
  BY <1>1, <1>2 DEF CiInv

\* What the steps before have left, unfolded for a job that is there.
LEMMA JobFacts ==
    ASSUME CiInv, job # NoJob
    PROVE  /\ DOMAIN job = JobFields
           /\ job.at \in Steps \cup {"upload", "over"}
           /\ DOMAIN job.exit = Steps /\ DOMAIN job.file = Steps /\ DOMAIN job.outcome = Steps
           /\ StepsHold
BY DEF CiInv, JobShape

LEMMA ExitKeeps ==
    ASSUME CiInv, NEW step \in Steps, NEW code, Running(step), Exit(step, code),
           code = 0 => step \in job.announced /\ job.outcome[step] \in {"pass", "compatible"},
           UNCHANGED <<refs, run, stood>>
    PROVE  CiInv'
<1>1. /\ job # NoJob /\ job.at = step /\ DOMAIN job = JobFields
      /\ DOMAIN job.exit = Steps /\ DOMAIN job.file = Steps /\ DOMAIN job.outcome = Steps
      /\ StepsHold
  BY JobFacts DEF Running
<1>2. /\ DOMAIN job' = JobFields /\ job'.at = After[step]
      /\ DOMAIN job'.exit = Steps /\ job'.exit[step] = code
      /\ \A s \in Steps \ {step} : job'.exit[s] = job.exit[s]
      /\ job'.event = job.event /\ job'.file = job.file /\ job'.outcome = job.outcome
      /\ job'.announced = job.announced /\ job'.uploaded = job.uploaded
  BY <1>1 DEF Exit, JobFields
<1>3. After[step] \in {"integration", "upload"}
  BY DEF After, Steps
<1>4. StepsHold'
  BY <1>1, <1>2, <1>3 DEF StepsHold
<1>5. QED
  BY <1>1, <1>2, <1>3, <1>4, JobStepKeeps DEF Steps

LEMMA JobKeeps ==
    ASSUME CiInv,
           \/ OpenJob \/ RefuseGate \/ JudgeHead \/ EndIntegration
           \/ \E step \in Steps : FinishEvidence(step) \/ Announce(step) \/ EndStep(step)
           \/ Upload \/ CancelJob
    PROVE  CiInv'
<1> USE JobFacts
<1>1. CASE OpenJob
  <2>1. /\ DOMAIN job' = JobFields /\ job'.at = "gate" /\ job' # NoJob
        /\ job'.event = [target |-> refs.target, head |-> refs.head]
        /\ DOMAIN job'.exit = Steps /\ DOMAIN job'.file = Steps /\ DOMAIN job'.outcome = Steps
        /\ \A s \in Steps : job'.exit[s] = None /\ job'.file[s] = "none"
        /\ job'.announced = {} /\ job'.uploaded = {}
        /\ run.at = "idle" /\ UNCHANGED <<refs, run, stood>>
    BY <1>1 DEF OpenJob, JobFields, NoRun, NoJob
  <2>2. job'.event = refs
    BY <2>1 DEF CiInv, RunInv, RunShape, Refs
  <2>3. RunInv'
    BY <2>1 DEF CiInv, RunInv, RunShape, ResultHolds, StoodHolds, VerifierNeverRefuses
  <2>4. JobShape'
    BY <2>1, <2>2 DEF JobShape, Gated, Aimed, Concluded, Steps
  <2>5. StepsHold'
    BY <2>1, CiAssumption DEF StepsHold, Steps
  <2>6. QED
    BY <2>3, <2>4, <2>5 DEF CiInv
<1>2. CASE RefuseGate
  BY <1>2, ExitKeeps DEF RefuseGate, Steps
<1>3. CASE JudgeHead
  <2>1. /\ DOMAIN job' = JobFields /\ job.at = "gate" /\ job # NoJob
        /\ DOMAIN job'.file = Steps /\ job'.file["gate"] = "begun"
        /\ job'.file["integration"] = job.file["integration"]
        /\ job'.outcome["gate"] = job.event.head.verdict
        /\ job'.outcome["integration"] = job.outcome["integration"]
        /\ DOMAIN job'.outcome = Steps
        /\ job'.at = job.at /\ job'.event = job.event /\ job'.exit = job.exit
        /\ job'.announced = job.announced /\ job'.uploaded = job.uploaded
        /\ RangeFits(job.event) /\ UNCHANGED <<refs, run, stood>>
        /\ job.file["gate"] = "none"
    BY <1>3 DEF JudgeHead, Running, JobFields, Steps
  <2>2. StepsHold'
    BY <2>1 DEF StepsHold, Steps
  <2>3. QED
    BY <2>1, <2>2, JobStepKeeps DEF Steps
<1>4. CASE EndIntegration
  <2>1. CASE Exit("integration", 1)
    BY <1>4, <2>1, ExitKeeps DEF EndIntegration, Steps
  <2>2. CASE /\ run.at = "done"
             /\ job' = [job EXCEPT !.file["integration"] = "begun",
                                    !.outcome["integration"] = run.result.outcome]
    <3>1. /\ DOMAIN job' = JobFields /\ job.at = "integration" /\ job # NoJob
          /\ DOMAIN job'.file = Steps /\ job'.file["integration"] = "begun"
          /\ job'.file["gate"] = job.file["gate"]
          /\ job'.outcome["integration"] = run.result.outcome
          /\ job'.outcome["gate"] = job.outcome["gate"]
          /\ DOMAIN job'.outcome = Steps
          /\ job'.at = job.at /\ job'.event = job.event /\ job'.exit = job.exit
          /\ job'.announced = job.announced /\ job'.uploaded = job.uploaded
          /\ run.at = "done" /\ UNCHANGED <<refs, run, stood>>
          /\ job.file["integration"] = "none"
      BY <1>4, <2>2 DEF EndIntegration, Running, JobFields, Steps
    <3>2. StepsHold'
      BY <3>1 DEF StepsHold, Steps
    <3>3. QED
      BY <3>1, <3>2, JobStepKeeps DEF Steps
  <2>3. QED
    BY <1>4, <2>1, <2>2 DEF EndIntegration
<1>5. ASSUME NEW step \in Steps, FinishEvidence(step)
      PROVE  CiInv'
  <2>1. /\ DOMAIN job' = JobFields /\ job # NoJob /\ job.at \in Steps
        /\ job'.at \in Steps \cup {"upload"}
        /\ DOMAIN job'.file = Steps /\ job'.file[step] # "none" /\ job.file[step] # "none"
        /\ \A s \in Steps \ {step} : job'.file[s] = job.file[s]
        /\ DOMAIN job'.exit = Steps
        /\ \A s \in Steps : job'.exit[s] = 0 => job.exit[s] = 0
        /\ job'.event = job.event /\ job'.outcome = job.outcome
        /\ job'.announced = job.announced /\ job'.uploaded = job.uploaded
        /\ UNCHANGED <<refs, run, stood>>
    <3>1. /\ job # NoJob /\ job.at = step /\ job.file[step] = "begun"
          /\ UNCHANGED <<refs, run, stood>>
      BY <1>5 DEF FinishEvidence, Running
    <3>2. CASE job' = [job EXCEPT !.file[step] = "whole"]
      <4>1. job'.file = [job.file EXCEPT ![step] = "whole"]
        BY <3>1, <3>2 DEF JobFields
      <4>2. /\ DOMAIN job'.file = Steps /\ job'.file[step] = "whole"
            /\ \A s \in Steps \ {step} : job'.file[s] = job.file[s]
        BY <3>1, <4>1
      <4>3. QED
        BY <3>1, <3>2, <4>2 DEF JobFields
    <3>3. CASE job' = [job EXCEPT !.file[step] = "torn", !.at = After[step], !.exit[step] = 1]
      <4>1. After[step] \in {"integration", "upload"}
        BY DEF After, Steps
      <4>2. QED
        BY <3>1, <3>3, <4>1 DEF JobFields, Steps
    <3>4. QED
      BY <1>5, <3>2, <3>3 DEF FinishEvidence
  <2>2. StepsHold'
    BY <2>1 DEF StepsHold, Steps
  <2>3. QED
    BY <2>1, <2>2, JobStepKeeps
<1>6. ASSUME NEW step \in Steps, Announce(step)
      PROVE  CiInv'
  <2>1. /\ DOMAIN job' = JobFields /\ job # NoJob /\ job.at \in Steps
        /\ job'.at = job.at /\ job'.event = job.event /\ job'.exit = job.exit
        /\ job'.file = job.file /\ job'.outcome = job.outcome
        /\ job'.announced = job.announced \cup {step} /\ job.file[step] = "whole"
        /\ UNCHANGED <<refs, run, stood>>
    BY <1>6 DEF Announce, Running, JobFields
  <2>2. StepsHold'
    BY <2>1 DEF StepsHold, Steps
  <2>3. QED
    BY <2>1, <2>2, JobStepKeeps
<1>7. ASSUME NEW step \in Steps, EndStep(step)
      PROVE  CiInv'
  <2>1. /\ Running(step) /\ step \in job.announced /\ UNCHANGED <<refs, run, stood>>
        /\ Exit(step, ExitOf(job.outcome[step])) \/ Exit(step, 1)
    BY <1>7 DEF EndStep
  <2>2. ExitOf(job.outcome[step]) = 0 => job.outcome[step] \in {"pass", "compatible"}
    BY DEF ExitOf
  <2>3. QED
    BY <2>1, <2>2, ExitKeeps
<1>8. CASE Upload
  <2>1. /\ DOMAIN job' = JobFields /\ job # NoJob /\ job'.at = "over"
        /\ job'.event = job.event /\ job'.exit = job.exit
        /\ job'.file = job.file /\ job'.outcome = job.outcome
        /\ job'.announced = job.announced /\ job'.uploaded = job.announced
        /\ UNCHANGED <<refs, run, stood>>
    BY <1>8 DEF Upload, JobFields
  <2>2. StepsHold'
    BY <2>1 DEF StepsHold
  <2>3. QED
    BY <2>1, <2>2, JobStepKeeps
<1>9. CASE CancelJob
  <2>1. /\ DOMAIN job' = JobFields /\ job # NoJob /\ job'.at = "upload"
        /\ job'.event = job.event /\ job'.exit = job.exit
        /\ DOMAIN job'.file = Steps
        /\ \A s \in Steps : job'.file[s] = "none" <=> job.file[s] = "none"
        /\ job'.outcome = job.outcome
        /\ job'.announced = job.announced /\ job'.uploaded = job.uploaded
        /\ UNCHANGED <<refs, run, stood>>
    BY <1>9 DEF CancelJob, JobFields
  <2>2. StepsHold'
    BY <2>1 DEF StepsHold, Steps
  <2>3. QED
    BY <2>1, <2>2, JobStepKeeps
<1>10. QED
  BY <1>1, <1>2, <1>3, <1>4, <1>5, <1>6, <1>7, <1>8, <1>9

-----------------------------------------------------------------------------
(* The theorems. *)

\* The invariant, for every plan, set of blueprints and length of the histories.
THEOREM CiInvariant == CiSpec => []CiInv
<1>1. CiInit => CiInv
  <2> SUFFICES ASSUME CiInit PROVE CiInv
    OBVIOUS
  <2>1. /\ run = NoRun /\ run.at = "idle" /\ job = NoJob
    BY DEF CiInit, IntegrationInit, NoRun
  <2>2. refs \in Refs
    BY DEF CiInit, IntegrationInit, Refs, Heads
  <2>3. QED
    BY <2>1, <2>2 DEF CiInv, RunInv, RunShape, ResultHolds, StoodHolds, VerifierNeverRefuses,
                      JobShape, StepsHold, RunStages, Gated, Aimed, Concluded
<1>2. CiInv /\ [CiNext]_ciVars => CiInv'
  <2> SUFFICES ASSUME CiInv, [CiNext]_ciVars PROVE CiInv'
    OBVIOUS
  <2>1. CASE Push
    BY <2>1, PushKeeps
  <2>2. CASE FromTheCommandLine \/ StartIntegration
    BY <2>2, StartKeeps
  <2>3. CASE Integrate
    BY <2>3, RunStepKeeps DEF Integrate
  <2>4. CASE \/ OpenJob \/ RefuseGate \/ JudgeHead \/ EndIntegration
             \/ \E step \in Steps : FinishEvidence(step) \/ Announce(step) \/ EndStep(step)
             \/ Upload \/ CancelJob
    BY <2>4, JobKeeps
  <2>5. CASE UNCHANGED ciVars
    BY <2>5 DEF ciVars, CiInv, RunInv, RunShape, ResultHolds, StoodHolds, VerifierNeverRefuses,
                JobShape, StepsHold, Now
  <2>6. QED
    BY <2>1, <2>2, <2>3, <2>4, <2>5 DEF CiNext, Done
<1>3. QED
  BY <1>1, <1>2, PTL DEF CiSpec

\* A merge that a run calls compatible keeps every change of both branches that the
\* comparison watches, and every claim of the plan, on a head that passes its gate.
THEOREM CompatibleMergeIsSafe == CiSpec => []CompatibleIsSafe
<1>1. CiInv => CompatibleIsSafe
  <2> SUFFICES ASSUME CiInv, run.at = "recheck", run.result.outcome = "compatible"
               PROVE  /\ KeepsWatched(run.graph)
                      /\ \A u \in UnitSet : run.graph.merge \in Satisfying[u]
                      /\ run.gate.verdict = "pass"
    BY DEF CompatibleIsSafe
  <2>1. /\ run.graph.target \in Blueprints /\ run.graph.head \in Blueprints
        /\ GraphConflicts(run.graph) = {} /\ ClaimConflicts(run.graph.merge) = {}
        /\ run.gate.verdict = "pass"
    BY DEF CiInv, RunInv, ResultHolds, Concluded
  <2>2. KeepsWatched(run.graph)
    BY <2>1, IntegrationAssumption, EffectsKeepWatched
  <2>3. QED
    BY <2>1, <2>2, ClaimsReasoned
<1>2. QED
  BY <1>1, CiInvariant, PTL

\* The two revisions of a compatible result stood together at some moment after their
\* evaluation, however the branches moved during the run.
THEOREM CompatiblePairStood == CiSpec => []CompatibleStoodTogether
<1>1. CiInv => CompatibleStoodTogether
  BY DEF CiInv, RunInv, StoodHolds, CompatibleStoodTogether, Compatible
<1>2. QED
  BY <1>1, CiInvariant, PTL

\* The verifier accepts every result that the runner puts together.
THEOREM ResultsAreAccepted == CiSpec => []VerifierNeverRefuses
<1>1. CiInv => VerifierNeverRefuses
  BY DEF CiInv, RunInv
<1>2. QED
  BY <1>1, CiInvariant, PTL

\* A job succeeds only when the head of its event contains the target, passes its gate
\* and integrates with it, and both steps have left their evidence.
THEOREM JobSuccessIsEarned == CiSpec => []SuccessIsEarned
<1>1. CiInv => SuccessIsEarned
  <2> SUFFICES ASSUME CiInv, Succeeded
               PROVE  /\ job.event.head.fork >= job.event.target
                      /\ job.event.head.verdict = "pass"
                      /\ run.result.observed = <<job.event.target, job.event.head.id>>
                      /\ run.result.outcome = "compatible"
                      /\ job.uploaded = Steps
    BY DEF SuccessIsEarned
  <2>1. /\ job # NoJob /\ job.at = "over"
        /\ \A s \in Steps : s \in job.announced /\ job.outcome[s] \in {"pass", "compatible"}
        /\ job.announced \subseteq Steps /\ job.uploaded = job.announced
        /\ \A s \in Steps : job.file[s] # "none"
    BY DEF CiInv, StepsHold, Succeeded
  <2>2. /\ RangeFits(job.event) /\ job.outcome["gate"] = job.event.head.verdict
        /\ run.at = "done" /\ job.outcome["integration"] = run.result.outcome
    BY <2>1 DEF CiInv, StepsHold, Steps
  <2>3. /\ job.event = refs /\ run.gate = refs.head /\ run.target = refs.target
        /\ run.gate \in Heads
        /\ run.result.outcome \in {"compatible", "conflict", "error"}
        /\ run.result.outcome = "compatible" => run.result.observed = <<run.target, run.gate.id>>
    BY <2>1, <2>2 DEF CiInv, JobShape, RunInv, RunShape, ResultHolds, Gated, Aimed, Concluded
  <2>4. run.result.outcome = "compatible"
    BY <2>1, <2>2, <2>3 DEF Steps
  <2>5. job.event.head.verdict = "pass"
    BY <2>1, <2>2, <2>3 DEF Steps, Heads, Verdicts
  <2>6. job.uploaded = Steps
    BY <2>1
  <2>7. QED
    BY <2>2, <2>3, <2>4, <2>5, <2>6 DEF RangeFits, Contains
<1>2. QED
  BY <1>1, CiInvariant, PTL

-----------------------------------------------------------------------------
(* Merge groups *)

Trees == [Files \cup {Policy} \cup Plans -> Values]

CommitsOver(commits) ==
    [parents : Seq(commits), plans : Seq(Plans), units : Seq(Names), tree : Trees]

\* Up to three parents, all in the history; a merge has two different ones, and
\* only the first commit has none.
ParentsFit ==
    \A c \in DOMAIN dag :
        /\ Len(dag[c].parents) <= 3
        /\ Len(dag[c].parents) = 2 => dag[c].parents[1] # dag[c].parents[2]
        /\ c # Before => Len(dag[c].parents) >= 1

DagTypeOK ==
    /\ IsFiniteSet(DOMAIN dag)
    /\ dag \in [DOMAIN dag -> CommitsOver(DOMAIN dag)]
    /\ ParentsFit
    /\ dag[Before].parents = <<>> /\ dag[Base].parents = <<Before>>

\* The commits of a line are numbered.
Numbered ==
    /\ {Before, Base} \subseteq DOMAIN dag
    /\ \A line \in Lines \cup {"q"} :
        {c \in DOMAIN dag : c[1] = line} = {<<line, i>> : i \in 1..Length(line)}

\* Each set of commits has one without a parent among them.
Grounded ==
    \A S \in (SUBSET DOMAIN dag) \ {{}} : \E c \in S : ParentsOf(c) \cap S = {}

\* One more than the layers of the parents within S.
LayerIn(layer, S, c) == 1 + Highest({0} \cup {layer[p] : p \in ParentsOf(c) \cap S})

\* Every set of commits can be layered.
Layered ==
    \A S \in SUBSET DOMAIN dag :
        \E layer : layer = [c \in S |-> LayerIn(layer, S, c)]

DagInv == DagTypeOK /\ Numbered /\ Grounded /\ Layered

GroupInv ==
    /\ DagInv
    /\ group # NoGroup =>
          /\ GroupPassIsEarned
          /\ JoinsLoseNothing
          /\ VerifierAcceptsGroup

-----------------------------------------------------------------------------
(* Ancestry *)

\* What ancestry and reachability are: each commit with what its parents have.
IsUp(up) == up = [c \in DOMAIN dag |-> {c} \cup UNION {up[p] : p \in ParentsOf(c)}]

Closed(S) == \A c \in S : c \in DOMAIN dag => ParentsOf(c) \subseteq S

LEMMA ParentsAreThere ==
    ASSUME DagTypeOK, NEW c \in DOMAIN dag
    PROVE  /\ ParentsOf(c) \subseteq DOMAIN dag
           /\ dag[c] \in CommitsOver(DOMAIN dag)
           /\ Len(dag[c].parents) \in 0..3
           /\ DOMAIN dag[c].parents = 1..Len(dag[c].parents)
<1>1. dag[c] \in CommitsOver(DOMAIN dag)
  BY DEF DagTypeOK
<1>2. dag[c].parents \in Seq(DOMAIN dag)
  BY <1>1 DEF CommitsOver
<1>3. Len(dag[c].parents) <= 3
  BY DEF DagTypeOK, ParentsFit
<1>n. Len(dag[c].parents) \in Nat
  BY <1>2
<1>4. /\ DOMAIN dag[c].parents = 1..Len(dag[c].parents)
      /\ \A i \in 1..Len(dag[c].parents) : dag[c].parents[i] \in DOMAIN dag
  BY <1>2
<1>5. ParentsOf(c) \subseteq DOMAIN dag
  BY <1>4 DEF ParentsOf
<1>m. \A n \in Nat : n <= 3 => n \in 0..3
  OBVIOUS
<1>6. Len(dag[c].parents) \in 0..3
  BY <1>3, <1>n, <1>m, Zenon
<1>7. QED
  BY <1>1, <1>4, <1>5, <1>6, Zenon

\* The recursion that defines ancestry has a solution.
LEMMA UpExists ==
    ASSUME DagTypeOK
    PROVE  IsUp(Up)
<1> DEFINE N == DOMAIN dag
           closed(c) == {S \in SUBSET N : c \in S /\ Closed(S)}
           anc(c) == {a \in N : \A S \in closed(c) : a \in S}
           f == [c \in N |-> anc(c)]
<1>0. \A c \in N : ParentsOf(c) \subseteq N
  BY ParentsAreThere
<1>1. ASSUME NEW c \in N
      PROVE  anc(c) = {c} \cup UNION {anc(p) : p \in ParentsOf(c)}
  <2> DEFINE T == {c} \cup UNION {anc(p) : p \in ParentsOf(c)}
  <2>1. T \subseteq anc(c)
    <3>1. c \in anc(c)
      OBVIOUS
    <3>2. ASSUME NEW p \in ParentsOf(c), NEW a \in anc(p)
          PROVE  a \in anc(c)
      <4>1. ASSUME NEW S \in closed(c) PROVE a \in S
        <5>1. p \in S
          BY DEF Closed
        <5>2. S \in closed(p)
          BY <5>1
        <5>3. QED
          BY <5>2
      <4>2. QED
        BY <4>1
    <3>3. QED
      BY <3>1, <3>2
  <2>2. T \in closed(c)
    <3>1. T \subseteq N
      OBVIOUS
    <3>2. ASSUME NEW x \in T, NEW q \in ParentsOf(x)
          PROVE  q \in T
      <4>1. x \in N /\ q \in N
        BY <3>1, <1>0
      <4>2. CASE x = c
        <5>1. q \in anc(q)
          BY <4>1
        <5>2. QED
          BY <4>2, <5>1
      <4>3. CASE x # c
        <5>1. PICK p \in ParentsOf(c) : x \in anc(p)
          BY <4>3
        <5>2. q \in anc(p)
          BY <4>1, <5>1 DEF Closed
        <5>3. QED
          BY <5>1, <5>2
      <4>4. QED
        BY <4>2, <4>3
    <3>3. Closed(T)
      BY <3>2 DEF Closed
    <3>4. QED
      BY <3>1, <3>3
  <2>3. anc(c) \subseteq T
    BY <2>2
  <2>4. QED
    BY <2>1, <2>3
<1>2. f = [c \in N |-> {c} \cup UNION {f[p] : p \in ParentsOf(c)}]
  <2>1. ASSUME NEW c \in N
        PROVE  anc(c) = {c} \cup UNION {f[p] : p \in ParentsOf(c)}
    <3>1. \A p \in ParentsOf(c) : f[p] = anc(p)
      BY <1>0
    <3>2. {anc(p) : p \in ParentsOf(c)} = {f[p] : p \in ParentsOf(c)}
      <4> HIDE DEF f, anc
      <4>1. QED
        BY <3>1, Zenon
    <3>3. QED
      BY <1>1, <3>2, Zenon
  <2>2. QED
    BY <2>1
<1>3. \E g : g = [c \in DOMAIN dag |-> {c} \cup UNION {g[p] : p \in ParentsOf(c)}]
  BY <1>2
<1>4. QED
  BY <1>3 DEF IsUp, Up

LEMMA UpOf ==
    ASSUME DagTypeOK, NEW c \in DOMAIN dag
    PROVE  Up[c] = {c} \cup UNION {Up[p] : p \in ParentsOf(c)}
BY UpExists DEF IsUp

\* The ancestors of a commit are in each closed set that holds it.
LEMMA UpWithin ==
    ASSUME DagTypeOK, Grounded, NEW S, Closed(S), NEW c \in DOMAIN dag, c \in S
    PROVE  Up[c] \subseteq S
<1> DEFINE bad == {x \in DOMAIN dag : x \in S /\ ~(Up[x] \subseteq S)}
<1>1. CASE bad # {}
  <2>1. PICK x \in bad : ParentsOf(x) \cap bad = {}
    BY <1>1 DEF Grounded
  <2>2. \A p \in ParentsOf(x) : p \in DOMAIN dag /\ p \in S /\ Up[p] \subseteq S
    BY <2>1, ParentsAreThere DEF Closed
  <2>3. Up[x] \subseteq S
    BY <2>1, <2>2, UpOf
  <2>4. QED
    BY <2>3
<1>2. QED
  BY <1>1

LEMMA UpIsThere ==
    ASSUME DagTypeOK, Grounded, NEW c \in DOMAIN dag
    PROVE  /\ Up[c] \subseteq DOMAIN dag /\ c \in Up[c] /\ Closed(Up[c])
<1>1. Closed(DOMAIN dag)
  BY ParentsAreThere DEF Closed
<1>2. \A x \in DOMAIN dag : Up[x] \subseteq DOMAIN dag /\ x \in Up[x]
  BY <1>1, UpWithin, UpOf
<1> DEFINE bad == {x \in DOMAIN dag : ~Closed(Up[x])}
<1>3. CASE bad # {}
  <2>1. PICK x \in bad : ParentsOf(x) \cap bad = {}
    BY <1>3 DEF Grounded
  <2>2. \A p \in ParentsOf(x) : p \in DOMAIN dag /\ p \in Up[p] /\ Closed(Up[p])
    BY <1>2, <2>1, ParentsAreThere
  <2>3. Up[x] = {x} \cup UNION {Up[p] : p \in ParentsOf(x)}
    BY UpOf
  <2>4. Closed(Up[x])
    BY <2>2, <2>3 DEF Closed
  <2>5. QED
    BY <2>4
<1>4. QED
  BY <1>2, <1>3

-----------------------------------------------------------------------------
(* Layers *)

LEMMA HighestIsOne ==
    ASSUME NEW a \in Nat, NEW b \in Nat, NEW c \in Nat, NEW S \in SUBSET {0, a, b, c}, S # {}
    PROVE  Highest(S) \in S /\ \A m \in S : m <= Highest(S)
<1>1. SUFFICES ASSUME \A n \in S : \E m \in S : ~(m <= n)
               PROVE  FALSE
  BY Zenon DEF Highest
<1>2. PICK n1 \in S : TRUE
  OBVIOUS
<1>3. PICK n2 \in S : ~(n2 <= n1)
  BY <1>1
<1>4. PICK n3 \in S : ~(n3 <= n2)
  BY <1>1
<1>5. PICK n4 \in S : ~(n4 <= n3)
  BY <1>1
<1>6. PICK n5 \in S : ~(n5 <= n4)
  BY <1>1
<1>7. /\ n1 \in {0, a, b, c} /\ n2 \in {0, a, b, c} /\ n3 \in {0, a, b, c}
      /\ n4 \in {0, a, b, c} /\ n5 \in {0, a, b, c}
  OBVIOUS
<1>8. n1 < n2 /\ n2 < n3 /\ n3 < n4 /\ n4 < n5
  BY <1>3, <1>4, <1>5, <1>6, <1>7
<1>9. QED
  BY <1>7, <1>8

\* Among the numbers given to the parents of a commit one is the highest.
LEMMA HighestOfParents ==
    ASSUME DagTypeOK, NEW c \in DOMAIN dag, NEW S, NEW layer,
           \A p \in ParentsOf(c) \cap S : layer[p] \in Nat
    PROVE  LET above == {0} \cup {layer[p] : p \in ParentsOf(c) \cap S}
           IN /\ Highest(above) \in above /\ Highest(above) \in Nat
              /\ \A m \in above : m <= Highest(above)
<1> DEFINE ps == dag[c].parents
           of(i) == IF i \in DOMAIN ps /\ ps[i] \in S THEN layer[ps[i]] ELSE 0
           above == {0} \cup {layer[p] : p \in ParentsOf(c) \cap S}
<1>1. DOMAIN ps = 1..Len(ps) /\ Len(ps) \in 0..3
  BY ParentsAreThere
<1>2. \A i \in DOMAIN ps : ps[i] \in ParentsOf(c)
  BY DEF ParentsOf
<1>3. of(1) \in Nat /\ of(2) \in Nat /\ of(3) \in Nat
  BY <1>2
<1>4. ASSUME NEW p \in ParentsOf(c) \cap S
      PROVE  layer[p] \in {of(1), of(2), of(3)}
  <2>1. PICK i \in DOMAIN ps : p = ps[i]
    BY DEF ParentsOf
  <2>2. layer[p] = of(i)
    BY <2>1
  <2>3. i = 1 \/ i = 2 \/ i = 3
    <3>1. \A n \in 0..3 : \A j \in 1..n : j = 1 \/ j = 2 \/ j = 3
      OBVIOUS
    <3>2. i \in 1..Len(ps)
      BY <1>1, <2>1
    <3>3. QED
      BY <1>1, <3>1, <3>2, Zenon
  <2>4. QED
    BY <2>2, <2>3
<1>5. above \in SUBSET {0, of(1), of(2), of(3)} /\ above # {}
  BY <1>4
<1> HIDE DEF of
<1>6. Highest(above) \in above /\ \A m \in above : m <= Highest(above)
  BY <1>3, <1>5, HighestIsOne
<1>7. above \subseteq Nat
  BY <1>3, <1>5
<1> HIDE DEF above
<1>8. Highest(above) \in above /\ Highest(above) \in Nat /\ \A m \in above : m <= Highest(above)
  BY <1>6, <1>7
<1>9. QED
  BY <1>8 DEF above

\* However the recursion is solved, its layers are numbers.
LEMMA LayersAreNumbers ==
    ASSUME DagTypeOK, Grounded, NEW S \in SUBSET DOMAIN dag, NEW layer,
           layer = [c \in S |-> LayerIn(layer, S, c)]
    PROVE  \A c \in S : layer[c] \in Nat
<1> DEFINE bad == {c \in S : layer[c] \notin Nat}
<1>1. CASE bad # {}
  <2>1. PICK c \in bad : ParentsOf(c) \cap bad = {}
    BY <1>1 DEF Grounded
  <2>2. \A p \in ParentsOf(c) \cap S : layer[p] \in Nat
    BY <2>1
  <2>3. layer[c] = LayerIn(layer, S, c)
    BY <2>1
  <2>4. Highest({0} \cup {layer[p] : p \in ParentsOf(c) \cap S}) \in Nat
    BY <2>1, <2>2, HighestOfParents
  <2>5. QED
    BY <2>1, <2>3, <2>4 DEF LayerIn
<1>2. QED
  BY <1>1

\* A commit stands one layer above the highest of its parents in the slice.
LEMMA LayersOf ==
    ASSUME DagTypeOK, Grounded, Layered, NEW S \in SUBSET DOMAIN dag, NEW c \in S
    PROVE  LET above == {0} \cup {Layers(S)[p] : p \in ParentsOf(c) \cap S}
           IN /\ Layers(S)[c] \in Nat
              /\ Layers(S)[c] - 1 \in above
              /\ \A m \in above : m < Layers(S)[c]
<1> DEFINE layer == Layers(S)
           above == {0} \cup {layer[p] : p \in ParentsOf(c) \cap S}
<1>1. layer = [d \in S |-> LayerIn(layer, S, d)]
  BY DEF Layered, Layers, LayerIn
<1> HIDE DEF layer
<1>2. \A d \in S : layer[d] \in Nat
  BY <1>1, LayersAreNumbers
<1>3. Highest(above) \in above /\ Highest(above) \in Nat /\ \A m \in above : m <= Highest(above)
  BY <1>2, HighestOfParents, ZenonT(40)
<1>4. layer[c] = 1 + Highest(above)
  BY <1>1 DEF LayerIn
<1>5. above \subseteq Nat
  BY <1>2
<1> HIDE DEF above
<1>6. layer[c] \in Nat /\ layer[c] - 1 \in above /\ \A m \in above : m < layer[c]
  BY <1>3, <1>4, <1>5
<1>7. QED
  BY <1>6 DEF layer, above

-----------------------------------------------------------------------------
(* Histories *)

LEMMA HistoryStarts == GroupInit => DagInv
<1> SUFFICES ASSUME GroupInit
             PROVE  DagInv
  OBVIOUS
<1>1. Before # Base /\ DOMAIN dag = {Before, Base}
  BY DEF GroupInit, Before, Base
<1>2. dag[Before] = NoCommit /\ dag[Base] = [NoCommit EXCEPT !.parents = <<Before>>]
  BY <1>1 DEF GroupInit
<1>3. NoTree \in Trees
  BY DEF NoTree, Trees, Values
<1>4. dag[Before] \in CommitsOver(DOMAIN dag) /\ dag[Base] \in CommitsOver(DOMAIN dag)
  <2>1. <<>> \in Seq(DOMAIN dag) /\ <<>> \in Seq(Plans) /\ <<>> \in Seq(Names)
    OBVIOUS
  <2>2. <<Before>> \in Seq(DOMAIN dag)
    BY <1>1
  <2>3. dag[Before] = [parents |-> <<>>, plans |-> <<>>, units |-> <<>>, tree |-> NoTree]
    BY <1>2 DEF NoCommit
  <2>4. dag[Base] = [parents |-> <<Before>>, plans |-> <<>>, units |-> <<>>, tree |-> NoTree]
    BY <1>2 DEF NoCommit
  <2>5. QED
    BY <1>3, <2>1, <2>2, <2>3, <2>4 DEF CommitsOver
<1>5. dag[Before].parents = <<>> /\ dag[Base].parents = <<Before>>
  BY <1>2 DEF NoCommit
<1>6. ParentsOf(Before) = {} /\ ParentsOf(Base) = {Before}
  BY <1>5 DEF ParentsOf
<1>7. DagTypeOK
  <2>1. dag \in [DOMAIN dag -> CommitsOver(DOMAIN dag)]
    BY <1>1, <1>4 DEF GroupInit
  <2>2. IsFiniteSet(DOMAIN dag)
    <3>1. IsFiniteSet({Before})
      BY FS_Singleton
    <3>2. IsFiniteSet({Before} \cup {Base})
      BY <3>1, FS_AddElement
    <3>3. {Before} \cup {Base} = DOMAIN dag
      BY <1>1
    <3>4. QED
      BY <3>2, <3>3
  <2>3. ParentsFit
    <3>1. Len(dag[Before].parents) = 0 /\ Len(dag[Base].parents) = 1
      BY <1>5
    <3>2. ASSUME NEW c \in DOMAIN dag
          PROVE  /\ Len(dag[c].parents) <= 3 /\ Len(dag[c].parents) # 2
                 /\ c # Before => Len(dag[c].parents) >= 1
      <4>1. CASE c = Before
        BY <3>1, <4>1
      <4>2. CASE c # Before
        <5>1. c = Base
          BY <1>1, <4>2
        <5>2. Len(dag[c].parents) = 1
          BY <3>1, <5>1, Zenon
        <5>3. QED
          BY <5>2
      <4>3. QED
        BY <4>1, <4>2
    <3>3. QED
      BY <3>2, Zenon DEF ParentsFit
  <2>4. QED
    BY <1>5, <2>1, <2>2, <2>3 DEF DagTypeOK
<1>8. Numbered
  <2>1. ASSUME NEW line \in Lines \cup {"q"}
        PROVE  {c \in DOMAIN dag : c[1] = line} = {<<line, i>> : i \in 1..Length(line)}
    <3>1. {c \in DOMAIN dag : c[1] = line} = {}
      BY <1>1 DEF Lines, Before, Base
    <3>2. Length(line) = 0
      BY <3>1, FS_EmptySet DEF Length
    <3>3. 1..0 = {}
      OBVIOUS
    <3>4. QED
      BY <3>1, <3>2, <3>3
  <2>2. QED
    BY <1>1, <2>1 DEF Numbered
<1>9. Grounded
  <2>1. ASSUME NEW S \in (SUBSET DOMAIN dag) \ {{}}
        PROVE  \E c \in S : ParentsOf(c) \cap S = {}
    <3>1. CASE Before \in S
      BY <1>6, <3>1
    <3>2. CASE Before \notin S
      BY <1>1, <1>6, <3>2
    <3>3. QED
      BY <3>1, <3>2
  <2>2. QED
    BY <2>1 DEF Grounded
<1>10. Layered
  <2>1. ASSUME NEW S \in SUBSET DOMAIN dag
        PROVE  \E layer : layer = [c \in S |-> LayerIn(layer, S, c)]
    <3> DEFINE low == LayerIn([c \in {} |-> 0], S, Before)
               l0 == [c \in S |-> low]
               layer == [c \in S |-> IF c = Before THEN low ELSE LayerIn(l0, S, Base)]
    <3>1. \A f : LayerIn(f, S, Before) = low
      BY <1>6 DEF LayerIn
    <3>2. LayerIn(layer, S, Base) = LayerIn(l0, S, Base)
      <4>1. {layer[p] : p \in ParentsOf(Base) \cap S} = {l0[p] : p \in ParentsOf(Base) \cap S}
        BY <1>6
      <4>2. QED
        BY <4>1 DEF LayerIn
    <3> HIDE DEF low, l0
    <3>3. \A c \in S : layer[c] = LayerIn(layer, S, c)
      BY <1>1, <3>1, <3>2
    <3>4. QED
      BY <3>3
  <2>2. QED
    BY <2>1 DEF Layered
<1>11. QED
  BY <1>7, <1>8, <1>9, <1>10 DEF DagInv

\* A line's last commit is there.
LEMMA TipIsThere ==
    ASSUME DagInv, NEW line \in Lines \cup {"q"}
    PROVE  /\ Tip(line) \in DOMAIN dag /\ Tip(line) # Before
           /\ Length(line) \in Nat
           /\ Length(line) > 0 => Tip(line)[1] = line
           /\ <<line, Length(line) + 1>> \notin DOMAIN dag
<1>1. IsFiniteSet({c \in DOMAIN dag : c[1] = line})
  BY FS_Subset DEF DagInv, DagTypeOK
<1>2. Length(line) \in Nat
  BY <1>1, FS_CardinalityType DEF Length
<1>3. {c \in DOMAIN dag : c[1] = line} = {<<line, i>> : i \in 1..Length(line)}
  BY DEF DagInv, Numbered
<1>4. <<line, Length(line) + 1>> \notin DOMAIN dag
  <2>1. SUFFICES ASSUME <<line, Length(line) + 1>> \in DOMAIN dag
                 PROVE  FALSE
    OBVIOUS
  <2>2. PICK i \in 1..Length(line) : <<line, Length(line) + 1>> = <<line, i>>
    BY <1>3, <2>1
  <2>3. QED
    BY <1>2, <2>2
<1>5. Base \in DOMAIN dag /\ Base # Before
  BY DEF DagInv, Numbered, Base, Before
<1>6. Length(line) > 0 => <<line, Length(line)>> \in DOMAIN dag
  BY <1>2, <1>3
<1>7. line # "before"
  BY DEF Lines
<1>8. QED
  BY <1>2, <1>4, <1>5, <1>6, <1>7 DEF Tip, Before

\* A commit on top of commits that are there, with any trailers and any tree.
LEMMA CommitKeeps ==
    ASSUME DagInv, NEW line \in Lines \cup {"q"},
           NEW parents \in Seq(DOMAIN dag), Len(parents) \in 1..3,
           Len(parents) = 2 => parents[1] # parents[2],
           NEW plans \in Seq(Plans), NEW units \in Seq(Names), NEW tree \in Trees,
           Commit(line, parents, plans, units, tree)
    PROVE  DagInv'
<1>1. PICK n : n = <<line, Length(line) + 1>>
  OBVIOUS
<1>2. PICK N : N = DOMAIN dag
  OBVIOUS
<1>3. n \notin N /\ n[1] = line /\ Length(line) \in Nat
  BY <1>1, <1>2, TipIsThere
<1>4. PICK new : new = [parents |-> parents, plans |-> plans, units |-> units, tree |-> tree]
  OBVIOUS
<1>5. dag' = [c \in N \cup {n} |-> IF c \in N THEN dag[c] ELSE new]
  BY <1>1, <1>2, <1>4 DEF Commit
<1>6. DOMAIN dag' = N \cup {n} /\ dag'[n] = new /\ \A c \in N : dag'[c] = dag[c]
  BY <1>3, <1>5
<1>7. {Before, Base} \subseteq N
  BY <1>2 DEF DagInv, Numbered
<1>8. new.parents = parents
  BY <1>4
<1>9. \A c \in N : ParentsOf(c)' = ParentsOf(c)
  BY <1>6 DEF ParentsOf
<1>10. \A c \in N : ParentsOf(c) \subseteq N
  BY <1>2, ParentsAreThere DEF DagInv
<1>11. ParentsOf(n)' \subseteq N
  <2>1. ParentsOf(n)' = {parents[i] : i \in DOMAIN parents}
    BY <1>6, <1>8 DEF ParentsOf
  <2>2. DOMAIN parents = 1..Len(parents) /\ \A i \in 1..Len(parents) : parents[i] \in N
    BY <1>2
  <2>3. QED
    BY <2>1, <2>2
<1>12. DagTypeOK'
  <2>1. IsFiniteSet(DOMAIN dag)'
    <3>1. IsFiniteSet(N)
      BY <1>2 DEF DagInv, DagTypeOK
    <3>2. IsFiniteSet(N \cup {n})
      BY <3>1, FS_AddElement
    <3>3. QED
      BY <1>6, <3>2
  <2>2. (dag \in [DOMAIN dag -> CommitsOver(DOMAIN dag)])'
    <3>1. \A s : s \in Seq(N) => s \in Seq(N \cup {n})
      OBVIOUS
    <3>2. CommitsOver(N) \subseteq CommitsOver(N \cup {n})
      BY <3>1 DEF CommitsOver
    <3>3. \A c \in N : dag[c] \in CommitsOver(N)
      BY <1>2 DEF DagInv, DagTypeOK
    <3>4. new \in CommitsOver(N)
      BY <1>2, <1>4 DEF CommitsOver
    <3>5. \A c \in N \cup {n} : dag'[c] \in CommitsOver(N \cup {n})
      BY <1>6, <3>2, <3>3, <3>4
    <3>6. CommitsOver(DOMAIN dag)' = CommitsOver(N \cup {n})
      BY <1>6 DEF CommitsOver
    <3>7. dag' \in [DOMAIN dag' -> CommitsOver(N \cup {n})]
      BY <1>5, <1>6, <3>5
    <3>8. QED
      BY <3>6, <3>7
  <2>3. ParentsFit'
    <3>1. ParentsFit
      BY DEF DagInv, DagTypeOK
    <3>2. ASSUME NEW c \in N \cup {n}
          PROVE  /\ Len(dag'[c].parents) <= 3
                 /\ Len(dag'[c].parents) = 2 => dag'[c].parents[1] # dag'[c].parents[2]
                 /\ c # Before => Len(dag'[c].parents) >= 1
      <4>1. CASE c \in N
        <5>1. dag'[c] = dag[c]
          BY <1>6, <4>1
        <5>2. QED
          BY <1>2, <3>1, <4>1, <5>1 DEF ParentsFit
      <4>2. CASE c = n
        <5>1. dag'[c].parents = parents
          BY <1>6, <1>8, <4>2
        <5>2. \A k \in 1..3 : k <= 3 /\ k >= 1
          OBVIOUS
        <5>3. Len(parents) <= 3 /\ Len(parents) >= 1
          BY <5>2, Zenon
        <5>4. QED
          BY <5>1, <5>3
      <4>3. QED
        BY <4>1, <4>2
    <3>3. QED
      BY <1>6, <3>2 DEF ParentsFit
  <2>4. (dag[Before].parents = <<>> /\ dag[Base].parents = <<Before>>)'
    BY <1>6, <1>7 DEF DagInv, DagTypeOK
  <2>5. QED
    BY <2>1, <2>2, <2>3, <2>4 DEF DagTypeOK
<1>13. Numbered'
  <2>1. ASSUME NEW other \in Lines \cup {"q"}
        PROVE  {c \in DOMAIN dag' : c[1] = other} = {<<other, i>> : i \in 1..Length(other)'}
    <3> DEFINE there == {c \in N : c[1] = other}
    <3>1. there = {<<other, i>> : i \in 1..Length(other)}
      BY <1>2 DEF DagInv, Numbered
    <3>2. IsFiniteSet(there) /\ Length(other) = Cardinality(there) /\ Length(other) \in Nat
      BY <1>2, FS_Subset, TipIsThere DEF DagInv, DagTypeOK, Length
    <3>3. CASE other = line
      <4>1. {c \in DOMAIN dag' : c[1] = other} = there \cup {n}
        BY <1>3, <1>6, <3>3
      <4>2. Length(other)' = Cardinality(there \cup {n})
        BY <4>1 DEF Length
      <4>3. n \notin there
        BY <1>3
      <4> HIDE DEF there
      <4>c. Cardinality(there \cup {n}) = Cardinality(there) + 1
        BY <3>2, <4>3, FS_AddElement
      <4>4. Length(other)' = Length(other) + 1
        BY <3>2, <4>2, <4>c
      <4>5. 1..(Length(other) + 1) = (1..Length(other)) \cup {Length(other) + 1}
        BY <3>2
      <4>6. QED
        BY <1>1, <3>1, <3>3, <4>1, <4>4, <4>5, ZenonT(40)
    <3>4. CASE other # line
      <4>1. {c \in DOMAIN dag' : c[1] = other} = there
        BY <1>3, <1>6, <3>4
      <4>2. Length(other)' = Length(other)
        BY <3>2, <4>1 DEF Length
      <4>3. QED
        BY <3>1, <4>1, <4>2
    <3>5. QED
      BY <3>3, <3>4
  <2>2. QED
    BY <1>6, <1>7, <2>1 DEF Numbered
<1>14. Grounded'
  <2>1. ASSUME NEW S \in (SUBSET (N \cup {n})) \ {{}}
        PROVE  \E c \in S : ParentsOf(c)' \cap S = {}
    <3>1. CASE S = {n}
      BY <1>3, <1>11, <3>1
    <3>2. CASE S # {n}
      <4>1. S \cap N \in (SUBSET N) \ {{}}
        BY <3>2
      <4>2. PICK c \in S \cap N : ParentsOf(c) \cap (S \cap N) = {}
        BY <1>2, <4>1 DEF DagInv, Grounded
      <4>3. QED
        BY <1>9, <1>10, <4>2
    <3>3. QED
      BY <3>1, <3>2
  <2>2. QED
    BY <1>6, <2>1 DEF Grounded
<1>15. Layered'
  <2>1. ASSUME NEW S \in SUBSET (N \cup {n})
        PROVE  \E layer : layer = [c \in S |-> LayerIn(layer, S, c)']
    <3>1. PICK old : old = [c \in S \cap N |-> LayerIn(old, S \cap N, c)]
      BY <1>2 DEF DagInv, Layered
    <3>2. PICK top : top = LayerIn(old, S, n)'
      OBVIOUS
    <3> DEFINE layer == [c \in S |-> IF c \in N THEN old[c] ELSE top]
    <3>3. ASSUME NEW c \in S
          PROVE  layer[c] = LayerIn(layer, S, c)'
      <4>1. ParentsOf(c)' \subseteq N
        BY <1>9, <1>10, <1>11
      <4>2. {layer[p] : p \in ParentsOf(c)' \cap S} = {old[p] : p \in ParentsOf(c)' \cap S}
        BY <4>1
      <4>3. LayerIn(layer, S, c)' = LayerIn(old, S, c)'
        BY <4>2 DEF LayerIn
      <4>4. CASE c \in N
        <5>1. ParentsOf(c)' \cap S = ParentsOf(c) \cap (S \cap N)
          BY <1>9, <1>10, <4>4
        <5>2. LayerIn(old, S, c)' = LayerIn(old, S \cap N, c)
          BY <5>1 DEF LayerIn
        <5>3. QED
          BY <3>1, <4>3, <4>4, <5>2
      <4>5. CASE c \notin N
        BY <3>2, <4>3, <4>5
      <4>6. QED
        BY <4>4, <4>5
    <3> HIDE DEF layer
    <3>4. layer = [c \in S |-> LayerIn(layer, S, c)']
      BY <3>3 DEF layer
    <3>5. QED
      BY <3>4
  <2>2. QED
    BY <1>6, <2>1 DEF Layered
<1>16. QED
  BY <1>12, <1>13, <1>14, <1>15 DEF DagInv

LEMMA EditedTree ==
    ASSUME NEW tree \in Trees, NEW f, NEW v \in Values
    PROVE  [tree EXCEPT ![f] = v] \in Trees
BY DEF Trees

LEMMA TreeOf ==
    ASSUME DagInv, NEW line \in Lines \cup {"q"}
    PROVE  TreeAt(line) \in Trees
BY TipIsThere, ParentsAreThere DEF DagInv, TreeAt, CommitsOver

LEMMA NoTreeIsOne == NoTree \in Trees /\ 1 \in Values
BY DEF NoTree, Trees, Values

\* One parent, and trailers of any kind.
LEMMA CommitOnOne ==
    ASSUME DagInv, NEW line \in Lines \cup {"q"}, NEW parent \in DOMAIN dag,
           NEW plans \in Seq(Plans), NEW units \in Seq(Names), NEW tree \in Trees,
           Commit(line, <<parent>>, plans, units, tree)
    PROVE  DagInv'
<1>1. <<parent>> \in Seq(DOMAIN dag) /\ Len(<<parent>>) = 1
  OBVIOUS
<1>2. Len(<<parent>>) \in 1..3 /\ Len(<<parent>>) # 2
  BY <1>1
<1>3. QED
  BY <1>1, <1>2, CommitKeeps

\* Two parents.
LEMMA CommitOnTwo ==
    ASSUME DagInv, NEW line \in Lines \cup {"q"}, NEW first \in DOMAIN dag,
           NEW second \in DOMAIN dag, first # second,
           NEW plans \in Seq(Plans), NEW units \in Seq(Names), NEW tree \in Trees,
           Commit(line, <<first, second>>, plans, units, tree)
    PROVE  DagInv'
<1>1. <<first, second>> \in Seq(DOMAIN dag) /\ Len(<<first, second>>) = 2
  OBVIOUS
<1>2. Len(<<first, second>>) \in 1..3
  BY <1>1
<1>3. <<first, second>>[1] # <<first, second>>[2]
  OBVIOUS
<1>4. QED
  BY <1>1, <1>2, <1>3, CommitKeeps

LEMMA MergeKeeps ==
    ASSUME DagInv, NEW line \in Lines \cup {"q"}, NEW first \in DOMAIN dag,
           NEW second \in DOMAIN dag, CleanMerge(line, first, second)
    PROVE  DagInv'
<1>1. PICK b \in MergeBases(Up, first, second) :
        /\ second \notin Up[first]
        /\ Commit(line, <<first, second>>, <<>>, <<>>,
                  Merged(dag[b].tree, dag[first].tree, dag[second].tree))
  BY DEF CleanMerge
<1>2. first # second /\ b \in DOMAIN dag
  BY <1>1, UpIsThere DEF MergeBases, DagInv
<1>3. dag[b].tree \in Trees /\ dag[first].tree \in Trees /\ dag[second].tree \in Trees
  BY <1>2, ParentsAreThere DEF DagInv, CommitsOver
<1>4. Merged(dag[b].tree, dag[first].tree, dag[second].tree) \in Trees
  BY <1>3 DEF Merged, Trees
<1>5. <<>> \in Seq(Plans) /\ <<>> \in Seq(Names)
  OBVIOUS
<1>6. QED
  BY <1>1, <1>2, <1>4, <1>5, CommitOnTwo

LEMMA MishapKeeps ==
    ASSUME DagInv, NEW line \in Lines, Mishap(line)
    PROVE  DagInv'
<1>1. Tip(line) \in DOMAIN dag /\ TreeAt(line) \in Trees /\ Before \in DOMAIN dag
      /\ Base \in DOMAIN dag
  BY TipIsThere, TreeOf DEF DagInv, Numbered
<1>2. <<>> \in Seq(Plans) /\ <<>> \in Seq(Names)
  OBVIOUS
<1>n. \A p \in Plans : \A u \in UnitsOf[p] : u \in Names
  BY DEF Names
<1>3. \A p \in Plans : \A u \in UnitsOf[p] : [TreeAt(line) EXCEPT ![Edit[p][u]] = 1] \in Trees
  BY <1>1, NoTreeIsOne, EditedTree
<1>4. CASE Mislabel(line)
  <2>1. PICK p \in Plans, q \in Plans : \E u \in UnitsOf[p] :
          \E plans \in {<<>>, <<p>>, <<q>>, <<p, p>>}, units \in {<<>>, <<u>>, <<u, u>>} :
            Commit(line, <<Tip(line)>>, plans, units, [TreeAt(line) EXCEPT ![Edit[p][u]] = 1])
    BY <1>4 DEF Mislabel
  <2>2. PICK u \in UnitsOf[p] :
          \E plans \in {<<>>, <<p>>, <<q>>, <<p, p>>}, units \in {<<>>, <<u>>, <<u, u>>} :
            Commit(line, <<Tip(line)>>, plans, units, [TreeAt(line) EXCEPT ![Edit[p][u]] = 1])
    BY <2>1
  <2>3. PICK plans \in {<<>>, <<p>>, <<q>>, <<p, p>>}, units \in {<<>>, <<u>>, <<u, u>>} :
            Commit(line, <<Tip(line)>>, plans, units, [TreeAt(line) EXCEPT ![Edit[p][u]] = 1])
    BY <2>2
  <2>4. plans \in Seq(Plans)
    <3>1. /\ <<>> \in Seq(Plans) /\ <<p>> \in Seq(Plans) /\ <<q>> \in Seq(Plans)
          /\ <<p, p>> \in Seq(Plans)
      OBVIOUS
    <3>2. QED
      BY <3>1, Zenon
  <2>5. u \in Names
    BY <1>n, Zenon
  <2>6. units \in Seq(Names)
    <3>1. <<>> \in Seq(Names) /\ <<u>> \in Seq(Names) /\ <<u, u>> \in Seq(Names)
      BY <2>5
    <3>2. QED
      BY <3>1, Zenon
  <2>7. QED
    BY <1>1, <1>3, <2>3, <2>4, <2>6, CommitOnOne
<1>5. CASE EditAny(line)
  <2>1. PICK f \in DOMAIN TreeAt(line), v \in Values :
          Commit(line, <<Tip(line)>>, <<>>, <<>>, [TreeAt(line) EXCEPT ![f] = v])
    BY <1>5 DEF EditAny
  <2>2. QED
    BY <1>1, <1>2, <2>1, EditedTree, CommitOnOne
<1>6. CASE StartOld(line)
  BY <1>1, <1>2, <1>6, NoTreeIsOne, CommitOnOne DEF StartOld
<1>7. ASSUME NEW other \in Lines, MergeBadly(line, other)
      PROVE  DagInv'
  <2>1. Tip(other) \in DOMAIN dag /\ Tip(line) # Tip(other)
    BY <1>7, TipIsThere DEF MergeBadly
  <2>2. CASE \E f \in Files, v \in Values :
               Commit(line, <<Tip(line), Tip(other)>>, <<>>, <<>>, [TreeAt(line) EXCEPT ![f] = v])
    <3>1. PICK f \in Files, v \in Values :
            Commit(line, <<Tip(line), Tip(other)>>, <<>>, <<>>, [TreeAt(line) EXCEPT ![f] = v])
      BY <2>2
    <3>2. QED
      BY <1>1, <1>2, <2>1, <3>1, EditedTree, CommitOnTwo
  <2>3. CASE \E p \in Plans : \E u \in UnitsOf[p] :
               Commit(line, <<Tip(line), Tip(other)>>, <<p>>, <<u>>, TreeAt(line))
    <3>1. PICK p \in Plans : \E u \in UnitsOf[p] :
            Commit(line, <<Tip(line), Tip(other)>>, <<p>>, <<u>>, TreeAt(line))
      BY <2>3
    <3>2. PICK u \in UnitsOf[p] : Commit(line, <<Tip(line), Tip(other)>>, <<p>>, <<u>>, TreeAt(line))
      BY <3>1
    <3>3. <<p>> \in Seq(Plans) /\ u \in Names
      BY <1>n
    <3>4. <<u>> \in Seq(Names)
      BY <3>3
    <3>5. QED
      BY <1>1, <2>1, <3>2, <3>3, <3>4, CommitOnTwo
  <2>4. CASE Commit(line, <<Tip(line), Tip(other), Base>>, <<>>, <<>>, TreeAt(line))
    <3> DEFINE ps == <<Tip(line), Tip(other), Base>>
    <3>1. ps \in Seq(DOMAIN dag) /\ Len(ps) = 3
      BY <1>1, <2>1
    <3>2. Len(ps) \in 1..3 /\ Len(ps) # 2
      BY <3>1
    <3>3. QED
      BY <1>1, <1>2, <2>4, <3>1, <3>2, CommitKeeps
  <2>5. QED
    BY <1>7, <2>2, <2>3, <2>4 DEF MergeBadly
<1>8. QED
  BY <1>4, <1>5, <1>6, <1>7 DEF Mishap

LEMMA HistoryGrows ==
    ASSUME DagInv, Develop \/ Enqueue
    PROVE  DagInv'
<1>1. \A line \in Lines \cup {"q"} : Tip(line) \in DOMAIN dag /\ TreeAt(line) \in Trees
  BY TipIsThere, TreeOf
<1>2. <<>> \in Seq(Plans) /\ <<>> \in Seq(Names) /\ Base \in DOMAIN dag
  BY DEF DagInv, Numbered
<1>3. ASSUME NEW line \in Lines, AcceptPlan(line)
      PROVE  DagInv'
  <2>1. PICK p \in Plans : Commit(line, <<Tip(line)>>, <<>>, <<>>, [TreeAt(line) EXCEPT ![p] = 1])
    BY <1>3 DEF AcceptPlan
  <2>2. QED
    BY <1>1, <1>2, <2>1, NoTreeIsOne, EditedTree, CommitOnOne
<1>4. ASSUME NEW line \in Lines, ImplementUnit(line)
      PROVE  DagInv'
  <2>1. PICK p \in Plans : \E u \in UnitsOf[p] :
          Commit(line, <<Tip(line)>>, <<p>>, <<u>>, [TreeAt(line) EXCEPT ![Edit[p][u]] = 1])
    BY <1>4 DEF ImplementUnit
  <2>2. PICK u \in UnitsOf[p] :
          Commit(line, <<Tip(line)>>, <<p>>, <<u>>, [TreeAt(line) EXCEPT ![Edit[p][u]] = 1])
    BY <2>1
  <2>3. <<p>> \in Seq(Plans) /\ u \in Names
    BY DEF Names
  <2>4. <<u>> \in Seq(Names)
    BY <2>3
  <2>5. [TreeAt(line) EXCEPT ![Edit[p][u]] = 1] \in Trees
    BY <1>1, NoTreeIsOne, EditedTree
  <2>6. QED
    BY <1>1, <2>2, <2>3, <2>4, <2>5, CommitOnOne
<1>5. ASSUME NEW line \in Lines, NEW other \in Lines, MergeLine(line, other)
      PROVE  DagInv'
  BY <1>1, <1>5, MergeKeeps DEF MergeLine
<1>6. CASE Develop
  BY <1>3, <1>4, <1>5, <1>6, MishapKeeps DEF Develop
<1>7. CASE Enqueue
  <2>1. CleanMerge("q", Base, Tip("x")) \/ CleanMerge("q", Tip("q"), Tip("y"))
    BY <1>7 DEF Enqueue
  <2>2. "x" \in Lines /\ "y" \in Lines
    BY DEF Lines
  <2>3. QED
    BY <1>1, <1>2, <2>1, <2>2, MergeKeeps
<1>8. QED
  BY <1>6, <1>7

-----------------------------------------------------------------------------
(* What discovery establishes *)

\* Of a head whose history was not refused.
Shaped(head) ==
    LET slice == Slice(Up, head)
    IN /\ head \in DOMAIN dag /\ Base # head /\ Base \in Up[head]
       /\ slice # {} /\ ~(Cardinality(slice) > MaxObjects)
       /\ \A c \in slice :
             /\ c \in DOMAIN dag
             /\ Len(dag[c].parents) = 1 \/ Len(dag[c].parents) = 2
             /\ ParentsOf(c) \subseteq slice \cup {Base}

\* Joins are the merges that Git makes, each with one base.
CleanlyJoined(head) ==
    \A c \in Joins(Slice(Up, head)) :
        LET left == dag[c].parents[1]
            right == dag[c].parents[2]
            base == dag[CHOOSE b \in MergeBases(Up, left, right) : TRUE].tree
        IN /\ dag[c].units = <<>>
           /\ Cardinality(MergeBases(Up, left, right)) = 1
           /\ dag[c].tree = Merged(base, dag[left].tree, dag[right].tree)

\* An implementation names its plan and its unit, and no two name the same; any
\* other commit names no plan.
Owned(head) ==
    LET slice == Slice(Up, head)
    IN /\ \A c \in slice :
             /\ Len(dag[c].units) <= 1 /\ Len(dag[c].plans) <= 1
             /\ KindOf(c) = "implementation" <=> Len(dag[c].plans) = 1
       /\ \A c, d \in Implementations(slice) : OwnerOf(c) = OwnerOf(d) => c = d

Discovered(head) == Shaped(head) /\ CleanlyJoined(head) /\ Owned(head)

LEMMA BaseAndBefore ==
    ASSUME DagInv
    PROVE  /\ Base \in DOMAIN dag /\ Before \in DOMAIN dag /\ Base # Before
           /\ ParentsOf(Base) = {Before} /\ ParentsOf(Before) = {}
           /\ Up[Base] = {Base, Before} /\ Up[Before] = {Before}
<1>1. Base \in DOMAIN dag /\ Before \in DOMAIN dag /\ Base # Before /\ DagTypeOK
  BY DEF DagInv, Numbered, Base, Before
<1>2. dag[Before].parents = <<>> /\ dag[Base].parents = <<Before>>
  BY <1>1 DEF DagTypeOK
<1>3. ParentsOf(Base) = {Before} /\ ParentsOf(Before) = {}
  BY <1>2 DEF ParentsOf
<1>4. Up[Before] = {Before}
  BY <1>1, <1>3, UpOf
<1>5. Up[Base] = {Base, Before}
  <2>1. Up[Base] = {Base} \cup UNION {Up[p] : p \in ParentsOf(Base)}
    BY <1>1, UpOf
  <2>2. {Up[p] : p \in ParentsOf(Base)} = {{Before}}
    BY <1>3, <1>4
  <2>3. QED
    BY <2>1, <2>2
<1>6. QED
  BY <1>1, <1>3, <1>4, <1>5

LEMMA ShapedIfDiscovered ==
    ASSUME DagInv, NEW head \in DOMAIN dag, ShapeRefusals(Up, head) = {}
    PROVE  Shaped(head)
<1> DEFINE slice == Slice(Up, head)
<1>1. /\ ~(Base = head \/ Base \notin Up[head])
      /\ ~(slice = {} \/ Cardinality(slice) > MaxObjects)
      /\ ~(\E c \in slice : Len(dag[c].parents) > 2)
      /\ ~(\E c \in slice : ~(ParentsOf(c) \subseteq slice \cup {Base}))
  <2>1. ~(Base = head \/ Base \notin Up[head])
    BY DEF ShapeRefusals
  <2>2. ~(slice = {} \/ Cardinality(slice) > MaxObjects)
    BY DEF ShapeRefusals
  <2>3. ~(\E c \in slice : Len(dag[c].parents) > 2)
    BY DEF ShapeRefusals
  <2>4. ~(\E c \in slice : ~(ParentsOf(c) \subseteq slice \cup {Base}))
    BY DEF ShapeRefusals
  <2>5. QED
    BY <2>1, <2>2, <2>3, <2>4
<1>2. ASSUME NEW c \in slice
      PROVE  c \in DOMAIN dag /\ (Len(dag[c].parents) = 1 \/ Len(dag[c].parents) = 2)
  <2>1. c \in DOMAIN dag
    BY UpIsThere DEF Slice, DagInv
  <2>2. c # Before
    BY BaseAndBefore DEF Slice
  <2>3. Len(dag[c].parents) \in 0..3 /\ Len(dag[c].parents) >= 1
    BY <2>1, <2>2, ParentsAreThere DEF DagInv, DagTypeOK, ParentsFit
  <2>4. ~(Len(dag[c].parents) > 2)
    BY <1>1
  <2>5. \A k \in 0..3 : k >= 1 /\ ~(k > 2) => k = 1 \/ k = 2
    OBVIOUS
  <2>6. QED
    BY <2>1, <2>3, <2>4, <2>5, Zenon
<1>3. QED
  BY <1>1, <1>2 DEF Shaped

LEMMA DiscoveredIfTaken ==
    ASSUME DagInv, NEW head \in DOMAIN dag, DiscoveryRefusals(Up, head) = {}
    PROVE  Discovered(head) /\ Implementations(Slice(Up, head)) # {}
<1> DEFINE slice == Slice(Up, head)
           found == (UNION {JoinRefusals(Up, c) : c \in Joins(slice)})
                    \cup UNION {OwnershipRefusals(c) : c \in slice}
<1>1. ShapeRefusals(Up, head) = {}
  BY Zenon DEF DiscoveryRefusals
<1>2. found = {} /\ Implementations(slice) # {} /\ BindingRefusals(slice) = {}
  BY <1>1 DEF DiscoveryRefusals
<1>3. Shaped(head)
  BY <1>1, ShapedIfDiscovered
<1>4. CleanlyJoined(head)
  <2>1. ASSUME NEW c \in Joins(slice)
        PROVE  LET left == dag[c].parents[1]
                   right == dag[c].parents[2]
                   base == dag[CHOOSE b \in MergeBases(Up, left, right) : TRUE].tree
               IN /\ dag[c].units = <<>>
                  /\ Cardinality(MergeBases(Up, left, right)) = 1
                  /\ dag[c].tree = Merged(base, dag[left].tree, dag[right].tree)
    <3>1. JoinRefusals(Up, c) = {}
      BY <1>2
    <3>2. QED
      BY <3>1 DEF JoinRefusals
  <2>2. QED
    BY <2>1 DEF CleanlyJoined
<1>5. Owned(head)
  <2>1. ASSUME NEW c \in slice
        PROVE  /\ Len(dag[c].units) <= 1 /\ Len(dag[c].plans) <= 1
               /\ KindOf(c) = "implementation" <=> Len(dag[c].plans) = 1
    <3>1. OwnershipRefusals(c) = {}
      BY <1>2
    <3>2. /\ ~(Len(dag[c].units) > 1) /\ ~(Len(dag[c].plans) > 1)
          /\ (KindOf(c) = "implementation") = (Len(dag[c].plans) = 1)
      BY <3>1 DEF OwnershipRefusals
    <3>3. c \in DOMAIN dag
      BY <1>3 DEF Shaped
    <3>4. Len(dag[c].units) \in Nat /\ Len(dag[c].plans) \in Nat
      BY <3>3, ParentsAreThere DEF CommitsOver, DagInv
    <3>5. \A k \in Nat : ~(k > 1) => k <= 1
      OBVIOUS
    <3>6. QED
      BY <3>2, <3>4, <3>5, Zenon
  <2>2. \A c, d \in Implementations(slice) : OwnerOf(c) = OwnerOf(d) => c = d
    BY <1>2 DEF BindingRefusals
  <2>3. QED
    BY <2>1, <2>2 DEF Owned
<1>6. QED
  BY <1>2, <1>3, <1>4, <1>5 DEF Discovered

-----------------------------------------------------------------------------
(* What the adapter assembles *)

\* The parts of GroupAnswer.
SliceOf(head) == Slice(Up, head)
TopologyOf(head) == Topology(Up, head)
Owners(head) == [c \in Implementations(DOMAIN TopologyOf(head).objects) |-> OwnerOf(c)]
Involved(head) == {Owners(head)[c][1] : c \in DOMAIN Owners(head)}
ProjectionOf(head, p) == Projection(TopologyOf(head), Owners(head), p)
Gates(head) == [p \in Involved(head) |-> GateOf(Up, ProjectionOf(head, p), p)]
JoinsOf(head) == [c \in DOMAIN TopologyOf(head).bases |-> JoinConflicts(TopologyOf(head), c)]
BundleOf(head) ==
    Bundle(TopologyOf(head), Owners(head), Gates(head), HeadConflicts(head, Gates(head)),
           JoinsOf(head))

\* An answer that is no refusal is the outcome of a bundle that the verifier
\* accepts, of a history that was discovered and plans that were gated.
LEMMA AnswerOf ==
    ASSUME NEW head, GroupAnswer(head).outcome # "refused"
    PROVE  /\ DiscoveryRefusals(Up, head) = {}
           /\ \A p \in Involved(head) : Gates(head)[p] # Refused
           /\ GroupRefusals(Owners(head), Gates(head)) = {}
           /\ GroupAnswer(head) = [outcome |-> BundleOf(head).outcome]
<1> DEFINE codes == DiscoveryRefusals(Up, head)
<1>1. codes = {}
  <2>1. SUFFICES ASSUME codes # {}
                 PROVE  FALSE
    OBVIOUS
  <2>2. GroupAnswer(head) = [outcome |-> "refused", codes |-> codes]
    BY <2>1 DEF GroupAnswer
  <2>3. QED
    BY <2>2
<1>2. ~(Refused \in {Gates(head)[p] : p \in Involved(head)})
  <2>1. SUFFICES ASSUME Refused \in {Gates(head)[p] : p \in Involved(head)}
                 PROVE  FALSE
    OBVIOUS
  <2>2. GroupAnswer(head) = [outcome |-> "refused", codes |-> {"ACCEPTED_ARTIFACT_INVALID"}]
    BY <1>1, <2>1 DEF GroupAnswer, Gates, Involved, Owners, ProjectionOf, TopologyOf
  <2>3. QED
    BY <2>2
<1>3. GroupRefusals(Owners(head), Gates(head)) = {}
  <2>1. SUFFICES ASSUME GroupRefusals(Owners(head), Gates(head)) # {}
                 PROVE  FALSE
    OBVIOUS
  <2>2. GroupAnswer(head)
          = [outcome |-> "refused", codes |-> GroupRefusals(Owners(head), Gates(head))]
    BY <1>1, <1>2, <2>1 DEF GroupAnswer, Gates, Involved, Owners, ProjectionOf, TopologyOf
  <2>3. QED
    BY <2>2
<1>4. GroupAnswer(head) = IF ~VerifierAcceptsBundle(BundleOf(head))
                          THEN [outcome |-> "refused", codes |-> {"INTEGRITY"}]
                          ELSE [outcome |-> BundleOf(head).outcome]
  BY <1>1, <1>2, <1>3
     DEF GroupAnswer, Gates, Involved, Owners, ProjectionOf, TopologyOf, BundleOf, JoinsOf
<1>5. QED
  BY <1>1, <1>2, <1>3, <1>4

\* A refusal for integrity is one of the verifier's.
LEMMA IntegrityRefusal ==
    ASSUME NEW head, DiscoveryRefusals(Up, head) = {} =>
             (/\ "INTEGRITY" \notin GroupRefusals(Owners(head), Gates(head))
              /\ (/\ \A p \in Involved(head) : Gates(head)[p] # Refused
                  /\ GroupRefusals(Owners(head), Gates(head)) = {})
                 => VerifierAcceptsBundle(BundleOf(head))),
           "INTEGRITY" \notin DiscoveryRefusals(Up, head)
    PROVE  GroupAnswer(head).outcome = "refused" => "INTEGRITY" \notin GroupAnswer(head).codes
<1> DEFINE codes == DiscoveryRefusals(Up, head)
           refusals == GroupRefusals(Owners(head), Gates(head))
<1>1. CASE codes # {}
  <2>1. GroupAnswer(head) = [outcome |-> "refused", codes |-> codes]
    BY <1>1 DEF GroupAnswer
  <2>2. QED
    BY <2>1
<1>2. CASE codes = {} /\ Refused \in {Gates(head)[p] : p \in Involved(head)}
  <2>1. GroupAnswer(head) = [outcome |-> "refused", codes |-> {"ACCEPTED_ARTIFACT_INVALID"}]
    BY <1>2 DEF GroupAnswer, Gates, Involved, Owners, ProjectionOf, TopologyOf
  <2>2. QED
    BY <2>1
<1>3. CASE codes = {} /\ Refused \notin {Gates(head)[p] : p \in Involved(head)} /\ refusals # {}
  <2>1. GroupAnswer(head) = [outcome |-> "refused", codes |-> refusals]
    BY <1>3 DEF GroupAnswer, Gates, Involved, Owners, ProjectionOf, TopologyOf
  <2>2. QED
    BY <1>3, <2>1
<1>4. CASE codes = {} /\ Refused \notin {Gates(head)[p] : p \in Involved(head)} /\ refusals = {}
  <2>1. VerifierAcceptsBundle(BundleOf(head))
    BY <1>4
  <2>2. GroupAnswer(head) = [outcome |-> BundleOf(head).outcome]
    BY <1>4, <2>1
       DEF GroupAnswer, Gates, Involved, Owners, ProjectionOf, TopologyOf, BundleOf, JoinsOf
  <2>3. BundleOf(head).outcome \in {"error", "pass", "blocked"}
    BY DEF BundleOf, Bundle
  <2>4. QED
    BY <2>2, <2>3
<1>5. QED
  BY <1>1, <1>2, <1>3, <1>4

\* The projection on a plan keeps the history and leaves it the plan's own
\* implementations.
LEMMA TopologyFacts ==
    ASSUME NEW head
    PROVE  LET t == TopologyOf(head)
           IN /\ DOMAIN t.objects = SliceOf(head) /\ t.head = head
              /\ DOMAIN t.bases = Joins(SliceOf(head))
              /\ \A c \in SliceOf(head) :
                    /\ t.objects[c].parents = dag[c].parents
                    /\ t.objects[c].kind = KindOf(c)
                    /\ t.objects[c].layer = Layers(SliceOf(head))[c]
BY DEF TopologyOf, Topology, SliceOf

LEMMA OwnersFacts ==
    ASSUME NEW head
    PROVE  /\ DOMAIN Owners(head) = Implementations(SliceOf(head))
           /\ \A c \in Implementations(SliceOf(head)) : Owners(head)[c] = OwnerOf(c)
           /\ Implementations(SliceOf(head)) \subseteq SliceOf(head)
BY TopologyFacts DEF Owners, Implementations

LEMMA ProjectionFacts ==
    ASSUME NEW head, NEW p
    PROVE  LET t == ProjectionOf(head, p)
           IN /\ DOMAIN t.objects = SliceOf(head) /\ t.head = head
              /\ t.bases = TopologyOf(head).bases
              /\ \A c \in SliceOf(head) :
                    /\ t.objects[c].parents = dag[c].parents
                    /\ t.objects[c].layer = Layers(SliceOf(head))[c]
                    /\ t.objects[c].kind = "implementation"
                       <=> c \in Implementations(SliceOf(head)) /\ OwnerOf(c)[1] = p
<1> DEFINE t == TopologyOf(head)
           q == ProjectionOf(head, p)
           objects == [c \in DOMAIN t.objects |->
                         IF t.objects[c].kind = "implementation" /\ Owners(head)[c][1] # p
                         THEN [t.objects[c] EXCEPT !.kind = "transport"] ELSE t.objects[c]]
<1>1. t = [head |-> t.head, objects |-> t.objects, bases |-> t.bases]
  BY DEF TopologyOf, Topology
<1>2. q = [t EXCEPT !.objects = objects]
  BY DEF ProjectionOf, Projection
<1>3. q.objects = objects /\ q.head = t.head /\ q.bases = t.bases
  BY <1>1, <1>2
<1>4. \A c \in SliceOf(head) :
        t.objects[c] = [parents |-> dag[c].parents, layer |-> Layers(SliceOf(head))[c],
                        kind |-> KindOf(c)]
  BY DEF TopologyOf, Topology, SliceOf
<1>5. DOMAIN t.objects = SliceOf(head) /\ t.head = head
  BY TopologyFacts
<1>6. ASSUME NEW c \in SliceOf(head)
      PROVE  /\ objects[c].parents = dag[c].parents
             /\ objects[c].layer = Layers(SliceOf(head))[c]
             /\ objects[c].kind = "implementation"
                <=> c \in Implementations(SliceOf(head)) /\ OwnerOf(c)[1] = p
  <2>1. t.objects[c] = [parents |-> dag[c].parents, layer |-> Layers(SliceOf(head))[c],
                        kind |-> KindOf(c)]
    BY <1>4
  <2>2. c \in Implementations(SliceOf(head)) <=> KindOf(c) = "implementation"
    BY DEF Implementations
  <2>3. KindOf(c) = "implementation" => Owners(head)[c] = OwnerOf(c)
    BY <2>2, OwnersFacts
  <2>4. CASE t.objects[c].kind = "implementation" /\ Owners(head)[c][1] # p
    <3>1. objects[c] = [t.objects[c] EXCEPT !.kind = "transport"]
      BY <1>5, <2>4
    <3>2. objects[c] = [parents |-> dag[c].parents, layer |-> Layers(SliceOf(head))[c],
                        kind |-> "transport"]
      BY <2>1, <3>1
    <3>3. QED
      BY <2>1, <2>2, <2>3, <2>4, <3>2
  <2>5. CASE ~(t.objects[c].kind = "implementation" /\ Owners(head)[c][1] # p)
    <3>1. objects[c] = t.objects[c]
      BY <1>5, <2>5
    <3>2. QED
      BY <2>1, <2>2, <2>3, <2>5, <3>1
  <2>6. QED
    BY <2>4, <2>5
<1> HIDE DEF t, q, objects
<1>7. QED
  BY <1>3, <1>5, <1>6 DEF q, objects, t

LEMMA OneOf ==
    ASSUME NEW S, NEW s \in Seq(S), Len(s) = 1
    PROVE  s = <<s[1]>>
OBVIOUS

\* An implementation has both trailers, each with one value.
LEMMA ImplementationFacts ==
    ASSUME DagInv, NEW head, Discovered(head), NEW c \in Implementations(SliceOf(head))
    PROVE  /\ c \in SliceOf(head) /\ c \in DOMAIN dag
           /\ OwnerOf(c)[1] \in Plans
           /\ dag[c].plans = <<OwnerOf(c)[1]>> /\ dag[c].units = <<OwnerOf(c)[2]>>
           /\ OwnerOf(c) = <<OwnerOf(c)[1], OwnerOf(c)[2]>>
<1>1. c \in SliceOf(head) /\ KindOf(c) = "implementation"
  BY DEF Implementations
<1>2. c \in DOMAIN dag /\ dag[c] \in CommitsOver(DOMAIN dag)
  BY <1>1, ParentsAreThere DEF Discovered, Shaped, SliceOf, DagInv
<1>3. dag[c].plans \in Seq(Plans) /\ dag[c].units \in Seq(Names)
  BY <1>2 DEF CommitsOver
<1>4. Len(dag[c].plans) = 1 /\ Len(dag[c].units) <= 1
  BY <1>1 DEF Discovered, Owned, SliceOf
<1>5. dag[c].units # <<>>
  BY <1>1 DEF KindOf
<1>6. Len(dag[c].units) = 1
  <2>1. Len(dag[c].units) \in Nat /\ Len(dag[c].units) # 0
    BY <1>3, <1>5
  <2>2. \A k \in Nat : k # 0 /\ k <= 1 => k = 1
    OBVIOUS
  <2>3. QED
    BY <1>4, <2>1, <2>2, Zenon
<1>7. dag[c].plans = <<dag[c].plans[1]>> /\ dag[c].units = <<dag[c].units[1]>>
  BY <1>3, <1>4, <1>6, OneOf
<1>8. dag[c].plans[1] \in Plans
  BY <1>3, <1>4
<1>9. QED
  BY <1>1, <1>2, <1>7, <1>8 DEF OwnerOf

\* The commits that the gate of a plan binds to a unit are those that name both.
LEMMA CommitOfFacts ==
    ASSUME DagInv, NEW head, Discovered(head), NEW p, NEW u
    PROVE  /\ CommitOf(ProjectionOf(head, p), u)
                = {c \in SliceOf(head) : dag[c].plans = <<p>> /\ dag[c].units = <<u>>}
           /\ \A c, d \in CommitOf(ProjectionOf(head, p), u) : c = d
           /\ \A c \in CommitOf(ProjectionOf(head, p), u) :
                c \in Implementations(SliceOf(head)) /\ OwnerOf(c) = <<p, u>>
<1> DEFINE t == ProjectionOf(head, p)
<1>1. DOMAIN t.objects = SliceOf(head)
      /\ \A c \in SliceOf(head) : t.objects[c].kind = "implementation"
           <=> c \in Implementations(SliceOf(head)) /\ OwnerOf(c)[1] = p
  BY ProjectionFacts
<1> HIDE DEF t
<1>2. ASSUME NEW c \in CommitOf(t, u)
      PROVE  /\ c \in Implementations(SliceOf(head)) /\ OwnerOf(c) = <<p, u>>
             /\ c \in SliceOf(head) /\ dag[c].plans = <<p>> /\ dag[c].units = <<u>>
  <2>1. /\ c \in Implementations(SliceOf(head)) /\ OwnerOf(c)[1] = p
        /\ c \in SliceOf(head) /\ dag[c].units = <<u>>
    BY <1>1 DEF CommitOf
  <2>2. dag[c].plans = <<p>> /\ <<OwnerOf(c)[2]>> = <<u>> /\ OwnerOf(c) = <<p, OwnerOf(c)[2]>>
    BY <2>1, ImplementationFacts
  <2>3. OwnerOf(c)[2] = u
    BY <2>2
  <2>4. QED
    BY <2>1, <2>2, <2>3
<1>3. ASSUME NEW c \in SliceOf(head), dag[c].plans = <<p>>, dag[c].units = <<u>>
      PROVE  c \in CommitOf(t, u)
  <2>1. Len(dag[c].plans) = 1
    BY <1>3
  <2>2. c \in Implementations(SliceOf(head))
    BY <2>1 DEF Discovered, Owned, SliceOf, Implementations
  <2>3. OwnerOf(c)[1] = p
    BY <1>3 DEF OwnerOf
  <2>4. QED
    BY <1>1, <1>3, <2>2, <2>3 DEF CommitOf
<1>4. \A c, d \in CommitOf(t, u) : c = d
  BY <1>2 DEF Discovered, Owned, SliceOf
<1>5. QED
  BY <1>2, <1>3, <1>4 DEF t

\* What the gate of a plan has found of a history when it passes.
LEMMA GateThatPasses ==
    ASSUME NEW t, NEW p, GateOf(Up, t, p).verdict = "pass"
    PROVE  /\ ~AcceptanceRefused(Up, t, p)
           /\ PlanDefects(p) = {}
           /\ \A u \in UnitsOf[p] : CommitOf(t, u) # {}
           /\ LET commit == [u \in UnitsOf[p] |-> CHOOSE c \in CommitOf(t, u) : TRUE]
              IN AncestryDefects(Up, commit, p) = {}
<1> DEFINE gate == GateOf(Up, t, p)
           bound == [u \in UnitsOf[p] |-> CommitOf(t, u)]
           commit == [u \in UnitsOf[p] |-> CHOOSE c \in bound[u] : TRUE]
           defects == AncestryDefects(Up, commit, p)
<1>1. ~AcceptanceRefused(Up, t, p)
  <2>1. AcceptanceRefused(Up, t, p) => gate.verdict = "refused"
    BY DEF GateOf, Refused
  <2>2. QED
    BY <2>1
<1>2. PlanDefects(p) = {}
  <2>1. PlanDefects(p) # {} => gate.verdict = "error"
    BY <1>1 DEF GateOf, Structural
  <2>2. QED
    BY <2>1
<1>3. \A u \in UnitsOf[p] : bound[u] # {}
  <2>1. (\E u \in UnitsOf[p] : bound[u] = {}) => gate.verdict \in {"refused", "error"}
    BY <1>1, <1>2 DEF GateOf, Structural, Refused
  <2>2. QED
    BY <2>1
<1>4. defects = {}
  <2>1. defects # {} => gate.verdict \in {"refused", "error"}
    BY <1>1, <1>2, <1>3 DEF GateOf, Structural, Refused
  <2>2. QED
    BY <2>1
<1>5. commit = [u \in UnitsOf[p] |-> CHOOSE c \in CommitOf(t, u) : TRUE]
  OBVIOUS
<1>6. QED
  BY <1>1, <1>2, <1>3, <1>4, <1>5

\* A bundle that passes: every plan passes and nothing conflicts.
LEMMA BundleThatPasses ==
    ASSUME NEW head, BundleOf(head).outcome = "pass"
    PROVE  /\ \A p \in Involved(head) : Gates(head)[p].verdict = "pass"
           /\ HeadConflicts(head, Gates(head)) = {}
           /\ \A c \in DOMAIN JoinsOf(head) : JoinsOf(head)[c] = {}
<1> DEFINE heads == HeadConflicts(head, Gates(head))
           conflicts == heads \cup UNION {JoinsOf(head)[c] : c \in DOMAIN JoinsOf(head)}
           verdict == GroupVerdict(VerdictsOf(Gates(head)), conflicts)
<1>1. BundleOf(head).outcome
        = IF "error" \in VerdictsOf(Gates(head)) \cup {verdict} THEN "error"
          ELSE IF verdict = "pass" /\ FailedPlans(Gates(head)) = {} THEN "pass" ELSE "blocked"
  BY DEF BundleOf, Bundle
<1>2. verdict = "pass" /\ FailedPlans(Gates(head)) = {}
  BY <1>1
<1>3. conflicts = {}
  BY <1>2 DEF GroupVerdict
<1>4. DOMAIN Gates(head) = Involved(head)
  BY DEF Gates
<1>5. QED
  BY <1>2, <1>3, <1>4 DEF FailedPlans

-----------------------------------------------------------------------------
(* What a pass says of the history *)

LEMMA ClaimsHold ==
    ASSUME NEW head, NEW gates, HeadConflicts(head, gates) = {},
           NEW p \in DOMAIN gates, NEW u \in UnitsOf[p]
    PROVE  SourceOf(dag[head].tree) \in Holds[p][u]
<1> DEFINE own(q) == [v \in UnitsOf[q] |-> IF SourceOf(dag[head].tree) \in Holds[q][v] THEN {}
                                           ELSE {"CLAIM_INVALIDATED"}]
           broken(q) == {Conflict("CLAIM_INVALIDATED", <<q, v>>) :
                           v \in {w \in UnitsOf[q] : own(q)[w] # {}}}
           stale(q) == {Conflict("DEPENDENCY_INVALIDATED", <<q, v>>) :
                          v \in {w \in UnitsOf[q] : NeedsOf[q][w] \cap Failing(q, own(q)) # {}}}
<1>0. HeadConflicts(head, gates) = UNION {broken(q) \cup stale(q) : q \in DOMAIN gates}
  BY DEF HeadConflicts
<1>1. broken(p) = {}
  <2> HIDE DEF broken, stale
  <2>1. QED
    BY <1>0
<1>2. {w \in UnitsOf[p] : own(p)[w] # {}} = {}
  BY <1>1
<1>3. own(p)[u] = {}
  BY <1>2
<1>4. QED
  BY <1>3

\* A unit's dependencies are units of its plan, if the plan has no defect.
LEMMA NeedsAreUnits ==
    ASSUME NEW p, PlanDefects(p) = {}, NEW u \in UnitsOf[p]
    PROVE  NeedsOf[p][u] \subseteq UnitsOf[p]
BY DEF PlanDefects

\* Of a head that the adapter lets pass: GroupPassIsEarned.
LEMMA PassMeansEarned ==
    ASSUME DagInv, NEW head \in DOMAIN dag, GroupAnswer(head).outcome = "pass",
           NEW p \in Plans, NEW c0 \in SliceOf(head), NEW i0 \in DOMAIN dag[c0].plans,
           dag[c0].plans[i0] = p, NEW u \in UnitsOf[p]
    PROVE  LET work(v) == {c \in SliceOf(head) : dag[c].plans = <<p>> /\ dag[c].units = <<v>>}
           IN /\ Cardinality(work(u)) = 1
              /\ SourceOf(dag[head].tree) \in Holds[p][u]
              /\ \A d \in NeedsOf[p][u] : \A c \in work(u) : work(d) \cap Up[c] # {}
              /\ \A c \in work(u) : dag[c].tree[p] = dag[head].tree[p]
<1> DEFINE work(v) == {c \in SliceOf(head) : dag[c].plans = <<p>> /\ dag[c].units = <<v>>}
           t == ProjectionOf(head, p)
<1>1. /\ Discovered(head)
      /\ BundleOf(head).outcome = "pass"
  <2>1. GroupAnswer(head).outcome # "refused"
    OBVIOUS
  <2>2. DiscoveryRefusals(Up, head) = {} /\ GroupAnswer(head) = [outcome |-> BundleOf(head).outcome]
    BY <2>1, AnswerOf
  <2>3. QED
    BY <2>2, DiscoveredIfTaken
<1>2. p \in Involved(head)
  <2>1. c0 \in DOMAIN dag
    BY <1>1 DEF Discovered, Shaped, SliceOf
  <2>2. dag[c0].plans \in Seq(Plans)
    BY <2>1, ParentsAreThere DEF CommitsOver, DagInv
  <2>3. Len(dag[c0].plans) <= 1
    BY <1>1 DEF Discovered, Owned, SliceOf
  <2>4. i0 = 1 /\ Len(dag[c0].plans) = 1
    <3>1. i0 \in 1..Len(dag[c0].plans) /\ Len(dag[c0].plans) \in Nat
      BY <2>2
    <3>2. \A n \in Nat : n <= 1 => \A i \in 1..n : i = 1 /\ n = 1
      OBVIOUS
    <3>3. QED
      BY <2>3, <3>1, <3>2, Zenon
  <2>5. c0 \in Implementations(SliceOf(head)) /\ OwnerOf(c0)[1] = p
    BY <1>1, <2>4 DEF Discovered, Owned, SliceOf, Implementations, OwnerOf
  <2>6. QED
    BY <2>5, OwnersFacts DEF Involved
<1>3. /\ Gates(head)[p].verdict = "pass" /\ Gates(head)[p] = GateOf(Up, t, p)
      /\ HeadConflicts(head, Gates(head)) = {} /\ p \in DOMAIN Gates(head)
  BY <1>1, <1>2, BundleThatPasses DEF Gates
<1>4. /\ ~AcceptanceRefused(Up, t, p) /\ PlanDefects(p) = {}
      /\ \A v \in UnitsOf[p] : CommitOf(t, v) # {}
      /\ LET commit == [v \in UnitsOf[p] |-> CHOOSE c \in CommitOf(t, v) : TRUE]
         IN AncestryDefects(Up, commit, p) = {}
  BY <1>3, GateThatPasses
<1>5. \A v : CommitOf(t, v) = work(v) /\ \A c, d \in work(v) : c = d
  BY <1>1, CommitOfFacts
<1> DEFINE commit == [v \in UnitsOf[p] |-> CHOOSE c \in CommitOf(t, v) : TRUE]
<1>6. \A v \in UnitsOf[p] : work(v) = {commit[v]}
  BY <1>4, <1>5
<1>7. Cardinality(work(u)) = 1
  <2>1. work(u) = {commit[u]}
    BY <1>6
  <2> HIDE DEF work, commit
  <2>2. QED
    BY <2>1, FS_Singleton
<1>8. SourceOf(dag[head].tree) \in Holds[p][u]
  BY <1>3, ClaimsHold
<1>9. ASSUME NEW d \in NeedsOf[p][u], NEW c \in work(u)
      PROVE  work(d) \cap Up[c] # {}
  <2>1. d \in UnitsOf[p]
    BY <1>4, NeedsAreUnits
  <2>2. AncestryDefects(Up, commit, p) = {}
    BY <1>4
  <2> HIDE DEF commit
  <2>3. commit[d] \in Up[commit[u]]
    BY <2>2 DEF AncestryDefects
  <2>4. work(d) = {commit[d]} /\ c = commit[u]
    BY <1>6, <2>1
  <2>5. QED
    BY <2>3, <2>4
<1>10. ASSUME NEW c \in work(u)
       PROVE  dag[c].tree[p] = dag[head].tree[p]
  <2>1. c \in CommitOf(t, u)
    BY <1>5
  <2>2. c \in DOMAIN t.objects /\ t.objects[c].kind = "implementation"
    BY <2>1 DEF CommitOf
  <2>3. PlanIn(c, p) # 0
    BY <1>4, <2>2 DEF AcceptanceRefused, WrittenUnder
  <2>4. PlanIn(c, p) = dag[t.head].tree[p]
    BY <1>4, <2>2, <2>3 DEF AcceptanceRefused, StaysAccepted
  <2>5. t.head = head
    BY ProjectionFacts
  <2>6. QED
    BY <2>4, <2>5 DEF PlanIn
<1>11. QED
  BY <1>7, <1>8, <1>9, <1>10

LEMMA SourceIsOne ==
    ASSUME DagInv, NEW c \in DOMAIN dag
    PROVE  SourceOf(dag[c].tree) \in [Files -> Values] /\ dag[c].tree \in Trees
<1>1. dag[c].tree \in Trees
  BY ParentsAreThere DEF DagInv, CommitsOver
<1>2. QED
  BY <1>1 DEF Trees, SourceOf

\* Of a head that the adapter lets pass: JoinsLoseNothing.
LEMMA PassMeansKept ==
    ASSUME DagInv, NEW head \in DOMAIN dag, GroupAnswer(head).outcome = "pass",
           NEW c \in SliceOf(head), Len(dag[c].parents) > 1
    PROVE  LET left == dag[c].parents[1]
               right == dag[c].parents[2]
               base == CHOOSE b \in MergeBases(Up, left, right) : TRUE
               graph == [base |-> GraphOf(base), target |-> GraphOf(left),
                         head |-> GraphOf(right), merge |-> GraphOf(c)]
           IN /\ \A f \in DOMAIN dag[c].tree :
                    dag[c].tree[f] \in {dag[left].tree[f], dag[right].tree[f]}
              /\ KeepsWatched(graph)
<1> DEFINE left == dag[c].parents[1]
           right == dag[c].parents[2]
           base == CHOOSE b \in MergeBases(Up, left, right) : TRUE
           graph == [base |-> GraphOf(base), target |-> GraphOf(left),
                     head |-> GraphOf(right), merge |-> GraphOf(c)]
<1>1. Discovered(head) /\ BundleOf(head).outcome = "pass"
  <2>1. GroupAnswer(head).outcome # "refused"
    OBVIOUS
  <2>2. DiscoveryRefusals(Up, head) = {} /\ GroupAnswer(head) = [outcome |-> BundleOf(head).outcome]
    BY <2>1, AnswerOf
  <2>3. QED
    BY <2>2, DiscoveredIfTaken
<1>2. Len(dag[c].parents) = 2 /\ c \in DOMAIN dag
  <2>1. (Len(dag[c].parents) = 1 \/ Len(dag[c].parents) = 2) /\ c \in DOMAIN dag
    BY <1>1 DEF Discovered, Shaped, SliceOf
  <2>2. ~(1 > 1)
    OBVIOUS
  <2>3. QED
    BY <2>1, <2>2, Zenon
<1>3. c \in Joins(SliceOf(head))
  BY <1>2 DEF Joins
<1>4. left \in DOMAIN dag /\ right \in DOMAIN dag
  BY <1>2, ParentsAreThere DEF DagInv, CommitsOver
<1>5. dag[c].tree = Merged(dag[base].tree, dag[left].tree, dag[right].tree)
  BY <1>1, <1>3 DEF Discovered, CleanlyJoined, SliceOf
<1>6. \A f \in DOMAIN dag[c].tree : dag[c].tree[f] \in {dag[left].tree[f], dag[right].tree[f]}
  <2> HIDE DEF left, right, base
  <2>1. QED
    BY <1>5 DEF Merged
<1>7. IsBlueprint(graph.target) /\ IsBlueprint(graph.head)
  <2>1. SourceOf(dag[left].tree) \in [Files -> Values] /\ SourceOf(dag[right].tree) \in [Files -> Values]
    BY <1>4, SourceIsOne
  <2> HIDE DEF left, right, base
  <2>2. IsBlueprint(GraphOf(left)) /\ IsBlueprint(GraphOf(right))
    BY <2>1, MergeGroupAssumption DEF GraphOf
  <2>3. QED
    BY <2>2
<1>8. GraphConflicts(graph) = {}
  <2>1. DOMAIN JoinsOf(head) = Joins(SliceOf(head))
    BY TopologyFacts DEF JoinsOf
  <2>2. JoinConflicts(TopologyOf(head), c) = {}
    BY <1>1, <1>3, <2>1, BundleThatPasses DEF JoinsOf
  <2>3. TopologyOf(head).bases[c] = base
    BY <1>3 DEF TopologyOf, Topology, SliceOf
  <2>4. JoinConflicts(TopologyOf(head), c) = GraphConflicts(graph)
    BY <2>3 DEF JoinConflicts
  <2>5. QED
    BY <2>2, <2>4
<1> HIDE DEF graph
<1>9. KeepsWatched(graph)
  BY <1>7, <1>8, EffectsKeepWatched
<1>10. QED
  BY <1>6, <1>9 DEF graph

-----------------------------------------------------------------------------
(* The units that fail *)

FailsBy(p, own, s) == {u \in UnitsOf[p] : own[u] # {} \/ NeedsOf[p][u] \cap s # {}}

\* After one turn for each unit no more units fail (evaluation in plan order, of
\* which the verifier checks the result).
LEMMA FailingIsFixed ==
    ASSUME NEW p \in Plans, NEW own
    PROVE  Failing(p, own) = FailsBy(p, own, Failing(p, own))
<1> DEFINE U == UnitsOf[p]
           N == Cardinality(U)
           F(s) == FailsBy(p, own, s)
           Turns(k, f) == f = [n \in 0..k |-> IF n = 0 THEN {} ELSE F(f[n - 1])]
<1>1. IsFiniteSet(U) /\ N \in Nat
  BY MergeGroupAssumption, FS_CardinalityType
<1>2. \E f : Turns(N, f)
  <2> DEFINE S == {k \in Nat : \E f : Turns(k, f)}
  <2>1. 0 \in S
    <3> DEFINE f == [n \in 0..0 |-> {}]
    <3>1. Turns(0, f)
      OBVIOUS
    <3> HIDE DEF f, Turns
    <3>2. QED
      BY <3>1
  <2>2. ASSUME NEW k \in Nat, k \in S
        PROVE  k + 1 \in S
    <3>1. PICK f : Turns(k, f)
      BY <2>2
    <3> HIDE DEF F
    <3> DEFINE g == [n \in 0..(k + 1) |-> IF n = k + 1 THEN F(f[k]) ELSE f[n]]
    <3>2. \A n \in 0..k : f[n] = IF n = 0 THEN {} ELSE F(f[n - 1])
      BY <3>1
    <3>3. \A n \in 0..(k + 1) : g[n] = IF n = 0 THEN {} ELSE F(g[n - 1])
      BY <3>2
    <3>4. Turns(k + 1, g)
      BY <3>3
    <3> HIDE DEF g, Turns
    <3>5. QED
      BY <3>4
  <2> HIDE DEF Turns, S
  <2>3. Nat \subseteq S
    BY <2>1, <2>2, AllNumbers
  <2>4. QED
    BY <1>1, <2>3 DEF S
<1> DEFINE f == CHOOSE g : Turns(N, g)
<1>3. Failing(p, own) = f[N]
  BY DEF Failing, FailsBy
<1>4. Turns(N, f)
  BY <1>2
<1> HIDE DEF f
<1>5. f[0] = {} /\ \A n \in 0..N : n # 0 => f[n] = F(f[n - 1])
  <2> HIDE DEF U, F
  <2>1. f = [n \in 0..N |-> IF n = 0 THEN {} ELSE F(f[n - 1])]
    BY <1>4
  <2> HIDE DEF N
  <2>2. \A n \in 0..N : f[n] = IF n = 0 THEN {} ELSE F(f[n - 1])
    BY <2>1, Zenon
  <2>3. 0 \in 0..N
    BY <1>1
  <2>4. QED
    BY <2>2, <2>3, Zenon
<1>6. \A s, t : s \subseteq t => F(s) \subseteq F(t)
  BY DEF FailsBy
<1>7. \A s : F(s) \subseteq U
  BY DEF FailsBy
<1> HIDE DEF U, F, N
<1> DEFINE grows(n) == /\ f[n] \subseteq U /\ f[n] \subseteq F(f[n])
                       /\ f[n] = F(f[n]) \/ n <= Cardinality(f[n])
           T == {n \in Nat : n <= N => grows(n)}
<1>8. 0 \in T
  BY <1>5, FS_EmptySet
<1>9. ASSUME NEW n \in Nat, n \in T
      PROVE  n + 1 \in T
  <2> SUFFICES ASSUME n + 1 <= N
               PROVE  grows(n + 1)
    OBVIOUS
  <2>1. n <= N /\ grows(n) /\ n + 1 \in 0..N /\ n + 1 # 0 /\ (n + 1) - 1 = n
    BY <1>1, <1>9
  <2>2. f[n + 1] = F(f[n])
    BY <1>5, <2>1
  <2>3. f[n + 1] \subseteq U /\ f[n + 1] \subseteq F(f[n + 1])
    BY <1>6, <1>7, <2>1, <2>2
  <2>4. CASE f[n] = F(f[n])
    BY <2>2, <2>3, <2>4
  <2>5. CASE f[n] # F(f[n])
    <3>1. IsFiniteSet(f[n + 1]) /\ Cardinality(f[n + 1]) \in Nat
      BY <1>1, <2>3, FS_Subset, FS_CardinalityType
    <3>2. f[n] \subseteq f[n + 1] /\ f[n] # f[n + 1]
      BY <2>1, <2>2, <2>5
    <3>3. Cardinality(f[n]) < Cardinality(f[n + 1]) /\ Cardinality(f[n]) \in Nat
      BY <3>1, <3>2, FS_Subset, FS_CardinalityType
    <3>4. n <= Cardinality(f[n])
      BY <2>1, <2>5
    <3>5. n + 1 <= Cardinality(f[n + 1])
      BY <3>1, <3>3, <3>4
    <3>6. QED
      BY <2>3, <3>5
  <2>6. QED
    BY <2>4, <2>5
<1>10. grows(N)
  <2> HIDE DEF grows
  <2>1. Nat \subseteq T
    <3> HIDE DEF T
    <3>1. QED
      BY <1>8, <1>9, AllNumbers
  <2>2. QED
    BY <1>1, <2>1
<1>11. f[N] = F(f[N])
  <2>1. SUFFICES ASSUME f[N] # F(f[N])
                 PROVE  FALSE
    OBVIOUS
  <2>2. N <= Cardinality(f[N]) /\ f[N] \subseteq U
    BY <1>10, <2>1
  <2>3. f[N] = U
    BY <1>1, <2>2, FS_Subset, FS_CardinalityType DEF N
  <2>4. QED
    BY <1>7, <1>10, <2>1, <2>3
<1>12. QED
  BY <1>3, <1>11 DEF F

-----------------------------------------------------------------------------
(* What the verifier derives from a bundle *)

\* The slice stands on the base, and reaches nothing but it and what is before it.
LEMMA SliceFacts ==
    ASSUME DagInv, NEW head, Discovered(head)
    PROVE  LET S == SliceOf(head)
           IN /\ S \subseteq DOMAIN dag /\ IsFiniteSet(S)
              /\ Base \notin S /\ Before \notin S /\ head \in S /\ S \subseteq Up[head]
              /\ \A c \in S : ParentsOf(c) \subseteq S \cup {Base} /\ Base \in Up[c]
              /\ \A c \in S \cup {Base} : Up[c] \subseteq S \cup {Base, Before}
<1> DEFINE S == SliceOf(head)
<1>1. S = Up[head] \ {Base, Before}
  BY BaseAndBefore DEF SliceOf, Slice
<1>2. /\ head \in DOMAIN dag /\ Base # head /\ Base \in Up[head] /\ S # {}
      /\ \A c \in S : /\ c \in DOMAIN dag
                      /\ Len(dag[c].parents) = 1 \/ Len(dag[c].parents) = 2
                      /\ ParentsOf(c) \subseteq S \cup {Base}
  BY DEF Discovered, Shaped, SliceOf
<1> HIDE DEF S
<1>3. S \subseteq DOMAIN dag /\ IsFiniteSet(S)
  <2>1. S \subseteq DOMAIN dag
    BY <1>2
  <2>2. QED
    BY <2>1, FS_Subset DEF DagInv, DagTypeOK
<1>4. head \in S
  <2>1. head \in Up[head] /\ Up[Before] = {Before} /\ Base # Before
    BY <1>2, UpIsThere, BaseAndBefore DEF DagInv
  <2>2. head # Before
    BY <1>2, <2>1
  <2>3. QED
    BY <1>1, <1>2, <2>1, <2>2
<1>5. \A c \in S : Base \in Up[c]
  <2> DEFINE bad == {c \in S : Base \notin Up[c]}
  <2>1. CASE bad # {}
    <3>1. PICK c \in bad : ParentsOf(c) \cap bad = {}
      BY <1>3, <2>1 DEF Grounded, DagInv
    <3>2. dag[c].parents[1] \in ParentsOf(c)
      <4>1. DOMAIN dag[c].parents = 1..Len(dag[c].parents)
        BY <1>3, ParentsAreThere DEF DagInv
      <4>2. \A n \in {1, 2} : 1 \in 1..n
        OBVIOUS
      <4>3. 1 \in 1..Len(dag[c].parents)
        BY <1>2, <4>2
      <4>4. QED
        BY <4>1, <4>3 DEF ParentsOf
    <3>3. PICK d \in ParentsOf(c) : d \in S \cup {Base}
      BY <1>2, <3>2
    <3>4. Base \in Up[d]
      BY <3>1, <3>3, BaseAndBefore
    <3>5. Up[c] = {c} \cup UNION {Up[p] : p \in ParentsOf(c)}
      BY <1>3, UpOf DEF DagInv
    <3>6. QED
      BY <3>1, <3>3, <3>4, <3>5
  <2>2. QED
    BY <2>1
<1>6. \A c \in S \cup {Base} : Up[c] \subseteq S \cup {Base, Before}
  <2>1. Closed(S \cup {Base, Before})
    BY <1>2, BaseAndBefore DEF Closed
  <2>2. S \cup {Base} \subseteq DOMAIN dag
    BY <1>3, BaseAndBefore
  <2>3. QED
    BY <2>1, <2>2, UpWithin DEF DagInv
<1>7. QED
  BY <1>1, <1>2, <1>3, <1>4, <1>5, <1>6 DEF S

\* A topology of the slice, whole or projected on a plan.
OfSlice(t, head) ==
    /\ DOMAIN t.objects = SliceOf(head)
    /\ \A c \in SliceOf(head) : t.objects[c].parents = dag[c].parents

IsReach(t, reach) ==
    reach = [c \in DOMAIN t.objects \cup {Base} |->
                {c} \cup (IF c = Base THEN {}
                          ELSE UNION {reach[d] : d \in {t.objects[c].parents[i] :
                                                        i \in DOMAIN t.objects[c].parents}})]

\* Within the slice and its base, the verifier's reachability is Git's ancestry.
LEMMA ReachIsUp ==
    ASSUME DagInv, NEW head, Discovered(head), NEW t, OfSlice(t, head)
    PROVE  LET S == SliceOf(head) \cup {Base}
           IN \A c \in S : Reach(t)[c] = Up[c] \cap S
<1> DEFINE S == SliceOf(head) \cup {Base}
           above(reach, c) == {c} \cup (IF c = Base THEN {} ELSE UNION {reach[d] : d \in ParentsOf(c)})
           within == [c \in S |-> Up[c] \cap S]
<1>1. \A c \in SliceOf(head) :
        {t.objects[c].parents[i] : i \in DOMAIN t.objects[c].parents} = ParentsOf(c)
  BY DEF OfSlice, ParentsOf
<1>2. DOMAIN t.objects \cup {Base} = S
  BY DEF OfSlice
<1>3. \A c \in S : \/ c = Base /\ Up[c] \cap S = {Base}
                   \/ /\ c # Base /\ c \in SliceOf(head) /\ ParentsOf(c) \subseteq S
                      /\ c \in DOMAIN dag /\ Up[c] = {c} \cup UNION {Up[p] : p \in ParentsOf(c)}
  BY SliceFacts, BaseAndBefore, UpOf DEF DagInv
<1> HIDE DEF S
<1>4. \A reach : IsReach(t, reach) <=> reach = [c \in S |-> above(reach, c)]
  <2> DEFINE found(reach, c) ==
                {c} \cup (IF c = Base THEN {}
                          ELSE UNION {reach[d] : d \in {t.objects[c].parents[i] :
                                                        i \in DOMAIN t.objects[c].parents}})
  <2>1. \A reach : \A c \in S : found(reach, c) = above(reach, c)
    <3> SUFFICES ASSUME NEW reach, NEW c \in S
                 PROVE  found(reach, c) = above(reach, c)
      OBVIOUS
    <3>1. CASE c = Base
      BY <3>1
    <3>2. CASE c # Base
      <4>1. {t.objects[c].parents[i] : i \in DOMAIN t.objects[c].parents} = ParentsOf(c)
        BY <1>1, <1>3, <3>2
      <4>2. QED
        BY <4>1
    <3>3. QED
      BY <3>1, <3>2
  <2>2. \A reach : IsReach(t, reach) <=> reach = [c \in S |-> found(reach, c)]
    BY <1>2, Zenon DEF IsReach
  <2> HIDE DEF found, above
  <2>3. \A reach : [c \in S |-> found(reach, c)] = [c \in S |-> above(reach, c)]
    BY <2>1
  <2>4. QED
    BY <2>2, <2>3
<1>5. \A c \in S : above(within, c) = Up[c] \cap S
  <2> SUFFICES ASSUME NEW c \in S
               PROVE  above(within, c) = Up[c] \cap S
    OBVIOUS
  <2>1. CASE c = Base
    BY <1>3, <2>1
  <2>2. CASE c # Base
    <3>1. \A p \in ParentsOf(c) : within[p] = Up[p] \cap S
      BY <1>3, <2>2
    <3>2. Up[c] = {c} \cup UNION {Up[p] : p \in ParentsOf(c)}
      BY <1>3, <2>2
    <3>3. c \in S
      OBVIOUS
    <3> HIDE DEF within
    <3>4. above(within, c) = {c} \cup UNION {within[d] : d \in ParentsOf(c)}
      BY <2>2
    <3>5. QED
      BY <3>1, <3>2, <3>3, <3>4
  <2>3. QED
    BY <2>1, <2>2
<1>6. IsReach(t, within)
  <2>1. within = [c \in S |-> above(within, c)]
    BY <1>5
  <2> HIDE DEF within
  <2>2. QED
    BY <1>4, <2>1
<1>7. IsReach(t, Reach(t))
  <2>1. \E reach : IsReach(t, reach)
    BY <1>6
  <2>2. Reach(t) = CHOOSE reach : IsReach(t, reach)
    BY DEF Reach, IsReach
  <2>3. QED
    BY <2>1, <2>2
<1>8. PICK reach : reach = Reach(t)
  OBVIOUS
<1>9. reach = [c \in S |-> above(reach, c)]
  BY <1>4, <1>7, <1>8
<1> DEFINE bad == {c \in S : reach[c] # Up[c] \cap S}
<1>10. CASE bad # {}
  <2>1. S \subseteq DOMAIN dag
    BY SliceFacts, BaseAndBefore DEF S
  <2>2. PICK c \in bad : ParentsOf(c) \cap bad = {}
    BY <1>10, <2>1 DEF Grounded, DagInv
  <2>3. reach[c] = above(reach, c)
    BY <1>9
  <2>4. CASE c = Base
    BY <1>3, <2>2, <2>3, <2>4
  <2>5. CASE c # Base
    <3>1. \A p \in ParentsOf(c) : reach[p] = Up[p] \cap S
      BY <1>3, <2>2, <2>5
    <3>2. Up[c] = {c} \cup UNION {Up[p] : p \in ParentsOf(c)}
      BY <1>3, <2>5
    <3>3. reach[c] = {c} \cup UNION {reach[p] : p \in ParentsOf(c)}
      BY <2>3, <2>5
    <3>4. reach[c] = Up[c] \cap S
      BY <3>1, <3>2, <3>3
    <3>5. QED
      BY <2>2, <3>4
  <2>6. QED
    BY <2>4, <2>5
<1>11. QED
  BY <1>8, <1>10 DEF S

\* Each object has the layer, the parents and the kind that the verifier asks for.
LEMMA ObjectsFit ==
    ASSUME DagInv, NEW head, Discovered(head), NEW c \in SliceOf(head)
    PROVE  ObjectFits(TopologyOf(head), c)
<1> DEFINE t == TopologyOf(head)
           S == SliceOf(head)
           parents == {t.objects[c].parents[i] : i \in DOMAIN t.objects[c].parents}
           above == {t.objects[p].layer : p \in parents \ {Base}} \cup {0}
           layers == Layers(S)
<1>1. /\ t.objects[c].parents = dag[c].parents /\ t.objects[c].kind = KindOf(c)
      /\ DOMAIN t.bases = Joins(S) /\ \A d \in S : t.objects[d].layer = layers[d]
  BY TopologyFacts
<1>2. /\ c \in DOMAIN dag /\ S \subseteq DOMAIN dag /\ Base \notin S
      /\ ParentsOf(c) \subseteq S \cup {Base}
  BY SliceFacts
<1>3. Len(dag[c].parents) = 1 \/ Len(dag[c].parents) = 2
  BY DEF Discovered, Shaped, SliceOf
<1>4. DOMAIN dag[c].parents = 1..Len(dag[c].parents)
  BY <1>2, ParentsAreThere DEF DagInv
<1>5. parents = ParentsOf(c)
  BY <1>1 DEF ParentsOf
<1>6. Cardinality(parents) = Len(t.objects[c].parents)
  <2>1. CASE Len(dag[c].parents) = 1
    <3>1. ParentsOf(c) = {dag[c].parents[1]}
      <4>1. DOMAIN dag[c].parents = {1}
        BY <1>4, <2>1
      <4>2. QED
        BY <4>1 DEF ParentsOf
    <3>2. QED
      BY <1>1, <1>5, <2>1, <3>1, FS_Singleton
  <2>2. CASE Len(dag[c].parents) = 2
    <3>1. ParentsOf(c) = {dag[c].parents[1], dag[c].parents[2]}
      <4>1. DOMAIN dag[c].parents = {1, 2}
        BY <1>4, <2>2
      <4>2. QED
        BY <4>1 DEF ParentsOf
    <3>2. dag[c].parents[1] # dag[c].parents[2]
      BY <1>2, <2>2 DEF DagInv, DagTypeOK, ParentsFit
    <3>3. \A x, y : x # y => Cardinality({x, y}) = 2
      <4>1. ASSUME NEW x, NEW y, x # y PROVE Cardinality({x, y}) = 2
        <5>1. IsFiniteSet({x}) /\ Cardinality({x}) = 1
          BY FS_Singleton
        <5>2. Cardinality({x} \cup {y}) = 1 + 1
          BY <4>1, <5>1, FS_AddElement
        <5>3. {x} \cup {y} = {x, y}
          OBVIOUS
        <5>4. QED
          BY <5>2, <5>3
      <4>2. QED
        BY <4>1
    <3>4. Cardinality(ParentsOf(c)) = 2
      <4>1. PICK x, y : x = dag[c].parents[1] /\ y = dag[c].parents[2]
        OBVIOUS
      <4>2. ParentsOf(c) = {x, y} /\ x # y
        BY <3>1, <3>2, <4>1
      <4>3. Cardinality({x, y}) = 2
        BY <3>3, <4>2
      <4>4. QED
        BY <4>2, <4>3
    <3>5. Len(t.objects[c].parents) = 2
      BY <1>1, <2>2, Zenon
    <3>6. QED
      BY <1>5, <3>4, <3>5, Zenon
  <2>3. QED
    BY <1>3, <2>1, <2>2
<1>7. /\ layers[c] \in Nat
      /\ layers[c] - 1 \in above
      /\ \A m \in above : m < layers[c]
  <2>1. parents \ {Base} = ParentsOf(c) \cap S
    BY <1>2, <1>5
  <2>2. above = {0} \cup {layers[p] : p \in ParentsOf(c) \cap S}
    <3> HIDE DEF t, parents, layers
    <3>1. \A p \in ParentsOf(c) \cap S : t.objects[p].layer = layers[p]
      BY <1>1
    <3>2. {t.objects[p].layer : p \in ParentsOf(c) \cap S} = {layers[p] : p \in ParentsOf(c) \cap S}
      BY <3>1
    <3>3. QED
      BY <2>1, <3>2
  <2>3. QED
    BY <1>2, <2>2, LayersOf DEF DagInv
<1>8. /\ Len(t.objects[c].parents) = IF t.objects[c].kind = "join" THEN 2 ELSE 1
      /\ (t.objects[c].kind = "join") = (c \in DOMAIN t.bases)
  <2>1. t.objects[c].kind = "join" <=> Len(dag[c].parents) = 2
    BY <1>1, <1>3 DEF KindOf
  <2>2. c \in DOMAIN t.bases <=> Len(dag[c].parents) = 2
    BY <1>1 DEF Joins
  <2>3. Len(t.objects[c].parents) = Len(dag[c].parents)
    BY <1>1, Zenon
  <2> HIDE DEF t
  <2>4. CASE Len(dag[c].parents) = 2
    BY <2>1, <2>2, <2>3, <2>4, Zenon
  <2>5. CASE Len(dag[c].parents) = 1
    <3>1. 1 # 2
      OBVIOUS
    <3>2. t.objects[c].kind # "join" /\ c \notin DOMAIN t.bases
      BY <2>1, <2>2, <2>5, <3>1, Zenon
    <3>3. (t.objects[c].kind = "join") = (c \in DOMAIN t.bases)
      BY <3>2
    <3>4. Len(t.objects[c].parents) = IF t.objects[c].kind = "join" THEN 2 ELSE 1
      BY <2>3, <2>5, <3>2, Zenon
    <3>5. QED
      BY <3>3, <3>4
  <2>6. QED
    BY <1>3, <2>4, <2>5, Zenon
<1>9. t.objects[c].layer = layers[c]
  BY <1>1
<1> HIDE DEF t, layers
<1>10. QED
  BY <1>6, <1>7, <1>8, <1>9 DEF ObjectFits, t

\* Among what both sides of a join reach, the best is what Git merged from: the
\* base is common to them, and nothing before it is best.
LEMMA BasesFit ==
    ASSUME DagInv, NEW head, Discovered(head), NEW c \in Joins(SliceOf(head))
    PROVE  BaseFits(TopologyOf(head), c)
<1> DEFINE t == TopologyOf(head)
           S == SliceOf(head) \cup {Base}
           left == dag[c].parents[1]
           right == dag[c].parents[2]
           reach == Reach(t)
           common == {b \in S : \A i \in 1..2 : b \in reach[t.objects[c].parents[i]]}
           shared == Up[left] \cap Up[right]
           best == MergeBases(Up, left, right)
<1>1. c \in SliceOf(head) /\ Len(dag[c].parents) = 2
  BY DEF Joins
<1>2. DOMAIN t.objects = SliceOf(head) /\ t.objects[c].parents = dag[c].parents
      /\ OfSlice(t, head)
  BY <1>1, TopologyFacts DEF OfSlice
<1>3. left \in S /\ right \in S
  <2>1. c \in DOMAIN dag /\ ParentsOf(c) \subseteq S
    BY <1>1, SliceFacts
  <2>2. DOMAIN dag[c].parents = {1, 2}
    BY <1>1, <2>1, ParentsAreThere DEF DagInv
  <2>3. QED
    BY <2>1, <2>2 DEF ParentsOf
<1>4. \A d \in S : reach[d] = Up[d] \cap S
  BY <1>2, ReachIsUp
<1>5. /\ S \subseteq DOMAIN dag /\ Before \notin S /\ Base \in S
      /\ \A d \in S : Base \in Up[d] /\ Up[d] \subseteq S \cup {Before}
      /\ Before \in Up[Base] /\ Up[Before] = {Before} /\ Base # Before
  BY SliceFacts, BaseAndBefore
<1>6. t.bases[c] = CHOOSE b \in best : TRUE
  BY DEF TopologyOf, Topology, SliceOf
<1>7. \E b : best = {b}
  <2>1. best \subseteq DOMAIN dag
    BY <1>3, <1>5, UpIsThere DEF MergeBases, DagInv
  <2>2. IsFiniteSet(best)
    BY <2>1, FS_Subset DEF DagInv, DagTypeOK
  <2>3. Cardinality(best) = 1
    BY DEF Discovered, CleanlyJoined, SliceOf
  <2>4. QED
    BY <2>2, <2>3, FS_Singleton
<1>8. best = {b \in shared : \A e \in shared \ {b} : b \notin Up[e]}
  BY DEF MergeBases
<1> HIDE DEF S, left, right, reach, best
<1>9. common = shared \cap S
  <2>1. t.objects[c].parents[1] = left /\ t.objects[c].parents[2] = right
    BY <1>2 DEF left, right
  <2>2. \A b : (\A i \in 1..2 : b \in reach[t.objects[c].parents[i]])
                 <=> b \in reach[left] /\ b \in reach[right]
    <3>1. 1..2 = {1, 2}
      OBVIOUS
    <3>2. QED
      BY <2>1, <3>1, Zenon
  <2>3. QED
    BY <1>3, <1>4, <2>2
<1>10. Base \in shared /\ shared \subseteq S \cup {Before}
  BY <1>3, <1>5
<1> HIDE DEF common, shared
<1>11. {b \in common : \A d \in common \ {b} : b \notin reach[d]} = best
  <2>1. ASSUME NEW b \in common, \A d \in common \ {b} : b \notin reach[d]
        PROVE  b \in best
    <3>1. \A e \in shared \ {b} : b \notin Up[e]
      <4>1. ASSUME NEW e \in shared \ {b} PROVE b \notin Up[e]
        BY <1>4, <1>5, <1>9, <1>10, <2>1
      <4>2. QED
        BY <4>1
    <3>2. QED
      BY <1>8, <1>9, <3>1
  <2>2. ASSUME NEW b \in best
        PROVE  b \in common /\ \A d \in common \ {b} : b \notin reach[d]
    <3>1. b \in shared /\ \A e \in shared \ {b} : b \notin Up[e]
      BY <1>8
    <3>2. b # Before
      BY <1>5, <1>10, <3>1
    <3>3. b \in common
      BY <1>9, <1>10, <3>1, <3>2
    <3>4. QED
      BY <1>4, <1>9, <3>1, <3>3
  <2>3. QED
    BY <2>1, <2>2
<1>12. {b \in common : \A d \in common \ {b} : b \notin reach[d]} = {t.bases[c]}
  BY <1>6, <1>7, <1>11
<1>13. QED
  <2>1. common = {b \in DOMAIN t.objects \cup {Base} :
                    \A i \in 1..2 : b \in Reach(t)[t.objects[c].parents[i]]}
    BY <1>2 DEF common, S, reach
  <2> HIDE DEF t
  <2>2. QED
    BY <1>12, <2>1 DEF BaseFits, t, reach

LEMMA TopologyIsSound ==
    ASSUME DagInv, NEW head, Discovered(head)
    PROVE  TopologyFits(TopologyOf(head))
<1> DEFINE t == TopologyOf(head)
           S == SliceOf(head)
<1>1. /\ DOMAIN t.objects = S /\ t.head = head /\ DOMAIN t.bases = Joins(S)
      /\ \A c \in S : t.objects[c].parents = dag[c].parents
  BY TopologyFacts
<1>2. /\ IsFiniteSet(S) /\ Base \notin S /\ head \in S /\ S \subseteq Up[head]
      /\ \A c \in S : ParentsOf(c) \subseteq S \cup {Base}
  BY SliceFacts
<1>3. Cardinality(S) \in 1..MaxObjects
  <2>1. S # {} /\ ~(Cardinality(S) > MaxObjects)
    BY DEF Discovered, Shaped, SliceOf
  <2>2. Cardinality(S) \in Nat /\ Cardinality(S) # 0 /\ MaxObjects \in Nat
    BY <1>2, <2>1, FS_CardinalityType, FS_EmptySet, MergeGroupAssumption
  <2>3. \A m, n \in Nat : n # 0 /\ ~(n > m) => n \in 1..m
    OBVIOUS
  <2>4. QED
    BY <2>1, <2>2, <2>3, Zenon
<1>4. \A c \in S : {t.objects[c].parents[i] : i \in DOMAIN t.objects[c].parents}
                      \subseteq S \cup {Base}
  BY <1>1, <1>2 DEF ParentsOf
<1>5. \A c \in S : ObjectFits(t, c)
  BY ObjectsFit
<1>6. \A c \in Joins(S) : BaseFits(t, c)
  BY BasesFit
<1>7. Reach(t)[head] \ {Base} = S
  <2>1. Reach(t)[head] = Up[head] \cap (S \cup {Base})
    BY <1>1, <1>2, ReachIsUp DEF OfSlice
  <2>2. QED
    BY <1>2, <2>1
<1>8. DOMAIN t.objects = S /\ t.head = head /\ DOMAIN t.bases = Joins(S) /\ head \in S
  BY <1>1, <1>2
<1> HIDE DEF t, S
<1>9. TopologyFits(t)
  BY <1>3, <1>4, <1>5, <1>6, <1>7, <1>8, Zenon DEF TopologyFits
<1>10. QED
  BY <1>9 DEF t

-----------------------------------------------------------------------------
(* What the verifier asks of a gate *)

\* A group that is taken implements each unit of its plans, and its plans need
\* no unit beyond them and none in a circle.
LEMMA GroupFacts ==
    ASSUME DagInv, NEW head, Discovered(head), GroupRefusals(Owners(head), Gates(head)) = {}
    PROVE  /\ {OwnerOf(c) : c \in Implementations(SliceOf(head))}
                = UNION {{<<p, u>> : u \in UnitsOf[p]} : p \in Involved(head)}
           /\ Involved(head) \subseteq Plans
           /\ \A p \in Involved(head) : PlanDefects(p) = {}
<1> DEFINE owner == Owners(head)
           gates == Gates(head)
           pairs == {owner[c] : c \in DOMAIN owner}
           units == UNION {{<<p, u>> : u \in UnitsOf[p]} : p \in DOMAIN gates}
           beyond == UNION {UNION {NeedsOf[p][u] \ UnitsOf[p] : u \in UnitsOf[p]} : p \in DOMAIN gates}
<1>1. DOMAIN gates = Involved(head)
  BY DEF Gates
<1>2. pairs = {OwnerOf(c) : c \in Implementations(SliceOf(head))}
  BY OwnersFacts
<1>3. Involved(head) \subseteq Plans
  <2>1. \A c \in Implementations(SliceOf(head)) : OwnerOf(c)[1] \in Plans
    BY ImplementationFacts
  <2>2. QED
    BY <2>1, OwnersFacts DEF Involved
<1>4. pairs = units
  BY DEF GroupRefusals
<1>5. \A p \in DOMAIN gates : "DEPENDENCY_MISSING" \notin PlanDefects(p)
  <2> SUFFICES ASSUME NEW p \in DOMAIN gates, "DEPENDENCY_MISSING" \in PlanDefects(p)
               PROVE  FALSE
    OBVIOUS
  <2>1. PICK u \in UnitsOf[p] : ~(NeedsOf[p][u] \subseteq UnitsOf[p])
    BY DEF PlanDefects
  <2>2. beyond # {}
    BY <2>1
  <2>3. GroupRefusals(owner, gates)
          = {IF \E q \in DOMAIN gates : d \in UnitsOf[q] THEN "CROSS_PLAN_DEPENDENCY_UNSUPPORTED"
             ELSE "GROUP_PLAN_INVALID" : d \in beyond}
    BY <1>4 DEF GroupRefusals
  <2> HIDE DEF beyond, gates, owner
  <2>4. GroupRefusals(owner, gates) # {}
    BY <2>2, <2>3
  <2>5. QED
    BY <2>4 DEF owner, gates
<1>6. \A p \in DOMAIN gates : ~Cyclic(p)
  <2>1. GroupRefusals(owner, gates)
          = IF \E p \in DOMAIN gates : Cyclic(p) THEN {"GROUP_PLAN_INVALID"} ELSE {}
    BY <1>4, <1>5, Zenon DEF GroupRefusals
  <2>2. QED
    BY <2>1
<1>7. \A p \in DOMAIN gates : PlanDefects(p) = {}
  <2> SUFFICES ASSUME NEW p \in DOMAIN gates
               PROVE  PlanDefects(p) = {}
    OBVIOUS
  <2>1. ~Cyclic(p) /\ "DEPENDENCY_MISSING" \notin PlanDefects(p)
    BY <1>5, <1>6
  <2> HIDE DEF gates
  <2>2. QED
    BY <2>1 DEF PlanDefects
<1>8. QED
  BY <1>1, <1>2, <1>3, <1>4, <1>7

\* The commit that the gate of a plan binds to each of its units.
BoundTo(t, p) == [u \in UnitsOf[p] |-> CHOOSE c \in CommitOf(t, u) : TRUE]
OwnOf(t, p) == [u \in UnitsOf[p] |-> OwnReasons(BoundTo(t, p)[u], p, u)]

LEMMA BoundFacts ==
    ASSUME DagInv, NEW head, Discovered(head), GroupRefusals(Owners(head), Gates(head)) = {},
           NEW p \in Involved(head)
    PROVE  LET t == ProjectionOf(head, p)
           IN /\ p \in Plans /\ PlanDefects(p) = {}
              /\ \A u \in UnitsOf[p] : NeedsOf[p][u] \subseteq UnitsOf[p]
              /\ \A u \in UnitsOf[p] :
                    CommitOf(t, u) = {BoundTo(t, p)[u]} /\ BoundTo(t, p)[u] \in SliceOf(head)
              /\ \A c \in DOMAIN t.objects :
                    t.objects[c].kind = "implementation"
                      => /\ c \in Implementations(SliceOf(head)) /\ dag[c].units[1] \in UnitsOf[p]
                         /\ c = BoundTo(t, p)[dag[c].units[1]]
              /\ \A u \in UnitsOf[p] : /\ BoundTo(t, p)[u] \in DOMAIN t.objects
                                       /\ t.objects[BoundTo(t, p)[u]].kind = "implementation"
<1> DEFINE t == ProjectionOf(head, p)
           pairs == {OwnerOf(c) : c \in Implementations(SliceOf(head))}
<1>1. /\ pairs = UNION {{<<q, u>> : u \in UnitsOf[q]} : q \in Involved(head)}
      /\ p \in Plans /\ PlanDefects(p) = {}
  BY GroupFacts
<1>2. DOMAIN t.objects = SliceOf(head)
      /\ \A c \in SliceOf(head) : t.objects[c].kind = "implementation"
           <=> c \in Implementations(SliceOf(head)) /\ OwnerOf(c)[1] = p
  BY ProjectionFacts
<1>3. \A u : /\ CommitOf(t, u) = {c \in SliceOf(head) : dag[c].plans = <<p>> /\ dag[c].units = <<u>>}
             /\ \A c, d \in CommitOf(t, u) : c = d
             /\ \A c \in CommitOf(t, u) :
                  c \in Implementations(SliceOf(head)) /\ OwnerOf(c) = <<p, u>>
  BY CommitOfFacts
<1> HIDE DEF t
<1>4. \A u \in UnitsOf[p] : NeedsOf[p][u] \subseteq UnitsOf[p]
  BY <1>1 DEF PlanDefects
<1>5. ASSUME NEW u \in UnitsOf[p]
      PROVE  CommitOf(t, u) = {BoundTo(t, p)[u]} /\ BoundTo(t, p)[u] \in SliceOf(head)
             /\ t.objects[BoundTo(t, p)[u]].kind = "implementation"
  <2>1. <<p, u>> \in pairs
    <3>1. <<p, u>> \in {<<p, v>> : v \in UnitsOf[p]}
      OBVIOUS
    <3>2. <<p, u>> \in UNION {{<<q, v>> : v \in UnitsOf[q]} : q \in Involved(head)}
      BY <3>1
    <3>3. QED
      BY <1>1, <3>2, Zenon
  <2>2. PICK c \in Implementations(SliceOf(head)) : OwnerOf(c) = <<p, u>>
    BY <2>1
  <2>3. c \in SliceOf(head) /\ dag[c].plans = <<OwnerOf(c)[1]>> /\ dag[c].units = <<OwnerOf(c)[2]>>
    BY ImplementationFacts
  <2>4. dag[c].plans = <<p>> /\ dag[c].units = <<u>>
    BY <2>2, <2>3
  <2>5. c \in CommitOf(t, u)
    BY <1>3, <2>3, <2>4
  <2>6. CommitOf(t, u) = {c}
    BY <1>3, <2>5
  <2>7. BoundTo(t, p)[u] = c
    BY <2>6 DEF BoundTo
  <2>8. OwnerOf(c)[1] = p
    BY <2>2
  <2>9. QED
    BY <1>2, <2>3, <2>6, <2>7, <2>8
<1>6. ASSUME NEW c \in DOMAIN t.objects, t.objects[c].kind = "implementation"
      PROVE  /\ c \in Implementations(SliceOf(head)) /\ dag[c].units[1] \in UnitsOf[p]
             /\ c = BoundTo(t, p)[dag[c].units[1]]
  <2>1. c \in SliceOf(head) /\ c \in Implementations(SliceOf(head)) /\ OwnerOf(c)[1] = p
    BY <1>2, <1>6
  <2>2. PICK u : u = OwnerOf(c)[2]
    OBVIOUS
  <2>3. dag[c].plans = <<p>> /\ dag[c].units = <<u>> /\ OwnerOf(c) = <<p, u>>
    BY <2>1, <2>2, ImplementationFacts
  <2>4. PICK q \in Involved(head) : \E v \in UnitsOf[q] : <<p, u>> = <<q, v>>
    BY <1>1, <2>1, <2>3
  <2>5. u \in UnitsOf[p]
    BY <2>4
  <2>6. c \in CommitOf(t, u)
    BY <1>3, <2>1, <2>3
  <2>7. c = BoundTo(t, p)[u]
    BY <1>5, <2>5, <2>6
  <2>8. dag[c].units[1] = u
    BY <2>3
  <2>9. QED
    BY <2>1, <2>5, <2>7, <2>8
<1>7. QED
  BY <1>1, <1>2, <1>4, <1>5, <1>6, Zenon DEF t

\* The gate of such a plan is refused, finds a dependency out of order, or
\* evaluates the plan.
LEMMA GateOfTaken ==
    ASSUME DagInv, NEW head, Discovered(head), GroupRefusals(Owners(head), Gates(head)) = {},
           NEW p \in Involved(head), Gates(head)[p] # Refused
    PROVE  LET t == ProjectionOf(head, p)
               gate == Gates(head)[p]
               defects == AncestryDefects(Up, BoundTo(t, p), p)
               invalid == Failing(p, OwnOf(t, p))
           IN \/ defects # {} /\ gate = Structural(defects)
              \/ /\ defects = {}
                 /\ gate = [verdict |-> IF invalid = {} THEN "pass" ELSE "blocked",
                            commit |-> BoundTo(t, p), own |-> OwnOf(t, p), invalid |-> invalid]
<1> DEFINE t == ProjectionOf(head, p)
           bound == [u \in UnitsOf[p] |-> CommitOf(t, u)]
           commit == [u \in UnitsOf[p] |-> CHOOSE c \in bound[u] : TRUE]
           own == [u \in UnitsOf[p] |-> OwnReasons(commit[u], p, u)]
<1>1. Gates(head)[p] = GateOf(Up, t, p)
  BY DEF Gates
<1>2. /\ PlanDefects(p) = {}
      /\ \A u \in UnitsOf[p] : CommitOf(t, u) # {}
      /\ \A c \in DOMAIN t.objects :
            t.objects[c].kind = "implementation" => dag[c].units[1] \in UnitsOf[p]
  <2>1. PlanDefects(p) = {}
    BY BoundFacts
  <2>2. \A u \in UnitsOf[p] : CommitOf(t, u) = {BoundTo(t, p)[u]}
    BY BoundFacts
  <2>3. \A c \in DOMAIN t.objects :
          t.objects[c].kind = "implementation" => dag[c].units[1] \in UnitsOf[p]
    BY BoundFacts
  <2> HIDE DEF t
  <2>4. QED
    BY <2>1, <2>2, <2>3
<1> HIDE DEF t
<1>3. commit = BoundTo(t, p)
  BY DEF BoundTo
<1>4. own = OwnOf(t, p)
  <2> HIDE DEF commit
  <2>1. QED
    BY <1>3 DEF OwnOf
<1>5. ~AcceptanceRefused(Up, t, p)
  BY <1>1 DEF GateOf
<1>6. ~\E c \in Implementations(DOMAIN t.objects) :
         t.objects[c].kind = "implementation" /\ dag[c].units[1] \notin UnitsOf[p]
  BY <1>2 DEF Implementations
<1>7. ~\E u \in UnitsOf[p] : bound[u] = {}
  BY <1>2
<1>8. GateOf(Up, t, p)
        = IF AncestryDefects(Up, commit, p) # {} THEN Structural(AncestryDefects(Up, commit, p))
          ELSE [verdict |-> IF Failing(p, own) = {} THEN "pass" ELSE "blocked",
                commit |-> commit, own |-> own, invalid |-> Failing(p, own)]
  BY <1>2, <1>5, <1>6, <1>7, Zenon DEF GateOf
<1> HIDE DEF commit, own, bound
<1>9. QED
  BY <1>1, <1>3, <1>4, <1>8 DEF t

LEMMA GatesFit ==
    ASSUME DagInv, NEW head, Discovered(head), GroupRefusals(Owners(head), Gates(head)) = {},
           NEW p \in Involved(head), Gates(head)[p] # Refused
    PROVE  GateFits(Gates(head)[p], ProjectionOf(head, p), p)
<1> DEFINE t == ProjectionOf(head, p)
           gate == Gates(head)[p]
           commit == BoundTo(t, p)
           own == OwnOf(t, p)
           defects == AncestryDefects(Up, commit, p)
           invalid == Failing(p, own)
           late == \E u \in UnitsOf[p] : \E d \in NeedsOf[p][u] : commit[d] \notin Up[commit[u]]
<1>1. \/ defects # {} /\ gate = Structural(defects)
      \/ /\ defects = {}
         /\ gate = [verdict |-> IF invalid = {} THEN "pass" ELSE "blocked",
                    commit |-> commit, own |-> own, invalid |-> invalid]
  BY GateOfTaken
<1>2. p \in Plans /\ PlanDefects(p) = {}
  BY BoundFacts
<1>3. \A u \in UnitsOf[p] : NeedsOf[p][u] \subseteq UnitsOf[p]
  BY BoundFacts
<1>4. \A u \in UnitsOf[p] : CommitOf(t, u) = {commit[u]} /\ commit[u] \in SliceOf(head)
  BY BoundFacts
<1>5. \A c \in DOMAIN t.objects :
        t.objects[c].kind = "implementation"
          => dag[c].units[1] \in UnitsOf[p] /\ c = commit[dag[c].units[1]]
  BY BoundFacts
<1>6. \A u \in UnitsOf[p] : commit[u] \in DOMAIN t.objects
                             /\ t.objects[commit[u]].kind = "implementation"
  BY BoundFacts
<1>7. \A c, d \in SliceOf(head) : d \in Reach(t)[c] <=> d \in Up[c]
  <2>1. OfSlice(t, head)
    BY ProjectionFacts DEF OfSlice
  <2> HIDE DEF t
  <2>2. \A c \in SliceOf(head) : Reach(t)[c] = Up[c] \cap (SliceOf(head) \cup {Base})
    BY <2>1, ReachIsUp
  <2>3. QED
    BY <2>2
<1>8. commit = [u \in UnitsOf[p] |-> CHOOSE c \in CommitOf(t, u) : TRUE]
  BY DEF BoundTo
<1>9. defects = IF late THEN {"DEPENDENCY_NOT_ANCESTOR"} ELSE {}
  BY DEF AncestryDefects
<1> HIDE DEF t, gate, commit, own, defects, invalid
<1>10. late <=> \E u \in UnitsOf[p] : \E d \in NeedsOf[p][u] : commit[d] \notin Reach(t)[commit[u]]
  BY <1>3, <1>4, <1>7
<1>11. CASE defects # {} /\ gate = Structural(defects)
  <2>1. gate.verdict = "error" /\ gate.defects = defects
    BY <1>11 DEF Structural
  <2> DEFINE bound == [u \in UnitsOf[p] |-> CommitOf(t, u)]
             choice == [u \in UnitsOf[p] |-> CHOOSE c \in bound[u] : TRUE]
  <2>2. choice = commit /\ ~\E u \in UnitsOf[p] : bound[u] = {}
    BY <1>4, <1>8
  <2>3. late /\ defects = {"DEPENDENCY_NOT_ANCESTOR"}
    BY <1>9, <1>11
  <2>4. \E u \in UnitsOf[p] : \E d \in NeedsOf[p][u] : choice[d] \notin Reach(t)[choice[u]]
    <3> HIDE DEF choice
    <3>1. QED
      BY <1>10, <2>2, <2>3, Zenon
  <2>5. \A c \in DOMAIN t.objects :
          t.objects[c].kind = "implementation" => dag[c].units[1] \in UnitsOf[p]
    BY <1>5
  <2>6. gate.defects # {}
    BY <2>1, <2>3
  <2>7. gate.defects
          = IF PlanDefects(p) # {} THEN PlanDefects(p)
            ELSE IF \E u \in UnitsOf[p] : bound[u] = {} THEN {"BINDING_MISSING"}
            ELSE IF \E u \in UnitsOf[p] : \E d \in NeedsOf[p][u] : choice[d] \notin Reach(t)[choice[u]]
                 THEN {"DEPENDENCY_NOT_ANCESTOR"} ELSE {}
    <3> HIDE DEF choice, bound
    <3>1. QED
      BY <1>2, <2>1, <2>2, <2>3, <2>4, Zenon
  <2>8. StructuralFits(gate, t, p)
    BY <2>5, <2>6, <2>7, Zenon DEF StructuralFits
  <2>9. GateFits(gate, t, p)
    BY <2>1, <2>8 DEF GateFits
  <2>10. QED
    BY <2>9 DEF gate, t
<1>12. CASE /\ defects = {}
            /\ gate = [verdict |-> IF invalid = {} THEN "pass" ELSE "blocked",
                       commit |-> commit, own |-> own, invalid |-> invalid]
  <2>1. /\ gate.verdict = (IF invalid = {} THEN "pass" ELSE "blocked")
        /\ gate.commit = commit /\ gate.own = own /\ gate.invalid = invalid
    BY <1>12
  <2>2. BindingsFit(gate, t, p)
    <3>1. DOMAIN commit = UnitsOf[p]
      BY <1>8
    <3>2. {c \in DOMAIN t.objects : t.objects[c].kind = "implementation"}
            = {commit[u] : u \in UnitsOf[p]}
      BY <1>5, <1>6
    <3>3. ~late
      BY <1>9, <1>12
    <3>4. \A u \in UnitsOf[p] : \A d \in NeedsOf[p][u] : commit[d] \in Reach(t)[commit[u]]
      BY <1>10, <3>3
    <3>5. QED
      BY <1>2, <2>1, <3>1, <3>2, <3>4, Zenon DEF BindingsFit
  <2>3. ResultFits(gate, p)
    <3>1. invalid = {u \in UnitsOf[p] : own[u] # {} \/ NeedsOf[p][u] \cap invalid # {}}
      BY <1>2, FailingIsFixed DEF FailsBy, invalid
    <3>2. {u \in UnitsOf[p] : own[u] # {} \/ NeedsOf[p][u] \cap invalid # {}}
            = {u \in UnitsOf[p] : gate.own[u] # {} \/ NeedsOf[p][u] \cap gate.invalid # {}}
      BY <2>1
    <3>3. gate.invalid
            = {u \in UnitsOf[p] : gate.own[u] # {} \/ NeedsOf[p][u] \cap gate.invalid # {}}
      BY <2>1, <3>1, <3>2, Zenon
    <3>4. gate.verdict = IF gate.invalid = {} THEN "pass" ELSE "blocked"
      BY <2>1, Zenon
    <3>5. QED
      BY <3>3, <3>4, Zenon DEF ResultFits
  <2>4. gate.verdict # "error"
    BY <2>1
  <2>5. GateFits(gate, t, p)
    BY <2>2, <2>3, <2>4 DEF GateFits
  <2>6. QED
    BY <2>5 DEF gate, t
<1>13. QED
  BY <1>1, <1>11, <1>12

-----------------------------------------------------------------------------
(* What the verifier asks of a group *)

LEMMA BundleFacts ==
    ASSUME NEW head
    PROVE  LET b == BundleOf(head)
               gates == Gates(head)
               heads == HeadConflicts(head, gates)
               joins == JoinsOf(head)
               verdict == GroupVerdict(VerdictsOf(gates), heads \cup UNION {joins[c] : c \in DOMAIN joins})
           IN /\ b.topology = TopologyOf(head) /\ b.owner = Owners(head) /\ b.gates = gates
              /\ b.heads = heads /\ b.joins = joins /\ b.group = verdict
              /\ b.failed = FailedPlans(gates)
              /\ b.outcome = IF "error" \in VerdictsOf(gates) \cup {verdict} THEN "error"
                             ELSE IF verdict = "pass" /\ FailedPlans(gates) = {} THEN "pass" ELSE "blocked"
BY DEF BundleOf, Bundle

\* Conflicts at the head are told of units that the group implements.
LEMMA WitnessesAreOwners ==
    ASSUME DagInv, NEW head, Discovered(head), GroupRefusals(Owners(head), Gates(head)) = {},
           NEW e \in HeadConflicts(head, Gates(head))
    PROVE  e.witness \in {OwnerOf(c) : c \in Implementations(SliceOf(head))}
<1>1. PICK p \in DOMAIN Gates(head) : \E u \in UnitsOf[p] : e.witness = <<p, u>>
  BY DEF HeadConflicts, Conflict
<1>2. p \in Involved(head)
  BY DEF Gates
<1>3. e.witness \in UNION {{<<q, u>> : u \in UnitsOf[q]} : q \in Involved(head)}
  BY <1>1, <1>2
<1>4. QED
  BY <1>3, GroupFacts

LEMMA VerifierAccepts ==
    ASSUME DagInv, NEW head, Discovered(head), GroupRefusals(Owners(head), Gates(head)) = {},
           \A p \in Involved(head) : Gates(head)[p] # Refused
    PROVE  VerifierAcceptsBundle(BundleOf(head))
<1> DEFINE b == BundleOf(head)
           t == TopologyOf(head)
           owner == Owners(head)
           gates == Gates(head)
           heads == HeadConflicts(head, gates)
           joins == JoinsOf(head)
           found == heads \cup UNION {joins[c] : c \in DOMAIN joins}
           verdict == GroupVerdict(VerdictsOf(gates), found)
<1>1. /\ b.topology = t /\ b.owner = owner /\ b.gates = gates
      /\ b.heads = heads /\ b.joins = joins /\ b.group = verdict
      /\ b.failed = FailedPlans(gates)
      /\ b.outcome = IF "error" \in VerdictsOf(gates) \cup {verdict} THEN "error"
                     ELSE IF verdict = "pass" /\ FailedPlans(gates) = {} THEN "pass" ELSE "blocked"
  BY BundleFacts
<1>2. DOMAIN gates = Involved(head)
  BY DEF Gates
<1>3. DOMAIN joins = DOMAIN t.bases
  BY DEF JoinsOf
<1>4. TopologyFits(t)
  BY TopologyIsSound
<1>5. DOMAIN owner = {c \in DOMAIN t.objects : t.objects[c].kind = "implementation"}
  <2>1. DOMAIN t.objects = SliceOf(head) /\ \A c \in SliceOf(head) : t.objects[c].kind = KindOf(c)
    BY TopologyFacts
  <2>2. DOMAIN owner = {c \in SliceOf(head) : KindOf(c) = "implementation"}
    BY OwnersFacts DEF Implementations
  <2> HIDE DEF t, owner
  <2>3. QED
    BY <2>1, <2>2
<1>6. {owner[c][1] : c \in DOMAIN owner} = DOMAIN gates
  BY <1>2 DEF Involved
<1>7. \A p \in DOMAIN gates : GateFits(gates[p], Projection(t, owner, p), p)
  BY <1>2, GatesFit DEF ProjectionOf
<1>8. \A c, d \in DOMAIN owner : c # d => owner[c] # owner[d]
  BY OwnersFacts DEF Discovered, Owned, SliceOf
<1>9. \A e \in heads : e.witness \in {owner[c] : c \in DOMAIN owner}
  <2>1. {owner[c] : c \in DOMAIN owner} = {OwnerOf(c) : c \in Implementations(SliceOf(head))}
    BY OwnersFacts
  <2>2. QED
    BY <2>1, WitnessesAreOwners
<1> HIDE DEF b, t, owner, gates, heads, joins
<1>10. SourcesFit(b)
  BY <1>1, <1>4, <1>5, <1>6, <1>7, Zenon DEF SourcesFit
<1>11. GroupInputFits(b)
  <2>1. \A c, d \in DOMAIN b.owner : c # d => b.owner[c] # b.owner[d]
    BY <1>1, <1>8
  <2>2. \A e \in b.heads : e.witness \in {b.owner[c] : c \in DOMAIN b.owner}
    BY <1>1, <1>9
  <2>3. DOMAIN b.joins = DOMAIN b.topology.bases
    BY <1>1, <1>3
  <2>4. QED
    BY <2>1, <2>2, <2>3 DEF GroupInputFits
<1>12. "error" \in VerdictsOf(gates) <=> \E p \in DOMAIN gates : gates[p].verdict = "error"
  BY DEF VerdictsOf
<1>13. VerdictsOf(gates) \subseteq {"pass"} <=> ~\E p \in DOMAIN gates : gates[p].verdict # "pass"
  BY DEF VerdictsOf
<1>14. found = {} <=> ~(heads # {} \/ \E c \in DOMAIN joins : joins[c] # {})
  OBVIOUS
<1> HIDE DEF found
<1>15. verdict = IF "error" \in VerdictsOf(gates) THEN "error"
                 ELSE IF found = {} /\ VerdictsOf(gates) \subseteq {"pass"} THEN "pass" ELSE "blocked"
  BY DEF GroupVerdict
<1> HIDE DEF verdict
<1>16. GroupResultFits(b)
  BY <1>1, <1>12, <1>13, <1>14, <1>15 DEF GroupResultFits
<1>17. OutcomeFits(b)
  <2> DEFINE bad == {p \in DOMAIN gates : gates[p].verdict # "pass"}
  <2>1. FailedPlans(gates) = bad
    BY DEF FailedPlans
  <2>2. "error" \in VerdictsOf(gates) \cup {verdict}
          <=> verdict = "error" \/ \E p \in bad : gates[p].verdict = "error"
    BY <1>12
  <2> HIDE DEF bad
  <2>3. b.outcome = IF b.group = "error" \/ \E p \in bad : b.gates[p].verdict = "error" THEN "error"
                    ELSE IF bad = {} /\ b.group = "pass" THEN "pass" ELSE "blocked"
    BY <1>1, <2>1, <2>2
  <2>4. bad = {p \in DOMAIN b.gates : b.gates[p].verdict # "pass"}
    BY <1>1 DEF bad
  <2>5. QED
    BY <1>1, <2>1, <2>3, <2>4, Zenon DEF OutcomeFits
<1>18. QED
  BY <1>10, <1>11, <1>16, <1>17 DEF VerifierAcceptsBundle, b

-----------------------------------------------------------------------------
(* The invariant *)

\* Integrity is no code of the adapter's own.
LEMMA OwnCodes ==
    ASSUME NEW head
    PROVE  /\ "INTEGRITY" \notin DiscoveryRefusals(Up, head)
           /\ "INTEGRITY" \notin GroupRefusals(Owners(head), Gates(head))
<1>1. "INTEGRITY" \notin ShapeRefusals(Up, head)
  BY DEF ShapeRefusals
<1>2. \A c : "INTEGRITY" \notin JoinRefusals(Up, c)
  BY DEF JoinRefusals
<1>3. \A c : "INTEGRITY" \notin OwnershipRefusals(c)
  BY DEF OwnershipRefusals
<1>4. \A slice : "INTEGRITY" \notin BindingRefusals(slice)
  BY DEF BindingRefusals
<1>5. "INTEGRITY" \notin DiscoveryRefusals(Up, head)
  BY <1>1, <1>2, <1>3, <1>4 DEF DiscoveryRefusals
<1>6. "INTEGRITY" \notin GroupRefusals(Owners(head), Gates(head))
  BY DEF GroupRefusals
<1>7. QED
  BY <1>5, <1>6

\* The history does not change under a group, nor its ancestry.
LEMMA SameAncestry ==
    ASSUME dag' = dag
    PROVE  /\ Up' = Up
           /\ \A up, c, d : MergeBases(up, c, d)' = MergeBases(up, c, d)
           /\ \A c : GraphOf(c)' = GraphOf(c)
<1>1. Up' = Up
  BY DEF Up, ParentsOf
<1>2. QED
  BY <1>1 DEF MergeBases, GraphOf

LEMMA JudgedInv ==
    ASSUME DagInv, JudgeGroup
    PROVE  GroupPassIsEarned' /\ JoinsLoseNothing' /\ VerifierAcceptsGroup'
<1>1. PICK head \in {Tip("q"), Tip("x")} \ {Base} :
        group' = [head |-> head, answer |-> GroupAnswer(head)]
  BY DEF JudgeGroup
<1>2. dag' = dag /\ Up' = Up
  BY SameAncestry DEF JudgeGroup
<1>3. head \in DOMAIN dag
  BY <1>1, TipIsThere DEF Lines
<1>4. group'.head = head /\ group'.answer = GroupAnswer(head)
  BY <1>1
<1>5. InGroup' = SliceOf(head)
  BY <1>2, <1>4 DEF InGroup, SliceOf, Slice
<1>6. GroupPassIsEarned'
  <2> DEFINE work(p, u) == {c \in SliceOf(head) : dag[c].plans = <<p>> /\ dag[c].units = <<u>>}
  <2> SUFFICES ASSUME Passed', NEW p \in Plans,
                      \E c \in SliceOf(head) : \E i \in DOMAIN dag[c].plans : dag[c].plans[i] = p
               PROVE  \A u \in UnitsOf[p] :
                        /\ Cardinality(work(p, u)) = 1
                        /\ SourceOf(dag[head].tree) \in Holds[p][u]
                        /\ \A d \in NeedsOf[p][u] : \A c \in work(p, u) : work(p, d) \cap Up[c] # {}
                        /\ \A c \in work(p, u) : dag[c].tree[p] = dag[head].tree[p]
    <3>1. \A q, u : WorkOn(q, u)' = work(q, u)
      BY <1>2, <1>5 DEF WorkOn
    <3>2. {q \in Plans : \E c \in InGroup : q \in {dag[c].plans[i] : i \in DOMAIN dag[c].plans}}'
            = {q \in Plans : \E c \in SliceOf(head) : \E i \in DOMAIN dag[c].plans : dag[c].plans[i] = q}
      BY <1>2, <1>5
    <3> HIDE DEF work
    <3>3. QED
      BY <1>2, <1>4, <3>1, <3>2 DEF GroupPassIsEarned
  <2>1. GroupAnswer(head).outcome = "pass"
    BY <1>4 DEF Passed
  <2>2. QED
    BY <1>3, <2>1, PassMeansEarned
<1>7. JoinsLoseNothing'
  <2>1. SUFFICES ASSUME GroupAnswer(head).outcome = "pass",
                        NEW c \in SliceOf(head), Len(dag[c].parents) > 1
                 PROVE  LET left == dag[c].parents[1]
                            right == dag[c].parents[2]
                            base == CHOOSE b \in MergeBases(Up, left, right) : TRUE
                            graph == [base |-> GraphOf(base), target |-> GraphOf(left),
                                      head |-> GraphOf(right), merge |-> GraphOf(c)]
                        IN /\ \A f \in DOMAIN dag[c].tree :
                                 dag[c].tree[f] \in {dag[left].tree[f], dag[right].tree[f]}
                           /\ KeepsWatched(graph)
    <3>1. Passed' <=> GroupAnswer(head).outcome = "pass"
      BY <1>4 DEF Passed
    <3>2. {d \in InGroup : Len(dag[d].parents) > 1}' = {d \in SliceOf(head) : Len(dag[d].parents) > 1}
      BY <1>2, <1>5
    <3>3. /\ \A up, c, d : MergeBases(up, c, d)' = MergeBases(up, c, d)
          /\ \A c : GraphOf(c)' = GraphOf(c)
      BY <1>2, SameAncestry
    <3>4. QED
      BY <1>2, <3>1, <3>2, <3>3 DEF JoinsLoseNothing
  <2>2. QED
    BY <1>3, <2>1, PassMeansKept
<1>8. VerifierAcceptsGroup'
  <2>1. /\ "INTEGRITY" \notin DiscoveryRefusals(Up, head)
        /\ "INTEGRITY" \notin GroupRefusals(Owners(head), Gates(head))
    BY OwnCodes
  <2>2. DiscoveryRefusals(Up, head) = {} => Discovered(head)
    BY <1>3, DiscoveredIfTaken
  <2>3. GroupAnswer(head).outcome = "refused" => "INTEGRITY" \notin GroupAnswer(head).codes
    BY <2>1, <2>2, VerifierAccepts, IntegrityRefusal
  <2>4. QED
    BY <1>4, <2>3 DEF VerifierAcceptsGroup
<1>9. QED
  BY <1>6, <1>7, <1>8

\* Nothing but the judgement changes what is said of a group.
LEMMA SameSaid ==
    ASSUME dag' = dag, group' = group, GroupPassIsEarned, JoinsLoseNothing, VerifierAcceptsGroup
    PROVE  GroupPassIsEarned' /\ JoinsLoseNothing' /\ VerifierAcceptsGroup'
<1>1. /\ Up' = Up
      /\ \A up, c, d : MergeBases(up, c, d)' = MergeBases(up, c, d)
      /\ \A c : GraphOf(c)' = GraphOf(c)
  BY SameAncestry
<1>2. InGroup' = InGroup /\ (Passed' <=> Passed)
  BY <1>1 DEF InGroup, Passed
<1>3. GroupPassIsEarned'
  <2>1. \A q, u : WorkOn(q, u)' = WorkOn(q, u)
    BY <1>2 DEF WorkOn
  <2>2. {q \in Plans : \E c \in InGroup : q \in {dag[c].plans[i] : i \in DOMAIN dag[c].plans}}'
          = {q \in Plans : \E c \in InGroup : q \in {dag[c].plans[i] : i \in DOMAIN dag[c].plans}}
    BY <1>2
  <2>3. QED
    BY <1>1, <1>2, <2>1, <2>2 DEF GroupPassIsEarned
<1>4. JoinsLoseNothing'
  BY <1>1, <1>2 DEF JoinsLoseNothing
<1>5. VerifierAcceptsGroup'
  BY DEF VerifierAcceptsGroup
<1>6. QED
  BY <1>3, <1>4, <1>5

LEMMA HistoryStays ==
    ASSUME dag' = dag, DagInv
    PROVE  DagInv'
<1>1. \A c : ParentsOf(c)' = ParentsOf(c)
  BY DEF ParentsOf
<1>2. DagTypeOK'
  BY DEF DagInv, DagTypeOK, ParentsFit
<1>3. Numbered'
  <2>1. \A line : Length(line)' = Length(line)
    BY DEF Length
  <2>2. QED
    BY <2>1 DEF DagInv, Numbered
<1>4. Grounded'
  BY <1>1 DEF DagInv, Grounded
<1>5. Layered'
  <2>1. \A layer, S, c : LayerIn(layer, S, c)' = LayerIn(layer, S, c)
    BY <1>1 DEF LayerIn
  <2>2. QED
    BY <2>1 DEF DagInv, Layered
<1>6. QED
  BY <1>2, <1>3, <1>4, <1>5 DEF DagInv

\* Histories grow soundly, and a group that is judged is judged rightly.
THEOREM GroupInvariant == GroupSpec => []GroupInv
<1>1. GroupInit => GroupInv
  <2>1. SUFFICES ASSUME GroupInit PROVE DagInv /\ group = NoGroup
    BY DEF GroupInv
  <2>2. QED
    BY <2>1, HistoryStarts DEF GroupInit
<1>2. ASSUME GroupInv, [GroupNext]_groupVars
      PROVE  GroupInv'
  <2>1. CASE Develop \/ Enqueue
    <3>1. DagInv'
      BY <1>2, <2>1, HistoryGrows DEF GroupInv
    <3>2. group' = group /\ group = NoGroup
      BY <2>1 DEF Develop, Enqueue
    <3>3. NoGroup' = NoGroup
      BY DEF NoGroup, Base
    <3>4. QED
      BY <3>1, <3>2, <3>3 DEF GroupInv
  <2>2. CASE JudgeGroup
    <3>1. dag' = dag
      BY <2>2 DEF JudgeGroup
    <3>2. DagInv'
      BY <1>2, <3>1, HistoryStays DEF GroupInv
    <3>3. QED
      BY <1>2, <2>2, <3>2, JudgedInv DEF GroupInv
  <2>3. CASE AnswerStands \/ UNCHANGED groupVars
    <3>1. dag' = dag /\ group' = group
      BY <2>3 DEF AnswerStands, groupVars
    <3>2. DagInv'
      BY <1>2, <3>1, HistoryStays DEF GroupInv
    <3>3. QED
      <4>1. group # NoGroup <=> (group # NoGroup)'
        BY <3>1 DEF NoGroup, Base
      <4>2. QED
        BY <1>2, <3>1, <3>2, <4>1, SameSaid DEF GroupInv
  <2>4. QED
    BY <1>2, <2>1, <2>2, <2>3 DEF GroupNext
<1>3. QED
  BY <1>1, <1>2, PTL DEF GroupSpec

\* Before there is a group nothing is said of it.
LEMMA NothingSaid ==
    ASSUME group = NoGroup
    PROVE  GroupPassIsEarned /\ JoinsLoseNothing /\ VerifierAcceptsGroup
<1>1. group.answer.outcome = "none"
  BY DEF NoGroup
<1>2. QED
  BY <1>1 DEF GroupPassIsEarned, JoinsLoseNothing, VerifierAcceptsGroup, Passed

\* A merge group passes only with all units of its plans, each once, after its
\* dependencies and under the accepted plan, and with their claims at the head.
THEOREM PassingGroupIsEarned == GroupSpec => []GroupPassIsEarned
<1>1. GroupInv => GroupPassIsEarned
  BY NothingSaid DEF GroupInv
<1>2. QED
  BY <1>1, GroupInvariant, PTL

\* In a group that passes no join edits a file or loses an effect of its sides.
THEOREM PassingJoinsLoseNothing == GroupSpec => []JoinsLoseNothing
<1>1. GroupInv => JoinsLoseNothing
  BY NothingSaid DEF GroupInv
<1>2. QED
  BY <1>1, GroupInvariant, PTL

\* The verifier derives from each bundle of the adapter what the adapter says.
THEOREM BundlesAreAccepted == GroupSpec => []VerifierAcceptsGroup
<1>1. GroupInv => VerifierAcceptsGroup
  BY NothingSaid DEF GroupInv
<1>2. QED
  BY <1>1, GroupInvariant, PTL
=============================================================================
