------------------------ MODULE IntegrationEffects ------------------------
(***************************************************************************)
(* What two branches do to a blueprint, compared with what their merge     *)
(* does to it.  A blueprint holds nodes, each known by the path of its     *)
(* topology and its name and with a kind and metadata, edges between names *)
(* of one topology, and mounted topologies.                                *)
(***************************************************************************)
EXTENDS Integers, Sequences, FiniteSets

CONSTANTS Null,     \* the JSON value null
          Missing   \* no value at all

ASSUME NullAssumption == Null # Missing

Changed(f, g) == {k \in DOMAIN f \cup DOMAIN g :
                    ~(k \in DOMAIN f \cap DOMAIN g /\ f[k] = g[k])}
Kind(f, g, k) ==
    IF k \notin DOMAIN f THEN "added" ELSE IF k \notin DOMAIN g THEN "removed" ELSE "changed"
ValueOf(f, k) == IF k \in DOMAIN f THEN f[k] ELSE Missing

\* The kind of a node and the keys of its metadata have a value, if only null.
IsBlueprint(b) ==
    \A k \in DOMAIN b.nodes :
        /\ b.nodes[k].kind # Missing
        /\ \A j \in DOMAIN b.nodes[k].meta : b.nodes[k].meta[j] # Missing

\* The events between two blueprints: of a mounted topology, only that it came
\* or went.
Delta(a, b) ==
    [nodes  |-> [k \in Changed(a.nodes, b.nodes) |->
                    [type |-> Kind(a.nodes, b.nodes, k),
                     before |-> ValueOf(a.nodes, k), after |-> ValueOf(b.nodes, k)]],
     edges  |-> [e \in (a.edges \ b.edges) \cup (b.edges \ a.edges) |->
                    IF e \in b.edges THEN "added" ELSE "removed"],
     mounts |-> [m \in {n \in Changed(a.mounts, b.mounts) : Kind(a.mounts, b.mounts, n) # "changed"} |->
                    [type |-> Kind(a.mounts, b.mounts, m),
                     topology |-> IF m \in DOMAIN b.mounts THEN b.mounts[m] ELSE a.mounts[m]]]]

-----------------------------------------------------------------------------
(* Fields. *)

\* A metadata key without a value is as good as one that is null.
MetaValue(meta, k) == IF k \in DOMAIN meta THEN meta[k] ELSE Null

\* The fields that an event changes; an added node brings its metadata whole.
FieldsOf(event) ==
    CASE event.type = "removed" -> {<<"*">>}
      [] event.type = "added"   -> {<<"kind">>, <<"meta">>}
      [] event.type = "changed" ->
            {f \in {<<"kind">>} : event.before.kind # event.after.kind}
            \cup {<<"meta", k>> :
                    k \in {j \in DOMAIN event.before.meta \cup DOMAIN event.after.meta :
                            MetaValue(event.before.meta, j) # MetaValue(event.after.meta, j)}}

\* The value of a field after an event; none is nothing or null.
FieldAfter(event, field, none) ==
    IF event.type = "removed" THEN none
    ELSE CASE field = <<"kind">> -> event.after.kind
           [] field = <<"meta">> -> event.after.meta
           [] OTHER -> IF field[2] \in DOMAIN event.after.meta
                       THEN event.after.meta[field[2]] ELSE none

\* A change says that a key went by null, the merge by not having it.
Wanted(event, field) == FieldAfter(event, field, Null)
Found(event, field) == FieldAfter(event, field, Missing)

FieldReason(field) ==
    IF Len(field) = 2 THEN "METADATA_INCOMPATIBLE_CHANGE" ELSE "NODE_INCOMPATIBLE_CHANGE"

Conflict(reason, witness) == [reason |-> reason, witness |-> witness]
Deleted(id) == Conflict("NODE_DELETE_CHANGE", <<id, <<"*">>>>)

-----------------------------------------------------------------------------
(* The stages of the comparison, each a set of conflicts. *)

\* Two changes of one node.
NodePair(id, left, right) ==
    IF "removed" \in {left.type, right.type}
    THEN IF left.type # right.type THEN {Deleted(id)} ELSE {}
    ELSE IF left.type # right.type THEN {Conflict("NODE_INCOMPATIBLE_CHANGE", <<id, <<"*">>>>)}
    ELSE {Conflict(FieldReason(f), <<id, f>>) :
            f \in {g \in FieldsOf(left) \cap FieldsOf(right) : Wanted(left, g) # Wanted(right, g)}}

\* What becomes of one branch's change of a node.
NodeKept(key, event, merge) ==
    LET id == key[2]
        there == key \in DOMAIN merge.nodes
    IN IF event.type = "removed"
       THEN IF there /\ merge.nodes[key].type = "removed" THEN {} ELSE {Deleted(id)}
       ELSE {Conflict(FieldReason(f), <<id, f>>) :
                f \in {g \in FieldsOf(event) :
                        ~(there /\ Found(merge.nodes[key], g) = Wanted(event, g))}}

NodesKept(branch, merge) ==
    UNION {NodeKept(k, branch.nodes[k], merge) : k \in DOMAIN branch.nodes}

RemovedNames(branch) == {k[2] : k \in {l \in DOMAIN branch.nodes : branch.nodes[l].type = "removed"}}

EdgesKept(branch, merge, removed) ==
    {Conflict("EDGE_INCOMPATIBLE_CHANGE", e) :
        e \in {f \in DOMAIN branch.edges :
                /\ ~(f \in DOMAIN merge.edges /\ merge.edges[f] = branch.edges[f])
                /\ {f[2], f[3]} \cap removed = {}}}

MountsKept(branch, merge) ==
    {Conflict("SUBGRAPH_INCOMPATIBLE_CHANGE", <<m>>) :
        m \in {n \in DOMAIN branch.mounts :
                ~ /\ n \in DOMAIN merge.mounts
                  /\ merge.mounts[n].type = branch.mounts[n].type
                  /\ \/ branch.mounts[n].type = "removed"
                     \/ merge.mounts[n].topology = branch.mounts[n].topology}}

\* An edge of one branch at a name that the other removes.
Dangling(branch, other) ==
    {Deleted(id) : id \in {r \in RemovedNames(branch) :
                            \E e \in DOMAIN other.edges : r \in {e[2], e[3]}}}

\* Seeded fault: only the target's changes are looked for in the merge.
EffectsOfTarget(target, head, merge) ==
    (UNION {NodePair(k[2], target.nodes[k], head.nodes[k]) :
             k \in DOMAIN target.nodes \cap DOMAIN head.nodes})
    \cup NodesKept(target, merge)
Effects(target, head, merge) ==
    LET removed == RemovedNames(target) \cup RemovedNames(head)
    IN (UNION {NodePair(k[2], target.nodes[k], head.nodes[k]) :
                k \in DOMAIN target.nodes \cap DOMAIN head.nodes})
       \cup NodesKept(target, merge) \cup NodesKept(head, merge)
       \cup {Conflict("EDGE_INCOMPATIBLE_CHANGE", e) :
                e \in {f \in DOMAIN target.edges \cap DOMAIN head.edges :
                        target.edges[f] # head.edges[f]}}
       \cup EdgesKept(target, merge, removed) \cup EdgesKept(head, merge, removed)
       \cup {Conflict("SUBGRAPH_INCOMPATIBLE_CHANGE", <<m>>) :
                m \in {n \in DOMAIN target.mounts \cap DOMAIN head.mounts :
                        target.mounts[n] # head.mounts[n]}}
       \cup MountsKept(target, merge) \cup MountsKept(head, merge)
       \cup Dangling(target, head) \cup Dangling(head, target)

-----------------------------------------------------------------------------
(* A reference to compare with: the merge of three blueprints, part by part. *)

\* The parts of a blueprint and their values.
Part(b, part) ==
    CASE part[1] = "kind" -> IF part[2] \in DOMAIN b.nodes THEN b.nodes[part[2]].kind ELSE Missing
      [] part[1] = "meta" -> IF part[2] \in DOMAIN b.nodes
                             THEN MetaValue(b.nodes[part[2]].meta, part[3]) ELSE Missing
      [] part[1] = "edge" -> part[2] \in b.edges
      [] part[1] = "mount" -> ValueOf(b.mounts, part[2])

Parts(blueprints) ==
    LET nodes == UNION {DOMAIN b.nodes : b \in blueprints}
        keys == UNION {UNION {DOMAIN b.nodes[k].meta : k \in DOMAIN b.nodes} : b \in blueprints}
    IN {<<"kind", k>> : k \in nodes} \cup {<<"meta", k, m>> : k \in nodes, m \in keys}
       \cup {<<"edge", e>> : e \in UNION {b.edges : b \in blueprints}}
       \cup {<<"mount", m>> : m \in UNION {DOMAIN b.mounts : b \in blueprints}}

\* A mounted topology that was there and stays is told by its own nodes and edges.
StaysMounted(base, branch, part) ==
    part[1] = "mount" /\ part[2] \in DOMAIN base.mounts \cap DOMAIN branch.mounts

\* The merge has every part that a branch changed as that branch left it.
KeepsPart(base, branch, merge, part) ==
    Part(branch, part) # Part(base, part) /\ ~StaysMounted(base, branch, part) =>
        Part(merge, part) = Part(branch, part)

-----------------------------------------------------------------------------
(* The graph of one merge: base, target, head and merge. *)

GraphConflicts(graph) ==
    Effects(Delta(graph.base, graph.target), Delta(graph.base, graph.head),
            Delta(graph.base, graph.merge))

\* An edge at a name that a branch removes in any topology is not looked for
\* (integration-effects.ts 277).
Watched(graph, part) ==
    part[1] = "edge" =>
        {part[2][2], part[2][3]} \cap (RemovedNames(Delta(graph.base, graph.target))
                                       \cup RemovedNames(Delta(graph.base, graph.head))) = {}

\* The merge has every watched part that a branch changed as that branch left it.
KeepsWatched(graph) ==
    \A part \in Parts({graph.base, graph.target, graph.head}) :
        Watched(graph, part) =>
            /\ KeepsPart(graph.base, graph.target, graph.merge, part)
            /\ KeepsPart(graph.base, graph.head, graph.merge, part)
=============================================================================
