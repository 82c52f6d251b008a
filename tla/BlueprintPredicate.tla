------------------------- MODULE BlueprintPredicate -------------------------
(***************************************************************************)
(* The finite predicates a claim may state of a blueprint.  A topology     *)
(* lists nodes, edges and mounted subgraphs, which are topologies again;   *)
(* the same node may occur in several of them, and a selector that meets   *)
(* more than one occurrence is ambiguous.                                  *)
(***************************************************************************)
EXTENDS Integers, Sequences, FiniteSets, SequencesExt

\* The nodes, the edges and the mount paths of a topology and all below it.
RECURSIVE Facts(_, _)
Facts(topology, mount) ==
    LET below == [i \in DOMAIN topology.subgraphs |->
                    Facts(topology.subgraphs[i].topology,
                          Append(mount, topology.subgraphs[i].mountId))]
        paths == [i \in DOMAIN topology.subgraphs |->
                    <<Append(mount, topology.subgraphs[i].mountId)>> \o below[i].mounts]
    IN [nodes  |-> topology.nodes \o FlattenSeq([i \in DOMAIN below |-> below[i].nodes]),
        edges  |-> topology.edges \o FlattenSeq([i \in DOMAIN below |-> below[i].edges]),
        mounts |-> FlattenSeq(paths)]

NodesOf(facts, id) == {i \in DOMAIN facts.nodes : facts.nodes[i].id = id}
EdgesOf(facts, from, to) == {i \in DOMAIN facts.edges : facts.edges[i] = <<from, to>>}

\* How often the selector of a predicate occurs.
Matches(facts, selector) ==
    Cardinality(
        CASE selector.kind = "node" -> NodesOf(facts, selector.node)
          [] selector.kind = "edge" -> EdgesOf(facts, selector.from, selector.to)
          [] selector.kind = "subgraph" ->
                {i \in DOMAIN facts.mounts : facts.mounts[i] = selector.mount})

Verdict(unique, holds) ==
    IF ~unique THEN "ambiguous" ELSE IF holds THEN "satisfied" ELSE "unsatisfied"

DependsOn(facts, from, to) ==
    LET sources == NodesOf(facts, from)
        targets == NodesOf(facts, to)
        edges == EdgesOf(facts, from, to)
    IN Verdict(Cardinality(sources) <= 1 /\ Cardinality(targets) <= 1 /\ Cardinality(edges) <= 1,
               /\ sources # {} /\ targets # {}
               /\ edges # {} \/ \E i \in sources : to \in facts.nodes[i].deps)

Selected(facts, predicate) ==
    LET count == Matches(facts, predicate.selector)
    IN CASE predicate.operator = "metadata-equals" /\ predicate.selector.kind # "node" ->
                IF count > 1 THEN "ambiguous" ELSE "unsupported"
         [] predicate.operator = "metadata-equals" ->
                Verdict(count <= 1,
                        \E i \in NodesOf(facts, predicate.selector.node) :
                            <<predicate.key, predicate.value>> \in facts.nodes[i].meta)
         [] predicate.operator = "present" -> Verdict(count <= 1, count = 1)
         [] predicate.operator = "absent" -> Verdict(count <= 1, count = 0)
         [] OTHER -> IF count > 1 THEN "ambiguous" ELSE "unsupported"

Evaluate(topology, predicate) ==
    LET facts == Facts(topology, <<>>)
    IN IF predicate.operator = "depends-on"
       THEN DependsOn(facts, predicate.from, predicate.to)
       ELSE Selected(facts, predicate)
=============================================================================
