---------------------------- MODULE MCLinearPlan ----------------------------
(* Two units, the second of which depends on the first. *)
EXTENDS LinearPlan, BlueprintPredicate
CONSTANTS a, b

Two == <<a, b>>
Chain == [u \in {a, b} |-> IF u = a THEN {} ELSE {a}]

\* The claim of a is that the node exists, that of b that it uses another.
Claims == [u \in {a, b} |->
    IF u = a THEN [operator |-> "present", selector |-> [kind |-> "node", node |-> "n"]]
    ELSE [operator |-> "depends-on", from |-> "m", to |-> "n"]]

Node(id, deps) == [id |-> id, deps |-> deps, meta |-> {}]
Leaf(nodes) == [nodes |-> nodes, edges |-> <<>>, subgraphs |-> <<>>]
Whole == Leaf(<<Node("n", {}), Node("m", {"n"})>>)
Unlinked == Leaf(<<Node("n", {}), Node("m", {})>>)
Mounted == [Whole EXCEPT !.subgraphs = <<[mountId |-> "s", topology |-> Leaf(<<Node("n", {})>>)]>>]
Three == {Whole, Unlinked, Mounted}
=============================================================================
