------------------------------ MODULE MCCiJob ------------------------------
(* Two units, the second of which needs the first, on blueprints of two nodes, *)
(* an edge between them and a mounted topology of two nodes.                   *)
EXTENDS CiJob

UnitsDef == <<"a", "b">>
DepsDef == [u \in {"a", "b"} |-> IF u = "b" THEN {"a"} ELSE {}]

\* The nodes of a mounted topology are nodes of the blueprint too.
Node(v) == [kind |-> "k", meta |-> [m \in {"v"} \ (IF v = Missing THEN {"v"} ELSE {}) |-> v]]
Blueprint(x, y, edges, mounted) ==
    [nodes |-> [k \in {<<"m", "x">>} \cup (IF y THEN {<<"m", "y">>} ELSE {})
                       \cup {<<"s", i>> : i \in DOMAIN mounted} |->
                    IF k[2] = "x" THEN Node(x)
                    ELSE IF k[2] \in DOMAIN mounted THEN Node(mounted[k[2]]) ELSE Node(0)],
     edges |-> edges,
     mounts |-> [s \in IF mounted = <<>> THEN {} ELSE {"s"} |-> mounted]]
Edge == <<"m", "x", "y">>

BlueprintsDef ==
    {Blueprint(1, FALSE, {}, <<>>), Blueprint(1, TRUE, {}, <<>>),
     Blueprint(1, TRUE, {Edge}, <<>>), Blueprint(2, TRUE, {Edge}, <<>>),
     Blueprint(Null, TRUE, {}, <<>>), Blueprint(Missing, TRUE, {}, <<>>)}
    \cup {Blueprint(1, TRUE, {}, [i |-> i, j |-> j]) : i, j \in {1, 2}}

SatisfyingDef ==
    [u \in {"a", "b"} |->
        {b \in BlueprintsDef :
            IF u = "a" THEN MetaValue(b.nodes[<<"m", "x">>].meta, "v") \in {1, Null}
            ELSE <<"m", "y">> \in DOMAIN b.nodes}]
=============================================================================
