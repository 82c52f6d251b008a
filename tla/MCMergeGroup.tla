---------------------------- MODULE MCMergeGroup ----------------------------
(* Plan A with a unit that depends on another and plan B with a unit of the   *)
(* same name; the value of node x and the edge to y follow the sources.       *)
EXTENDS MergeGroup

UnitsDef == [A |-> {"a", "b"}, B |-> {"a"}]
NeedsDef == [A |-> [u \in {"a", "b"} |-> IF u = "b" THEN {"a"} ELSE {}], B |-> [u \in {"a"} |-> {}]]
EditDef == [A |-> [u \in {"a", "b"} |-> IF u = "a" THEN "f" ELSE "g"], B |-> [u \in {"a"} |-> "h"]]

Sources == [Files -> Values]
HoldsDef ==
    [A |-> [u \in {"a", "b"} |-> IF u = "a" THEN {t \in Sources : t["f"] = 1}
                                 ELSE {t \in Sources : t["g"] = 1 /\ t["h"] # 2}],
     B |-> [u \in {"a"} |-> {t \in Sources : t["h"] = 1}]]

\* h without g resets the value of x, though git merges the files; h = 2 cuts y off.
BlueprintDef ==
    [t \in Sources |->
        [nodes |-> [k \in {<<"m", "x">>} \cup (IF t["g"] = 1 THEN {<<"m", "y">>} ELSE {}) |->
            [kind |-> "k",
             meta |-> [v \in {"v"} |-> IF k[2] = "x" /\ ~(t["h"] = 1 /\ t["g"] = 0) THEN t["f"] ELSE 0]]],
         edges |-> IF t["g"] = 1 /\ t["h"] # 2 THEN {<<"m", "x", "y">>} ELSE {},
         mounts |-> <<>>]]
=============================================================================
