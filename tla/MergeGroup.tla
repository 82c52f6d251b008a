----------------------------- MODULE MergeGroup -----------------------------
(***************************************************************************)
(* A merge group with the work of several plans.  Developers write a Git   *)
(* history, a merge queue joins their branches, and the CI adapter         *)
(* discovers the history of the head, gates every plan on its own          *)
(* projection, compares what the joins keep, and bundles the result for an *)
(* independent verifier.                                                   *)
(*                                                                         *)
(* A commit holds its parents, the values of its Plan and Work-Unit        *)
(* trailers, and a tree: a number for each source file, and for the        *)
(* accepted file of each plan, 0 before it is there.                       *)
(***************************************************************************)
EXTENDS IntegrationEffects

CONSTANTS
    Files,          \* source files
    Policy,         \* the file of the repository policy
    Plans,          \* plan names, also the names of their files
    UnitsOf,        \* UnitsOf[p]: the units of plan p
    NeedsOf,        \* NeedsOf[p][u]: the units, of any name, that u depends on
    Edit,           \* Edit[p][u]: the file that u changes, to 1
    Holds,          \* Holds[p][u]: the source trees in which u's claims hold
    BlueprintOf,    \* the blueprint that a source tree evaluates to
    MaxObjects,     \* objects of a slice, 64 in the code
    MaxWidth,       \* commits of a slice none of which contains another, 8 in the code
    MaxLine,        \* bound: commits of a developer's branch
    MaxCommits,     \* bound: commits of the developers
    MaxMishaps      \* bound: departures from the plans

Names == UNION {UnitsOf[p] : p \in Plans}
Values == 0 .. 2
SourceOf(tree) == [f \in Files |-> tree[f]]

ASSUME MergeGroupAssumption ==
    /\ \A p \in Plans :
        /\ UnitsOf[p] # {} /\ IsFiniteSet(UnitsOf[p])
        /\ NeedsOf[p] \in [UnitsOf[p] -> SUBSET Names]
    /\ \A source \in [Files -> Values] : IsBlueprint(BlueprintOf[source])
    /\ MaxObjects \in Nat /\ MaxWidth \in Nat

VARIABLES
    dag,        \* the commits
    mishaps,    \* departures so far
    group       \* the head of the merge group and what the adapter says of it

groupVars == <<dag, mishaps, group>>

Before == <<"before", 0>>
Base == <<"base", 0>>
NoTree == [f \in Files \cup {Policy} \cup Plans |-> IF f = Policy THEN 1 ELSE 0]
NoCommit == [parents |-> <<>>, plans |-> <<>>, units |-> <<>>, tree |-> NoTree]
NoGroup == [head |-> Base, answer |-> [outcome |-> "none"]]

GroupInit ==
    /\ dag = [c \in {Before, Base} |->
                IF c = Base THEN [NoCommit EXCEPT !.parents = <<Before>>] ELSE NoCommit]
    /\ mishaps = 0
    /\ group = NoGroup

-----------------------------------------------------------------------------
(* Git. *)

ParentsOf(c) == {dag[c].parents[i] : i \in DOMAIN dag[c].parents}

\* The ancestors of each commit, itself included.
Up == LET up[c \in DOMAIN dag] == {c} \cup UNION {up[p] : p \in ParentsOf(c)} IN up

\* Best common ancestors.
MergeBases(up, c, d) ==
    LET common == up[c] \cap up[d]
    IN {b \in common : \A e \in common \ {b} : b \notin up[e]}

Clashes(base, left, right) ==
    {f \in DOMAIN base : left[f] # right[f] /\ left[f] # base[f] /\ right[f] # base[f]}
Merged(base, left, right) == [f \in DOMAIN base |-> IF left[f] = base[f] THEN right[f] ELSE left[f]]

ChangedIn(c) == {f \in DOMAIN dag[c].tree : \E p \in ParentsOf(c) : dag[c].tree[f] # dag[p].tree[f]}

-----------------------------------------------------------------------------
(* Developers and the merge queue. *)

Lines == {"x", "y"}
Length(line) == Cardinality({c \in DOMAIN dag : c[1] = line})
Tip(line) == IF Length(line) = 0 THEN Base ELSE <<line, Length(line)>>
TreeAt(line) == dag[Tip(line)].tree

Commit(line, parents, plans, units, tree) ==
    /\ Length(line) < MaxLine /\ (line = "q" \/ Cardinality(DOMAIN dag) < MaxCommits + 2)
    /\ dag' = [c \in DOMAIN dag \cup {<<line, Length(line) + 1>>} |->
                IF c \in DOMAIN dag THEN dag[c]
                ELSE [parents |-> parents, plans |-> plans, units |-> units, tree |-> tree]]

AcceptPlan(line) ==
    /\ \E p \in Plans :
        /\ TreeAt(line)[p] = 0
        /\ Commit(line, <<Tip(line)>>, <<>>, <<>>, [TreeAt(line) EXCEPT ![p] = 1])
    /\ UNCHANGED mishaps

ImplementUnit(line) ==
    /\ \E p \in Plans : \E u \in UnitsOf[p] :
        /\ TreeAt(line)[p] = 1
        /\ ~\E c \in DOMAIN dag : dag[c].plans = <<p>> /\ dag[c].units = <<u>>
        /\ Commit(line, <<Tip(line)>>, <<p>>, <<u>>, [TreeAt(line) EXCEPT ![Edit[p][u]] = 1])
    /\ UNCHANGED mishaps

\* A merge without conflict, with the tree that git makes of it.
CleanMerge(line, first, second) ==
    LET up == Up
    IN \E b \in MergeBases(up, first, second) :
        /\ MergeBases(up, first, second) = {b} /\ second \notin up[first]
        /\ Clashes(dag[b].tree, dag[first].tree, dag[second].tree) = {}
        /\ Commit(line, <<first, second>>, <<>>, <<>>,
                  Merged(dag[b].tree, dag[first].tree, dag[second].tree))

MergeLine(line, other) ==
    /\ line # other /\ Length(line) > 0 /\ Length(other) > 0
    /\ CleanMerge(line, Tip(line), Tip(other))
    /\ UNCHANGED mishaps

\* Trailers that are missing, doubled or of another plan, and stray edits.
Mislabel(line) ==
    \E p, q \in Plans : \E u \in UnitsOf[p] :
      \E plans \in {<<>>, <<p>>, <<q>>, <<p, p>>}, units \in {<<>>, <<u>>, <<u, u>>} :
        Commit(line, <<Tip(line)>>, plans, units, [TreeAt(line) EXCEPT ![Edit[p][u]] = 1])

EditAny(line) ==
    \E f \in DOMAIN TreeAt(line), v \in Values :
        /\ v # TreeAt(line)[f]
        /\ Commit(line, <<Tip(line)>>, <<>>, <<>>, [TreeAt(line) EXCEPT ![f] = v])

StartOld(line) == Length(line) = 0 /\ Commit(line, <<Before>>, <<>>, <<>>, NoTree)

MergeBadly(line, other) ==
    /\ line # other /\ Length(line) > 0 /\ Length(other) > 0
    /\ \/ \E f \in Files, v \in Values :
            /\ v # TreeAt(line)[f]
            /\ Commit(line, <<Tip(line), Tip(other)>>, <<>>, <<>>, [TreeAt(line) EXCEPT ![f] = v])
       \/ \E p \in Plans : \E u \in UnitsOf[p] :
            Commit(line, <<Tip(line), Tip(other)>>, <<p>>, <<u>>, TreeAt(line))
       \/ Commit(line, <<Tip(line), Tip(other), Base>>, <<>>, <<>>, TreeAt(line))

Mishap(line) ==
    /\ mishaps < MaxMishaps
    /\ mishaps' = mishaps + 1
    /\ Mislabel(line) \/ EditAny(line) \/ StartOld(line) \/ \E other \in Lines : MergeBadly(line, other)

Develop ==
    /\ Length("q") = 0 /\ group = NoGroup
    /\ \E line \in Lines :
        \/ AcceptPlan(line) \/ ImplementUnit(line) \/ Mishap(line)
        \/ \E other \in Lines : MergeLine(line, other)
    /\ UNCHANGED group

\* The queue merges one branch and then the other onto the base.
Enqueue ==
    /\ group = NoGroup
    /\ \/ Length("q") = 0 /\ Length("x") > 0 /\ CleanMerge("q", Base, Tip("x"))
       \/ Length("q") = 1 /\ CleanMerge("q", Tip("q"), Tip("y"))
    /\ UNCHANGED <<mishaps, group>>

-----------------------------------------------------------------------------
(* The history of the head. *)

KindOf(c) ==
    IF Len(dag[c].parents) # 1 THEN "join"
    ELSE IF dag[c].units = <<>> THEN "transport" ELSE "implementation"

Slice(up, head) == up[head] \ up[Base]
Joins(slice) == {c \in slice : Len(dag[c].parents) = 2}
Implementations(slice) == {c \in slice : KindOf(c) = "implementation"}
OwnerOf(c) == <<dag[c].plans[1], dag[c].units[1]>>

\* The code counts the chains that cover the slice, as many as the commits of
\* the largest set without a chain.
TooWide(up, slice) ==
    \E apart \in SUBSET slice :
        /\ Cardinality(apart) > MaxWidth
        /\ \A c, d \in apart : c # d => c \notin up[d]

\* Seeded fault: commits with any number of parents are taken.
ShapeRefusalsAnyParents(up, head) ==
    IF \E c \in Slice(up, head) : ~(ParentsOf(c) \subseteq Slice(up, head) \cup {Base})
    THEN {"SLICE_NOT_CLOSED"} ELSE {}
ShapeRefusals(up, head) ==
    LET slice == Slice(up, head)
        when(bad, code) == IF bad THEN {code} ELSE {}
    IN when(Base = head \/ Base \notin up[head], "BASE_NOT_ANCESTOR")
       \cup when(slice = {} \/ Cardinality(slice) > MaxObjects, "RANGE_TOO_LARGE")
       \cup when(\E c \in slice : Len(dag[c].parents) > 2, "PARENT_UNSUPPORTED")
       \cup when(\E c \in slice : ~(ParentsOf(c) \subseteq slice \cup {Base}), "SLICE_NOT_CLOSED")
       \cup when(TooWide(up, slice), "WIDTH_TOO_LARGE")

\* Seeded fault: the tree of a join is not compared with the merge.
JoinRefusalsAnyTree(up, c) ==
    IF Cardinality(MergeBases(up, dag[c].parents[1], dag[c].parents[2])) # 1
    THEN {"ANCESTRY_AMBIGUOUS"} ELSE {}
JoinRefusals(up, c) ==
    LET left == dag[c].parents[1]
        right == dag[c].parents[2]
        base == dag[CHOOSE b \in MergeBases(up, left, right) : TRUE].tree
    IN IF dag[c].units # <<>> THEN {"MERGE_WORK_UNIT_TRAILER"}
       ELSE IF Cardinality(MergeBases(up, left, right)) # 1 THEN {"ANCESTRY_AMBIGUOUS"}
       ELSE IF Clashes(base, dag[left].tree, dag[right].tree) # {} THEN {"JOIN_NOT_CLEAN"}
       ELSE IF dag[c].tree # Merged(base, dag[left].tree, dag[right].tree) THEN {"JOIN_TREE_MISMATCH"}
       ELSE {}

\* Both trailers on an implementation and no plan trailer elsewhere.
OwnershipRefusals(c) ==
    IF Len(dag[c].units) > 1 THEN {"WORK_UNIT_TRAILER_DUPLICATE"}
    ELSE IF Len(dag[c].plans) > 1 THEN {"PLAN_TRAILER_DUPLICATE"}
    ELSE IF (KindOf(c) = "implementation") # (Len(dag[c].plans) = 1) THEN {"PLAN_OWNERSHIP_INVALID"}
    ELSE {}

BindingRefusals(slice) ==
    IF \E c, d \in Implementations(slice) : c # d /\ OwnerOf(c) = OwnerOf(d)
    THEN {"PLAN_WORK_UNIT_BINDING_AMBIGUOUS"} ELSE {}

DiscoveryRefusals(up, head) ==
    IF ShapeRefusals(up, head) # {} THEN ShapeRefusals(up, head)
    ELSE LET slice == Slice(up, head)
             found == (UNION {JoinRefusals(up, c) : c \in Joins(slice)})
                      \cup UNION {OwnershipRefusals(c) : c \in slice}
         IN IF found # {} THEN found
            ELSE IF Joins(slice) = {} THEN {"CI_MERGE_GROUP_TOPOLOGY_UNSUPPORTED"}
            ELSE IF Implementations(slice) = {} THEN {"CI_PLAN_AMBIGUOUS"}
            ELSE BindingRefusals(slice)

Highest(numbers) == CHOOSE n \in numbers : \A m \in numbers : m <= n

\* The topology, with the base of each join, and its projection on one plan.
Layers(slice) ==
    LET layer[c \in slice] == 1 + Highest({0} \cup {layer[p] : p \in ParentsOf(c) \cap slice})
    IN layer

Topology(up, head) ==
    LET slice == Slice(up, head)
        layers == Layers(slice)
    IN [head |-> head,
        objects |-> [c \in slice |-> [parents |-> dag[c].parents, layer |-> layers[c], kind |-> KindOf(c)]],
        bases |-> [c \in Joins(slice) |->
                    CHOOSE b \in MergeBases(up, dag[c].parents[1], dag[c].parents[2]) : TRUE]]

Projection(topology, owner, p) ==
    [topology EXCEPT !.objects =
        [c \in DOMAIN @ |->
            IF @[c].kind = "implementation" /\ owner[c][1] # p THEN [@[c] EXCEPT !.kind = "transport"]
            ELSE @[c]]]

-----------------------------------------------------------------------------
(* The gate of one plan. *)

PlanIn(c, p) == dag[c].tree[p]

Introductions(slice, p) ==
    {c \in slice : PlanIn(c, p) # 0 /\ \A d \in ParentsOf(c) : PlanIn(d, p) = 0}

\* The plan enters by a commit that does nothing else.
EntersAlone(topology, p) ==
    \A c \in Introductions(DOMAIN topology.objects, p) :
        /\ topology.objects[c].kind = "transport"
        /\ p \in ChangedIn(c) /\ ChangedIn(c) \subseteq {p, Policy}

\* Neither it nor the policy changes from there on.
StaysAccepted(topology, p) ==
    LET head == dag[topology.head].tree
    IN /\ head[Policy] = 1
       /\ \A c \in DOMAIN topology.objects :
            PlanIn(c, p) # 0 => PlanIn(c, p) = head[p] /\ dag[c].tree[Policy] = head[Policy]

\* Every implementation is written under it.
\* Seeded fault: only the entry of the plan is asked for, wherever it is.
WrittenUnderAnywhere(up, topology, p) == Introductions(DOMAIN topology.objects, p) # {}
WrittenUnder(up, topology, p) ==
    \A c \in DOMAIN topology.objects :
        topology.objects[c].kind = "implementation" =>
            Introductions(DOMAIN topology.objects, p) \cap up[c] # {} /\ PlanIn(c, p) # 0

AcceptanceRefused(up, topology, p) ==
    \/ Cardinality(Introductions(DOMAIN topology.objects, p)) # 1
    \/ ~EntersAlone(topology, p) \/ ~StaysAccepted(topology, p) \/ ~WrittenUnder(up, topology, p)

\* The commits of the plan's units.
CommitOf(topology, u) ==
    {c \in DOMAIN topology.objects : topology.objects[c].kind = "implementation" /\ dag[c].units = <<u>>}

\* Defects of the plan and its bindings, each of a class of its own.
Cyclic(p) ==
    \E s \in (SUBSET UnitsOf[p]) \ {{}} : \A u \in s : NeedsOf[p][u] \cap s # {}
PlanDefects(p) ==
    (IF \E u \in UnitsOf[p] : ~(NeedsOf[p][u] \subseteq UnitsOf[p]) THEN {"DEPENDENCY_MISSING"} ELSE {})
    \cup (IF Cyclic(p) THEN {"DEPENDENCY_CYCLE"} ELSE {})
AncestryDefects(up, commit, p) ==
    IF \E u \in UnitsOf[p] : \E d \in NeedsOf[p][u] : commit[d] \notin up[commit[u]]
    THEN {"DEPENDENCY_NOT_ANCESTOR"} ELSE {}

\* Why a unit fails by what its own commit is.
OwnReasons(c, p, u) ==
    (IF SourceOf(dag[c].tree) \in Holds[p][u] THEN {} ELSE {"CLAIM_INVALID"})
    \cup (IF ChangedIn(c) \subseteq {Edit[p][u]} THEN {} ELSE {"SOURCE_SCOPE_INVALID"})

\* The units that fail, and those that depend on them.
Failing(p, own) ==
    LET fails(s) == {u \in UnitsOf[p] : own[u] # {} \/ NeedsOf[p][u] \cap s # {}}
        after[n \in 0 .. Cardinality(UnitsOf[p])] == IF n = 0 THEN {} ELSE fails(after[n - 1])
    IN after[Cardinality(UnitsOf[p])]

Refused == [verdict |-> "refused"]
Structural(defects) == [verdict |-> "error", defects |-> defects]
GateOf(up, topology, p) ==
    LET bound == [u \in UnitsOf[p] |-> CommitOf(topology, u)]
        commit == [u \in UnitsOf[p] |-> CHOOSE c \in bound[u] : TRUE]
        own == [u \in UnitsOf[p] |-> OwnReasons(commit[u], p, u)]
    IN IF AcceptanceRefused(up, topology, p) THEN Refused
       ELSE IF PlanDefects(p) # {} THEN Structural(PlanDefects(p))
       ELSE IF \E c \in Implementations(DOMAIN topology.objects) :
                topology.objects[c].kind = "implementation" /\ dag[c].units[1] \notin UnitsOf[p] THEN Refused
       ELSE IF \E u \in UnitsOf[p] : bound[u] = {} THEN Structural({"BINDING_MISSING"})
       ELSE IF AncestryDefects(up, commit, p) # {} THEN Structural(AncestryDefects(up, commit, p))
       ELSE [verdict |-> IF Failing(p, own) = {} THEN "pass" ELSE "blocked",
             commit |-> commit, own |-> own, invalid |-> Failing(p, own)]

-----------------------------------------------------------------------------
(* The group. *)

\* The group takes one implementation of every unit of its plans and no other,
\* and no dependency beyond a plan.
GroupRefusals(owner, gates) ==
    LET pairs == {owner[c] : c \in DOMAIN owner}
        units == UNION {{<<p, u>> : u \in UnitsOf[p]} : p \in DOMAIN gates}
    IN IF pairs # units THEN {"GROUP_OWNERSHIP_INVALID"}
       ELSE IF \E p \in DOMAIN gates : "DEPENDENCY_MISSING" \in PlanDefects(p)
            THEN {IF \E q \in DOMAIN gates : d \in UnitsOf[q] THEN "CROSS_PLAN_DEPENDENCY_UNSUPPORTED"
                  ELSE "GROUP_PLAN_INVALID" :
                    d \in UNION {UNION {NeedsOf[p][u] \ UnitsOf[p] : u \in UnitsOf[p]} : p \in DOMAIN gates}}
       ELSE IF \E p \in DOMAIN gates : Cyclic(p) THEN {"GROUP_PLAN_INVALID"}
       ELSE {}

\* Claims that the head breaks and the units that depend on theirs.
HeadConflicts(head, gates) ==
    UNION {LET own == [u \in UnitsOf[p] |->
                        IF SourceOf(dag[head].tree) \in Holds[p][u] THEN {} ELSE {"CLAIM_INVALIDATED"}]
           IN {Conflict("CLAIM_INVALIDATED", <<p, u>>) : u \in {v \in UnitsOf[p] : own[v] # {}}}
              \cup {Conflict("DEPENDENCY_INVALIDATED", <<p, u>>) :
                     u \in {v \in UnitsOf[p] : NeedsOf[p][v] \cap Failing(p, own) # {}}}
           : p \in DOMAIN gates}

GraphOf(c) == BlueprintOf[SourceOf(dag[c].tree)]

\* Seeded fault: a join is valid by definition.
JoinConflictsNone(topology, c) == {}
JoinConflicts(topology, c) ==
    GraphConflicts([base |-> GraphOf(topology.bases[c]), target |-> GraphOf(dag[c].parents[1]),
                    head |-> GraphOf(dag[c].parents[2]), merge |-> GraphOf(c)])

GroupVerdict(verdicts, conflicts) ==
    IF "error" \in verdicts THEN "error"
    ELSE IF conflicts = {} /\ verdicts \subseteq {"pass"} THEN "pass" ELSE "blocked"

VerdictsOf(gates) == {gates[p].verdict : p \in DOMAIN gates}

\* Seeded fault: the plans that failed are those with an error.
FailedPlansByError(gates) == {p \in DOMAIN gates : gates[p].verdict = "error"}
FailedPlans(gates) == {p \in DOMAIN gates : gates[p].verdict # "pass"}

Bundle(topology, owner, gates, heads, joins) ==
    LET verdict == GroupVerdict(VerdictsOf(gates), heads \cup UNION {joins[c] : c \in DOMAIN joins})
    IN [topology |-> topology, owner |-> owner, gates |-> gates, heads |-> heads, joins |-> joins,
        group |-> verdict, failed |-> FailedPlans(gates),
        outcome |-> IF "error" \in VerdictsOf(gates) \cup {verdict} THEN "error"
                    ELSE IF verdict = "pass" /\ FailedPlans(gates) = {} THEN "pass" ELSE "blocked"]

-----------------------------------------------------------------------------
(* The verifier, from the bundle alone. *)

\* Reachability in a topology; it knows nothing beyond its base.
Reach(t) ==
    LET reach[c \in DOMAIN t.objects \cup {Base}] ==
            {c} \cup (IF c = Base THEN {}
                      ELSE UNION {reach[d] : d \in {t.objects[c].parents[i] :
                                                    i \in DOMAIN t.objects[c].parents}})
    IN reach

ObjectFits(t, c) ==
    LET parents == {t.objects[c].parents[i] : i \in DOMAIN t.objects[c].parents}
        above == {t.objects[p].layer : p \in parents \ {Base}} \cup {0}
    IN /\ Cardinality(parents) = Len(t.objects[c].parents)
       /\ \A n \in above : n < t.objects[c].layer
       /\ t.objects[c].layer - 1 \in above
       /\ Len(t.objects[c].parents) = IF t.objects[c].kind = "join" THEN 2 ELSE 1
       /\ (t.objects[c].kind = "join") = (c \in DOMAIN t.bases)

BaseFits(t, c) ==
    LET reach == Reach(t)
        common == {b \in DOMAIN t.objects \cup {Base} :
                    \A i \in 1 .. 2 : b \in reach[t.objects[c].parents[i]]}
    IN {b \in common : \A d \in common \ {b} : b \notin reach[d]} = {t.bases[c]}

TopologyFits(t) ==
    /\ Cardinality(DOMAIN t.objects) \in 1 .. MaxObjects
    /\ t.head \in DOMAIN t.objects
    /\ \A c \in DOMAIN t.objects :
        {t.objects[c].parents[i] : i \in DOMAIN t.objects[c].parents} \subseteq DOMAIN t.objects \cup {Base}
    /\ \A c \in DOMAIN t.objects : ObjectFits(t, c)
    /\ \A c \in DOMAIN t.bases : BaseFits(t, c)
    /\ Reach(t)[t.head] \ {Base} = DOMAIN t.objects

\* The defects of a plan that was not evaluated, derived again.
StructuralFits(gate, topology, p) ==
    LET bound == [u \in UnitsOf[p] |-> CommitOf(topology, u)]
        commit == [u \in UnitsOf[p] |-> CHOOSE c \in bound[u] : TRUE]
        reach == Reach(topology)
    IN /\ \A c \in DOMAIN topology.objects :
            topology.objects[c].kind = "implementation" => dag[c].units[1] \in UnitsOf[p]
       /\ gate.defects # {}
       /\ gate.defects =
            IF PlanDefects(p) # {} THEN PlanDefects(p)
            ELSE IF \E u \in UnitsOf[p] : bound[u] = {} THEN {"BINDING_MISSING"}
            ELSE IF \E u \in UnitsOf[p] : \E d \in NeedsOf[p][u] : commit[d] \notin reach[commit[u]]
                 THEN {"DEPENDENCY_NOT_ANCESTOR"} ELSE {}

\* One implementation for every unit, after those of its dependencies.
BindingsFit(gate, topology, p) ==
    /\ PlanDefects(p) = {} /\ DOMAIN gate.commit = UnitsOf[p]
    /\ {c \in DOMAIN topology.objects : topology.objects[c].kind = "implementation"}
        = {gate.commit[u] : u \in UnitsOf[p]}
    /\ \A u \in UnitsOf[p] : \A d \in NeedsOf[p][u] :
        gate.commit[d] \in Reach(topology)[gate.commit[u]]

\* The units that fail follow from the evaluations, and the verdict from them.
ResultFits(gate, p) ==
    /\ gate.invalid = {u \in UnitsOf[p] : gate.own[u] # {} \/ NeedsOf[p][u] \cap gate.invalid # {}}
    /\ gate.verdict = IF gate.invalid = {} THEN "pass" ELSE "blocked"

GateFits(gate, topology, p) ==
    IF gate.verdict = "error" THEN StructuralFits(gate, topology, p)
    ELSE BindingsFit(gate, topology, p) /\ ResultFits(gate, p)

\* Every implementation has one owner, every owner a gate on its own projection.
SourcesFit(b) ==
    /\ TopologyFits(b.topology)
    /\ DOMAIN b.owner = {c \in DOMAIN b.topology.objects : b.topology.objects[c].kind = "implementation"}
    /\ {b.owner[c][1] : c \in DOMAIN b.owner} = DOMAIN b.gates
    /\ \A p \in DOMAIN b.gates : GateFits(b.gates[p], Projection(b.topology, b.owner, p), p)

\* The conflicts name units of the group, and each join is accounted for.
GroupInputFits(b) ==
    /\ \A c, d \in DOMAIN b.owner : c # d => b.owner[c] # b.owner[d]
    /\ \A e \in b.heads : e.witness \in {b.owner[c] : c \in DOMAIN b.owner}
    /\ DOMAIN b.joins = DOMAIN b.topology.bases

GroupResultFits(b) ==
    LET conflicts == b.heads # {} \/ \E c \in DOMAIN b.joins : b.joins[c] # {}
    IN b.group = IF \E p \in DOMAIN b.gates : b.gates[p].verdict = "error" THEN "error"
                 ELSE IF conflicts \/ \E p \in DOMAIN b.gates : b.gates[p].verdict # "pass" THEN "blocked"
                 ELSE "pass"

OutcomeFits(b) ==
    LET bad == {p \in DOMAIN b.gates : b.gates[p].verdict # "pass"}
    IN /\ b.failed = bad
       /\ b.outcome = IF b.group = "error" \/ \E p \in bad : b.gates[p].verdict = "error" THEN "error"
                      ELSE IF bad = {} /\ b.group = "pass" THEN "pass" ELSE "blocked"

VerifierAcceptsBundle(b) ==
    SourcesFit(b) /\ GroupInputFits(b) /\ GroupResultFits(b) /\ OutcomeFits(b)

-----------------------------------------------------------------------------
(* The adapter. *)

GroupAnswer(head) ==
    LET up == Up
        topology == Topology(up, head)
        owner == [c \in Implementations(DOMAIN topology.objects) |-> OwnerOf(c)]
        involved == {owner[c][1] : c \in DOMAIN owner}
        gates == [p \in involved |-> GateOf(up, Projection(topology, owner, p), p)]
        joins == [c \in DOMAIN topology.bases |-> JoinConflicts(topology, c)]
        bundle == Bundle(topology, owner, gates, HeadConflicts(head, gates), joins)
        refuse(codes) == [outcome |-> "refused", codes |-> codes]
    IN IF DiscoveryRefusals(up, head) # {} THEN refuse(DiscoveryRefusals(up, head))
       ELSE IF Refused \in {gates[p] : p \in involved} THEN refuse({"ACCEPTED_ARTIFACT_INVALID"})
       ELSE IF GroupRefusals(owner, gates) # {} THEN refuse(GroupRefusals(owner, gates))
       ELSE IF ~VerifierAcceptsBundle(bundle) THEN refuse({"INTEGRITY"})
       ELSE [outcome |-> bundle.outcome]

\* The group is one commit of the queue, or a branch that it took as it was.
JudgeGroup ==
    /\ group = NoGroup
    /\ \E head \in {Tip("q"), Tip("x")} \ {Base} :
        group' = [head |-> head, answer |-> GroupAnswer(head)]
    /\ UNCHANGED <<dag, mishaps>>

\* The head has been answered for.
AnswerStands == group # NoGroup /\ UNCHANGED groupVars

GroupNext == Develop \/ Enqueue \/ JudgeGroup \/ AnswerStands
GroupSpec == GroupInit /\ [][GroupNext]_groupVars

-----------------------------------------------------------------------------
(* Properties. *)

Passed == group.answer.outcome = "pass"
InGroup == LET up == Up IN up[group.head] \ up[Base]

\* The commits of the range that implement a unit.
WorkOn(p, u) == {c \in InGroup : dag[c].plans = <<p>> /\ dag[c].units = <<u>>}

\* A merge group that passes is earned by its history: each plan that has work
\* in it has all its units implemented, each once and after its dependencies,
\* and their claims hold at the head (discoverPlanQualifiedGitDag,
\* createDagSemanticGateInternal, assembleGroupIntegration).
GroupPassIsEarned ==
    Passed =>
        \A p \in {q \in Plans : \E c \in InGroup : q \in {dag[c].plans[i] : i \in DOMAIN dag[c].plans}} :
            /\ \A u \in UnitsOf[p] :
                /\ Cardinality(WorkOn(p, u)) = 1
                /\ SourceOf(dag[group.head].tree) \in Holds[p][u]
                /\ \A d \in NeedsOf[p][u] : \A c \in WorkOn(p, u) : WorkOn(p, d) \cap Up[c] # {}
            \* The plan that the head holds is the one every unit was written under.
            /\ \A u \in UnitsOf[p] : \A c \in WorkOn(p, u) : dag[c].tree[p] = dag[group.head].tree[p]

\* In a group that passes no merge carries an edit of its own, and none loses
\* what one of its sides did to the blueprint, even where git saw no conflict
\* (JOIN_TREE_MISMATCH in discoverGitDagInternal, createGroupJoinEvidence).
JoinsLoseNothing ==
    Passed =>
        \A c \in {d \in InGroup : Len(dag[d].parents) > 1} :
            LET left == dag[c].parents[1]
                right == dag[c].parents[2]
                base == CHOOSE b \in MergeBases(Up, left, right) : TRUE
                graph == [base |-> GraphOf(base), target |-> GraphOf(left),
                          head |-> GraphOf(right), merge |-> GraphOf(c)]
            IN /\ \A f \in DOMAIN dag[c].tree : dag[c].tree[f] \in {dag[left].tree[f], dag[right].tree[f]}
               /\ KeepsWatched(graph)

\* The bundle that the adapter assembles is never refused by the verifier that
\* recomputes it (assertMergeGroupIntegrityV1 against computeMergeGroupResultV1
\* and computeGroupIntegrationV1).
VerifierAcceptsGroup ==
    group.answer.outcome = "refused" => "INTEGRITY" \notin group.answer.codes
=============================================================================
