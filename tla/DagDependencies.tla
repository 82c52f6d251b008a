--------------------------- MODULE DagDependencies ---------------------------
(***************************************************************************)
(* The search for missing and cyclic dependencies of a plan.                *)
(* diagnoseDagDependenciesV2 finds the strongly connected components with   *)
(* Tarjan's algorithm, written as a recursive function; here its call stack *)
(* is a variable and every iteration of its loop is a step.                 *)
(***************************************************************************)
EXTENDS DependencyGraph, Sequences, SequencesExt

VARIABLES
    deps,           \* the plan under diagnosis
    index, low,     \* order of discovery and low link of the units visited
    stack,          \* units visited and not yet in a component
    calls,          \* the calls of visit in progress: unit and dependencies to follow
    components,     \* the strongly connected components found
    diagnostics     \* the result, a set

searchVars == <<deps, index, low, stack, calls, components, diagnostics>>

Codes == {"DEPENDENCY_MISSING", "DEPENDENCY_CYCLE", "BINDING_MISSING",
          "BINDING_AMBIGUOUS", "DEPENDENCY_NOT_ANCESTOR"}

SearchInit ==
    /\ deps \in Plans
    /\ index = <<>>
    /\ low = <<>>
    /\ stack = <<>>
    /\ calls = <<>>
    /\ components = {}
    /\ diagnostics = {}

-----------------------------------------------------------------------------
Visited == DOMAIN index

Top == Last(calls)

\* The top call goes on to its next dependency.
Advanced(d) ==
    [calls EXCEPT ![Len(calls)].todo = @ \ {d}]

Lowered(u, value) == [low EXCEPT ![u] = Min({@, value})]

\* The first lines of visit(u), called with the calls in progress given.
Visit(u, callers) ==
    /\ index' = [v \in Visited \cup {u} |->
                    IF v = u THEN Cardinality(Visited) ELSE index[v]]
    /\ low' = [v \in Visited \cup {u} |->
                    IF v = u THEN Cardinality(Visited) ELSE low[v]]
    /\ stack' = Append(stack, u)
    /\ calls' = Append(callers, [unit |-> u, todo |-> deps[u]])
    /\ UNCHANGED <<deps, components, diagnostics>>

\* The loop over all units calls visit for the least unit not yet visited.
VisitRoot ==
    /\ calls = <<>>
    /\ Units \ Visited # {}
    /\ Visit(Min(Units \ Visited), <<>>)

\* Seeded fault: the loop does not go on after a missing dependency.
PassMissingAgain(d) ==
    /\ d \notin Units
    /\ UNCHANGED searchVars

\* A missing dependency is passed over.
PassMissing(d) ==
    /\ d \notin Units
    /\ calls' = Advanced(d)
    /\ UNCHANGED <<deps, index, low, stack, components, diagnostics>>

\* So is one whose component is complete.
PassComplete(d) ==
    /\ d \in Visited
    /\ d \notin ToSet(stack)
    /\ calls' = Advanced(d)
    /\ UNCHANGED <<deps, index, low, stack, components, diagnostics>>

Descend(d) ==
    /\ d \in Units \ Visited
    /\ Visit(d, Advanced(d))

\* Seeded fault: a dependency whose component is complete lowers the link too.
BackEdgeAnywhere(d) ==
    /\ d \in Visited
    /\ low' = Lowered(Top.unit, index[d])
    /\ calls' = Advanced(d)
    /\ UNCHANGED <<deps, index, stack, components, diagnostics>>

BackEdge(d) ==
    /\ d \in ToSet(stack)
    /\ low' = Lowered(Top.unit, index[d])
    /\ calls' = Advanced(d)
    /\ UNCHANGED <<deps, index, stack, components, diagnostics>>

FollowDependency ==
    /\ calls # <<>>
    /\ Top.todo # {}
    /\ LET d == Min(Top.todo)
       IN PassMissing(d) \/ PassComplete(d) \/ Descend(d) \/ BackEdge(d)

\* The place of u on the stack.
Place(u) == CHOOSE i \in DOMAIN stack : stack[i] = u

\* The end of visit: the root of a component takes it off the stack, and the
\* caller, if there is one, takes over the low link.
Return ==
    /\ calls # <<>>
    /\ Top.todo = {}
    /\ LET u == Top.unit
           Caller == calls[Len(calls) - 1].unit
       IN /\ \/ /\ low[u] = index[u]
                /\ components' = components \cup {{stack[i] : i \in Place(u)..Len(stack)}}
                /\ stack' = SubSeq(stack, 1, Place(u) - 1)
             \/ /\ low[u] # index[u]
                /\ UNCHANGED <<components, stack>>
          /\ low' = IF Len(calls) > 1 THEN Lowered(Caller, low[u]) ELSE low
    /\ calls' = Front(calls)
    /\ UNCHANGED <<deps, index, diagnostics>>

SearchStep == VisitRoot \/ FollowDependency \/ Return

SearchEnded == calls = <<>> /\ Visited = Units

-----------------------------------------------------------------------------
MissingDiagnostics ==
    {[unit |-> u, code |-> "DEPENDENCY_MISSING", related |-> deps[u] \ Units] :
        u \in {v \in Units : deps[v] \ Units # {}}}

\* A component is a cycle unless it is one unit that does not name itself.
IsCycle(C) == Cardinality(C) # 1 \/ \E u \in C : u \in deps[u]

CycleDiagnostics ==
    UNION {{[unit |-> u, code |-> "DEPENDENCY_CYCLE", related |-> C] : u \in C} :
        C \in {D \in components : IsCycle(D)}}

-----------------------------------------------------------------------------
=============================================================================
